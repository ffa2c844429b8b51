---------------------------- MODULE ContentProofs ----------------------------
(***************************************************************************)
(* Proofs about Backups, and about Events, Feeds, Board and Backups side by *)
(* side.  A chain of archives is as long as the runs make it, so what       *)
(* ResolveChain collects is reasoned about by induction on the numbers of   *)
(* archives: a set of archives each of which has a smaller one in the set   *)
(* is empty (NoneBad), as < on the naturals is well-founded.                *)
(***************************************************************************)
EXTENDS MCContent, EventsProofs, FeedsProofs, BoardProofs,
        WellFoundedInduction, FiniteSetTheorems, TLAPS

-----------------------------------------------------------------------------
(* Numbers of archives, and the chains over them.                           *)

\* Every set of numbers has a least one, because < is well-founded.
LEMMA Least ==
  ASSUME NEW S \in SUBSET Nat, S # {}
  PROVE  \E x \in S : \A y \in S : x <= y
<1>1. PICK x \in S : \A y \in S : <<y, x>> \notin OpToRel(<, Nat)
  BY NatLessThanWellFounded, WFMin
<1>2. \A y \in S : ~(y < x)
  BY <1>1 DEF OpToRel
<1>3. \A y \in S : y \in Nat /\ x \in Nat
  OBVIOUS
<1>. QED  BY <1>2, <1>3

\* Newest is the largest number: the least distance from MaxArchives.
LEMMA Largest ==
  ASSUME NEW as \in SUBSET Archives, as # {}
  PROVE  Newest(as) \in as /\ \A b \in as : b <= Newest(as)
<1>7. MaxArchives \in Nat
  BY BackupsAssumption
<1>0. ASSUME NEW a \in as  PROVE a \in Nat /\ 1 <= a /\ a <= MaxArchives
  <2>1. a \in 1 .. MaxArchives
    BY DEF Archives
  <2>. QED  BY <1>7, <2>1
<1>. DEFINE gaps == {n \in Nat : \E a \in as : n = MaxArchives - a}
<1>1. PICK a \in as : TRUE
  OBVIOUS
<1>2. ASSUME NEW b \in as  PROVE MaxArchives - b \in Nat
  <2>1. b \in Nat /\ b <= MaxArchives
    BY <1>0
  <2>. QED  BY <1>7, <2>1
<1>5. \A b \in as : MaxArchives - b \in gaps
  BY <1>2
<1>. HIDE DEF gaps
<1>6. gaps # {} /\ gaps \in SUBSET Nat
  BY <1>1, <1>5 DEF gaps
<1>3. PICK n \in gaps : \A m \in gaps : n <= m
  BY <1>6, Least
<1>4. PICK top \in as : n = MaxArchives - top
  BY DEF gaps
<1>8. ASSUME NEW b \in as PROVE b <= top
  <2>1. MaxArchives - top <= MaxArchives - b
    BY <1>3, <1>4, <1>5
  <2>2. b \in Nat /\ top \in Nat /\ MaxArchives \in Nat
    BY <1>0, <1>7
  <2>. QED  BY <2>1, <2>2
<1>. QED  BY <1>8 DEF Newest

\* ResolveChain over the archives as.
ResolveStep(as, f) ==
  [a \in Archives |->
     IF as[a].kind = "full" \/ as[a].base = 0 THEN {a} ELSE {a} \cup f[as[a].base]]
Chains(as) == CHOOSE f : f = ResolveStep(as, f)

\* ResolveChain over the archives of a state.
LEMMA ChainsNow == ChainOf = Chains(archive) /\ ChainOf' = Chains(archive')
  BY DEF ChainOf, Chains, ResolveStep

Based(as) ==
  \A a \in Archives : as[a].kind # "full" /\ as[a].base # 0 => as[a].base \in Archives /\ as[a].base < a

\* There is such a function: what every set that is closed under bases holds.
LEMMA ChainsExist ==
  ASSUME NEW as, Based(as)
  PROVE  Chains(as) = ResolveStep(as, Chains(as))
<1>. DEFINE root(a) == as[a].kind = "full" \/ as[a].base = 0
            closed(S) == \A x \in S : ~root(x) => as[x].base \in S
            f == [a \in Archives |->
                    {b \in Archives : \A S \in SUBSET Archives : a \in S /\ closed(S) => b \in S}]
<1>1. \A a \in Archives : ~root(a) => as[a].base \in Archives
  BY DEF Based
<1>2. ASSUME NEW a \in Archives, root(a)
      PROVE  f[a] = {a}
  <2>1. closed({a})
    BY <1>2
  <2>2. {a} \in SUBSET Archives
    OBVIOUS
  <2>. HIDE DEF root, closed
  <2>. QED  BY <2>1, <2>2
<1>3. ASSUME NEW a \in Archives, ~root(a)
      PROVE  f[a] = {a} \cup f[as[a].base]
  <2>. DEFINE c == as[a].base
  <2>1. c \in Archives
    BY <1>1, <1>3
  <2>2. ASSUME NEW x \in f[c], ~root(x)
        PROVE  as[x].base \in f[c]
    <3>1. x \in Archives
      BY <2>1
    <3>2. as[x].base \in Archives
      BY <1>1, <2>2, <3>1
    <3>3. ASSUME NEW S \in SUBSET Archives, c \in S, closed(S)
          PROVE  as[x].base \in S
      <4>1. x \in S
        BY <2>1, <3>3
      <4>. QED  BY <2>2, <3>3, <4>1
    <3>. QED  BY <2>1, <3>2, <3>3
  <2>3. c \in f[c] /\ f[c] \subseteq Archives
    BY <2>1
  <2>4. closed({a} \cup f[c])
    BY <1>3, <2>2, <2>3
  <2>5. ASSUME NEW S \in SUBSET Archives, a \in S, closed(S)
        PROVE  c \in S
    BY <1>3, <2>5
  <2>. HIDE DEF root, closed, c
  <2>6. {a} \cup f[c] \in SUBSET Archives
    BY <2>3
  <2>7. \A b \in f[a] : b \in {a} \cup f[c]
    BY <2>4, <2>6
  <2>8. \A b \in {a} \cup f[c] : b \in f[a]
    BY <2>1, <2>5
  <2>. QED  BY <2>7, <2>8 DEF c
<1>4. f = ResolveStep(as, f)
  <2>. HIDE DEF f
  <2>1. \A a \in Archives : f[a] = IF root(a) THEN {a} ELSE {a} \cup f[as[a].base]
    BY <1>2, <1>3
  <2>2. f = [a \in Archives |-> f[a]]
    BY DEF f
  <2>. QED  BY <2>1, <2>2 DEF ResolveStep
<1>. HIDE DEF f
<1>. QED  BY <1>4 DEF Chains

\* Induction on the number of an archive.
LEMMA NoneBad ==
  ASSUME NEW bad \in SUBSET Archives, \A a \in bad : \E b \in bad : b < a
  PROVE  bad = {}
<1>1. \A a \in Archives : a \in Nat
  BY BackupsAssumption DEF Archives
<1>2. SUFFICES ASSUME bad # {}  PROVE FALSE
  OBVIOUS
<1>3. bad \in SUBSET Nat
  BY <1>1
<1>4. PICK a \in bad : \A b \in bad : a <= b
  BY <1>2, <1>3, Least
<1>5. PICK b \in bad : b < a
  OBVIOUS
<1>6. a \in Nat /\ b \in Nat /\ a <= b
  BY <1>3, <1>4
<1>. QED  BY <1>5, <1>6

LEMMA ChainStep ==
  ASSUME NEW as, Based(as), NEW a \in Archives
  PROVE  Chains(as)[a] = IF as[a].kind = "full" \/ as[a].base = 0 THEN {a}
                         ELSE {a} \cup Chains(as)[as[a].base]
<1>. DEFINE f == Chains(as)
<1>1. f = ResolveStep(as, f)
  BY ChainsExist
<1>. HIDE DEF f
<1>2. f[a] = ResolveStep(as, f)[a]
  BY <1>1
<1>3. f[a] = IF as[a].kind = "full" \/ as[a].base = 0 THEN {a} ELSE {a} \cup f[as[a].base]
  BY <1>2 DEF ResolveStep
<1>. QED  BY <1>3 DEF f

\* A chain goes down from its last archive, base by base, and skips none.
Descends(as, a) ==
  LET chain == Chains(as)[a]
      root(x) == as[x].kind = "full" \/ as[x].base = 0
  IN /\ a \in chain /\ chain \subseteq Archives
     /\ \A x \in chain : x <= a
     /\ \A x \in chain : ~root(x) => as[x].base \in chain
     /\ \A x, y \in chain : y < x => ~root(x) /\ y <= as[x].base

LEMMA ChainsDescend ==
  ASSUME NEW as, Based(as)
  PROVE  \A a \in Archives : Descends(as, a)
<1>. DEFINE bad == {a \in Archives : ~Descends(as, a)}
            root(x) == as[x].kind = "full" \/ as[x].base = 0
<1>0. ASSUME NEW a \in Archives  PROVE a \in Nat
  BY BackupsAssumption DEF Archives
<1>1. ASSUME NEW a \in Archives, root(a)
      PROVE  Descends(as, a)
  <2>1. Chains(as)[a] = {a}
    BY <1>1, ChainStep
  <2>2. a \in Nat
    BY <1>0
  <2>3. a <= a /\ ~(a < a)
    BY <2>2
  <2>. QED  BY <1>1, <2>1, <2>3 DEF Descends
<1>2. ASSUME NEW a \in Archives, ~root(a), Descends(as, as[a].base)
      PROVE  Descends(as, a)
  <2>. DEFINE c == as[a].base
              rest == Chains(as)[c]
  <2>1. c \in Archives /\ c < a
    BY <1>2 DEF Based
  <2>2. Chains(as)[a] = {a} \cup rest
    BY <1>2, ChainStep
  <2>3. /\ c \in rest /\ rest \subseteq Archives /\ \A x \in rest : x <= c
        /\ \A x \in rest : ~root(x) => as[x].base \in rest
        /\ \A x, y \in rest : y < x => ~root(x) /\ y <= as[x].base
    BY <1>2 DEF Descends
  <2>4. \A x \in rest : x \in Nat /\ x < a
    <3>. SUFFICES ASSUME NEW x \in rest  PROVE x \in Nat /\ x < a
      OBVIOUS
    <3>1. x \in Nat /\ c \in Nat /\ a \in Nat /\ x <= c /\ c < a
      BY <1>0, <2>1, <2>3
    <3>. HIDE DEF c, rest
    <3>. QED  BY <3>1
  <2>. HIDE DEF rest, root
  <2>5. a \in Nat
    BY <1>0
  <2>6. \A x \in {a} \cup rest : x <= a
    BY <2>4, <2>5
  <2>7. \A x \in {a} \cup rest : ~root(x) => as[x].base \in {a} \cup rest
    BY <2>3
  <2>8. ASSUME NEW x \in {a} \cup rest, NEW y \in {a} \cup rest, y < x
        PROVE  ~root(x) /\ y <= as[x].base
    <3>1. CASE x = a
      <4>1. y \in rest
        BY <2>5, <2>8, <3>1
      <4>. QED  BY <1>2, <2>3, <3>1, <4>1
    <3>2. CASE x \in rest
      <4>1. y # a
        BY <2>4, <2>5, <2>8, <3>2
      <4>. QED  BY <2>3, <2>8, <3>2, <4>1
    <3>. QED  BY <3>1, <3>2
  <2>. QED  BY <2>2, <2>3, <2>6, <2>7, <2>8 DEF Descends, root
<1>3. \A a \in bad : \E b \in bad : b < a
  <2>. SUFFICES ASSUME NEW a \in bad  PROVE \E b \in bad : b < a
    OBVIOUS
  <2>1. ~root(a)
    BY <1>1
  <2>2. as[a].base \in Archives /\ as[a].base < a
    BY <2>1 DEF Based
  <2>. QED  BY <1>2, <2>1, <2>2
<1>4. bad = {}
  BY <1>3, NoneBad
<1>. QED  BY <1>4

\* Archives whose kinds and bases stand keep their chains.
LEMMA ChainsAgree ==
  ASSUME NEW as, NEW bs, Based(as), Based(bs), NEW fixed \in SUBSET Archives,
         \A a \in fixed : as[a].kind = bs[a].kind /\ as[a].base = bs[a].base,
         \A a \in fixed : as[a].kind # "full" /\ as[a].base # 0 => as[a].base \in fixed
  PROVE  \A a \in fixed : Chains(bs)[a] = Chains(as)[a] /\ Chains(as)[a] \subseteq fixed
<1>. DEFINE bad == {a \in fixed : ~(Chains(bs)[a] = Chains(as)[a] /\ Chains(as)[a] \subseteq fixed)}
<1>1. ASSUME NEW a \in bad
      PROVE  \E b \in bad : b < a
  <2>1. a \in Archives /\ a \in fixed
    OBVIOUS
  <2>2. Chains(as)[a] = IF as[a].kind = "full" \/ as[a].base = 0 THEN {a}
                        ELSE {a} \cup Chains(as)[as[a].base]
    BY <2>1, ChainStep
  <2>5. Chains(bs)[a] = IF bs[a].kind = "full" \/ bs[a].base = 0 THEN {a}
                        ELSE {a} \cup Chains(bs)[bs[a].base]
    BY <2>1, ChainStep
  <2>6. bs[a].kind = as[a].kind /\ bs[a].base = as[a].base
    BY <2>1
  <2>3. ~(as[a].kind = "full" \/ as[a].base = 0)
    BY <2>1, <2>2, <2>5, <2>6
  <2>4. as[a].base \in fixed /\ as[a].base < a
    BY <2>1, <2>3 DEF Based
  <2>. QED  BY <2>1, <2>2, <2>3, <2>4, <2>5, <2>6
<1>2. bad = {}
  BY <1>1, NoneBad
<1>. QED  BY <1>2

-----------------------------------------------------------------------------
(* Backups: types.                                                          *)

LEMMA ArchiveNumbers ==
  /\ 0 \in 0 .. MaxArchives
  /\ \A a \in Archives : a \in Nat /\ a # 0 /\ a \in 0 .. MaxArchives
  /\ 0 \in Contents
<1>1. MaxArchives \in Nat /\ MaxContents \in Nat
  BY BackupsAssumption
<1>2. ASSUME NEW a \in Archives  PROVE a \in Nat /\ a # 0 /\ a \in 0 .. MaxArchives
  BY <1>1 DEF Archives
<1>3. 0 \in 0 .. MaxArchives /\ 0 \in Contents
  BY <1>1 DEF Contents
<1>. QED  BY <1>2, <1>3

LEMMA NewestFound ==
  ASSUME NEW as \in SUBSET Archives
  PROVE  /\ Newest(as) \in 0 .. MaxArchives
         /\ Newest(as) # 0 => Newest(as) \in as
         /\ as # {} => Newest(as) \in as
         /\ \A b \in as : b <= Newest(as)
<1>1. CASE as = {}
  BY <1>1, ArchiveNumbers DEF Newest
<1>2. CASE as # {}
  BY <1>2, Largest, ArchiveNumbers
<1>. QED  BY <1>1, <1>2

LEMMA EmptyForms ==
  /\ Empty \in [Images -> Contents]
  /\ NoArchive \in Archive /\ NoArchive.st = "none" /\ NoArchive.chain = 0
  /\ Removed \in Archive /\ Removed.st = "gone" /\ Removed.chain = 0
  /\ NoRunner \in Runner /\ NoRunner.at = "off"
  BY ArchiveNumbers DEF Empty, NoArchive, Removed, NoRunner, Archive, Runner, Kinds

\* The base of a new archive, which is on the list.
LEMMA BaseFound ==
  ASSUME NEW kind \in Kinds
  PROVE  /\ BaseOf(kind) \in 0 .. MaxArchives
         /\ kind = "full" => BaseOf(kind) = 0
         /\ BaseOf(kind) # 0 => kind # "full" /\ BaseOf(kind) \in Listed
<1>1. Listed \in SUBSET Archives /\ {a \in Listed : archive[a].kind = "full"} \in SUBSET Archives
  BY DEF Listed
<1>2. CASE kind = "full"
  BY <1>2, ArchiveNumbers DEF BaseOf
<1>3. CASE kind = "incremental"
  BY <1>1, <1>3, NewestFound DEF BaseOf
<1>4. CASE kind = "cumulative"
  BY <1>1, <1>4, NewestFound DEF BaseOf
<1>. QED  BY <1>2, <1>3, <1>4 DEF Kinds

LEMMA Continues ==
  ASSUME BackupTypeOK, NEW r \in Runners, NEW x \in Runner, Continue(r, x)
  PROVE  /\ runner' \in [Runners -> Runner]
         /\ \A q \in Runners : runner'[q] = IF q = r THEN x ELSE runner[q]
  BY DEF BackupTypeOK, Continue

LEMMA ArchiveWritten ==
  ASSUME archive \in [Archives -> Archive], NEW n \in Archives, NEW y \in Archive,
         archive' = [archive EXCEPT ![n] = y]
  PROVE  /\ archive' \in [Archives -> Archive]
         /\ \A b \in Archives : archive'[b] = IF b = n THEN y ELSE archive[b]
  OBVIOUS

\* A run that is under way has begun an archive.
UnderWay(r) == runner[r].at \in {"hash", "store", "sidecar"}
BackupTypeInv == BackupTypeOK /\ \A r \in Runners : UnderWay(r) => runner[r].archive \in Archives

\* The archive a run begins.
Begun(n, kind) ==
  [archive[n] EXCEPT !.st = "writing", !.kind = kind, !.base = BaseOf(kind),
                     !.chain = IF BaseOf(kind) = 0 THEN n ELSE archive[BaseOf(kind)].chain]

LEMMA StartForm ==
  ASSUME BackupTypeOK, NEW r \in Runners, NEW kind \in Kinds, StartBackup(r, kind)
  PROVE  /\ made + 1 \in Archives /\ Begun(made + 1, kind) \in Archive
         /\ archive' = [archive EXCEPT ![made + 1] = Begun(made + 1, kind)]
<1>. DEFINE n == made + 1
            base == BaseOf(kind)
            chain == IF base = 0 THEN n ELSE archive[base].chain
<1>1. made \in Nat /\ made < MaxArchives /\ MaxArchives \in Nat
  BY BackupsAssumption DEF StartBackup, BackupTypeOK
<1>2. n \in Archives /\ n \in 0 .. MaxArchives
  BY <1>1 DEF Archives
<1>3. base \in 0 .. MaxArchives
  BY BaseFound
<1>4. base # 0 => base \in Archives
  BY BaseFound DEF Listed
<1>5. archive' = [archive EXCEPT ![n].st = "writing", ![n].kind = kind, ![n].base = base,
                                 ![n].chain = chain]
  BY DEF StartBackup
<1>6. Begun(n, kind) = [archive[n] EXCEPT !.st = "writing", !.kind = kind, !.base = base,
                                          !.chain = chain]
  BY DEF Begun
<1>7. archive \in [Archives -> Archive]
  BY DEF BackupTypeOK
<1>. HIDE DEF n, base
<1>8. chain \in 0 .. MaxArchives
  BY <1>2, <1>4, <1>7 DEF Archive
<1>. HIDE DEF chain
<1>9. Begun(n, kind) \in Archive
  BY <1>2, <1>3, <1>6, <1>7, <1>8 DEF Archive
<1>10. archive' = [archive EXCEPT ![n] = Begun(n, kind)]
  BY <1>2, <1>5, <1>6, <1>7
<1>. QED  BY <1>2, <1>9, <1>10 DEF n

LEMMA StartTypes ==
  ASSUME BackupTypeInv, NEW r \in Runners, NEW kind \in Kinds, StartBackup(r, kind)
  PROVE  BackupTypeInv'
<1>. DEFINE x == [NoRunner EXCEPT !.at = "hash", !.archive = made + 1]
<1>1. made + 1 \in Archives /\ archive' \in [Archives -> Archive]
  BY StartForm, ArchiveWritten DEF BackupTypeInv, BackupTypeOK
<1>2. made + 1 \in 0 .. MaxArchives
  BY <1>1, ArchiveNumbers
<1>3. x \in Runner /\ x.archive = made + 1
  BY <1>2, EmptyForms DEF NoRunner, Runner
<1>. HIDE DEF x
<1>4. runner' \in [Runners -> Runner] /\ \A q \in Runners : runner'[q] = IF q = r THEN x ELSE runner[q]
  BY <1>3, Continues DEF StartBackup, BackupTypeInv, x
<1>5. made' \in 0 .. MaxArchives /\ UNCHANGED <<images, contents, restore>>
  BY <1>2 DEF StartBackup
<1>6. \A q \in Runners : UnderWay(q)' => runner'[q].archive \in Archives
  BY <1>1, <1>3, <1>4 DEF BackupTypeInv, UnderWay
<1>. QED  BY <1>1, <1>4, <1>5, <1>6 DEF BackupTypeInv, BackupTypeOK

\* A step of run r that leaves archive a as y and the run at x.
Moves(r, a, y, x) ==
  /\ y \in Archive /\ x \in Runner
  /\ archive' \in [Archives -> Archive] /\ runner' \in [Runners -> Runner]
  /\ \A b \in Archives : archive'[b] = IF b = a THEN y ELSE archive[b]
  /\ \A q \in Runners : runner'[q] = IF q = r THEN x ELSE runner[q]
  /\ UNCHANGED <<images, contents, made, restore>>

\* y is archive a as it was, but for its images, what it stores and whether it is torn.
SameArchive(y, a) ==
  /\ y.kind = archive[a].kind /\ y.base = archive[a].base
  /\ y.chain = archive[a].chain /\ y.raced = archive[a].raced /\ y.aged = archive[a].aged

LEMMA HashForm ==
  ASSUME BackupTypeInv, NEW r \in Runners, HashImages(r)
  PROVE  \E readable \in SUBSET Changed(runner[r].archive), y \in Archive, x \in Runner :
           /\ Moves(r, runner[r].archive, y, x) /\ SameArchive(y, runner[r].archive)
           /\ y.st = archive[runner[r].archive].st /\ y.images = images
           /\ y.torn = (readable # Changed(runner[r].archive))
           /\ x.at = "store" /\ x.archive = runner[r].archive /\ x.entries = readable
<1>. DEFINE a == runner[r].archive
<1>1. PICK readable \in SUBSET Changed(a) :
        /\ archive' = [archive EXCEPT ![a].images = images, ![a].torn = readable # Changed(a)]
        /\ Continue(r, [runner[r] EXCEPT !.at = "store", !.entries = readable])
  BY DEF HashImages
<1>2. /\ a \in Archives /\ runner[r] \in Runner /\ archive \in [Archives -> Archive]
      /\ images \in [Images -> Contents]
  BY DEF HashImages, RunnerAt, BackupTypeInv, BackupTypeOK, UnderWay
<1>3. readable \in SUBSET Images
  BY DEF Changed
<1>. DEFINE torn == readable # Changed(a)
            y == [archive[a] EXCEPT !.images = images, !.torn = torn]
            x == [runner[r] EXCEPT !.at = "store", !.entries = readable]
<1>4. x \in Runner /\ x.at = "store" /\ x.archive = a /\ x.entries = readable
  BY <1>2, <1>3 DEF Runner
<1>5. torn \in BOOLEAN
  OBVIOUS
<1>6. archive' = [archive EXCEPT ![a].images = images, ![a].torn = torn]
  BY <1>1
<1>. HIDE DEF a, torn
<1>7. archive' = [archive EXCEPT ![a] = y]
  BY <1>2, <1>6
<1>8. /\ y \in Archive /\ SameArchive(y, a) /\ y.st = archive[a].st
      /\ y.images = images /\ y.torn = torn
  <2>1. archive[a] \in Archive /\ images \in [Images -> Contents]
    BY <1>2
  <2>2. y \in Archive
    BY <1>5, <2>1 DEF Archive
  <2>3. /\ y.st = archive[a].st /\ y.images = images /\ y.torn = torn
        /\ y.kind = archive[a].kind /\ y.base = archive[a].base
        /\ y.chain = archive[a].chain /\ y.raced = archive[a].raced /\ y.aged = archive[a].aged
    BY <2>1 DEF Archive
  <2>. QED  BY <2>2, <2>3 DEF SameArchive
<1>. HIDE DEF x, y
<1>9. Continue(r, x)
  BY <1>1 DEF x
<1>10. Moves(r, a, y, x)
  <2>1. UNCHANGED <<images, contents, made, restore>>
    BY DEF HashImages
  <2>. QED  BY <1>2, <1>4, <1>7, <1>8, <1>9, <2>1, ArchiveWritten, Continues DEF Moves, BackupTypeInv
<1>. QED  BY <1>4, <1>8, <1>10 DEF a, torn

LEMMA FailForm ==
  ASSUME BackupTypeInv, NEW r \in Runners, runner[r].archive \in Archives, Fail(r),
         UNCHANGED <<images, contents, made, restore>>
  PROVE  Moves(r, runner[r].archive, Removed, NoRunner)
<1>1. archive \in [Archives -> Archive] /\ Removed \in Archive /\ NoRunner \in Runner
  BY EmptyForms DEF BackupTypeInv, BackupTypeOK
<1>. QED  BY <1>1, ArchiveWritten, Continues DEF Fail, Moves, BackupTypeInv

LEMMA StoreForm ==
  ASSUME BackupTypeInv, NEW r \in Runners, StoreImages(r)
  PROVE  \/ Moves(r, runner[r].archive, Removed, NoRunner)
         \/ \E y \in Archive, x \in Runner :
              /\ Moves(r, runner[r].archive, y, x) /\ SameArchive(y, runner[r].archive)
              /\ y.st = "file"
              /\ y.images = archive[runner[r].archive].images
              /\ y.stored = [i \in Images |-> IF i \in runner[r].entries THEN images[i] ELSE 0]
              /\ y.torn = (archive[runner[r].archive].torn \/
                           \E i \in runner[r].entries : images[i] # archive[runner[r].archive].images[i])
              /\ x.at = "sidecar" /\ x.archive = runner[r].archive
<1>. DEFINE a == runner[r].archive
            entries == runner[r].entries
            stored == [i \in Images |-> IF i \in entries THEN images[i] ELSE 0]
            torn == archive[a].torn \/ \E i \in entries : images[i] # archive[a].images[i]
            earlier == IF archive[a].kind = "incremental" THEN Incrementals ELSE {}
            y == [archive[a] EXCEPT !.st = "file", !.earlier = earlier, !.stored = stored, !.torn = torn]
            x == [runner[r] EXCEPT !.at = "sidecar"]
<1>1. UNCHANGED <<images, contents, made, restore>>
  BY DEF StoreImages
<1>2. /\ a \in Archives /\ runner[r] \in Runner /\ archive \in [Archives -> Archive]
      /\ images \in [Images -> Contents]
  BY DEF StoreImages, RunnerAt, BackupTypeInv, BackupTypeOK, UnderWay
<1>3. CASE Fail(r)
  BY <1>1, <1>2, <1>3, FailForm
<1>4. CASE ~Fail(r)
  <2>1. /\ archive' = [archive EXCEPT ![a].st = "file", ![a].earlier = earlier, ![a].stored = stored,
                         ![a].torn = @ \/ \E i \in entries : images[i] # archive[a].images[i]]
        /\ Continue(r, x)
    BY <1>4 DEF StoreImages, ContinueAt
  <2>2. stored \in [Images -> Contents] /\ earlier \in SUBSET Archives
    BY <1>2, ArchiveNumbers DEF Incrementals
  <2>3. x \in Runner /\ x.at = "sidecar" /\ x.archive = a
    BY <1>2 DEF Runner
  <2>4. torn \in BOOLEAN
    <3>1. archive[a].torn \in BOOLEAN
      BY <1>2 DEF Archive
    <3>. QED  BY <3>1
  <2>5. archive' = [archive EXCEPT ![a].st = "file", ![a].earlier = earlier, ![a].stored = stored,
                                   ![a].torn = torn]
    BY <1>2, <2>1
  <2>. HIDE DEF a, stored, torn, earlier
  <2>6. archive' = [archive EXCEPT ![a] = y]
    BY <1>2, <2>5
  <2>7. /\ y \in Archive /\ SameArchive(y, a) /\ y.st = "file"
        /\ y.images = archive[a].images /\ y.stored = stored /\ y.torn = torn
    <3>1. archive[a] \in Archive
      BY <1>2
    <3>2. y \in Archive
      BY <2>2, <2>4, <3>1 DEF Archive
    <3>3. /\ y.st = "file" /\ y.images = archive[a].images /\ y.stored = stored /\ y.torn = torn
          /\ y.kind = archive[a].kind /\ y.base = archive[a].base
          /\ y.chain = archive[a].chain /\ y.raced = archive[a].raced /\ y.aged = archive[a].aged
      BY <3>1 DEF Archive
    <3>. QED  BY <3>2, <3>3 DEF SameArchive
  <2>. HIDE DEF x, y
  <2>8. Moves(r, a, y, x)
    <3>1. Continue(r, x)
      BY <2>1
    <3>2. runner' \in [Runners -> Runner] /\ \A q \in Runners : runner'[q] = IF q = r THEN x ELSE runner[q]
      BY <2>3, <3>1, Continues DEF BackupTypeInv
    <3>3. a \in Archives /\ archive \in [Archives -> Archive] /\ y \in Archive
      BY <1>2, <2>7 DEF a
    <3>4. archive' \in [Archives -> Archive] /\ \A b \in Archives : archive'[b] = IF b = a THEN y ELSE archive[b]
      BY <2>6, <3>3, ArchiveWritten
    <3>. QED  BY <1>1, <2>3, <3>2, <3>3, <3>4 DEF Moves
  <2>. QED  BY <2>3, <2>7, <2>8 DEF a, stored, torn
<1>. QED  BY <1>3, <1>4

LEMMA ListForm ==
  ASSUME BackupTypeInv, NEW r \in Runners, ListArchive(r)
  PROVE  \/ Moves(r, runner[r].archive, Removed, NoRunner)
         \/ \E y \in Archive, x \in Runner :
              /\ Moves(r, runner[r].archive, y, x) /\ SameArchive(y, runner[r].archive)
              /\ y.st = (IF archive[runner[r].archive].st = "file" THEN "listed"
                         ELSE archive[runner[r].archive].st)
              /\ y.images = archive[runner[r].archive].images
              /\ y.stored = archive[runner[r].archive].stored
              /\ y.torn = archive[runner[r].archive].torn
              /\ x.at = "list" /\ x.archive = runner[r].archive
<1>. DEFINE a == runner[r].archive
            st == IF archive[a].st = "file" THEN "listed" ELSE archive[a].st
            y == [archive[a] EXCEPT !.st = st]
            x == [runner[r] EXCEPT !.at = "list"]
<1>1. UNCHANGED <<images, contents, made, restore>>
  BY DEF ListArchive
<1>2. a \in Archives /\ runner[r] \in Runner /\ archive \in [Archives -> Archive]
  BY DEF ListArchive, RunnerAt, BackupTypeInv, BackupTypeOK, UnderWay
<1>3. CASE Fail(r)
  BY <1>1, <1>2, <1>3, FailForm
<1>4. CASE ~Fail(r)
  <2>1. archive' = [archive EXCEPT ![a].st = st] /\ Continue(r, x)
    BY <1>2, <1>4 DEF ListArchive, ContinueAt
  <2>2. st \in {"none", "writing", "file", "listed", "gone"}
    BY <1>2 DEF Archive
  <2>3. x \in Runner /\ x.at = "list" /\ x.archive = a
    BY <1>2 DEF Runner
  <2>. HIDE DEF a, st
  <2>6. archive' = [archive EXCEPT ![a] = y]
    BY <1>2, <2>1
  <2>7. /\ y \in Archive /\ SameArchive(y, a) /\ y.st = st /\ y.images = archive[a].images
        /\ y.stored = archive[a].stored /\ y.torn = archive[a].torn
    <3>1. archive[a] \in Archive
      BY <1>2
    <3>2. y \in Archive
      BY <2>2, <3>1 DEF Archive
    <3>3. /\ y.st = st /\ y.images = archive[a].images
          /\ y.stored = archive[a].stored /\ y.torn = archive[a].torn
          /\ y.kind = archive[a].kind /\ y.base = archive[a].base
          /\ y.chain = archive[a].chain /\ y.raced = archive[a].raced /\ y.aged = archive[a].aged
      BY <3>1 DEF Archive
    <3>. QED  BY <3>2, <3>3 DEF SameArchive
  <2>. HIDE DEF x, y
  <2>8. Moves(r, a, y, x)
    BY <1>1, <1>2, <2>1, <2>3, <2>6, <2>7, ArchiveWritten, Continues DEF Moves, BackupTypeInv
  <2>. QED  BY <2>3, <2>7, <2>8 DEF a, st
<1>. QED  BY <1>3, <1>4

LEMMA MoveTypes ==
  ASSUME BackupTypeInv, NEW r \in Runners, NEW a \in Archives, NEW y, NEW x, Moves(r, a, y, x),
         x.at \in {"hash", "store", "sidecar"} => x.archive \in Archives
  PROVE  BackupTypeInv'
<1>1. BackupTypeOK'
  BY DEF Moves, BackupTypeInv, BackupTypeOK
<1>2. \A q \in Runners : UnderWay(q)' => runner'[q].archive \in Archives
  BY DEF Moves, BackupTypeInv, UnderWay
<1>. QED  BY <1>1, <1>2 DEF BackupTypeInv

LEMMA ListChainsForm ==
  ASSUME BackupTypeInv, NEW r \in Runners, ListChains(r)
  PROVE  \E x \in Runner :
           /\ runner' \in [Runners -> Runner]
           /\ \A q \in Runners : runner'[q] = IF q = r THEN x ELSE runner[q]
           /\ \/ x = NoRunner
              \/ /\ x.at = "prune" /\ x.archive = runner[r].archive
                 /\ x.todo # {} /\ x.todo \subseteq Listed
           /\ UNCHANGED <<images, contents, archive, made, restore>>
<1>. DEFINE own == IF runner[r].archive \in Listed THEN archive[runner[r].archive].chain ELSE 0
            todo == {a \in Listed : Superseded(a, own)}
            x == IF todo = {} THEN NoRunner ELSE [runner[r] EXCEPT !.at = "prune", !.todo = todo]
<1>1. Continue(r, x) /\ UNCHANGED <<images, contents, archive, made, restore>>
  BY DEF ListChains
<1>2. todo \in SUBSET Archives /\ todo \subseteq Listed
  BY DEF Listed
<1>3. runner[r] \in Runner
  BY DEF BackupTypeInv, BackupTypeOK
<1>. HIDE DEF todo
<1>4. /\ x \in Runner
      /\ x = NoRunner \/ (x.at = "prune" /\ x.archive = runner[r].archive /\ x.todo = todo /\ todo # {})
  <2>1. CASE todo = {}
    BY <2>1, EmptyForms
  <2>2. CASE todo # {}
    <3>1. x = [runner[r] EXCEPT !.at = "prune", !.todo = todo]
      BY <2>2
    <3>2. x \in Runner /\ x.at = "prune" /\ x.archive = runner[r].archive /\ x.todo = todo
      BY <1>2, <1>3, <3>1 DEF Runner
    <3>. QED  BY <2>2, <3>2
  <2>. QED  BY <2>1, <2>2
<1>. HIDE DEF x
<1>5. runner' \in [Runners -> Runner] /\ \A q \in Runners : runner'[q] = IF q = r THEN x ELSE runner[q]
  BY <1>1, <1>4, Continues DEF BackupTypeInv
<1>. QED  BY <1>1, <1>2, <1>4, <1>5

\* Archive b after the removal of archive a, with left to go.
PrunedAs(b, a, left) ==
  /\ archive'[b] \in Archive
  /\ archive'[b].kind = archive[b].kind /\ archive'[b].base = archive[b].base
  /\ archive'[b].chain = archive[b].chain /\ archive'[b].images = archive[b].images
  /\ archive'[b].torn = archive[b].torn /\ archive'[b].aged = archive[b].aged
  /\ b = a => archive'[b].st = "gone"
  /\ b # a => archive'[b].st = archive[b].st /\ archive'[b].stored = archive[b].stored
  /\ archive'[b].raced = (archive[b].raced \/ (b # a /\ b \notin left /\ archive[b].chain = archive[a].chain))

LEMMA PruneForm ==
  ASSUME BackupTypeInv, NEW r \in Runners, PruneArchive(r)
  PROVE  LET a == Newest(runner[r].todo)
             left == runner[r].todo \ {a}
         IN /\ archive' \in [Archives -> Archive]
            /\ \A b \in Archives : PrunedAs(b, a, left)
            /\ \E x \in Runner :
                 /\ runner' \in [Runners -> Runner]
                 /\ \A q \in Runners : runner'[q] = IF q = r THEN x ELSE runner[q]
                 /\ \/ x = NoRunner
                    \/ x.at = "prune" /\ x.archive = runner[r].archive /\ x.todo = left /\ left # {}
            /\ UNCHANGED <<images, contents, made, restore>>
<1>. DEFINE a == Newest(runner[r].todo)
            left == runner[r].todo \ {a}
            x == IF left = {} THEN NoRunner ELSE [runner[r] EXCEPT !.todo = left]
            removed == [archive[a] EXCEPT !.st = "gone", !.stored = Empty]
            pruned(b) == CASE b = a -> removed
                           [] b \notin left \cup {a} /\ archive[b].chain = archive[a].chain
                                -> [archive[b] EXCEPT !.raced = TRUE]
                           [] OTHER -> archive[b]
<1>1. /\ runner[r].at = "prune" /\ Continue(r, x) /\ UNCHANGED <<images, contents, made, restore>>
      /\ archive' = [b \in Archives |-> pruned(b)]
  BY DEF PruneArchive, NewestFirst, RunnerAt
<1>2. /\ runner[r] \in Runner /\ archive \in [Archives -> Archive]
      /\ runner[r].todo \in SUBSET Archives
  BY DEF BackupTypeInv, BackupTypeOK, Runner
<1>3. left \in SUBSET Archives
  BY <1>2
<1>. HIDE DEF a, left
<1>4. /\ x \in Runner
      /\ x = NoRunner \/ (x.at = "prune" /\ x.archive = runner[r].archive /\ x.todo = left /\ left # {})
  <2>1. CASE left = {}
    BY <2>1, EmptyForms
  <2>2. CASE left # {}
    <3>1. x = [runner[r] EXCEPT !.todo = left]
      BY <2>2
    <3>2. x \in Runner /\ x.at = "prune" /\ x.archive = runner[r].archive /\ x.todo = left
      BY <1>1, <1>2, <1>3, <3>1 DEF Runner
    <3>. QED  BY <2>2, <3>2
  <2>. QED  BY <2>1, <2>2
<1>. HIDE DEF x
<1>5. runner' \in [Runners -> Runner] /\ \A q \in Runners : runner'[q] = IF q = r THEN x ELSE runner[q]
  BY <1>1, <1>4, Continues DEF BackupTypeInv
<1>6. ASSUME NEW b \in Archives
      PROVE  PrunedAs(b, a, left)
  <2>1. archive'[b] = pruned(b) /\ archive[b] \in Archive
    BY <1>1, <1>2
  <2>2. Empty \in [Images -> Contents]
    BY EmptyForms
  <2>3. CASE b = a
    <3>0. pruned(b) = removed
      BY <2>3
    <3>1. archive'[b] = [archive[b] EXCEPT !.st = "gone", !.stored = Empty]
      <4>1. archive[a] = archive[b]
        BY <2>3
      <4>2. removed = [archive[b] EXCEPT !.st = "gone", !.stored = Empty]
        BY <4>1
      <4>. HIDE DEF removed, pruned
      <4>. QED  BY <2>1, <3>0, <4>2
    <3>. HIDE DEF pruned
    <3>2. /\ archive'[b] \in Archive /\ archive'[b].st = "gone"
          /\ archive'[b].kind = archive[b].kind /\ archive'[b].base = archive[b].base
          /\ archive'[b].chain = archive[b].chain /\ archive'[b].images = archive[b].images
          /\ archive'[b].torn = archive[b].torn /\ archive'[b].raced = archive[b].raced
          /\ archive'[b].aged = archive[b].aged
      BY <2>1, <2>2, <3>1 DEF Archive
    <3>3. archive[b].raced \in BOOLEAN
      BY <2>1 DEF Archive
    <3>. QED  BY <2>3, <3>2, <3>3 DEF PrunedAs
  <2>4. CASE b \notin left \cup {a} /\ archive[b].chain = archive[a].chain
    <3>1. archive'[b] = [archive[b] EXCEPT !.raced = TRUE]
      BY <2>1, <2>4
    <3>. HIDE DEF pruned
    <3>2. /\ archive'[b] \in Archive /\ archive'[b].st = archive[b].st
          /\ archive'[b].kind = archive[b].kind /\ archive'[b].base = archive[b].base
          /\ archive'[b].chain = archive[b].chain /\ archive'[b].images = archive[b].images
          /\ archive'[b].torn = archive[b].torn /\ archive'[b].raced = TRUE
          /\ archive'[b].stored = archive[b].stored /\ archive'[b].aged = archive[b].aged
      BY <2>1, <3>1 DEF Archive
    <3>. QED  BY <2>4, <3>2 DEF PrunedAs
  <2>5. CASE b # a /\ ~(b \notin left \cup {a} /\ archive[b].chain = archive[a].chain)
    <3>1. archive'[b] = archive[b]
      BY <2>1, <2>5
    <3>2. archive[b].raced \in BOOLEAN
      BY <2>1 DEF Archive
    <3>. HIDE DEF pruned
    <3>. QED  BY <2>1, <2>5, <3>1, <3>2 DEF PrunedAs
  <2>. QED  BY <2>3, <2>4, <2>5
<1>7. archive' \in [Archives -> Archive]
  <2>1. \A b \in Archives : archive'[b] \in Archive
    BY <1>6 DEF PrunedAs
  <2>2. archive' = [b \in Archives |-> archive'[b]]
    BY <1>1
  <2>. QED  BY <2>1, <2>2
<1>. QED  BY <1>1, <1>4, <1>5, <1>6, <1>7 DEF a, left

\* Another kind of backup looks for incrementals to remove.
LEMMA OtherForm ==
  ASSUME BackupTypeInv, NEW r \in Runners, OtherBackup(r)
  PROVE  \E x \in Runner :
           /\ runner' \in [Runners -> Runner]
           /\ \A q \in Runners : runner'[q] = IF q = r THEN x ELSE runner[q]
           /\ x.at = "clean"
           /\ UNCHANGED <<images, contents, archive, made, restore>>
<1>. DEFINE todo == Aged
            x == [NoRunner EXCEPT !.at = "clean", !.todo = todo]
<1>1. Continue(r, x) /\ UNCHANGED <<images, contents, archive, made, restore>>
  BY DEF OtherBackup
<1>2. todo \in SUBSET Archives
  BY DEF Aged, Incrementals
<1>. HIDE DEF todo
<1>3. x \in Runner /\ x.at = "clean"
  BY <1>2, EmptyForms DEF NoRunner, Runner
<1>. HIDE DEF x
<1>4. runner' \in [Runners -> Runner] /\ \A q \in Runners : runner'[q] = IF q = r THEN x ELSE runner[q]
  BY <1>1, <1>3, Continues DEF BackupTypeInv
<1>. QED  BY <1>1, <1>3, <1>4

\* Archive b after pruneBackups came to it.
CleanedAs(b) ==
  /\ archive[b].st \in {"file", "listed"}
  /\ \/ archive[b].st = "file" /\ archive'[b] = Removed
     \/ /\ archive[b].st = "listed" /\ archive'[b].st = "gone" /\ archive'[b].aged
        /\ archive'[b].kind = archive[b].kind /\ archive'[b].base = archive[b].base
        /\ archive'[b].chain = archive[b].chain /\ archive'[b].images = archive[b].images
        /\ archive'[b].torn = archive[b].torn /\ archive'[b].raced = archive[b].raced

LEMMA CleanForm ==
  ASSUME BackupTypeInv, NEW r \in Runners, CleanArchive(r)
  PROVE  /\ archive' \in [Archives -> Archive]
         /\ \A b \in Archives : archive'[b] = archive[b] \/ CleanedAs(b)
         /\ \E x \in Runner :
              /\ runner' \in [Runners -> Runner]
              /\ \A q \in Runners : runner'[q] = IF q = r THEN x ELSE runner[q]
              /\ x.at \in {"off", "clean"}
         /\ UNCHANGED <<images, contents, made, restore>>
<1>. DEFINE a == CHOOSE x \in runner[r].todo : \A y \in runner[r].todo : ~Later(x, y)
            left == runner[r].todo \ {a}
            x == IF left = {} THEN NoRunner ELSE [runner[r] EXCEPT !.todo = left]
            cleaned == [archive[a] EXCEPT !.st = "gone", !.stored = Empty, !.aged = TRUE]
            y == CASE archive[a].st = "listed" -> cleaned
                   [] archive[a].st = "file" -> Removed
                   [] OTHER -> archive[a]
<1>1. /\ runner[r].at = "clean" /\ Continue(r, x) /\ UNCHANGED <<images, contents, made, restore>>
      /\ archive' = [archive EXCEPT ![a] =
           CASE @.st = "listed" -> [@ EXCEPT !.st = "gone", !.stored = Empty, !.aged = TRUE]
             [] @.st = "file" -> Removed
             [] OTHER -> @]
  BY DEF CleanArchive, RunnerAt
<1>2. /\ runner[r] \in Runner /\ archive \in [Archives -> Archive]
      /\ runner[r].todo \in SUBSET Archives
  BY DEF BackupTypeInv, BackupTypeOK, Runner
<1>3. left \in SUBSET Archives
  BY <1>2
<1>4. ASSUME a \in Archives
      PROVE  archive' \in [Archives -> Archive] /\ \A b \in Archives : archive'[b] = archive[b] \/ CleanedAs(b)
  <2>1. archive' = [archive EXCEPT ![a] = y]
    BY <1>1, <1>2, <1>4
  <2>. HIDE DEF a
  <2>2. /\ cleaned \in Archive /\ cleaned.st = "gone" /\ cleaned.aged
        /\ cleaned.kind = archive[a].kind /\ cleaned.base = archive[a].base
        /\ cleaned.chain = archive[a].chain /\ cleaned.images = archive[a].images
        /\ cleaned.torn = archive[a].torn /\ cleaned.raced = archive[a].raced
    BY <1>2, <1>4, EmptyForms DEF Archive
  <2>. HIDE DEF cleaned
  <2>3. y \in Archive
    BY <1>2, <1>4, <2>2, EmptyForms
  <2>4. \/ y = archive[a]
        \/ archive[a].st = "file" /\ y = Removed
        \/ archive[a].st = "listed" /\ y = cleaned
    OBVIOUS
  <2>. HIDE DEF y
  <2>5. archive' \in [Archives -> Archive] /\ \A b \in Archives : archive'[b] = IF b = a THEN y ELSE archive[b]
    BY <1>2, <1>4, <2>1, <2>3, ArchiveWritten
  <2>. QED  BY <2>2, <2>4, <2>5 DEF CleanedAs
<1>5. ASSUME a \notin Archives
      PROVE  archive' \in [Archives -> Archive] /\ \A b \in Archives : archive'[b] = archive[b] \/ CleanedAs(b)
  <2>. HIDE DEF a
  <2>1. archive' = archive
    BY <1>1, <1>2, <1>5
  <2>. QED  BY <1>2, <2>1
<1>. HIDE DEF a, left
<1>6. x \in Runner /\ x.at \in {"off", "clean"}
  <2>1. CASE left = {}
    BY <2>1, EmptyForms
  <2>2. CASE left # {}
    <3>1. x = [runner[r] EXCEPT !.todo = left]
      BY <2>2
    <3>. QED  BY <1>1, <1>2, <1>3, <3>1 DEF Runner
  <2>. QED  BY <2>1, <2>2
<1>. HIDE DEF x
<1>7. runner' \in [Runners -> Runner] /\ \A q \in Runners : runner'[q] = IF q = r THEN x ELSE runner[q]
  BY <1>1, <1>6, Continues DEF BackupTypeInv
<1>. QED  BY <1>1, <1>4, <1>5, <1>6, <1>7

LEMMA PruneTypes ==
  ASSUME BackupTypeInv, NEW r \in Runners,
         ListChains(r) \/ PruneArchive(r) \/ OtherBackup(r) \/ CleanArchive(r)
  PROVE  BackupTypeInv'
<1>1. CASE ListChains(r)
  <2>1. PICK x \in Runner :
           /\ runner' \in [Runners -> Runner]
           /\ \A q \in Runners : runner'[q] = IF q = r THEN x ELSE runner[q]
           /\ x = NoRunner \/ x.at = "prune"
           /\ UNCHANGED <<images, contents, archive, made, restore>>
    BY <1>1, ListChainsForm
  <2>2. BackupTypeOK'
    BY <2>1 DEF BackupTypeInv, BackupTypeOK
  <2>3. \A q \in Runners : UnderWay(q)' => runner'[q].archive \in Archives
    BY <2>1, EmptyForms DEF BackupTypeInv, UnderWay
  <2>. QED  BY <2>2, <2>3 DEF BackupTypeInv
<1>2. CASE PruneArchive(r)
  <2>0. archive' \in [Archives -> Archive]
    BY <1>2, PruneForm
  <2>1. PICK x \in Runner :
           /\ runner' \in [Runners -> Runner]
           /\ \A q \in Runners : runner'[q] = IF q = r THEN x ELSE runner[q]
           /\ x = NoRunner \/ x.at = "prune"
           /\ UNCHANGED <<images, contents, made, restore>>
    BY <1>2, PruneForm
  <2>2. BackupTypeOK'
    BY <2>0, <2>1 DEF BackupTypeInv, BackupTypeOK
  <2>3. \A q \in Runners : UnderWay(q)' => runner'[q].archive \in Archives
    BY <2>1, EmptyForms DEF BackupTypeInv, UnderWay
  <2>. QED  BY <2>2, <2>3 DEF BackupTypeInv
<1>3. CASE OtherBackup(r) \/ CleanArchive(r)
  <2>0. archive' \in [Archives -> Archive]
    BY <1>3, OtherForm, CleanForm DEF BackupTypeInv, BackupTypeOK
  <2>1. PICK x \in Runner :
           /\ runner' \in [Runners -> Runner]
           /\ \A q \in Runners : runner'[q] = IF q = r THEN x ELSE runner[q]
           /\ x.at \in {"off", "clean"}
           /\ UNCHANGED <<images, contents, made, restore>>
    BY <1>3, OtherForm, CleanForm
  <2>2. BackupTypeOK'
    BY <2>0, <2>1 DEF BackupTypeInv, BackupTypeOK
  <2>3. \A q \in Runners : UnderWay(q)' => runner'[q].archive \in Archives
    BY <2>1 DEF BackupTypeInv, UnderWay
  <2>. QED  BY <2>2, <2>3 DEF BackupTypeInv
<1>. QED  BY <1>1, <1>2, <1>3

\* The record of a restoration.
RestoreRec == [archive : 0 .. MaxArchives, todo : SUBSET Archives, touched : BOOLEAN]

LEMMA RestoreForms ==
  /\ NoRestore \in RestoreRec /\ NoRestore.archive = 0 /\ NoRestore.todo = {}
  /\ \A x \in RestoreRec :
       /\ \A as \in SUBSET Archives :
            /\ [x EXCEPT !.todo = as] \in RestoreRec /\ [x EXCEPT !.todo = as].todo = as
            /\ [x EXCEPT !.todo = as].archive = x.archive /\ [x EXCEPT !.todo = as].touched = x.touched
       /\ [x EXCEPT !.touched = TRUE] \in RestoreRec /\ [x EXCEPT !.touched = TRUE].touched = TRUE
       /\ [x EXCEPT !.touched = TRUE].archive = x.archive /\ [x EXCEPT !.touched = TRUE].todo = x.todo
  BY ArchiveNumbers DEF NoRestore, RestoreRec

\* The archive that is extracted next.
Oldest(as) == CHOOSE x \in as : \A y \in as : x <= y

LEMMA ExtractForm ==
  ASSUME BackupTypeInv, ExtractArchive
  PROVE  LET a == Oldest(restore.todo)
         IN /\ restore.todo # {}
            /\ \/ /\ a \in Listed
                  /\ images' = [i \in Images |-> IF archive[a].stored[i] # 0 THEN archive[a].stored[i]
                                                 ELSE images[i]]
                  /\ images' \in [Images -> Contents]
                  /\ restore' = [restore EXCEPT !.todo = restore.todo \ {a}]
                  /\ restore' \in RestoreRec
               \/ images' = images /\ restore' = NoRestore
            /\ UNCHANGED <<contents, archive, made, runner>>
<1>. DEFINE a == Oldest(restore.todo)
            got == [i \in Images |-> IF archive[a].stored[i] # 0 THEN archive[a].stored[i] ELSE images[i]]
<1>1. /\ restore.todo # {} /\ UNCHANGED <<contents, archive, made, runner>>
      /\ IF a \in Listed
         THEN images' = got /\ restore' = [restore EXCEPT !.todo = @ \ {a}]
         ELSE images' = images /\ restore' = NoRestore
  BY DEF ExtractArchive, Oldest
<1>2. /\ restore \in RestoreRec /\ images \in [Images -> Contents] /\ archive \in [Archives -> Archive]
  BY DEF BackupTypeInv, BackupTypeOK, RestoreRec
<1>. HIDE DEF a
<1>3. CASE a \in Listed
  <2>1. a \in Archives
    BY <1>3 DEF Listed
  <2>2. archive[a].stored \in [Images -> Contents]
    BY <1>2, <2>1 DEF Archive
  <2>3. got \in [Images -> Contents]
    BY <1>2, <2>2
  <2>4. restore' = [restore EXCEPT !.todo = restore.todo \ {a}]
    BY <1>1, <1>3
  <2>5. restore.todo \ {a} \in SUBSET Archives
    BY <1>2 DEF RestoreRec
  <2>6. restore' \in RestoreRec
    BY <1>2, <2>4, <2>5, RestoreForms
  <2>. QED  BY <1>1, <1>3, <2>3, <2>4, <2>6 DEF a
<1>4. CASE a \notin Listed
  BY <1>1, <1>4 DEF a
<1>. QED  BY <1>3, <1>4

LEMMA EditForm ==
  ASSUME BackupTypeInv, NEW i \in Images, EditImage(i)
  PROVE  /\ images' \in [Images -> Contents] /\ contents' \in Contents
         /\ restore' \in RestoreRec
         /\ \/ restore = NoRestore /\ restore' = restore
            \/ restore'.archive = restore.archive /\ restore'.todo = restore.todo /\ restore'.touched
         /\ UNCHANGED <<archive, made, runner>>
<1>1. /\ contents < MaxContents /\ contents' = contents + 1
      /\ UNCHANGED <<archive, made, runner>>
      /\ restore' = IF restore = NoRestore THEN restore ELSE [restore EXCEPT !.touched = TRUE]
  BY DEF EditImage
<1>2. restore \in RestoreRec /\ images \in [Images -> Contents] /\ contents \in Contents
  BY DEF BackupTypeInv, BackupTypeOK, RestoreRec
<1>3. contents' \in Contents
  <2>1. MaxContents \in Nat /\ contents \in Nat
    BY <1>2, BackupsAssumption DEF Contents
  <2>. QED  BY <1>1, <2>1 DEF Contents
<1>4. PICK new \in {0, contents'} \ {images[i]} : images' = [images EXCEPT ![i] = new]
  BY DEF EditImage
<1>5. new \in Contents
  BY <1>3, ArchiveNumbers
<1>6. images' \in [Images -> Contents]
  BY <1>2, <1>4, <1>5
<1>7. CASE restore = NoRestore
  BY <1>1, <1>2, <1>3, <1>6, <1>7
<1>8. CASE restore # NoRestore
  BY <1>1, <1>2, <1>3, <1>6, <1>8, RestoreForms
<1>. QED  BY <1>7, <1>8

LEMMA TrimForm ==
  ASSUME BackupTypeInv, TrimImages
  PROVE  images' \in [Images -> Contents]
<1>1. /\ restore.archive # 0
      /\ images' = [i \in Images |-> IF archive[restore.archive].images[i] = 0 THEN 0 ELSE images[i]]
  BY DEF TrimImages
<1>2. images \in [Images -> Contents]
  BY DEF BackupTypeInv, BackupTypeOK
<1>. QED  BY <1>1, <1>2, ArchiveNumbers

\* An archive after the end of the process.
LEMMA CrashForm ==
  ASSUME BackupTypeInv, BackupCrash
  PROVE  /\ archive' \in [Archives -> Archive]
         /\ \A b \in Archives : archive'[b] = IF archive[b].st = "writing" THEN Removed ELSE archive[b]
         /\ runner' = [r \in Runners |-> NoRunner] /\ restore' = NoRestore
         /\ UNCHANGED <<images, contents, made>>
<1>1. archive' = [b \in Archives |-> IF archive[b].st = "writing" THEN Removed ELSE archive[b]]
  BY DEF BackupCrash
<1>2. archive \in [Archives -> Archive]
  BY DEF BackupTypeInv, BackupTypeOK
<1>3. archive' \in [Archives -> Archive]
  BY <1>1, <1>2, EmptyForms
<1>. QED  BY <1>1, <1>3 DEF BackupCrash

LEMMA RunnersOff ==
  /\ [r \in Runners |-> NoRunner] \in [Runners -> Runner]
  /\ \A r \in Runners : [q \in Runners |-> NoRunner][r].at = "off"
  BY EmptyForms

LEMMA RunTypes ==
  ASSUME BackupTypeInv, NEW r \in Runners,
         (\E kind \in Kinds : StartBackup(r, kind)) \/ HashImages(r) \/ StoreImages(r) \/ ListArchive(r)
         \/ ListChains(r) \/ PruneArchive(r) \/ OtherBackup(r) \/ CleanArchive(r)
  PROVE  BackupTypeInv'
<1>1. ASSUME NEW kind \in Kinds, StartBackup(r, kind)  PROVE BackupTypeInv'
  BY <1>1, StartTypes
<1>2. CASE HashImages(r)
  <2>1. runner[r].archive \in Archives
    BY <1>2 DEF HashImages, RunnerAt, BackupTypeInv, UnderWay
  <2>2. PICK y \in Archive, x \in Runner : /\ Moves(r, runner[r].archive, y, x)
                                           /\ x.archive = runner[r].archive
    BY <1>2, HashForm
  <2>. QED  BY <2>1, <2>2, MoveTypes
<1>3. CASE StoreImages(r)
  <2>1. runner[r].archive \in Archives
    BY <1>3 DEF StoreImages, RunnerAt, BackupTypeInv, UnderWay
  <2>2. \/ Moves(r, runner[r].archive, Removed, NoRunner)
        \/ \E y \in Archive, x \in Runner :
             Moves(r, runner[r].archive, y, x) /\ x.archive = runner[r].archive
    BY <1>3, StoreForm
  <2>. QED  BY <2>1, <2>2, MoveTypes, EmptyForms
<1>4. CASE ListArchive(r)
  <2>1. runner[r].archive \in Archives
    BY <1>4 DEF ListArchive, RunnerAt, BackupTypeInv, UnderWay
  <2>2. \/ Moves(r, runner[r].archive, Removed, NoRunner)
        \/ \E y \in Archive, x \in Runner :
             Moves(r, runner[r].archive, y, x) /\ x.archive = runner[r].archive
    BY <1>4, ListForm
  <2>. QED  BY <2>1, <2>2, MoveTypes, EmptyForms
<1>5. CASE ListChains(r) \/ PruneArchive(r) \/ OtherBackup(r) \/ CleanArchive(r)
  BY <1>5, PruneTypes
<1>. QED  BY <1>1, <1>2, <1>3, <1>4, <1>5

LEMMA BackupTypeInit == BackupInit => BackupTypeInv
<1>. SUFFICES ASSUME BackupInit  PROVE BackupTypeInv
  OBVIOUS
<1>1. /\ images = Empty /\ contents = 0 /\ archive = [a \in Archives |-> NoArchive] /\ made = 0
      /\ runner = [r \in Runners |-> NoRunner] /\ restore = NoRestore
  BY DEF BackupInit
<1>2. archive \in [Archives -> Archive] /\ runner \in [Runners -> Runner]
  BY <1>1, EmptyForms
<1>3. restore \in RestoreRec
  BY <1>1, RestoreForms
<1>4. \A r \in Runners : ~UnderWay(r)
  BY <1>1, EmptyForms DEF UnderWay
<1>. QED  BY <1>1, <1>2, <1>3, <1>4, EmptyForms, ArchiveNumbers DEF BackupTypeInv, BackupTypeOK, RestoreRec

LEMMA BackupTypeStep == BackupTypeInv /\ [BackupNext]_backupVars => BackupTypeInv'
<1>. SUFFICES ASSUME BackupTypeInv, [BackupNext]_backupVars  PROVE BackupTypeInv'
  OBVIOUS
<1>0. BackupTypeOK
  BY DEF BackupTypeInv
<1>1. ASSUME NEW r \in Runners,
             (\E kind \in Kinds : StartBackup(r, kind)) \/ HashImages(r) \/ StoreImages(r)
             \/ ListArchive(r) \/ ListChains(r) \/ PruneArchive(r) \/ OtherBackup(r) \/ CleanArchive(r)
      PROVE  BackupTypeInv'
  BY <1>1, RunTypes
<1>2. ASSUME NEW a \in Archives, StartRestore(a)  PROVE BackupTypeInv'
  <2>1. /\ ChainOf[a] \in SUBSET Archives
        /\ restore' = [archive |-> a, todo |-> ChainOf[a], touched |-> FALSE]
        /\ UNCHANGED <<images, contents, archive, made, runner>>
    BY <1>2 DEF StartRestore, Resolvable, Listed
  <2>2. restore' \in RestoreRec
    BY <2>1, ArchiveNumbers DEF RestoreRec
  <2>. QED  BY <1>0, <2>1, <2>2 DEF BackupTypeInv, BackupTypeOK, RestoreRec, UnderWay
<1>3. CASE ExtractArchive
  <2>1. /\ images' \in [Images -> Contents] /\ restore' \in RestoreRec
        /\ UNCHANGED <<contents, archive, made, runner>>
    BY <1>0, <1>3, ExtractForm, RestoreForms DEF BackupTypeOK
  <2>. QED  BY <1>0, <2>1 DEF BackupTypeInv, BackupTypeOK, RestoreRec, UnderWay
<1>4. CASE TrimImages
  <2>1. restore' \in RestoreRec /\ UNCHANGED <<contents, archive, made, runner>>
    BY <1>4, RestoreForms DEF TrimImages
  <2>2. images' \in [Images -> Contents]
    BY <1>4, TrimForm
  <2>. QED  BY <1>0, <2>1, <2>2 DEF BackupTypeInv, BackupTypeOK, RestoreRec, UnderWay
<1>5. ASSUME NEW i \in Images, EditImage(i)  PROVE BackupTypeInv'
  <2>1. /\ images' \in [Images -> Contents] /\ contents' \in Contents /\ restore' \in RestoreRec
        /\ UNCHANGED <<archive, made, runner>>
    BY <1>5, EditForm
  <2>. QED  BY <1>0, <2>1 DEF BackupTypeInv, BackupTypeOK, RestoreRec, UnderWay
<1>6. CASE BackupCrash
  <2>1. /\ archive' \in [Archives -> Archive] /\ runner' = [r \in Runners |-> NoRunner]
        /\ restore' = NoRestore /\ UNCHANGED <<images, contents, made>>
    BY <1>6, CrashForm
  <2>2. restore' \in RestoreRec
    BY <2>1, RestoreForms
  <2>3. runner' \in [Runners -> Runner] /\ \A r \in Runners : ~UnderWay(r)'
    BY <2>1, RunnersOff DEF UnderWay
  <2>. QED  BY <1>0, <2>1, <2>2, <2>3 DEF BackupTypeInv, BackupTypeOK, RestoreRec
<1>7. CASE UNCHANGED backupVars
  BY <1>0, <1>7 DEF BackupTypeInv, BackupTypeOK, UnderWay, backupVars
<1>. QED  BY <1>1, <1>2, <1>3, <1>4, <1>5, <1>6, <1>7 DEF BackupNext

\* Archives with their manifests, the runs of the mode backups and the restoration
\* keep the types of createModeBackup and restoreChain.
THEOREM BackupTypeCorrect == BackupSpec => []BackupTypeOK
<1>1. BackupTypeInv => BackupTypeOK
  BY DEF BackupTypeInv
<1>. QED  BY <1>1, BackupTypeInit, BackupTypeStep, PTL DEF BackupSpec

-----------------------------------------------------------------------------
(* Backups: every archive on the list can be restored. Chains, the runs and *)
(* what pruning leaves form the inductive invariant WholeInv.               *)

\* Archives that are on the list or were taken from it: their kinds, bases and chains stand.
Fixed == {a \in Archives : archive[a].st \in {"listed", "gone"} /\ archive[a].chain # 0}
\* A chain begins with a full archive and grows from archives that stand.
Rooted(a) ==
  \/ archive[a].kind = "full" /\ archive[a].base = 0 /\ archive[a].chain = a
  \/ /\ archive[a].kind # "full" /\ archive[a].base \in Fixed /\ archive[a].base < a
     /\ archive[archive[a].base].chain = archive[a].chain
ChainsInv ==
  /\ \A a \in Archives : a > made => archive[a].st = "none"
  /\ \A a \in Archives : archive[a].st \in {"writing", "file", "listed"} => archive[a].chain # 0
  /\ \A a \in Archives : archive[a].chain = 0 => archive[a].kind = "full" /\ archive[a].base = 0
  /\ \A a \in Archives : archive[a].chain # 0 => Rooted(a)
\* An archive x without a manifest, which no other is based on; pruneBackups may have taken its file.
Unlisted(x) == x.st \in {"writing", "file"} \/ (x.st = "gone" /\ x.chain = 0)
RunsInv ==
  /\ \A r \in Runners : UnderWay(r) =>
       /\ Unlisted(archive[runner[r].archive])
       /\ runner[r].at # "sidecar" <=> archive[runner[r].archive].st = "writing"
  /\ \A r, q \in Runners : UnderWay(r) /\ UnderWay(q) /\ runner[r].archive = runner[q].archive => r = q
  /\ \A r \in Runners : runner[r].at = "prune" => runner[r].todo # {} /\ runner[r].todo \subseteq Fixed
\* An archive that has not been pruned lost its base to pruneBackups, or was made meanwhile.
Unpruned(a) == archive[a].st \in {"writing", "file", "listed"} \/ archive[a].aged
RacedInv ==
  \A a \in Archives : Unpruned(a) /\ archive[a].base # 0 /\ archive[archive[a].base].st = "gone"
                      => archive[a].raced \/ archive[archive[a].base].aged
WholeInv == BackupTypeInv /\ ChainsInv /\ RunsInv /\ RacedInv

\* What a step may do to an archive that has begun.
ArchiveKept(b) ==
  \/ /\ archive'[b].kind = archive[b].kind /\ archive'[b].base = archive[b].base
     /\ archive'[b].chain = archive[b].chain
     /\ archive[b].raced => archive'[b].raced
     /\ archive[b].aged => archive'[b].aged
     /\ archive'[b].aged => Unpruned(b)
     /\ \/ archive'[b].st = archive[b].st
        \/ archive[b].st = "writing" /\ archive'[b].st = "file"
        \/ archive[b].st = "file" /\ archive'[b].st = "listed"
        \/ b \in Fixed /\ archive'[b].st = "gone"
  \/ /\ Unlisted(archive[b])
     /\ archive'[b].st = "gone" /\ archive'[b].chain = 0
     /\ archive'[b].kind = "full" /\ archive'[b].base = 0

LEMMA KeptFixed ==
  ASSUME \A b \in Archives : ArchiveKept(b)
  PROVE  /\ Fixed \subseteq Fixed'
         /\ \A b \in Fixed : /\ archive'[b].kind = archive[b].kind /\ archive'[b].base = archive[b].base
                             /\ archive'[b].chain = archive[b].chain
  BY DEF ArchiveKept, Fixed, Unlisted

LEMMA RemovedForm ==
  /\ Removed.st = "gone" /\ Removed.chain = 0 /\ Removed.kind = "full" /\ Removed.base = 0
  /\ ~Removed.aged
  BY DEF Removed, NoArchive

LEMMA KeptChains ==
  ASSUME ChainsInv, \A b \in Archives : ArchiveKept(b), made' = made
  PROVE  ChainsInv'
<1>1. ASSUME NEW a \in Archives, a > made'  PROVE archive'[a].st = "none"
  <2>1. archive[a].st = "none"
    BY <1>1 DEF ChainsInv
  <2>. QED  BY <2>1 DEF ArchiveKept, Fixed, Unlisted
<1>2. ASSUME NEW a \in Archives, archive'[a].st \in {"writing", "file", "listed"}
      PROVE  archive'[a].chain # 0
  BY <1>2 DEF ArchiveKept, ChainsInv
<1>3. ASSUME NEW a \in Archives, archive'[a].chain = 0
      PROVE  archive'[a].kind = "full" /\ archive'[a].base = 0
  BY <1>3 DEF ArchiveKept, ChainsInv
<1>4. ASSUME NEW a \in Archives, archive'[a].chain # 0  PROVE Rooted(a)'
  <2>1. /\ archive'[a].kind = archive[a].kind /\ archive'[a].base = archive[a].base
        /\ archive'[a].chain = archive[a].chain /\ Rooted(a)
    BY <1>4 DEF ArchiveKept, ChainsInv
  <2>. QED  BY <2>1, KeptFixed DEF Rooted
<1>. QED  BY <1>1, <1>2, <1>3, <1>4 DEF ChainsInv

\* Archives of runs that are under way change and end; none that stands does.
LEMMA SettledRaced ==
  ASSUME ChainsInv, RacedInv, \A b \in Archives : ArchiveKept(b),
         \A b \in Fixed : archive'[b].st = archive[b].st
  PROVE  RacedInv'
<1>. SUFFICES ASSUME NEW a \in Archives, Unpruned(a)', archive'[a].base # 0,
                     archive'[archive'[a].base].st = "gone"
              PROVE  archive'[a].raced \/ archive'[archive'[a].base].aged
  BY DEF RacedInv
<1>1. /\ archive'[a].base = archive[a].base
      /\ archive[a].raced => archive'[a].raced
      /\ Unpruned(a)
  BY DEF ArchiveKept, Fixed, Unpruned
<1>2. Rooted(a)
  BY <1>1 DEF ChainsInv
<1>3. archive[a].base \in Fixed
  BY <1>1, <1>2 DEF Rooted
<1>4. archive[archive[a].base].aged => archive'[archive[a].base].aged
  BY <1>3 DEF ArchiveKept, Fixed, Unlisted
<1>. QED  BY <1>1, <1>3, <1>4 DEF RacedInv

LEMMA WholeInit == BackupInit => WholeInv
<1>. SUFFICES ASSUME BackupInit  PROVE WholeInv
  OBVIOUS
<1>1. archive = [a \in Archives |-> NoArchive] /\ runner = [r \in Runners |-> NoRunner]
  BY DEF BackupInit
<1>2. \A a \in Archives : /\ archive[a].st = "none" /\ archive[a].chain = 0
                         /\ archive[a].kind = "full" /\ archive[a].base = 0
  BY <1>1 DEF NoArchive
<1>3. \A r \in Runners : runner[r].at = "off"
  BY <1>1, EmptyForms
<1>4. ChainsInv /\ RacedInv
  BY <1>2 DEF ChainsInv, RacedInv
<1>5. RunsInv
  BY <1>3 DEF RunsInv, UnderWay
<1>. QED  BY <1>4, <1>5, BackupTypeInit DEF WholeInv

LEMMA WholeStart ==
  ASSUME WholeInv, NEW r \in Runners, NEW kind \in Kinds, StartBackup(r, kind)
  PROVE  ChainsInv' /\ RunsInv' /\ RacedInv'
<1>. DEFINE n == made + 1
            base == BaseOf(kind)
            y == Begun(n, kind)
            x == [NoRunner EXCEPT !.at = "hash", !.archive = n]
<1>0. BackupTypeOK /\ BackupTypeInv /\ archive \in [Archives -> Archive]
  BY DEF WholeInv, BackupTypeInv, BackupTypeOK
<1>1. /\ n \in Archives /\ y \in Archive /\ archive' \in [Archives -> Archive]
      /\ \A b \in Archives : archive'[b] = IF b = n THEN y ELSE archive[b]
  BY <1>0, StartForm, ArchiveWritten
<1>2. /\ runner[r] = NoRunner /\ made' = n /\ Continue(r, x)
      /\ kind # "full" => base # 0
  BY DEF StartBackup
<1>3. n \in Nat /\ made \in Nat /\ n > made
  BY <1>0, <1>1, BackupsAssumption DEF BackupTypeOK
<1>4. /\ y.st = "writing" /\ y.kind = kind /\ y.base = base
      /\ y.chain = IF base = 0 THEN n ELSE archive[base].chain
  BY <1>0, <1>1 DEF Begun, Archive
<1>5. archive[n].st = "none"
  BY <1>1, <1>3 DEF WholeInv, ChainsInv
<1>6. /\ base # 0 => kind # "full" /\ base \in Listed /\ base \in Archives
      /\ kind = "full" => base = 0
  BY BaseFound DEF Listed
<1>7. base # 0 => base \in Fixed /\ base < n /\ base # n
  <2>. SUFFICES ASSUME base # 0  PROVE base \in Fixed /\ base < n /\ base # n
    OBVIOUS
  <2>1. base \in Archives /\ archive[base].st = "listed"
    BY <1>6 DEF Listed
  <2>2. archive[base].chain # 0
    BY <2>1 DEF WholeInv, ChainsInv
  <2>3. base \in Nat /\ ~(base > made)
    BY <2>1, ArchiveNumbers DEF WholeInv, ChainsInv
  <2>4. base < n /\ base # n
    <3>. HIDE DEF base
    <3>. QED  BY <1>3, <2>3
  <2>. QED  BY <2>1, <2>2, <2>4 DEF Fixed
<1>8. n \notin Fixed /\ n # 0
  BY <1>1, <1>5, ArchiveNumbers DEF Fixed
<1>9. Fixed \subseteq Fixed'
  BY <1>1, <1>8 DEF Fixed
<1>10. /\ runner' \in [Runners -> Runner] /\ \A q \in Runners : runner'[q] = IF q = r THEN x ELSE runner[q]
       /\ x.at = "hash" /\ x.archive = n
  <2>1. n \in 0 .. MaxArchives
    BY <1>1, ArchiveNumbers
  <2>2. x \in Runner /\ x.at = "hash" /\ x.archive = n
    BY <2>1, EmptyForms DEF NoRunner, Runner
  <2>. HIDE DEF x
  <2>. QED  BY <1>0, <1>2, <2>2, Continues
<1>. HIDE DEF n, base, y, x
<1>11. ChainsInv'
  <2>1. ASSUME NEW a \in Archives, a > made'  PROVE archive'[a].st = "none"
    <3>1. a \in Nat
      BY ArchiveNumbers
    <3>2. a > made /\ a # n
      <4>. USE DEF n
      <4>. QED  BY <1>2, <1>3, <2>1, <3>1
    <3>. QED  BY <1>1, <3>2 DEF WholeInv, ChainsInv
  <2>2. \A a \in Archives : archive'[a].st \in {"writing", "file", "listed"} => archive'[a].chain # 0
    BY <1>1, <1>4, <1>7, <1>8 DEF WholeInv, ChainsInv, Fixed
  <2>3. \A a \in Archives : archive'[a].chain = 0 => archive'[a].kind = "full" /\ archive'[a].base = 0
    BY <1>1, <1>4, <1>7, <1>8, <1>2 DEF WholeInv, ChainsInv, Fixed
  <2>4. ASSUME NEW a \in Archives, archive'[a].chain # 0  PROVE Rooted(a)'
    <3>1. CASE a = n /\ base = 0
      BY <1>1, <1>2, <1>4, <3>1 DEF Rooted
    <3>2. CASE a = n /\ base # 0
      <4>1. /\ archive'[a].kind # "full" /\ archive'[a].base = base
            /\ archive'[a].chain = archive[base].chain /\ archive'[base] = archive[base]
        BY <1>1, <1>4, <1>6, <1>7, <3>2
      <4>2. base \in Fixed' /\ base < a
        BY <1>7, <1>9, <3>2
      <4>. QED  BY <4>1, <4>2 DEF Rooted
    <3>3. CASE a # n
      <4>1. archive'[a] = archive[a] /\ Rooted(a)
        BY <1>1, <2>4, <3>3 DEF WholeInv, ChainsInv
      <4>2. ASSUME archive[a].base \in Fixed
            PROVE  archive[a].base \in Fixed' /\ archive'[archive[a].base] = archive[archive[a].base]
        BY <1>1, <1>8, <1>9, <4>2 DEF Fixed
      <4>. QED  BY <4>1, <4>2 DEF Rooted
    <3>. QED  BY <3>1, <3>2, <3>3
  <2>. QED  BY <2>1, <2>2, <2>3, <2>4 DEF ChainsInv
<1>12. RunsInv'
  <2>1. \A q \in Runners : q # r /\ UnderWay(q)' => /\ UnderWay(q) /\ runner'[q] = runner[q]
                                                   /\ runner[q].archive # n
                                                   /\ runner[q].archive \in Archives
                                                   /\ Unlisted(archive[runner[q].archive])
    BY <1>0, <1>5, <1>10 DEF UnderWay, WholeInv, RunsInv, BackupTypeInv, Unlisted
  <2>2. ASSUME NEW q \in Runners, UnderWay(q)'
        PROVE  /\ Unlisted(archive'[runner'[q].archive])
               /\ runner'[q].at # "sidecar" <=> archive'[runner'[q].archive].st = "writing"
    <3>1. CASE q = r
      BY <1>1, <1>4, <1>10, <3>1 DEF Unlisted
    <3>2. CASE q # r
      <4>1. archive'[runner'[q].archive] = archive[runner[q].archive] /\ UnderWay(q) /\ runner'[q] = runner[q]
        BY <1>1, <2>1, <2>2, <3>2
      <4>. QED  BY <2>1, <2>2, <3>2, <4>1 DEF WholeInv, RunsInv, Unlisted
    <3>. QED  BY <3>1, <3>2
  <2>3. \A p, q \in Runners : UnderWay(p)' /\ UnderWay(q)' /\ runner'[p].archive = runner'[q].archive => p = q
    BY <1>10, <2>1 DEF WholeInv, RunsInv
  <2>4. \A q \in Runners : runner'[q].at = "prune" => runner'[q].todo # {} /\ runner'[q].todo \subseteq Fixed'
    BY <1>9, <1>10 DEF WholeInv, RunsInv
  <2>. QED  BY <2>2, <2>3, <2>4 DEF RunsInv
<1>13. RacedInv'
  <2>. SUFFICES ASSUME NEW a \in Archives, Unpruned(a)', archive'[a].base # 0,
                       archive'[archive'[a].base].st = "gone"
                PROVE  archive'[a].raced \/ archive'[archive'[a].base].aged
    BY DEF RacedInv
  <2>1. CASE a = n
    <3>1. archive'[a].base = base /\ archive'[base] = archive[base] /\ archive[base].st = "listed"
      BY <1>1, <1>4, <1>6, <1>7, <2>1 DEF Listed
    <3>. QED  BY <3>1
  <2>2. CASE a # n
    <3>1. archive'[a] = archive[a]
      BY <1>1, <2>2
    <3>2. Rooted(a)
      BY <3>1 DEF WholeInv, ChainsInv
    <3>3. archive[a].base \in Fixed
      BY <3>1, <3>2 DEF Rooted
    <3>4. archive'[archive[a].base] = archive[archive[a].base]
      BY <1>1, <1>8, <3>3 DEF Fixed
    <3>. QED  BY <3>1, <3>4 DEF WholeInv, RacedInv, Unpruned
  <2>. QED  BY <2>1, <2>2
<1>. QED  BY <1>11, <1>12, <1>13

\* A step of run r between the beginning of its archive and its listing.
\* A run's archive a goes on as y and the run as x.
Advances(y, x, a) ==
  /\ SameArchive(y, a)
  /\ \/ /\ archive[a].st = "writing" /\ x.archive = a
        /\ \/ y.st = "writing" /\ x.at = "store"
           \/ y.st = "file" /\ x.at = "sidecar"
     \/ x.at = "list" /\ y.st = IF archive[a].st = "file" THEN "listed" ELSE archive[a].st

LEMMA WholeMoves ==
  ASSUME WholeInv, NEW r \in Runners, UnderWay(r), NEW y \in Archive, NEW x \in Runner,
         Moves(r, runner[r].archive, y, x),
         \/ y = Removed /\ x = NoRunner
         \/ Advances(y, x, runner[r].archive)
  PROVE  ChainsInv' /\ RunsInv' /\ RacedInv' /\ \A b \in Archives : ArchiveKept(b)
<1>. DEFINE a == runner[r].archive
<1>1. a \in Archives /\ Unlisted(archive[a])
  BY DEF WholeInv, RunsInv, BackupTypeInv
<1>2. \A b \in Archives : archive'[b] = IF b = a THEN y ELSE archive[b]
  BY DEF Moves
<1>3. \A q \in Runners : runner'[q] = IF q = r THEN x ELSE runner[q]
  BY DEF Moves
<1>4. made' = made
  BY DEF Moves
<1>5. (y = Removed /\ x = NoRunner) \/ Advances(y, x, a)
  OBVIOUS
<1>6. NoRunner.at = "off"
  BY EmptyForms
<1>. HIDE DEF a
<1>7. ASSUME NEW b \in Archives  PROVE ArchiveKept(b)
  <2>1. CASE b # a
    <3>1. archive'[b] = archive[b]
      BY <1>2, <2>1
    <3>. QED  BY <3>1 DEF ArchiveKept, Unpruned
  <2>2. CASE b = a
    <3>1. archive'[b] = y /\ Unlisted(archive[b])
      BY <1>1, <1>2, <2>2
    <3>2. CASE y = Removed
      BY <3>1, <3>2, RemovedForm DEF ArchiveKept
    <3>3. CASE Advances(y, x, a)
      BY <2>2, <3>1, <3>3 DEF ArchiveKept, Advances, SameArchive, Unpruned
    <3>. QED  BY <1>5, <3>2, <3>3
  <2>. QED  BY <2>1, <2>2
<1>8. ChainsInv'
  BY <1>4, <1>7, KeptChains DEF WholeInv
<1>9. \A b \in Fixed : archive'[b].st = archive[b].st
  BY <1>1, <1>2 DEF Fixed, Unlisted
<1>10. RacedInv'
  BY <1>7, <1>9, SettledRaced DEF WholeInv
<1>11. Fixed \subseteq Fixed'
  BY <1>7, KeptFixed
<1>12. ASSUME NEW q \in Runners, UnderWay(q)', q # r
       PROVE  UnderWay(q) /\ runner'[q] = runner[q] /\ runner[q].archive # a
  <2>1. UnderWay(q) /\ runner'[q] = runner[q]
    BY <1>3, <1>12 DEF UnderWay
  <2>. QED  BY <1>12, <2>1 DEF WholeInv, RunsInv, a
<1>13. UnderWay(r)' => /\ runner'[r].archive = a /\ Unlisted(archive'[a])
                       /\ runner'[r].at # "sidecar" <=> archive'[a].st = "writing"
  BY <1>1, <1>2, <1>3, <1>5, <1>6 DEF UnderWay, Advances, Unlisted
<1>14. ASSUME NEW q \in Runners, UnderWay(q)'
       PROVE  /\ Unlisted(archive'[runner'[q].archive])
              /\ runner'[q].at # "sidecar" <=> archive'[runner'[q].archive].st = "writing"
  <2>1. CASE q = r
    BY <1>13, <1>14, <2>1 DEF Unlisted
  <2>2. CASE q # r
    <3>1. /\ archive'[runner'[q].archive] = archive[runner[q].archive]
          /\ UnderWay(q) /\ runner'[q] = runner[q]
      BY <1>2, <1>12, <1>14, <2>2 DEF WholeInv, BackupTypeInv
    <3>. QED  BY <3>1 DEF WholeInv, RunsInv, Unlisted
  <2>. QED  BY <2>1, <2>2
<1>15. ASSUME NEW p \in Runners, NEW q \in Runners, UnderWay(p)', UnderWay(q)',
              runner'[p].archive = runner'[q].archive
       PROVE  p = q
  BY <1>12, <1>13, <1>15 DEF WholeInv, RunsInv
<1>16. ASSUME NEW q \in Runners, runner'[q].at = "prune"
       PROVE  runner'[q].todo # {} /\ runner'[q].todo \subseteq Fixed'
  <2>1. runner[q].at = "prune" /\ runner'[q] = runner[q]
    BY <1>3, <1>5, <1>6, <1>16 DEF Advances
  <2>. QED  BY <1>11, <2>1 DEF WholeInv, RunsInv
<1>17. RunsInv'
  BY <1>14, <1>15, <1>16 DEF RunsInv
<1>. QED  BY <1>7, <1>8, <1>10, <1>17

LEMMA WholeWork ==
  ASSUME WholeInv, NEW r \in Runners, HashImages(r) \/ StoreImages(r) \/ ListArchive(r)
  PROVE  ChainsInv' /\ RunsInv' /\ RacedInv' /\ \A b \in Archives : ArchiveKept(b)
<1>. DEFINE a == runner[r].archive
<1>1. BackupTypeInv /\ UnderWay(r)
  BY DEF WholeInv, HashImages, StoreImages, ListArchive, RunnerAt, UnderWay
<1>2. \/ Moves(r, a, Removed, NoRunner)
      \/ \E y \in Archive, x \in Runner : Moves(r, a, y, x) /\ Advances(y, x, a)
  <2>1. CASE HashImages(r)
    <3>1. \E y \in Archive, x \in Runner :
               /\ Moves(r, a, y, x) /\ SameArchive(y, a) /\ y.st = archive[a].st
               /\ x.at = "store" /\ x.archive = a
      BY <1>1, <2>1, HashForm
    <3>2. archive[a].st = "writing"
      BY <1>1, <2>1 DEF WholeInv, RunsInv, HashImages, RunnerAt
    <3>. HIDE DEF a
    <3>. QED  BY <3>1, <3>2 DEF Advances
  <2>2. CASE StoreImages(r)
    <3>1. \/ Moves(r, a, Removed, NoRunner)
          \/ \E y \in Archive, x \in Runner :
               /\ Moves(r, a, y, x) /\ SameArchive(y, a) /\ y.st = "file"
               /\ x.at = "sidecar" /\ x.archive = a
      BY <1>1, <2>2, StoreForm, Zenon
    <3>2. archive[a].st = "writing"
      BY <1>1, <2>2 DEF WholeInv, RunsInv, StoreImages, RunnerAt
    <3>. HIDE DEF a
    <3>. QED  BY <3>1, <3>2 DEF Advances
  <2>3. CASE ListArchive(r)
    <3>1. \/ Moves(r, a, Removed, NoRunner)
          \/ \E y \in Archive, x \in Runner :
               /\ Moves(r, a, y, x) /\ SameArchive(y, a) /\ x.at = "list"
               /\ y.st = (IF archive[a].st = "file" THEN "listed" ELSE archive[a].st)
      BY <1>1, <2>3, ListForm, Zenon
    <3>. HIDE DEF a
    <3>. QED  BY <3>1 DEF Advances
  <2>. QED  BY <2>1, <2>2, <2>3
<1>. HIDE DEF a
<1>3. CASE Moves(r, a, Removed, NoRunner)
  BY <1>1, <1>3, WholeMoves, EmptyForms DEF a
<1>4. CASE \E y \in Archive, x \in Runner : Moves(r, a, y, x) /\ Advances(y, x, a)
  BY <1>1, <1>4, WholeMoves DEF a
<1>. QED  BY <1>2, <1>3, <1>4

\* A step of the runs that leaves the archives alone.
LEMMA WholeIdle ==
  ASSUME WholeInv, UNCHANGED <<archive, made>>,
         \A r \in Runners : \/ runner'[r] = runner[r]
                            \/ runner'[r].at \in {"off", "clean"}
                            \/ /\ runner'[r].at = "prune" /\ runner'[r].todo # {}
                               /\ runner'[r].todo \subseteq Listed
  PROVE  ChainsInv' /\ RunsInv' /\ RacedInv' /\ \A b \in Archives : ArchiveKept(b)
<1>1. \A b \in Archives : ArchiveKept(b)
  BY DEF ArchiveKept, Unpruned
<1>2. ChainsInv' /\ RacedInv'
  BY DEF WholeInv, ChainsInv, RacedInv, Rooted, Fixed, Unpruned
<1>3. Listed \subseteq Fixed /\ Fixed' = Fixed
  BY DEF Listed, Fixed, WholeInv, ChainsInv
<1>4. RunsInv'
  BY <1>3 DEF WholeInv, RunsInv, UnderWay, Unlisted
<1>. QED  BY <1>1, <1>2, <1>4

LEMMA WholePrune ==
  ASSUME WholeInv, NEW r \in Runners, PruneArchive(r)
  PROVE  ChainsInv' /\ RunsInv' /\ RacedInv' /\ \A b \in Archives : ArchiveKept(b)
<1>. DEFINE a == Newest(runner[r].todo)
            left == runner[r].todo \ {a}
<1>0. BackupTypeInv /\ runner[r].at = "prune"
  BY DEF WholeInv, PruneArchive, RunnerAt
<1>1. /\ \A b \in Archives : PrunedAs(b, a, left)
      /\ made' = made
  BY <1>0, PruneForm
<1>2. PICK x \in Runner :
         /\ \A q \in Runners : runner'[q] = IF q = r THEN x ELSE runner[q]
         /\ x = NoRunner \/ (x.at = "prune" /\ x.todo = left /\ left # {})
  BY <1>0, PruneForm
<1>3. runner[r].todo # {} /\ runner[r].todo \subseteq Fixed
  BY <1>0 DEF WholeInv, RunsInv
<1>4. a \in runner[r].todo /\ \A b \in runner[r].todo : b <= a
  BY <1>3, NewestFound DEF Fixed
<1>5. a \in Fixed /\ left \subseteq Fixed /\ left \subseteq runner[r].todo
  BY <1>3, <1>4
<1>. HIDE DEF a, left
<1>6. ASSUME NEW b \in Archives  PROVE ArchiveKept(b)
  BY <1>1, <1>5, <1>6 DEF PrunedAs, ArchiveKept, Unpruned
<1>7. ChainsInv'
  BY <1>1, <1>6, KeptChains DEF WholeInv
<1>8. Fixed \subseteq Fixed'
  BY <1>6, KeptFixed
<1>9. RacedInv'
  <2>. SUFFICES ASSUME NEW b \in Archives, Unpruned(b)', archive'[b].base # 0,
                       archive'[archive'[b].base].st = "gone"
                PROVE  archive'[b].raced \/ archive'[archive'[b].base].aged
    BY DEF RacedInv
  <2>. DEFINE c == archive[b].base
  <2>1. /\ Unpruned(b) /\ archive'[b].base = c
        /\ archive[b].raced => archive'[b].raced
        /\ b # a /\ b \notin left /\ archive[b].chain = archive[a].chain => archive'[b].raced
    BY <1>1 DEF PrunedAs, Unpruned
  <2>2. c \in Fixed /\ c < b /\ archive[c].chain = archive[b].chain
    BY <2>1 DEF WholeInv, ChainsInv, Rooted
  <2>. HIDE DEF c
  <2>3. CASE c = a
    <3>1. a \in Nat /\ b \in Nat /\ a < b
      BY <2>2, <2>3, ArchiveNumbers DEF Fixed
    <3>2. b \notin left /\ b # a
      BY <1>4, <1>5, <3>1
    <3>. QED  BY <2>1, <2>2, <2>3, <3>2
  <2>4. CASE c # a
    <3>1. archive'[c].st = archive[c].st /\ archive'[c].aged = archive[c].aged
      BY <1>1, <2>2, <2>4 DEF PrunedAs, Fixed
    <3>2. archive[c].st = "gone"
      BY <2>1, <3>1
    <3>3. archive[b].raced \/ archive[c].aged
      BY <2>1, <3>2 DEF WholeInv, RacedInv, c
    <3>. QED  BY <2>1, <3>1, <3>3
  <2>. QED  BY <2>3, <2>4
<1>10. RunsInv'
  <2>1. ASSUME NEW q \in Runners, UnderWay(q)'
        PROVE  UnderWay(q) /\ runner'[q] = runner[q]
    BY <1>2, <2>1, EmptyForms DEF UnderWay
  <2>2. ASSUME NEW q \in Runners, UnderWay(q)'
        PROVE  /\ Unlisted(archive'[runner'[q].archive])
               /\ runner'[q].at # "sidecar" <=> archive'[runner'[q].archive].st = "writing"
    <3>1. /\ runner[q].archive \in Archives /\ Unlisted(archive[runner[q].archive])
          /\ runner'[q] = runner[q] /\ UnderWay(q)
      BY <2>1, <2>2 DEF WholeInv, RunsInv, BackupTypeInv
    <3>2. runner[q].archive # a
      BY <1>5, <3>1 DEF Fixed, Unlisted
    <3>3. /\ archive'[runner[q].archive].st = archive[runner[q].archive].st
          /\ archive'[runner[q].archive].chain = archive[runner[q].archive].chain
      BY <1>1, <3>1, <3>2 DEF PrunedAs
    <3>. QED  BY <3>1, <3>3 DEF Unlisted, WholeInv, RunsInv
  <2>3. ASSUME NEW q \in Runners, runner'[q].at = "prune"
        PROVE  runner'[q].todo # {} /\ runner'[q].todo \subseteq Fixed'
    <3>1. CASE q = r
      BY <1>2, <1>5, <1>8, <2>3, <3>1, EmptyForms
    <3>2. CASE q # r
      BY <1>2, <1>8, <2>3, <3>2 DEF WholeInv, RunsInv
    <3>. QED  BY <3>1, <3>2
  <2>. QED  BY <2>1, <2>2, <2>3 DEF RunsInv, WholeInv
<1>. QED  BY <1>6, <1>7, <1>9, <1>10

\* pruneBackups takes an archive from under others, which it leaves a trace of (aged).
LEMMA WholeClean ==
  ASSUME WholeInv, NEW r \in Runners, CleanArchive(r)
  PROVE  ChainsInv' /\ RunsInv' /\ RacedInv' /\ \A b \in Archives : ArchiveKept(b)
<1>1. /\ \A b \in Archives : archive'[b] = archive[b] \/ CleanedAs(b)
      /\ made' = made
  BY CleanForm DEF WholeInv
<1>2. PICK x \in Runner :
         /\ \A q \in Runners : runner'[q] = IF q = r THEN x ELSE runner[q]
         /\ x.at \in {"off", "clean"}
  BY CleanForm DEF WholeInv
<1>3. ASSUME NEW b \in Archives  PROVE ArchiveKept(b)
  <2>1. CASE archive'[b] = archive[b]
    BY <2>1 DEF ArchiveKept, Unpruned
  <2>2. CASE archive[b].st = "file" /\ archive'[b] = Removed
    BY <2>2, RemovedForm DEF ArchiveKept, Unlisted
  <2>3. CASE CleanedAs(b) /\ archive[b].st = "listed"
    BY <2>3 DEF CleanedAs, ArchiveKept, Unpruned, Fixed, WholeInv, ChainsInv
  <2>. QED  BY <1>1, <2>1, <2>2, <2>3 DEF CleanedAs
<1>4. ChainsInv'
  BY <1>1, <1>3, KeptChains DEF WholeInv
<1>5. Fixed \subseteq Fixed'
  BY <1>3, KeptFixed
<1>6. RacedInv'
  <2>. SUFFICES ASSUME NEW b \in Archives, Unpruned(b)', archive'[b].base # 0,
                       archive'[archive'[b].base].st = "gone"
                PROVE  archive'[b].raced \/ archive'[archive'[b].base].aged
    BY DEF RacedInv
  <2>. DEFINE c == archive[b].base
  <2>1. Unpruned(b) /\ archive'[b].base = c /\ (archive[b].raced => archive'[b].raced)
    BY <1>3 DEF ArchiveKept, Unpruned, Fixed
  <2>2. c \in Fixed /\ c \in Archives
    BY <2>1 DEF WholeInv, ChainsInv, Rooted, Fixed
  <2>3. archive'[c] = archive[c] \/ archive'[c].aged
    BY <1>1, <2>2 DEF CleanedAs, Fixed
  <2>. QED  BY <2>1, <2>3 DEF WholeInv, RacedInv
<1>7. RunsInv'
  <2>1. ASSUME NEW q \in Runners, UnderWay(q)'
        PROVE  UnderWay(q) /\ runner'[q] = runner[q]
    BY <1>2, <2>1 DEF UnderWay
  <2>2. ASSUME NEW q \in Runners, UnderWay(q)'
        PROVE  /\ Unlisted(archive'[runner'[q].archive])
               /\ runner'[q].at # "sidecar" <=> archive'[runner'[q].archive].st = "writing"
    <3>. DEFINE a == runner[q].archive
    <3>1. /\ a \in Archives /\ Unlisted(archive[a]) /\ runner'[q] = runner[q] /\ UnderWay(q)
          /\ runner[q].at # "sidecar" <=> archive[a].st = "writing"
      BY <2>1, <2>2 DEF WholeInv, RunsInv, BackupTypeInv
    <3>2. archive'[a] = archive[a] \/ (archive[a].st = "file" /\ archive'[a] = Removed)
      BY <1>1, <3>1 DEF CleanedAs, Unlisted
    <3>3. Unlisted(archive'[a]) /\ (archive'[a].st = "writing" <=> archive[a].st = "writing")
      <4>. HIDE DEF a
      <4>. QED  BY <3>1, <3>2, RemovedForm DEF Unlisted, a
    <3>. QED  BY <3>1, <3>3 DEF Unlisted
  <2>3. \A q \in Runners : runner'[q].at = "prune" => runner'[q].todo # {} /\ runner'[q].todo \subseteq Fixed'
    BY <1>2, <1>5 DEF WholeInv, RunsInv
  <2>. QED  BY <2>1, <2>2, <2>3 DEF RunsInv, WholeInv
<1>. QED  BY <1>3, <1>4, <1>6, <1>7

LEMMA WholeCrash ==
  ASSUME WholeInv, BackupCrash
  PROVE  ChainsInv' /\ RunsInv' /\ RacedInv' /\ \A b \in Archives : ArchiveKept(b)
<1>1. /\ \A b \in Archives : archive'[b] = IF archive[b].st = "writing" THEN Removed ELSE archive[b]
      /\ runner' = [r \in Runners |-> NoRunner] /\ made' = made
  BY CrashForm DEF WholeInv
<1>3. \A b \in Archives : ArchiveKept(b)
  BY <1>1, RemovedForm DEF ArchiveKept, Unlisted, Unpruned
<1>4. ChainsInv'
  BY <1>1, <1>3, KeptChains DEF WholeInv
<1>5. \A b \in Fixed : archive'[b].st = archive[b].st
  BY <1>1 DEF Fixed
<1>6. RacedInv'
  BY <1>3, <1>5, SettledRaced DEF WholeInv
<1>7. \A r \in Runners : runner'[r].at = "off"
  BY <1>1, RunnersOff
<1>8. RunsInv'
  BY <1>7 DEF RunsInv, UnderWay
<1>. QED  BY <1>3, <1>4, <1>6, <1>8

LEMMA WholeStep == WholeInv /\ [BackupNext]_backupVars => WholeInv'
<1>. SUFFICES ASSUME WholeInv, [BackupNext]_backupVars  PROVE WholeInv'
  OBVIOUS
<1>0. BackupTypeInv'
  BY BackupTypeStep DEF WholeInv
<1>1. ASSUME NEW r \in Runners, NEW kind \in Kinds, StartBackup(r, kind)  PROVE WholeInv'
  BY <1>0, <1>1, WholeStart DEF WholeInv
<1>2. ASSUME NEW r \in Runners, HashImages(r) \/ StoreImages(r) \/ ListArchive(r)  PROVE WholeInv'
  BY <1>0, <1>2, WholeWork DEF WholeInv
<1>3. ASSUME NEW r \in Runners, ListChains(r)  PROVE WholeInv'
  <2>1. PICK x \in Runner :
          /\ \A q \in Runners : runner'[q] = IF q = r THEN x ELSE runner[q]
          /\ x = NoRunner \/ (x.at = "prune" /\ x.todo # {} /\ x.todo \subseteq Listed)
          /\ UNCHANGED <<archive, made>>
    BY <1>3, ListChainsForm DEF WholeInv
  <2>2. \A q \in Runners : \/ runner'[q] = runner[q]
                           \/ runner'[q].at \in {"off", "clean"}
                           \/ /\ runner'[q].at = "prune" /\ runner'[q].todo # {}
                              /\ runner'[q].todo \subseteq Listed
    BY <2>1, EmptyForms
  <2>. QED  BY <1>0, <2>1, <2>2, WholeIdle DEF WholeInv
<1>4. ASSUME NEW r \in Runners, PruneArchive(r) \/ CleanArchive(r)  PROVE WholeInv'
  BY <1>0, <1>4, WholePrune, WholeClean DEF WholeInv
<1>7. ASSUME NEW r \in Runners, OtherBackup(r)  PROVE WholeInv'
  <2>1. /\ \A q \in Runners : runner'[q] = runner[q] \/ runner'[q].at = "clean"
        /\ UNCHANGED <<archive, made>>
    BY <1>7, OtherForm DEF WholeInv
  <2>. QED  BY <1>0, <2>1, WholeIdle DEF WholeInv
<1>5. CASE UNCHANGED <<archive, made, runner>>
  BY <1>0, <1>5, WholeIdle DEF WholeInv
<1>6. CASE BackupCrash
  BY <1>0, <1>6, WholeCrash DEF WholeInv
<1>. QED  BY <1>1, <1>2, <1>3, <1>4, <1>5, <1>6, <1>7 DEF BackupNext, StartRestore, ExtractArchive,
                                                        TrimImages, EditImage, backupVars

LEMMA WholeBased == ChainsInv => Based(archive)
<1>. SUFFICES ASSUME ChainsInv, NEW a \in Archives, archive[a].kind # "full"
              PROVE  archive[a].base \in Archives /\ archive[a].base < a
  BY DEF Based
<1>1. Rooted(a)
  BY DEF ChainsInv
<1>. QED  BY <1>1 DEF Rooted, Fixed

LEMMA Whole == WholeInv => ChainsWhole
<1>. SUFFICES ASSUME WholeInv  PROVE ChainsWhole
  OBVIOUS
<1>. DEFINE there(a) == a \in Listed \/ archive[a].aged
            good(a) == (\A b \in ChainOf[a] : there(b)) \/ \E b \in ChainOf[a] : archive[b].raced
            bad == {a \in Archives : there(a) /\ ~good(a)}
<1>1. ChainsInv /\ RacedInv /\ Based(archive)
  BY WholeBased DEF WholeInv
<1>2. ASSUME NEW a \in Archives
      PROVE  ChainOf[a] = IF archive[a].kind = "full" \/ archive[a].base = 0 THEN {a}
                          ELSE {a} \cup ChainOf[archive[a].base]
  BY <1>1, ChainStep, ChainsNow
<1>3. ASSUME NEW a \in bad  PROVE \E b \in bad : b < a
  <2>1. a \in Archives /\ there(a) /\ ~good(a)
    OBVIOUS
  <2>2. ~(archive[a].kind = "full")
    <3>. SUFFICES ASSUME archive[a].kind = "full"  PROVE FALSE
      OBVIOUS
    <3>1. ChainOf[a] = {a}
      BY <1>2, <2>1
    <3>. QED  BY <2>1, <3>1
  <2>3. Rooted(a)
    BY <1>1, <2>1, <2>2 DEF ChainsInv
  <2>. DEFINE c == archive[a].base
  <2>4. c \in Fixed /\ c < a /\ c \in Archives
    BY <2>2, <2>3 DEF Rooted, Fixed
  <2>5. c # 0
    BY <2>4, ArchiveNumbers
  <2>6. ChainOf[a] = {a} \cup ChainOf[c]
    BY <1>2, <2>1, <2>2, <2>5
  <2>7. there(c)
    <3>1. Unpruned(a) /\ ~archive[a].raced
      BY <1>2, <2>1, <2>6 DEF Unpruned, Listed
    <3>2. archive[c].st = "gone" => archive[c].aged
      BY <1>1, <2>1, <2>5, <3>1 DEF RacedInv
    <3>. QED  BY <2>4, <3>2 DEF Fixed, Listed
  <2>. HIDE DEF there, c
  <2>8. ~good(c)
    BY <2>1, <2>6
  <2>. QED  BY <2>4, <2>7, <2>8
<1>4. bad \in SUBSET Archives
  OBVIOUS
<1>. HIDE DEF good, bad
<1>5. bad = {}
  BY <1>3, <1>4, NoneBad
<1>. QED  BY <1>5 DEF ChainsWhole, good, bad, Listed

\* pruneChains takes no archive from under one on the list, for any number of runs,
\* archives and images and any backup_keep, unless one of the chain was made while it
\* removed the chain: what else a chain misses are incrementals that pruneBackups took.
THEOREM ChainsWholeTheorem == BackupSpec => []ChainsWhole
BY WholeInit, WholeStep, Whole, PTL DEF BackupSpec

-----------------------------------------------------------------------------
(* Backups: what an archive stores. Unless it is torn it holds exactly the  *)
(* images that differ from its base's.                                      *)

\* The images that archive a has to store.
Differ(as, a) ==
  {i \in Images : /\ as[a].images[i] # 0
                  /\ as[a].base = 0 \/ as[as[a].base].images[i] # as[a].images[i]}
StoredWhole(as, a) ==
  \A i \in Images : as[a].stored[i] = IF i \in Differ(as, a) THEN as[a].images[i] ELSE 0
\* A run stores, and the file of an archive holds, all that changed, unless the archive is torn.
RunStored(r) ==
  LET a == runner[r].archive
  IN runner[r].at = "store" /\ ~archive[a].torn => runner[r].entries = Differ(archive, a)
ListStored(a) == archive[a].st \in {"file", "listed"} /\ ~archive[a].torn => StoredWhole(archive, a)
StoreInv == (\A r \in Runners : RunStored(r)) /\ \A a \in Archives : ListStored(a)

\* What stands keeps its images and whether it is torn.
FixedKept ==
  \A b \in Fixed : archive'[b].images = archive[b].images /\ archive'[b].torn = archive[b].torn

LEMMA DifferKept ==
  ASSUME ChainsInv, FixedKept, NEW a \in Archives, archive[a].chain # 0,
         archive'[a].images = archive[a].images, archive'[a].base = archive[a].base
  PROVE  Differ(archive', a) = Differ(archive, a)
<1>1. Rooted(a)
  BY DEF ChainsInv
<1>2. CASE archive[a].base = 0
  BY <1>2 DEF Differ
<1>3. CASE archive[a].base # 0
  <2>1. archive'[archive[a].base].images = archive[archive[a].base].images
    BY <1>1, <1>3 DEF Rooted, FixedKept
  <2>. QED  BY <2>1 DEF Differ
<1>. QED  BY <1>2, <1>3

LEMMA RunKept ==
  ASSUME WholeInv, FixedKept, NEW r \in Runners, RunStored(r), runner'[r] = runner[r],
         UnderWay(r) => archive'[runner[r].archive] = archive[runner[r].archive]
  PROVE  RunStored(r)'
<1>. DEFINE a == runner[r].archive
<1>1. CASE runner[r].at = "store"
  <2>1. /\ a \in Archives /\ archive'[a] = archive[a] /\ archive[a].st = "writing"
        /\ ChainsInv
    BY <1>1 DEF WholeInv, RunsInv, BackupTypeInv, UnderWay
  <2>2. archive[a].chain # 0
    BY <2>1 DEF ChainsInv
  <2>. HIDE DEF a
  <2>3. Differ(archive', a) = Differ(archive, a)
    BY <2>1, <2>2, DifferKept
  <2>4. runner'[r].archive = a /\ archive'[a].torn = archive[a].torn
    BY <2>1 DEF a
  <2>. QED  BY <2>1, <2>3, <2>4 DEF RunStored, a
<1>2. CASE runner[r].at # "store"
  BY <1>2 DEF RunStored
<1>. QED  BY <1>1, <1>2

LEMMA ListKept ==
  ASSUME ChainsInv, FixedKept, NEW a \in Archives, ListStored(a),
         archive'[a].st \in {"file", "listed"} => /\ archive[a].st \in {"file", "listed"}
                                                 /\ archive'[a].images = archive[a].images
                                                 /\ archive'[a].base = archive[a].base
                                                 /\ archive'[a].stored = archive[a].stored
                                                 /\ archive'[a].torn = archive[a].torn
  PROVE  ListStored(a)'
<1>. SUFFICES ASSUME archive'[a].st \in {"file", "listed"}, ~archive'[a].torn  PROVE StoredWhole(archive', a)
  BY DEF ListStored
<1>1. /\ archive[a].st \in {"file", "listed"} /\ archive'[a].images = archive[a].images
      /\ archive'[a].base = archive[a].base /\ archive'[a].stored = archive[a].stored /\ ~archive[a].torn
  OBVIOUS
<1>2. archive[a].chain # 0
  BY <1>1 DEF ChainsInv
<1>3. Differ(archive', a) = Differ(archive, a)
  BY <1>1, <1>2, DifferKept
<1>4. StoredWhole(archive, a)
  BY <1>1 DEF ListStored
<1>. QED  BY <1>1, <1>3, <1>4 DEF StoredWhole

LEMMA StoreInit == BackupInit => StoreInv
<1>. SUFFICES ASSUME BackupInit  PROVE StoreInv
  OBVIOUS
<1>1. archive = [a \in Archives |-> NoArchive] /\ runner = [r \in Runners |-> NoRunner]
  BY DEF BackupInit
<1>2. \A a \in Archives : archive[a].st = "none"
  BY <1>1 DEF NoArchive
<1>3. \A r \in Runners : runner[r].at = "off"
  BY <1>1, EmptyForms
<1>. QED  BY <1>2, <1>3 DEF StoreInv, RunStored, ListStored

\* Steps that begin, drop or leave archives: no run stores and none is written.
LEMMA StoreIdle ==
  ASSUME WholeInv, StoreInv, FixedKept,
         \A r \in Runners : runner'[r].at = "store" =>
           runner'[r] = runner[r] /\ archive'[runner[r].archive] = archive[runner[r].archive],
         \A a \in Archives : archive'[a].st \in {"file", "listed"} =>
           /\ archive[a].st \in {"file", "listed"} /\ archive'[a].images = archive[a].images
           /\ archive'[a].base = archive[a].base /\ archive'[a].stored = archive[a].stored
           /\ archive'[a].torn = archive[a].torn
  PROVE  StoreInv'
<1>1. ASSUME NEW r \in Runners  PROVE RunStored(r)'
  <2>1. CASE runner'[r].at = "store"
    BY <2>1, RunKept DEF StoreInv
  <2>2. CASE runner'[r].at # "store"
    BY <2>2 DEF RunStored
  <2>. QED  BY <2>1, <2>2
<1>2. ASSUME NEW a \in Archives  PROVE ListStored(a)'
  BY ListKept DEF StoreInv, WholeInv
<1>. QED  BY <1>1, <1>2 DEF StoreInv

LEMMA MovesKept ==
  ASSUME WholeInv, NEW r \in Runners, UnderWay(r), NEW y, NEW x, Moves(r, runner[r].archive, y, x)
  PROVE  /\ FixedKept
         /\ \A q \in Runners : q # r => /\ runner'[q] = runner[q]
                                        /\ UnderWay(q) => archive'[runner[q].archive] = archive[runner[q].archive]
<1>1. Unlisted(archive[runner[r].archive])
  BY DEF WholeInv, RunsInv
<1>2. FixedKept
  BY <1>1 DEF Moves, Fixed, FixedKept, Unlisted
<1>3. ASSUME NEW q \in Runners, q # r
      PROVE  /\ runner'[q] = runner[q]
             /\ UnderWay(q) => archive'[runner[q].archive] = archive[runner[q].archive]
  <2>1. UnderWay(q) => runner[q].archive \in Archives /\ runner[q].archive # runner[r].archive
    BY <1>3 DEF WholeInv, RunsInv, BackupTypeInv
  <2>. QED  BY <1>3, <2>1 DEF Moves
<1>. QED  BY <1>2, <1>3

LEMMA StoreFail ==
  ASSUME WholeInv, StoreInv, NEW r \in Runners, UnderWay(r),
         Moves(r, runner[r].archive, Removed, NoRunner)
  PROVE  StoreInv' /\ FixedKept
<1>1. /\ FixedKept
      /\ \A q \in Runners : q # r => /\ runner'[q] = runner[q]
                                     /\ UnderWay(q) => archive'[runner[q].archive] = archive[runner[q].archive]
  BY MovesKept
<1>2. runner'[r].at = "off" /\ \A a \in Archives : archive'[a] = archive[a] \/ archive'[a].st = "gone"
  BY EmptyForms DEF Moves
<1>. QED  BY <1>1, <1>2, StoreIdle DEF UnderWay

LEMMA StoreHash ==
  ASSUME WholeInv, StoreInv, NEW r \in Runners, HashImages(r)
  PROVE  StoreInv' /\ FixedKept
<1>. DEFINE a == runner[r].archive
<1>1. /\ UnderWay(r) /\ BackupTypeInv /\ a \in Archives /\ archive[a].st = "writing" /\ ChainsInv
  BY DEF HashImages, RunnerAt, UnderWay, WholeInv, RunsInv, BackupTypeInv
<1>2. PICK readable \in SUBSET Changed(a), y \in Archive, x \in Runner :
         /\ Moves(r, a, y, x) /\ SameArchive(y, a)
         /\ y.st = archive[a].st /\ y.images = images
         /\ y.torn = (readable # Changed(a))
         /\ x.at = "store" /\ x.archive = a /\ x.entries = readable
  BY <1>1, HashForm
<1>3. /\ FixedKept
      /\ \A q \in Runners : q # r => /\ runner'[q] = runner[q]
                                     /\ UnderWay(q) => archive'[runner[q].archive] = archive[runner[q].archive]
  BY <1>1, <1>2, MovesKept
<1>4. archive'[a] = y /\ runner'[r] = x /\ \A b \in Archives : b # a => archive'[b] = archive[b]
  BY <1>1, <1>2 DEF Moves
<1>. HIDE DEF a
<1>5. Differ(archive', a) = Changed(a)
  <2>1. Rooted(a)
    BY <1>1 DEF ChainsInv
  <2>2. archive'[a].base = archive[a].base /\ archive'[a].images = images
    BY <1>2, <1>4 DEF SameArchive
  <2>3. CASE archive[a].base = 0
    BY <2>2, <2>3 DEF Differ, Changed, a
  <2>4. CASE archive[a].base # 0
    <3>1. archive'[archive[a].base].images = archive[archive[a].base].images
      BY <1>3, <2>1, <2>4 DEF Rooted, FixedKept
    <3>. QED  BY <2>2, <3>1 DEF Differ, Changed, a
  <2>. QED  BY <2>3, <2>4
<1>6. RunStored(r)'
  <2>1. runner'[r].archive = a /\ runner'[r].at = "store" /\ runner'[r].entries = readable
    BY <1>2, <1>4
  <2>2. ~archive'[a].torn => readable = Changed(a)
    BY <1>2, <1>4
  <2>. QED  BY <1>5, <2>1, <2>2 DEF RunStored
<1>7. ASSUME NEW q \in Runners, q # r  PROVE RunStored(q)'
  BY <1>3, <1>7, RunKept DEF StoreInv
<1>8. ASSUME NEW b \in Archives  PROVE ListStored(b)'
  <2>1. CASE b = a
    BY <1>1, <1>2, <1>4, <2>1 DEF ListStored
  <2>2. CASE b # a
    BY <1>1, <1>3, <1>4, <2>2, ListKept DEF StoreInv
  <2>. QED  BY <2>1, <2>2
<1>. QED  BY <1>3, <1>6, <1>7, <1>8 DEF StoreInv

\* Storing under what was hashed: unless an image changed in between, what is stored is what differs.
LEMMA StoreStore ==
  ASSUME WholeInv, StoreInv, NEW r \in Runners, StoreImages(r)
  PROVE  StoreInv' /\ FixedKept
<1>. DEFINE a == runner[r].archive
            entries == runner[r].entries
<1>1. /\ UnderWay(r) /\ BackupTypeInv /\ a \in Archives /\ archive[a].st = "writing" /\ ChainsInv
      /\ runner[r].at = "store"
  BY DEF StoreImages, RunnerAt, UnderWay, WholeInv, RunsInv, BackupTypeInv
<1>2. CASE Moves(r, a, Removed, NoRunner)
  BY <1>1, <1>2, StoreFail
<1>3. CASE \E y \in Archive, x \in Runner :
              /\ Moves(r, a, y, x) /\ SameArchive(y, a)
              /\ y.st = "file"
              /\ y.images = archive[a].images
              /\ y.stored = [i \in Images |-> IF i \in entries THEN images[i] ELSE 0]
              /\ y.torn = (archive[a].torn \/ \E i \in entries : images[i] # archive[a].images[i])
              /\ x.at = "sidecar" /\ x.archive = a
  <2>1. PICK y \in Archive, x \in Runner :
              /\ Moves(r, a, y, x) /\ SameArchive(y, a)
              /\ y.st = "file"
              /\ y.images = archive[a].images
              /\ y.stored = [i \in Images |-> IF i \in entries THEN images[i] ELSE 0]
              /\ y.torn = (archive[a].torn \/ \E i \in entries : images[i] # archive[a].images[i])
              /\ x.at = "sidecar" /\ x.archive = a
    BY <1>3
  <2>2. /\ FixedKept
        /\ \A q \in Runners : q # r => /\ runner'[q] = runner[q]
                                       /\ UnderWay(q) => archive'[runner[q].archive] = archive[runner[q].archive]
    BY <1>1, <2>1, MovesKept
  <2>3. archive'[a] = y /\ runner'[r] = x /\ \A b \in Archives : b # a => archive'[b] = archive[b]
    BY <1>1, <2>1 DEF Moves
  <2>4. ~archive[a].torn => entries = Differ(archive, a)
    BY <1>1 DEF StoreInv, RunStored
  <2>5. archive[a].chain # 0
    BY <1>1 DEF ChainsInv
  <2>. HIDE DEF a, entries
  <2>6. Differ(archive', a) = Differ(archive, a)
    BY <1>1, <2>1, <2>2, <2>3, <2>5, DifferKept DEF SameArchive
  <2>7. ASSUME ~archive'[a].torn  PROVE StoredWhole(archive', a)
    <3>1. ~archive[a].torn /\ \A i \in entries : images[i] = archive[a].images[i]
      BY <2>1, <2>3, <2>7
    <3>2. archive'[a].images = archive[a].images
      BY <2>1, <2>3
    <3>3. \A i \in Images : archive'[a].stored[i] = IF i \in entries THEN images[i] ELSE 0
      BY <2>1, <2>3
    <3>4. \A i \in Images : i \in entries <=> i \in Differ(archive', a)
      BY <2>4, <2>6, <3>1
    <3>5. \A i \in Images : i \in entries => images[i] = archive'[a].images[i]
      BY <3>1, <3>2
    <3>. QED  BY <3>3, <3>4, <3>5 DEF StoredWhole
  <2>8. RunStored(r)'
    BY <2>1, <2>3 DEF RunStored
  <2>9. ASSUME NEW q \in Runners, q # r  PROVE RunStored(q)'
    BY <2>2, <2>9, RunKept DEF StoreInv
  <2>10. ASSUME NEW b \in Archives  PROVE ListStored(b)'
    <3>1. CASE b = a
      BY <2>7, <3>1 DEF ListStored
    <3>2. CASE b # a
      BY <1>1, <2>2, <2>3, <3>2, ListKept DEF StoreInv
    <3>. QED  BY <3>1, <3>2
  <2>. QED  BY <2>2, <2>8, <2>9, <2>10 DEF StoreInv
<1>. QED  BY <1>1, <1>2, <1>3, StoreForm, Zenon

LEMMA StoreList ==
  ASSUME WholeInv, StoreInv, NEW r \in Runners, ListArchive(r)
  PROVE  StoreInv' /\ FixedKept
<1>. DEFINE a == runner[r].archive
<1>1. /\ UnderWay(r) /\ BackupTypeInv /\ a \in Archives /\ Unlisted(archive[a]) /\ ChainsInv
      /\ runner[r].at = "sidecar"
  BY DEF ListArchive, RunnerAt, UnderWay, WholeInv, RunsInv, BackupTypeInv
<1>2. CASE Moves(r, a, Removed, NoRunner)
  BY <1>1, <1>2, StoreFail
<1>3. CASE \E y \in Archive, x \in Runner :
              /\ Moves(r, a, y, x) /\ SameArchive(y, a)
              /\ y.st = (IF archive[a].st = "file" THEN "listed" ELSE archive[a].st)
              /\ y.images = archive[a].images
              /\ y.stored = archive[a].stored
              /\ y.torn = archive[a].torn
              /\ x.at = "list" /\ x.archive = a
  <2>1. PICK y \in Archive, x \in Runner :
              /\ Moves(r, a, y, x) /\ SameArchive(y, a)
              /\ y.st = (IF archive[a].st = "file" THEN "listed" ELSE archive[a].st)
              /\ y.images = archive[a].images
              /\ y.stored = archive[a].stored
              /\ y.torn = archive[a].torn
              /\ x.at = "list" /\ x.archive = a
    BY <1>3
  <2>2. /\ FixedKept
        /\ \A q \in Runners : q # r => /\ runner'[q] = runner[q]
                                       /\ UnderWay(q) => archive'[runner[q].archive] = archive[runner[q].archive]
    BY <1>1, <2>1, MovesKept
  <2>3. archive'[a] = y /\ runner'[r] = x /\ \A b \in Archives : b # a => archive'[b] = archive[b]
    BY <1>1, <2>1 DEF Moves
  <2>. HIDE DEF a
  <2>8. RunStored(r)'
    BY <2>1, <2>3 DEF RunStored
  <2>9. ASSUME NEW q \in Runners, q # r  PROVE RunStored(q)'
    BY <2>2, <2>9, RunKept DEF StoreInv
  <2>10. ASSUME NEW b \in Archives  PROVE ListStored(b)'
    <3>1. CASE b = a
      <4>1. archive'[b].st \in {"file", "listed"} => archive[b].st \in {"file", "listed"}
        BY <2>1, <2>3, <3>1
      <4>2. /\ archive'[b].images = archive[b].images /\ archive'[b].base = archive[b].base
            /\ archive'[b].stored = archive[b].stored /\ archive'[b].torn = archive[b].torn
        BY <2>1, <2>3, <3>1 DEF SameArchive
      <4>. QED  BY <1>1, <2>2, <4>1, <4>2, ListKept DEF StoreInv
    <3>2. CASE b # a
      BY <1>1, <2>2, <2>3, <3>2, ListKept DEF StoreInv
    <3>. QED  BY <3>1, <3>2
  <2>. QED  BY <2>2, <2>8, <2>9, <2>10 DEF StoreInv
<1>. QED  BY <1>1, <1>2, <1>3, ListForm, Zenon

LEMMA StoreStart ==
  ASSUME WholeInv, StoreInv, NEW r \in Runners, NEW kind \in Kinds, StartBackup(r, kind)
  PROVE  StoreInv' /\ FixedKept
<1>. DEFINE n == made + 1
            y == Begun(n, kind)
            x == [NoRunner EXCEPT !.at = "hash", !.archive = n]
<1>0. BackupTypeOK /\ BackupTypeInv /\ archive \in [Archives -> Archive]
  BY DEF WholeInv, BackupTypeInv, BackupTypeOK
<1>1. /\ n \in Archives /\ y \in Archive
      /\ \A b \in Archives : archive'[b] = IF b = n THEN y ELSE archive[b]
  BY <1>0, StartForm, ArchiveWritten
<1>2. archive[n].st = "none"
  <2>1. n > made
    BY <1>0, BackupsAssumption DEF BackupTypeOK
  <2>. QED  BY <1>1, <2>1 DEF WholeInv, ChainsInv
<1>3. y.st = "writing"
  BY <1>0, <1>1 DEF Begun, Archive
<1>4. (\A q \in Runners : runner'[q] = IF q = r THEN x ELSE runner[q]) /\ x.at = "hash"
  <2>1. n \in 0 .. MaxArchives /\ Continue(r, x)
    BY <1>1, ArchiveNumbers DEF StartBackup
  <2>2. x \in Runner /\ x.at = "hash"
    BY <2>1, EmptyForms DEF NoRunner, Runner
  <2>. HIDE DEF x
  <2>. QED  BY <1>0, <2>1, <2>2, Continues
<1>. HIDE DEF n, y, x
<1>5. FixedKept
  BY <1>1, <1>2 DEF FixedKept, Fixed
<1>6. ASSUME NEW q \in Runners, runner'[q].at = "store"
      PROVE  runner'[q] = runner[q] /\ archive'[runner[q].archive] = archive[runner[q].archive]
  <2>1. runner'[q] = runner[q] /\ UnderWay(q)
    BY <1>4, <1>6 DEF UnderWay
  <2>2. runner[q].archive \in Archives /\ archive[runner[q].archive].st = "writing"
    BY <1>6, <2>1 DEF WholeInv, RunsInv, BackupTypeInv
  <2>. QED  BY <1>1, <1>2, <2>1, <2>2
<1>7. \A a \in Archives : archive'[a].st \in {"file", "listed"} => archive'[a] = archive[a]
  BY <1>1, <1>3
<1>. QED  BY <1>5, <1>6, <1>7, StoreIdle

LEMMA StorePrune ==
  ASSUME WholeInv, StoreInv, NEW r \in Runners, PruneArchive(r)
  PROVE  StoreInv' /\ FixedKept
<1>. DEFINE a == Newest(runner[r].todo)
            left == runner[r].todo \ {a}
<1>0. BackupTypeInv /\ runner[r].at = "prune"
  BY DEF WholeInv, PruneArchive, RunnerAt
<1>1. \A b \in Archives : PrunedAs(b, a, left)
  BY <1>0, PruneForm
<1>2. PICK x \in Runner :
         /\ \A q \in Runners : runner'[q] = IF q = r THEN x ELSE runner[q]
         /\ x = NoRunner \/ x.at = "prune"
  BY <1>0, PruneForm
<1>3. runner[r].todo # {} /\ runner[r].todo \subseteq Fixed
  BY <1>0 DEF WholeInv, RunsInv
<1>4. a \in Fixed
  BY <1>3, NewestFound DEF Fixed
<1>. HIDE DEF a, left
<1>5. FixedKept
  BY <1>1 DEF FixedKept, Fixed, PrunedAs
<1>6. ASSUME NEW q \in Runners  PROVE RunStored(q)'
  <2>1. CASE runner'[q].at = "store"
    <3>. DEFINE c == runner[q].archive
    <3>1. runner'[q] = runner[q] /\ UnderWay(q)
      BY <1>2, <2>1, EmptyForms DEF UnderWay
    <3>2. c \in Archives /\ archive[c].st = "writing" /\ archive[c].chain # 0
      BY <2>1, <3>1 DEF WholeInv, RunsInv, BackupTypeInv, ChainsInv
    <3>3. c # a
      BY <1>4, <3>2 DEF Fixed
    <3>4. /\ archive'[c].images = archive[c].images /\ archive'[c].base = archive[c].base
          /\ archive'[c].torn = archive[c].torn /\ archive'[c].stored = archive[c].stored
      BY <1>1, <3>2, <3>3 DEF PrunedAs
    <3>5. Differ(archive', c) = Differ(archive, c)
      BY <1>5, <3>2, <3>4, DifferKept DEF WholeInv
    <3>6. runner'[q].archive = c /\ RunStored(q)
      BY <3>1 DEF StoreInv
    <3>. HIDE DEF c
    <3>. QED  BY <3>1, <3>4, <3>5, <3>6 DEF RunStored, c
  <2>2. CASE runner'[q].at # "store"
    BY <2>2 DEF RunStored
  <2>. QED  BY <2>1, <2>2
<1>7. ASSUME NEW b \in Archives  PROVE ListStored(b)'
  <2>1. archive'[b].st \in {"file", "listed"} => /\ archive[b].st = archive'[b].st
                                                /\ archive'[b].images = archive[b].images
                                                /\ archive'[b].base = archive[b].base
                                                /\ archive'[b].stored = archive[b].stored
                                                /\ archive'[b].torn = archive[b].torn
    BY <1>1 DEF PrunedAs
  <2>. QED  BY <1>5, <2>1, ListKept DEF StoreInv, WholeInv
<1>. QED  BY <1>5, <1>6, <1>7 DEF StoreInv

LEMMA StoreClean ==
  ASSUME WholeInv, StoreInv, NEW r \in Runners, CleanArchive(r)
  PROVE  StoreInv' /\ FixedKept
<1>1. \A b \in Archives : archive'[b] = archive[b] \/ CleanedAs(b)
  BY CleanForm DEF WholeInv
<1>2. \A q \in Runners : runner'[q] = runner[q] \/ runner'[q].at \in {"off", "clean"}
  BY CleanForm DEF WholeInv
<1>3. FixedKept
  BY <1>1 DEF FixedKept, Fixed, CleanedAs
<1>4. ASSUME NEW q \in Runners, runner'[q].at = "store"
      PROVE  runner'[q] = runner[q] /\ archive'[runner[q].archive] = archive[runner[q].archive]
  <2>1. runner'[q] = runner[q] /\ UnderWay(q)
    BY <1>2, <1>4 DEF UnderWay
  <2>2. runner[q].archive \in Archives /\ archive[runner[q].archive].st = "writing"
    BY <1>4, <2>1 DEF WholeInv, RunsInv, BackupTypeInv
  <2>. QED  BY <1>1, <2>1, <2>2 DEF CleanedAs
<1>5. \A a \in Archives : archive'[a].st \in {"file", "listed"} => archive'[a] = archive[a]
  BY <1>1, RemovedForm DEF CleanedAs
<1>. QED  BY <1>3, <1>4, <1>5, StoreIdle

LEMMA StoreCrash ==
  ASSUME WholeInv, StoreInv, BackupCrash
  PROVE  StoreInv' /\ FixedKept
<1>1. /\ \A b \in Archives : archive'[b] = IF archive[b].st = "writing" THEN Removed ELSE archive[b]
      /\ runner' = [r \in Runners |-> NoRunner]
  BY CrashForm DEF WholeInv
<1>2. Removed.st = "gone"
  BY DEF Removed, NoArchive
<1>3. \A r \in Runners : runner'[r].at = "off"
  BY <1>1, RunnersOff
<1>4. FixedKept
  BY <1>1 DEF FixedKept, Fixed
<1>5. \A a \in Archives : archive'[a].st \in {"file", "listed"} => archive'[a] = archive[a]
  BY <1>1, <1>2
<1>. QED  BY <1>3, <1>4, <1>5, StoreIdle

LEMMA StoreStep ==
  ASSUME WholeInv, StoreInv, [BackupNext]_backupVars
  PROVE  StoreInv' /\ FixedKept
<1>1. ASSUME NEW r \in Runners, NEW kind \in Kinds, StartBackup(r, kind)  PROVE StoreInv' /\ FixedKept
  BY <1>1, StoreStart
<1>2. ASSUME NEW r \in Runners, HashImages(r) \/ StoreImages(r) \/ ListArchive(r)
      PROVE  StoreInv' /\ FixedKept
  BY <1>2, StoreHash, StoreStore, StoreList
<1>3. ASSUME archive' = archive,
             \A r \in Runners : runner'[r] = runner[r] \/ runner'[r].at \in {"off", "prune", "clean"}
      PROVE  StoreInv' /\ FixedKept
  <2>1. FixedKept
    BY <1>3 DEF FixedKept
  <2>. QED  BY <1>3, <2>1, StoreIdle
<1>4. ASSUME NEW r \in Runners, ListChains(r)  PROVE StoreInv' /\ FixedKept
  <2>1. PICK x \in Runner :
          /\ \A q \in Runners : runner'[q] = IF q = r THEN x ELSE runner[q]
          /\ x = NoRunner \/ x.at = "prune"
          /\ archive' = archive
    BY <1>4, ListChainsForm DEF WholeInv
  <2>. QED  BY <1>3, <2>1, EmptyForms
<1>5. ASSUME NEW r \in Runners, PruneArchive(r) \/ CleanArchive(r)  PROVE StoreInv' /\ FixedKept
  BY <1>5, StorePrune, StoreClean
<1>8. ASSUME NEW r \in Runners, OtherBackup(r)  PROVE StoreInv' /\ FixedKept
  <2>1. /\ \A q \in Runners : runner'[q] = runner[q] \/ runner'[q].at = "clean"
        /\ archive' = archive
    BY <1>8, OtherForm DEF WholeInv
  <2>. QED  BY <1>3, <2>1
<1>6. CASE UNCHANGED <<archive, runner>>
  BY <1>3, <1>6
<1>7. CASE BackupCrash
  BY <1>7, StoreCrash
<1>. QED  BY <1>1, <1>2, <1>4, <1>5, <1>6, <1>7, <1>8 DEF BackupNext, StartRestore, ExtractArchive,
                                                        TrimImages, EditImage, backupVars

-----------------------------------------------------------------------------
(* Backups: a restoration goes up the chain.                                *)

\* Image files are at least those of archive d, and the archives of a chain are not torn.
Extracted(d) == \A i \in Images : archive[d].images[i] # 0 => images[i] = archive[d].images[i]
Untorn(as, a) == \A b \in Chains(as)[a] : ~as[b].torn
\* A restoration has extracted nothing, or all of the chain up to an archive d.
RestoredTo(d) ==
  LET chain == Chains(archive)[restore.archive]
  IN /\ restore.todo = {a \in chain : d < a}
     /\ ~restore.touched /\ Untorn(archive, restore.archive) => Extracted(d)
RestoreInv ==
  /\ restore.archive = 0 => restore = NoRestore
  /\ restore.archive # 0 =>
       /\ restore.archive \in Fixed
       /\ \/ restore.todo = Chains(archive)[restore.archive]
          \/ \E d \in Chains(archive)[restore.archive] : RestoredTo(d)

LEMMA RestoreInit == BackupInit => RestoreInv
  BY RestoreForms DEF BackupInit, RestoreInv

\* What stands goes on standing, with its kind and base.
FixedStands ==
  \A b \in Fixed : b \in Fixed' /\ archive'[b].kind = archive[b].kind /\ archive'[b].base = archive[b].base

\* The chains of what stands stay, with their images.
LEMMA ChainsKept ==
  ASSUME WholeInv, WholeInv', FixedKept, FixedStands
  PROVE  /\ Fixed \subseteq Fixed'
         /\ \A a \in Fixed : /\ Chains(archive')[a] = Chains(archive)[a]
                             /\ Chains(archive)[a] \subseteq Fixed
                             /\ Untorn(archive', a) <=> Untorn(archive, a)
<1>1. Based(archive)
  BY WholeBased DEF WholeInv
<1>2. Based(archive')
  <2>1. (ChainsInv => Based(archive))'
    BY WholeBased, PTL
  <2>. QED  BY <2>1 DEF WholeInv, Based
<1>3. /\ Fixed \subseteq Fixed' /\ Fixed \in SUBSET Archives
      /\ \A b \in Fixed : archive[b].kind = archive'[b].kind /\ archive[b].base = archive'[b].base
  BY DEF Fixed, FixedStands
<1>4. \A a \in Fixed : archive[a].kind # "full" /\ archive[a].base # 0 => archive[a].base \in Fixed
  BY DEF Fixed, WholeInv, ChainsInv, Rooted
<1>5. \A a \in Fixed : Chains(archive')[a] = Chains(archive)[a] /\ Chains(archive)[a] \subseteq Fixed
  BY <1>1, <1>2, <1>3, <1>4, ChainsAgree
<1>6. ASSUME NEW a \in Fixed  PROVE Untorn(archive', a) <=> Untorn(archive, a)
  BY <1>5, <1>6 DEF Untorn, FixedKept
<1>. QED  BY <1>3, <1>5, <1>6

LEMMA RestoreKept ==
  ASSUME WholeInv, WholeInv', FixedKept, FixedStands, RestoreInv,
         UNCHANGED <<images, restore>>
  PROVE  RestoreInv'
<1>1. CASE restore.archive = 0
  BY <1>1 DEF RestoreInv
<1>2. CASE restore.archive # 0
  <2>. DEFINE a == restore.archive
  <2>1. a \in Fixed /\ restore'.archive = a /\ restore'.todo = restore.todo
        /\ restore'.touched = restore.touched
    BY <1>2 DEF RestoreInv
  <2>2. /\ Fixed \subseteq Fixed' /\ Chains(archive')[a] = Chains(archive)[a]
        /\ Chains(archive)[a] \subseteq Fixed
        /\ Untorn(archive', a) <=> Untorn(archive, a)
    BY <2>1, ChainsKept
  <2>3. ASSUME NEW d \in Chains(archive)[a], RestoredTo(d)
        PROVE  RestoredTo(d)'
    <3>1. archive'[d].images = archive[d].images
      BY <2>2 DEF FixedKept
    <3>2. Extracted(d) => Extracted(d)'
      BY <3>1 DEF Extracted
    <3>. QED  BY <2>1, <2>2, <2>3, <3>2 DEF RestoredTo
  <2>4. \/ restore.todo = Chains(archive)[a]
        \/ \E d \in Chains(archive)[a] : RestoredTo(d)
    BY <1>2 DEF RestoreInv
  <2>5. \/ restore'.todo = Chains(archive')[a]
        \/ \E d \in Chains(archive')[a] : RestoredTo(d)'
    BY <2>1, <2>2, <2>3, <2>4
  <2>. QED  BY <2>1, <2>2, <2>5 DEF RestoreInv
<1>. QED  BY <1>1, <1>2

LEMMA RestoreStart ==
  ASSUME WholeInv, NEW a \in Archives, StartRestore(a)
  PROVE  RestoreInv'
<1>1. /\ a \in Listed /\ restore' = [archive |-> a, todo |-> ChainOf[a], touched |-> FALSE]
      /\ archive' = archive
  BY DEF StartRestore, Resolvable
<1>2. a \in Fixed'
  BY <1>1 DEF Listed, Fixed, WholeInv, ChainsInv
<1>3. restore'.archive = a /\ restore'.todo = Chains(archive')[a]
  BY <1>1, ChainsNow
<1>4. a # 0
  BY ArchiveNumbers
<1>. QED  BY <1>2, <1>3, <1>4 DEF RestoreInv

LEMMA OldestFound ==
  ASSUME NEW as \in SUBSET Archives, as # {}
  PROVE  Oldest(as) \in as /\ \A b \in as : Oldest(as) <= b
<1>1. as \in SUBSET Nat
  BY ArchiveNumbers
<1>2. \E x \in as : \A y \in as : x <= y
  BY <1>1, Least
<1>. QED  BY <1>2 DEF Oldest

\* What extracting an intact archive leaves.
LEMMA Extracts ==
  ASSUME WholeInv, StoreInv, NEW a \in Listed, ~archive[a].torn,
         images' = [i \in Images |-> IF archive[a].stored[i] # 0 THEN archive[a].stored[i] ELSE images[i]],
         archive' = archive,
         archive[a].base # 0 => Extracted(archive[a].base)
  PROVE  Extracted(a)'
<1>1. a \in Archives /\ StoredWhole(archive, a)
  BY DEF Listed, StoreInv, ListStored
<1>. SUFFICES ASSUME NEW i \in Images, archive[a].images[i] # 0
              PROVE  images'[i] = archive[a].images[i]
  BY DEF Extracted
<1>2. images'[i] = IF archive[a].stored[i] # 0 THEN archive[a].stored[i] ELSE images[i]
  OBVIOUS
<1>3. archive[a].stored[i] = IF i \in Differ(archive, a) THEN archive[a].images[i] ELSE 0
  BY <1>1 DEF StoredWhole
<1>4. CASE i \in Differ(archive, a)
  BY <1>2, <1>3, <1>4
<1>5. CASE i \notin Differ(archive, a)
  <2>1. archive[a].base # 0 /\ archive[archive[a].base].images[i] = archive[a].images[i]
    BY <1>5 DEF Differ
  <2>2. images[i] = archive[a].images[i]
    BY <2>1 DEF Extracted
  <2>. QED  BY <1>2, <1>3, <1>5, <2>2
<1>. QED  BY <1>4, <1>5

LEMMA RestoreExtract ==
  ASSUME WholeInv, StoreInv, RestoreInv, ExtractArchive
  PROVE  RestoreInv'
<1>. DEFINE top == restore.archive
            chain == Chains(archive)[top]
            root(x) == archive[x].kind = "full" \/ archive[x].base = 0
<1>1. restore.todo # {} /\ archive' = archive /\ restore \in RestoreRec
  BY DEF ExtractArchive, WholeInv, BackupTypeInv, BackupTypeOK, RestoreRec
<1>2. CASE restore' = NoRestore
  BY <1>2, RestoreForms DEF RestoreInv
<1>3. ASSUME NEW a \in Listed, a = Oldest(restore.todo),
             images' = [i \in Images |-> IF archive[a].stored[i] # 0 THEN archive[a].stored[i] ELSE images[i]],
             restore' = [restore EXCEPT !.todo = restore.todo \ {a}]
      PROVE  RestoreInv'
  <2>1. restore.todo \in SUBSET Archives
    BY <1>1 DEF RestoreRec
  <2>2. a \in restore.todo /\ \A b \in restore.todo : a <= b
    BY <1>1, <1>3, <2>1, OldestFound
  <2>3. top # 0
    BY <1>1, RestoreForms DEF RestoreInv
  <2>4. top \in Fixed /\ top \in Archives
    BY <2>3 DEF RestoreInv, Fixed
  <2>5. /\ top \in chain /\ chain \subseteq Archives
        /\ \A x \in chain : ~root(x) => archive[x].base \in chain
        /\ \A x, y \in chain : y < x => ~root(x) /\ y <= archive[x].base
    <3>1. Descends(archive, top)
      BY <2>4, WholeBased, ChainsDescend DEF WholeInv
    <3>. QED  BY <3>1 DEF Descends
  <2>6. /\ restore'.archive = top /\ restore'.todo = restore.todo \ {a}
        /\ restore'.touched = restore.touched
    <3>1. restore.todo \ {a} \in SUBSET Archives
      BY <2>1
    <3>. QED  BY <1>1, <1>3, <3>1, RestoreForms
  <2>7. \/ restore.todo = chain
        \/ \E d \in chain : RestoredTo(d)
    BY <2>3 DEF RestoreInv
  <2>8. Rooted(a) /\ a \in Archives /\ archive[a].base \in 0 .. MaxArchives
    BY <1>3 DEF Listed, WholeInv, ChainsInv, BackupTypeInv, BackupTypeOK, Archive
  <2>9. a \in Nat /\ archive[a].base \in Nat /\ \A b \in Archives : b \in Nat
    BY <2>8, ArchiveNumbers, BackupsAssumption
  <2>10. ~root(a) => archive[a].base < a /\ archive[a].base \in Archives
    BY <2>8 DEF Rooted, Fixed
  <2>11. archive[a].base # 0 => ~root(a)
    BY <2>8 DEF Rooted
  <2>. HIDE DEF top, chain, root
  <2>12. ASSUME restore.todo = chain
         PROVE  /\ a \in chain /\ restore.todo \ {a} = {b \in chain : a < b}
                /\ archive[a].base = 0
    <3>1. a \in chain
      BY <2>2, <2>12
    <3>2. root(a)
      <4>. SUFFICES ASSUME ~root(a)  PROVE FALSE
        OBVIOUS
      <4>1. archive[a].base \in chain /\ archive[a].base < a
        BY <2>5, <2>10, <3>1
      <4>2. a <= archive[a].base
        BY <2>2, <2>12, <4>1
      <4>. QED  BY <2>9, <4>1, <4>2
    <3>3. \A b \in chain : b # a <=> a < b
      BY <2>2, <2>5, <2>9, <2>12
    <3>. QED  BY <2>11, <2>12, <3>1, <3>2, <3>3
  <2>13. ASSUME NEW d \in chain, RestoredTo(d)
         PROVE  /\ a \in chain /\ restore.todo \ {a} = {b \in chain : a < b}
                /\ archive[a].base = d
    <3>1. restore.todo = {b \in chain : d < b}
      BY <2>13 DEF RestoredTo, chain, top
    <3>2. a \in chain /\ d < a /\ d \in Nat
      BY <2>2, <2>5, <2>9, <3>1
    <3>3. ~root(a) /\ d <= archive[a].base
      BY <2>5, <3>2
    <3>4. archive[a].base \in chain /\ archive[a].base < a
      BY <2>5, <2>10, <3>2, <3>3
    <3>5. ~(d < archive[a].base)
      <4>. SUFFICES ASSUME d < archive[a].base  PROVE FALSE
        OBVIOUS
      <4>1. a <= archive[a].base
        BY <2>2, <3>1, <3>4
      <4>. QED  BY <2>9, <3>4, <4>1
    <3>6. archive[a].base = d
      BY <2>9, <3>2, <3>3, <3>5
    <3>7. ASSUME NEW b \in chain  PROVE (d < b /\ b # a) <=> a < b
      <4>1. b \in Nat /\ a \in Nat /\ d \in Nat /\ d < a
        BY <2>5, <2>9, <3>2
      <4>2. d < b => a <= b
        BY <2>2, <3>1
      <4>. QED  BY <4>1, <4>2
    <3>8. restore.todo \ {a} = {b \in chain : a < b}
      BY <3>1, <3>7
    <3>. QED  BY <3>2, <3>6, <3>8
  <2>14. a \in chain /\ restore.todo \ {a} = {b \in chain : a < b}
    BY <2>7, <2>12, <2>13
  <2>15. ASSUME ~restore.touched, Untorn(archive, top)  PROVE Extracted(a)'
    <3>1. ~archive[a].torn
      BY <2>14, <2>15 DEF Untorn, chain
    <3>2. archive[a].base # 0 => Extracted(archive[a].base)
      <4>1. CASE restore.todo = chain
        BY <2>12, <4>1
      <4>2. CASE \E d \in chain : RestoredTo(d)
        <5>1. PICK d \in chain : RestoredTo(d)
          BY <4>2
        <5>2. archive[a].base = d /\ Extracted(d)
          BY <2>13, <2>15, <5>1 DEF RestoredTo, top
        <5>. QED  BY <5>2
      <4>. QED  BY <2>7, <4>1, <4>2
    <3>. QED  BY <1>1, <1>3, <3>1, <3>2, Extracts
  <2>16. Chains(archive') = Chains(archive) /\ Fixed' = Fixed
    BY <1>1 DEF Fixed
  <2>17. top \in Fixed' /\ Chains(archive')[top] = chain
    BY <2>4, <2>16 DEF chain
  <2>18. \E d \in Chains(archive')[restore'.archive] : RestoredTo(d)'
    <3>1. restore'.todo = {b \in Chains(archive')[restore'.archive] : a < b}
      BY <2>6, <2>14, <2>17
    <3>2. Untorn(archive', restore'.archive) => Untorn(archive, top)
      BY <1>1, <2>6
    <3>3. RestoredTo(a)'
      BY <2>6, <2>15, <3>1, <3>2 DEF RestoredTo
    <3>. QED  BY <2>6, <2>14, <2>17, <3>3
  <2>. QED  BY <2>3, <2>6, <2>17, <2>18 DEF RestoreInv, top
<1>4. BackupTypeInv
  BY DEF WholeInv
<1>. QED  BY <1>2, <1>3, <1>4, ExtractForm

\* When nothing is left to extract, the last archive of the chain has been.
LEMMA AllExtracted ==
  ASSUME WholeInv, RestoreInv, restore.archive # 0, restore.todo = {}, ~restore.touched,
         Untorn(archive, restore.archive)
  PROVE  Extracted(restore.archive)
<1>. DEFINE top == restore.archive
            chain == Chains(archive)[top]
<1>1. top \in Archives
  BY DEF RestoreInv, Fixed
<1>2. top \in chain /\ chain \subseteq Archives /\ \A x \in chain : x <= top
  <2>1. Descends(archive, top)
    BY <1>1, WholeBased, ChainsDescend DEF WholeInv
  <2>. QED  BY <2>1 DEF Descends
<1>3. \E d \in chain : RestoredTo(d)
  BY <1>2 DEF RestoreInv
<1>. HIDE DEF top, chain
<1>4. PICK d \in chain : RestoredTo(d)
  BY <1>3
<1>5. restore.todo = {a \in chain : d < a} /\ Extracted(d)
  BY <1>4 DEF RestoredTo, chain, top
<1>6. ~(d < top) /\ d <= top /\ d \in Nat /\ top \in Nat
  BY <1>1, <1>2, <1>5, ArchiveNumbers
<1>7. d = top
  BY <1>6
<1>. QED  BY <1>5, <1>7 DEF top

LEMMA RestoreStep == WholeInv /\ StoreInv /\ RestoreInv /\ [BackupNext]_backupVars => RestoreInv'
<1>. SUFFICES ASSUME WholeInv, StoreInv, RestoreInv, [BackupNext]_backupVars  PROVE RestoreInv'
  OBVIOUS
<1>0. BackupTypeInv /\ WholeInv' /\ FixedKept
  BY WholeStep, StoreStep DEF WholeInv
<1>1. ASSUME \A b \in Archives : ArchiveKept(b), UNCHANGED <<images, restore>>  PROVE RestoreInv'
  <2>1. FixedStands
    BY <1>1, KeptFixed DEF FixedStands
  <2>. QED  BY <1>0, <1>1, <2>1, RestoreKept
<1>2. ASSUME UNCHANGED <<archive, images, restore>>  PROVE RestoreInv'
  BY <1>1, <1>2 DEF ArchiveKept, Unpruned
<1>3. ASSUME NEW r \in Runners, NEW kind \in Kinds, StartBackup(r, kind)  PROVE RestoreInv'
  <2>. DEFINE n == made + 1
  <2>1. /\ n \in Archives /\ \A b \in Archives : b # n => archive'[b] = archive[b]
        /\ UNCHANGED <<images, restore>>
    <3>1. /\ n \in Archives /\ Begun(n, kind) \in Archive
          /\ archive' = [archive EXCEPT ![n] = Begun(n, kind)]
      BY <1>0, <1>3, StartForm DEF BackupTypeInv
    <3>2. archive \in [Archives -> Archive]
      BY <1>0 DEF BackupTypeInv, BackupTypeOK
    <3>. QED  BY <1>3, <3>1, <3>2, ArchiveWritten DEF StartBackup
  <2>2. archive[n].st = "none"
    <3>1. n > made
      BY <1>0, BackupsAssumption DEF BackupTypeInv, BackupTypeOK
    <3>. QED  BY <2>1, <3>1 DEF WholeInv, ChainsInv
  <2>. HIDE DEF n
  <2>3. \A b \in Fixed : archive'[b] = archive[b]
    BY <2>1, <2>2 DEF Fixed
  <2>4. FixedStands
    BY <2>3 DEF Fixed, FixedStands
  <2>. QED  BY <1>0, <2>1, <2>4, RestoreKept
<1>4. ASSUME NEW r \in Runners, HashImages(r) \/ StoreImages(r) \/ ListArchive(r)  PROVE RestoreInv'
  BY <1>1, <1>4, WholeWork DEF HashImages, StoreImages, ListArchive
<1>5. ASSUME NEW r \in Runners, ListChains(r) \/ OtherBackup(r)  PROVE RestoreInv'
  BY <1>2, <1>5 DEF ListChains, OtherBackup
<1>6. ASSUME NEW r \in Runners, PruneArchive(r) \/ CleanArchive(r)  PROVE RestoreInv'
  BY <1>1, <1>6, WholePrune, WholeClean DEF PruneArchive, CleanArchive
<1>7. ASSUME NEW a \in Archives, StartRestore(a)  PROVE RestoreInv'
  BY <1>7, RestoreStart
<1>8. CASE ExtractArchive
  BY <1>8, RestoreExtract
<1>9. ASSUME restore' = NoRestore  PROVE RestoreInv'
  BY <1>9, RestoreForms DEF RestoreInv
<1>10. ASSUME NEW i \in Images, EditImage(i)  PROVE RestoreInv'
  <2>1. /\ archive' = archive
        /\ \/ restore = NoRestore /\ restore' = restore
           \/ restore'.archive = restore.archive /\ restore'.todo = restore.todo /\ restore'.touched
    BY <1>0, <1>10, EditForm
  <2>2. CASE restore = NoRestore /\ restore' = restore
    BY <1>9, <2>2
  <2>3. CASE restore'.archive = restore.archive /\ restore'.todo = restore.todo /\ restore'.touched
    <3>0. restore.archive # 0
      <4>1. restore' # NoRestore
        BY <2>3 DEF NoRestore
      <4>2. restore = NoRestore => restore' = restore
        BY <1>10 DEF EditImage
      <4>3. restore # NoRestore
        BY <4>1, <4>2
      <4>. QED  BY <4>3 DEF RestoreInv
    <3>1. Fixed' = Fixed
      BY <2>1 DEF Fixed
    <3>2. \A d \in Chains(archive)[restore.archive] : RestoredTo(d) => RestoredTo(d)'
      BY <2>1, <2>3 DEF RestoredTo
    <3>. QED  BY <2>1, <2>3, <3>0, <3>1, <3>2 DEF RestoreInv
  <2>. QED  BY <2>1, <2>2, <2>3
<1>11. CASE BackupCrash
  BY <1>9, <1>11 DEF BackupCrash
<1>12. CASE UNCHANGED backupVars
  BY <1>2, <1>12 DEF backupVars
<1>. QED  BY <1>3, <1>4, <1>5, <1>6, <1>7, <1>8, <1>9, <1>10, <1>11, <1>12 DEF BackupNext, TrimImages

LEMMA Exact ==
  ASSUME WholeInv, RestoreInv, TrimImages, ~restore.touched,
         \A a \in ChainOf[restore.archive] : ~archive[a].torn
  PROVE  images' = archive[restore.archive].images
<1>. DEFINE top == restore.archive
<1>1. /\ top # 0 /\ restore.todo = {}
      /\ images' = [i \in Images |-> IF archive[top].images[i] = 0 THEN 0 ELSE images[i]]
  BY DEF TrimImages
<1>2. Untorn(archive, top)
  BY ChainsNow DEF Untorn
<1>3. Extracted(top)
  BY <1>1, <1>2, AllExtracted
<1>4. archive[top].images \in [Images -> Contents]
  BY <1>1 DEF RestoreInv, Fixed, WholeInv, BackupTypeInv, BackupTypeOK, Archive
<1>. HIDE DEF top
<1>5. \A i \in Images : images'[i] = archive[top].images[i]
  BY <1>1, <1>3 DEF Extracted
<1>6. images' = [i \in Images |-> images'[i]]
  BY <1>1
<1>. QED  BY <1>4, <1>5, <1>6 DEF top

\* A restoration that nothing disturbs leaves exactly the images of the manifest,
\* for chains of any length and kinds, as restoreChain promises.
THEOREM RestoreExactTheorem == BackupSpec => RestoreExact
<1>. DEFINE Inv == WholeInv /\ StoreInv /\ RestoreInv
            Act == (TrimImages /\ ~restore.touched /\ \A a \in ChainOf[restore.archive] : ~archive[a].torn)
                     => images' = archive[restore.archive].images
<1>1. BackupInit => Inv
  BY WholeInit, StoreInit, RestoreInit
<1>2. Inv /\ [BackupNext]_backupVars => Inv'
  BY WholeStep, StoreStep, RestoreStep
<1>3. Inv /\ [BackupNext]_backupVars => [Act]_backupVars
  BY Exact
<1>4. BackupSpec => [][Act]_backupVars
  <2>. HIDE DEF Inv, Act
  <2>. QED  BY <1>1, <1>2, <1>3, PTL DEF BackupSpec
<1>. QED  BY <1>4 DEF RestoreExact

-----------------------------------------------------------------------------
(* The four parts side by side, as the run checks them.                    *)

\* Beside the other three, each part behaves as it does alone, so what is proved
\* of Events, Feeds, Board and Backups holds of them together.
THEOREM ContentParts == ContentSpec => EvSpec /\ FeedSpec /\ BoardSpec /\ BackupSpec
<1>1. ContentInit => EvInit /\ FeedInit /\ BoardInit /\ BackupInit
  BY DEF ContentInit
<1>2. [ContentNext]_<<part, evVars, feedVars, boardVars, backupVars>>
        => [EvNext]_evVars /\ [FeedNext]_feedVars /\ [BoardNext]_boardVars /\ [BackupNext]_backupVars
  BY DEF ContentNext
<1>. QED  BY <1>1, <1>2, PTL DEF ContentSpec, EvSpec, FeedSpec, BoardSpec, BackupSpec

\* Every variable of every part keeps the type its tables and handlers give it.
THEOREM ContentTypeCorrect == ContentSpec => []ContentTypeOK
<1>1. EvTypeOK /\ FeedTypeOK /\ BoardTypeOK /\ BackupTypeOK => ContentTypeOK
  BY DEF ContentTypeOK
<1>. QED  BY <1>1, ContentParts, EvTypeCorrect, FeedTypeCorrect, BoardTypeCorrect, BackupTypeCorrect, PTL
=============================================================================
