------------------------------ MODULE BoardProofs ------------------------------
(* Machine-checked proofs about Board, for every value of its constants. *)
EXTENDS Board, FiniteSetTheorems, TLAPS

-----------------------------------------------------------------------------
(* Types, and what a request holds at which step.                           *)

WithLetter == {"discard", "spend", "mint"}
WithPicture == {"save", "unreserve", "delete row", "remove file"}
WithPost == {"verify", "update", "unlink", "wipe", "reserve", "write"}
GuestShape(x) ==
  /\ x.at \in WithLetter <=> x.letter # NoLetter
  /\ x.at \in WithPicture <=> x.picture # NoPicture
  /\ x.at \in WithPost => x.post # NoPost
BoardTypeInv == BoardTypeOK /\ \A g \in Guests : GuestShape(guest[g])
GuestSound(x) == x \in Guest /\ GuestShape(x)

LEMMA AwaySound ==
  /\ GuestSound(Away) /\ Away.at = "away" /\ Away.letter = NoLetter /\ Away.picture = NoPicture
  /\ Away.post = NoPost /\ ~Away.outrun
  BY BoardAssumption DEF GuestSound, Away, Guest, BoardSteps, GuestShape, WithLetter, WithPicture, WithPost

LEMMA GuestFields ==
  ASSUME NEW x \in Guest
  PROVE  /\ x.at \in BoardSteps /\ x.by \in SUBSET Identities /\ x.cat \in Categories
         /\ x.post \in Posts \cup {NoPost} /\ x.picture \in Pictures \cup {NoPicture}
         /\ x.letter \in Letters \cup {NoLetter} /\ x.outrun \in BOOLEAN
  BY DEF Guest

LEMMA Turned ==
  ASSUME BoardTypeInv, NEW g \in Guests, NEW step, GuestSound(step), Turns(g, step)
  PROVE  /\ guest' \in [Guests -> Guest] /\ \A x \in Guests : GuestShape(guest'[x])
         /\ guest'[g] = step
         /\ \A x \in Guests \ {g} : guest'[x] = guest[x]
  BY DEF BoardTypeInv, BoardTypeOK, Turns, GuestSound

LEMMA Visited ==
  ASSUME BoardTypeInv, NEW g \in Guests, NEW step, Visits(g, step)
  PROVE  Turns(g, step) /\ guest[g] = Away /\ visits' \in 0 .. MaxVisits
  BY BoardAssumption DEF BoardTypeInv, BoardTypeOK, Visits, Turns

\* Writing a post outruns whoever has counted.
LEMMA Wrote ==
  ASSUME BoardTypeInv, NEW g \in Guests, WritesPost(g)
  PROVE  /\ guest' \in [Guests -> Guest] /\ \A x \in Guests : GuestShape(guest'[x])
         /\ guest'[g] = Away /\ crossed' = (crossed \/ guest[g].outrun) /\ crossed' \in BOOLEAN
         /\ \A x \in Guests \ {g} :
              /\ guest'[x].at = guest[x].at /\ guest'[x].letter = guest[x].letter
              /\ guest'[x].picture = guest[x].picture /\ guest'[x].post = guest[x].post
              /\ guest[x].at \in {"insert", "update"} => guest'[x].outrun
<1>a. guest \in [Guests -> Guest] /\ \A x \in Guests : guest[x] \in Guest /\ GuestShape(guest[x])
  BY DEF BoardTypeInv, BoardTypeOK
<1>1. guest'[g] = Away /\ crossed' = (crossed \/ guest[g].outrun)
  BY DEF WritesPost
<1>2. ASSUME NEW x \in Guests, x # g
      PROVE  /\ GuestSound(guest'[x])
             /\ guest'[x].at = guest[x].at /\ guest'[x].letter = guest[x].letter
             /\ guest'[x].picture = guest[x].picture /\ guest'[x].post = guest[x].post
             /\ guest[x].at \in {"insert", "update"} => guest'[x].outrun
  <2>1. guest'[x] = [guest[x] EXCEPT !.outrun = @ \/ guest[x].at \in {"insert", "update"}]
    BY <1>2 DEF WritesPost
  <2>2. guest[x] \in Guest /\ GuestShape(guest[x])
        /\ (guest[x].outrun \/ guest[x].at \in {"insert", "update"}) \in BOOLEAN
    BY <1>a DEF Guest
  <2>3. /\ guest'[x] \in Guest
        /\ guest'[x].at = guest[x].at /\ guest'[x].letter = guest[x].letter
        /\ guest'[x].picture = guest[x].picture /\ guest'[x].post = guest[x].post
        /\ guest[x].at \in {"insert", "update"} => guest'[x].outrun
    BY <2>1, <2>2 DEF Guest
  <2> QED
    BY <2>2, <2>3 DEF GuestSound, GuestShape
<1>3. guest' \in [Guests -> Guest] /\ \A x \in Guests : GuestShape(guest'[x])
  <2>1. guest' = [x \in Guests |-> guest'[x]]
    BY DEF WritesPost
  <2> QED
    BY <1>1, <1>2, <2>1, AwaySound DEF GuestSound
<1>4. crossed' \in BOOLEAN
  BY <1>1, <1>a DEF BoardTypeInv, BoardTypeOK, Guest
<1> QED
  BY <1>1, <1>2, <1>3, <1>4

\* The steps that a request begins with, and those it goes on with.
LEMMA VisitSteps ==
  /\ \A by \in SUBSET Identities, cat \in Categories :
       GuestSound([Away EXCEPT !.at = "insert", !.by = by, !.cat = cat])
  /\ \A at \in {"verify", "unlink", "reserve", "write"}, p \in Posts :
       GuestSound([Away EXCEPT !.at = at, !.post = p])
  /\ \A p \in Posts, cat \in Categories :
       GuestSound([Away EXCEPT !.at = "update", !.post = p, !.cat = cat])
  /\ \A i \in Pictures : GuestSound([Away EXCEPT !.at = "delete row", !.picture = i])
  /\ \A l \in Letters, at \in {"discard", "spend"} :
       GuestSound([Away EXCEPT !.letter = l, !.at = at])
<1> USE BoardAssumption DEF GuestSound, Away, Guest, BoardSteps, GuestShape, WithLetter, WithPicture, WithPost
<1>1. ASSUME NEW by \in SUBSET Identities, NEW cat \in Categories
      PROVE  GuestSound([Away EXCEPT !.at = "insert", !.by = by, !.cat = cat])
  OBVIOUS
<1>2. ASSUME NEW at \in {"verify", "unlink", "reserve", "write"}, NEW p \in Posts
      PROVE  GuestSound([Away EXCEPT !.at = at, !.post = p])
  OBVIOUS
<1>3. ASSUME NEW p \in Posts, NEW cat \in Categories
      PROVE  GuestSound([Away EXCEPT !.at = "update", !.post = p, !.cat = cat])
  OBVIOUS
<1>4. ASSUME NEW i \in Pictures PROVE GuestSound([Away EXCEPT !.at = "delete row", !.picture = i])
  OBVIOUS
<1>5. ASSUME NEW l \in Letters, NEW at \in {"discard", "spend"}
      PROVE  GuestSound([Away EXCEPT !.letter = l, !.at = at])
  OBVIOUS
<1> QED
  BY <1>1, <1>2, <1>3, <1>4, <1>5

LEMMA TurnSteps ==
  ASSUME NEW x, GuestSound(x)
  PROVE  /\ x.at = "unlink" => GuestSound([x EXCEPT !.at = "wipe"])
         /\ \A i \in Pictures : x.at = "reserve" => GuestSound([x EXCEPT !.at = "save", !.picture = i])
         /\ x.at = "save" => GuestSound([x EXCEPT !.at = "unreserve"])
         /\ x.at = "delete row" => GuestSound([x EXCEPT !.at = "remove file"])
         /\ x.at = "spend" => GuestSound([x EXCEPT !.at = "mint"])
<1> USE BoardAssumption DEF GuestSound, Guest, BoardSteps, GuestShape, WithLetter, WithPicture, WithPost
<1>1. x.at = "unlink" => GuestSound([x EXCEPT !.at = "wipe"])
  OBVIOUS
<1>2. ASSUME NEW i \in Pictures, x.at = "reserve" PROVE GuestSound([x EXCEPT !.at = "save", !.picture = i])
  BY <1>2
<1>3. x.at = "save" => GuestSound([x EXCEPT !.at = "unreserve"])
  OBVIOUS
<1>4. x.at = "delete row" => GuestSound([x EXCEPT !.at = "remove file"])
  OBVIOUS
<1>5. x.at = "spend" => GuestSound([x EXCEPT !.at = "mint"])
  OBVIOUS
<1> QED
  BY <1>1, <1>2, <1>3, <1>4, <1>5

\* The fields of the tables.
LEMMA RowFields ==
  ASSUME BoardTypeOK
  PROVE  /\ \A p \in Posts : posts[p] \in Post
         /\ \A i \in Pictures : pictures[i] \in Picture
         /\ \A l \in Letters : letters[l] \in Letter
         /\ \A g \in Guests : guest[g] \in Guest
  BY DEF BoardTypeOK

LEMMA BoardTypeInit == BoardInit => BoardTypeInv
<1> SUFFICES ASSUME BoardInit PROVE BoardTypeInv
  OBVIOUS
<1>1. posts \in [Posts -> Post] /\ pictures \in [Pictures -> Picture] /\ letters \in [Letters -> Letter]
  BY BoardAssumption DEF BoardInit, Post, Picture, Letter
<1>2. guest \in [Guests -> Guest] /\ \A g \in Guests : GuestShape(guest[g])
  BY AwaySound DEF BoardInit, GuestSound
<1>3. visits \in 0 .. MaxVisits
  BY BoardAssumption DEF BoardInit
<1>4. crossed \in BOOLEAN /\ strays \subseteq Pictures
  BY DEF BoardInit
<1>5. served \in [Letters -> Nat]
  BY DEF BoardInit
<1> QED
  BY <1>1, <1>2, <1>3, <1>4, <1>5 DEF BoardTypeInv, BoardTypeOK

\* The variables but for the requests.
Tables ==
  /\ posts \in [Posts -> Post] /\ pictures \in [Pictures -> Picture] /\ letters \in [Letters -> Letter]
  /\ visits \in 0 .. MaxVisits /\ crossed \in BOOLEAN /\ strays \subseteq Pictures
  /\ served \in [Letters -> Nat]

LEMMA TypeTurn ==
  ASSUME BoardTypeInv, NEW g \in Guests, NEW step, GuestSound(step), Turns(g, step), Tables'
  PROVE  BoardTypeInv'
  BY Turned DEF BoardTypeInv, BoardTypeOK, Tables

LEMMA TypeVisit ==
  ASSUME BoardTypeInv, NEW g \in Guests, NEW step, GuestSound(step), Visits(g, step),
         UNCHANGED <<posts, pictures, letters, crossed, strays, served>>
  PROVE  BoardTypeInv'
  BY Visited, TypeTurn DEF BoardTypeInv, BoardTypeOK, Tables

LEMMA TypeWrote ==
  ASSUME BoardTypeInv, NEW g \in Guests, WritesPost(g), posts' \in [Posts -> Post],
         UNCHANGED <<pictures, letters, visits, strays, served>>
  PROVE  BoardTypeInv'
  BY Wrote DEF BoardTypeInv, BoardTypeOK

\* Deleting posts takes their pictures and replies along.
LEMMA DeletedTypes ==
  ASSUME BoardTypeOK, NEW ps, Deleted(ps)
  PROVE  /\ posts' \in [Posts -> Post] /\ pictures' \in [Pictures -> Picture]
         /\ letters' \in [Letters -> Letter]
<1>1. \A p \in Posts : [posts[p] EXCEPT !.st = "gone"] \in Post /\ posts[p] \in Post
  BY RowFields DEF Post
<1>2. \A i \in Pictures : [pictures[i] EXCEPT !.row = "gone"] \in Picture /\ pictures[i] \in Picture
  BY RowFields DEF Picture
<1>3. \A l \in Letters : [letters[l] EXCEPT !.st = "gone"] \in Letter /\ letters[l] \in Letter
  BY RowFields DEF Letter
<1>4. posts' \in [Posts -> Post]
  BY <1>1 DEF Deleted
<1>5. pictures' \in [Pictures -> Picture]
  BY <1>2 DEF Deleted
<1>6. letters' \in [Letters -> Letter]
  BY <1>3 DEF Deleted
<1> QED
  BY <1>4, <1>5, <1>6

LEMMA BoardTypeStep == BoardTypeInv /\ [BoardNext]_boardVars => BoardTypeInv'
<1> SUFFICES ASSUME BoardTypeInv, [BoardNext]_boardVars PROVE BoardTypeInv'
  OBVIOUS
<1>a. Tables /\ BoardTypeOK
  BY DEF BoardTypeInv, BoardTypeOK, Tables
<1>b. \A g \in Guests : guest[g] \in Guest /\ GuestShape(guest[g]) /\ GuestSound(guest[g])
  BY DEF BoardTypeInv, BoardTypeOK, GuestSound
<1>c. \A g \in Guests :
        /\ guest[g].at \in WithLetter => guest[g].letter \in Letters
        /\ guest[g].at \in WithPicture => guest[g].picture \in Pictures
        /\ guest[g].at \in WithPost => guest[g].post \in Posts
  BY <1>b, GuestFields DEF GuestShape
<1>d. /\ \A p \in Posts : posts[p] \in Post
      /\ \A i \in Pictures : pictures[i] \in Picture
      /\ \A l \in Letters : letters[l] \in Letter
  BY <1>a, RowFields
<1>1. ASSUME NEW g \in Guests, NEW by \in Owner, NEW cat \in Categories, CheckPost(g, by, cat)
      PROVE  BoardTypeInv'
  <2>1. by \in SUBSET Identities
    BY DEF Owner
  <2> QED
    BY <1>1, <2>1, VisitSteps, TypeVisit DEF CheckPost
<1>2. ASSUME NEW g \in Guests, NEW p \in Posts, InsertPost(g, p) PROVE BoardTypeInv'
  <2>1. posts' \in [Posts -> Post]
    <3>1. PICK sure \in BOOLEAN :
            posts' = [posts EXCEPT ![p] = [st |-> "there", by |-> guest[g].by, cat |-> guest[g].cat,
                                           verified |-> sure, over |-> FALSE]]
      BY <1>2 DEF InsertPost
    <3>2. [st |-> "there", by |-> guest[g].by, cat |-> guest[g].cat, verified |-> sure, over |-> FALSE] \in Post
      BY <1>b, GuestFields DEF Post
    <3> QED
      BY <1>a, <3>1, <3>2 DEF Tables
  <2> QED
    BY <1>2, <2>1, TypeWrote DEF InsertPost
<1>3. ASSUME NEW g \in Guests, NEW p \in Posts, OpenManagePage(g, p) \/ DeletePost(g, p) \/ CheckUpload(g, p)
                                                \/ WriteReply(g, p)
      PROVE  BoardTypeInv'
  <2>1. /\ \E at \in {"verify", "unlink", "reserve", "write"} : Visits(g, [Away EXCEPT !.at = at, !.post = p])
        /\ UNCHANGED <<posts, pictures, letters, crossed, strays, served>>
    BY <1>3 DEF OpenManagePage, DeletePost, CheckUpload, WriteReply
  <2> QED
    BY <2>1, VisitSteps, TypeVisit
<1>4. ASSUME NEW g \in Guests, NEW p \in Posts, NEW cat \in Categories, ReplacePost(g, p, cat) PROVE BoardTypeInv'
  BY <1>4, VisitSteps, TypeVisit DEF ReplacePost
<1>5. ASSUME NEW g \in Guests, NEW p \in Posts, PatchPost(g, p) PROVE BoardTypeInv'
  <2>1. posts[p].cat \in Categories
    BY <1>d DEF Post
  <2> QED
    BY <1>5, <2>1, VisitSteps, TypeVisit DEF PatchPost
<1>6. ASSUME NEW g \in Guests, VerifyPost(g) PROVE BoardTypeInv'
  <2>1. posts' \in [Posts -> Post]
    BY <1>6, <1>a, <1>c, <1>d DEF VerifyPost, Tables, WithPost, Post
  <2>2. Tables'
    BY <1>6, <1>a, <2>1 DEF VerifyPost, Tables
  <2> QED
    BY <1>6, <2>2, AwaySound, TypeTurn DEF VerifyPost
<1>7. ASSUME NEW g \in Guests, UpdatePost(g) PROVE BoardTypeInv'
  <2>1. CASE Posted(guest[g].post) /\ posts[guest[g].post].cat # guest[g].cat
    <3>1. guest[g].cat \in Categories
      BY <1>b, GuestFields
    <3>2. posts' \in [Posts -> Post]
      BY <1>7, <1>a, <1>c, <1>d, <2>1, <3>1 DEF UpdatePost, Tables, WithPost, Post
    <3> QED
      BY <1>7, <2>1, <3>2, TypeWrote DEF UpdatePost
  <2>2. CASE ~(Posted(guest[g].post) /\ posts[guest[g].post].cat # guest[g].cat)
    <3>1. Turns(g, Away) /\ UNCHANGED <<posts, crossed, pictures, letters, visits, strays, served>>
      BY <1>7, <2>2 DEF UpdatePost
    <3>2. Tables'
      BY <1>a, <3>1 DEF Tables
    <3> QED
      BY <3>1, <3>2, AwaySound, TypeTurn
  <2> QED
    BY <2>1, <2>2
<1>8. ASSUME NEW g \in Guests, UnlinkPictures(g) PROVE BoardTypeInv'
  <2>1. \A i \in Pictures : [pictures[i] EXCEPT !.file = FALSE] \in Picture
    BY <1>d DEF Picture
  <2>2. pictures' \in [Pictures -> Picture]
    BY <1>8, <1>d, <2>1 DEF UnlinkPictures
  <2>3. Tables' /\ Turns(g, [guest[g] EXCEPT !.at = "wipe"])
    BY <1>8, <1>a, <2>2 DEF UnlinkPictures, Tables, TurnsTo
  <2>4. GuestSound([guest[g] EXCEPT !.at = "wipe"])
    BY <1>8, <1>b, TurnSteps DEF UnlinkPictures
  <2> QED
    BY <2>3, <2>4, TypeTurn
<1>9. ASSUME NEW g \in Guests, WipePost(g) PROVE BoardTypeInv'
  <2>1. strays' \subseteq Pictures
    BY <1>9, <1>a DEF WipePost, Album, Tables
  <2>2. Tables'
    BY <1>9, <1>a, <2>1, DeletedTypes DEF WipePost, Tables
  <2> QED
    BY <1>9, <2>2, AwaySound, TypeTurn DEF WipePost
<1>10. ASSUME NEW g \in Guests, NEW i \in Pictures, ReservePicture(g, i) PROVE BoardTypeInv'
  <2>1. CASE Posted(guest[g].post)
    <3>1. [row |-> "there", file |-> FALSE, on |-> guest[g].post] \in Picture
      BY <1>b, GuestFields DEF Picture
    <3>2. Tables' /\ Turns(g, [guest[g] EXCEPT !.at = "save", !.picture = i])
      BY <1>10, <1>a, <2>1, <3>1 DEF ReservePicture, Tables
    <3>3. GuestSound([guest[g] EXCEPT !.at = "save", !.picture = i])
      BY <1>10, <1>b, TurnSteps DEF ReservePicture
    <3> QED
      BY <3>2, <3>3, TypeTurn
  <2>2. CASE ~Posted(guest[g].post)
    <3>1. Tables' /\ Turns(g, Away)
      BY <1>10, <1>a, <2>2 DEF ReservePicture, Tables
    <3> QED
      BY <3>1, AwaySound, TypeTurn
  <2> QED
    BY <2>1, <2>2
<1>11. ASSUME NEW g \in Guests, SavePicture(g) PROVE BoardTypeInv'
  <2>1. guest[g].picture \in Pictures
    BY <1>11, <1>c DEF SavePicture, WithPicture
  <2>2. PICK ok \in BOOLEAN, part \in BOOLEAN :
          /\ pictures' = [pictures EXCEPT ![guest[g].picture].file = ok \/ part]
          /\ IF ok THEN Turns(g, Away) ELSE TurnsTo(g, "unreserve")
    BY <1>11 DEF SavePicture
  <2>3. pictures' \in [Pictures -> Picture]
    <3>1. (ok \/ part) \in BOOLEAN
      OBVIOUS
    <3>2. [pictures[guest[g].picture] EXCEPT !.file = ok \/ part] \in Picture
      BY <1>d, <2>1, <3>1 DEF Picture
    <3> QED
      BY <1>a, <2>1, <2>2, <3>2 DEF Tables
  <2>4. strays' \subseteq Pictures
    BY <1>11, <1>a, <2>1 DEF SavePicture, Tables
  <2>5. Tables'
    BY <1>11, <1>a, <2>3, <2>4 DEF SavePicture, Tables
  <2>6. GuestSound([guest[g] EXCEPT !.at = "unreserve"])
    BY <1>11, <1>b, TurnSteps DEF SavePicture
  <2> QED
    BY <2>2, <2>5, <2>6, AwaySound, TypeTurn DEF TurnsTo
<1>e. ASSUME NEW i \in Pictures, WithoutRow(i) PROVE pictures' \in [Pictures -> Picture]
  <2>1. [pictures[i] EXCEPT !.row = "gone"] \in Picture
    BY <1>d DEF Picture
  <2> QED
    BY <1>a, <1>e, <2>1 DEF WithoutRow, Tables
<1>12. ASSUME NEW g \in Guests, Unreserve(g) PROVE BoardTypeInv'
  <2>1. Tables'
    BY <1>12, <1>a, <1>c, <1>e DEF Unreserve, Tables, WithPicture
  <2> QED
    BY <1>12, <2>1, AwaySound, TypeTurn DEF Unreserve
<1>13. ASSUME NEW g \in Guests, NEW i \in Pictures, DeletePicture(g, i) PROVE BoardTypeInv'
  BY <1>13, VisitSteps, TypeVisit DEF DeletePicture
<1>14. ASSUME NEW g \in Guests, DeleteRow(g) PROVE BoardTypeInv'
  <2>1. Tables'
    BY <1>14, <1>a, <1>c, <1>e DEF DeleteRow, Tables, WithPicture
  <2>2. GuestSound([guest[g] EXCEPT !.at = "remove file"])
    BY <1>14, <1>b, TurnSteps DEF DeleteRow
  <2> QED
    BY <1>14, <2>1, <2>2, TypeTurn DEF DeleteRow, TurnsTo
<1>15. ASSUME NEW g \in Guests, RemoveFile(g) PROVE BoardTypeInv'
  <2>1. guest[g].picture \in Pictures
    BY <1>15, <1>c DEF RemoveFile, WithPicture
  <2>2. [pictures[guest[g].picture] EXCEPT !.file = FALSE] \in Picture
    BY <1>d, <2>1 DEF Picture
  <2>3. Tables'
    BY <1>15, <1>a, <2>1, <2>2 DEF RemoveFile, FileRemoved, Tables
  <2> QED
    BY <1>15, <2>3, AwaySound, TypeTurn DEF RemoveFile
<1>16. ASSUME NEW g \in Guests, NEW l \in Letters, SendReply(g, l) PROVE BoardTypeInv'
  <2>1. NewLetter("reply", guest[g].post) \in Letter
    BY <1>b, GuestFields DEF NewLetter, Letter
  <2>2. Tables'
    BY <1>16, <1>a, <2>1 DEF SendReply, Tables
  <2> QED
    BY <1>16, <2>2, AwaySound, TypeTurn DEF SendReply
<1>17. ASSUME NEW l \in Letters, RequestRenewal(l) PROVE BoardTypeInv'
  <2>1. NewLetter("renewal", NoPost) \in Letter
    BY DEF NewLetter, Letter
  <2> QED
    BY <1>17, <2>1 DEF RequestRenewal, BoardTypeInv, BoardTypeOK
<1>18. ASSUME NEW g \in Guests, NEW l \in Letters, OpenLetter(g, l) PROVE BoardTypeInv'
  <2>1. /\ \E at \in {"discard", "spend"} : Visits(g, [Away EXCEPT !.letter = l, !.at = at])
        /\ UNCHANGED <<posts, pictures, letters, crossed, strays, served>>
    BY <1>18 DEF OpenLetter
  <2> QED
    BY <2>1, VisitSteps, TypeVisit
<1>19. ASSUME NEW g \in Guests, DiscardLetter(g) PROVE BoardTypeInv'
  <2>1. letters' \in [Letters -> Letter]
    BY <1>19, <1>a, <1>d DEF DiscardLetter, Tables, Letter
  <2> QED
    BY <1>19, <1>a, <2>1, AwaySound, TypeTurn DEF DiscardLetter, Tables
<1>20. ASSUME NEW g \in Guests, SpendLetter(g) PROVE BoardTypeInv'
  <2>a. guest[g].letter \in Letters
    BY <1>20, <1>c DEF SpendLetter, WithLetter
  <2>b. \A st \in {"spent", "gone"} : [letters[guest[g].letter] EXCEPT !.st = st] \in Letter
    BY <1>d, <2>a DEF Letter
  <2>c. \/ letters' = letters
        \/ \E st \in {"spent", "gone"} : letters' = [letters EXCEPT ![guest[g].letter].st = st]
    BY <1>20 DEF SpendLetter, Spent
  <2>1. letters' \in [Letters -> Letter]
    BY <1>a, <2>a, <2>b, <2>c DEF Tables
  <2>2. GuestSound([guest[g] EXCEPT !.at = "mint"])
    BY <1>20, <1>b, TurnSteps DEF SpendLetter
  <2>3. Tables' /\ Turns(g, [guest[g] EXCEPT !.at = "mint"])
    BY <1>20, <1>a, <2>1 DEF SpendLetter, TurnsTo, Tables
  <2> QED
    BY <2>2, <2>3, TypeTurn
<1>21. ASSUME NEW g \in Guests, ServeLetter(g) PROVE BoardTypeInv'
  <2>a. guest[g].letter \in Letters /\ served \in [Letters -> Nat]
    BY <1>21, <1>a, <1>c DEF ServeLetter, WithLetter, Tables
  <2>b. served[guest[g].letter] + 1 \in Nat
    BY <2>a
  <2>1. served' \in [Letters -> Nat]
    BY <1>21, <2>a, <2>b DEF ServeLetter
  <2> QED
    BY <1>21, <1>a, <2>1, AwaySound, TypeTurn DEF ServeLetter, Tables
<1>22. ASSUME NEW g \in Guests, LeaveBoard(g) PROVE BoardTypeInv'
  <2>1. Interrupted(g) \subseteq Pictures
    BY <1>c DEF Interrupted, Album, WithPicture
  <2> QED
    BY <1>22, <1>a, <2>1, AwaySound, TypeTurn DEF LeaveBoard, Tables
<1>23. ASSUME NEW p \in Posts, PostExpires(p) PROVE BoardTypeInv'
  <2>1. posts' \in [Posts -> Post]
    BY <1>23, <1>a, <1>d DEF PostExpires, Tables, Post
  <2> QED
    BY <1>23, <2>1 DEF PostExpires, BoardTypeInv, BoardTypeOK
<1>24. ASSUME NEW l \in Letters, LetterExpires(l) PROVE BoardTypeInv'
  <2>1. letters' \in [Letters -> Letter]
    BY <1>24, <1>a, <1>d DEF LetterExpires, Tables, Letter
  <2> QED
    BY <1>24, <2>1 DEF LetterExpires, BoardTypeInv, BoardTypeOK
<1>25. CASE SweepPosts
  <2>1. strays' \subseteq Pictures
    BY <1>25, <1>a DEF SweepPosts, Album, Tables
  <2> QED
    BY <1>25, <1>a, <2>1, DeletedTypes DEF SweepPosts, BoardTypeInv, BoardTypeOK
<1>26. CASE SweepLetters
  <2>1. \A l \in Letters : [letters[l] EXCEPT !.st = "gone"] \in Letter
    BY <1>d DEF Letter
  <2>2. letters' \in [Letters -> Letter]
    BY <1>26, <1>d, <2>1 DEF SweepLetters
  <2> QED
    BY <1>26, <2>2 DEF SweepLetters, BoardTypeInv, BoardTypeOK
<1>27. CASE UNCHANGED boardVars
  BY <1>27 DEF boardVars, BoardTypeInv, BoardTypeOK
<1> QED
  BY <1>1, <1>2, <1>3, <1>4, <1>5, <1>6, <1>7, <1>8, <1>9, <1>10, <1>11, <1>12, <1>13, <1>14, <1>15,
     <1>16, <1>17, <1>18, <1>19, <1>20, <1>21, <1>22, <1>23, <1>24, <1>25, <1>26, <1>27 DEF BoardNext

\* Posts, pictures, letters and requests keep the types that BoardTypeOK gives them.
THEOREM BoardTypeCorrect == BoardSpec => []BoardTypeOK
<1>1. BoardTypeInv => BoardTypeOK
  BY DEF BoardTypeInv
<1> QED
  BY <1>1, BoardTypeInit, BoardTypeStep, PTL DEF BoardSpec

-----------------------------------------------------------------------------
(* Links.  A letter that was spent or has gone is never open again, and who *)
(* serves it has spent it before, or found it spent.                        *)

Used(l) == letters[l].st \in {"spent", "gone"}
LinkInv ==
  /\ \A l \in Letters : served[l] > 0 => Used(l)
  /\ \A g \in Guests :
       /\ guest[g].at \in {"spend", "discard"} => letters[guest[g].letter].st # "none"
       /\ guest[g].at = "mint" => Used(guest[g].letter)

\* What every step but three leaves of the letters and their readers.
LettersForward ==
  \A l \in Letters : (Used(l) => Used(l)') /\ (letters[l].st # "none" => letters'[l].st # "none")
ReadersStay ==
  \A g \in Guests : guest'[g].letter # NoLetter =>
    guest'[g].letter = guest[g].letter /\ guest'[g].at = guest[g].at
LettersAlone == LettersForward /\ ReadersStay /\ served' = served

LEMMA NoReader ==
  ASSUME BoardTypeInv, NEW g \in Guests, NEW step, GuestSound(step), Turns(g, step), step.at \notin WithLetter
  PROVE  ReadersStay
<1>1. step.letter = NoLetter
  BY DEF GuestSound, GuestShape
<1> QED
  BY <1>1, Turned DEF ReadersStay

\* The steps after which a request reads no letter.
LEMMA LettersByTurn ==
  ASSUME BoardTypeInv, NEW g \in Guests, NEW step, GuestSound(step), Turns(g, step), step.at \notin WithLetter,
         LettersForward, served' = served
  PROVE  LettersAlone
  BY NoReader DEF LettersAlone

LEMMA LettersByVisit ==
  ASSUME BoardTypeInv, NEW g \in Guests, NEW step, GuestSound(step), Visits(g, step), step.at \notin WithLetter,
         UNCHANGED <<posts, pictures, letters, crossed, strays, served>>
  PROVE  LettersAlone
  BY Visited, NoReader DEF LettersAlone, LettersForward, Used

LEMMA DeletedLetters ==
  ASSUME BoardTypeInv, NEW ps, Deleted(ps)
  PROVE  LettersForward
<1> SUFFICES ASSUME NEW l \in Letters PROVE (Used(l) => Used(l)') /\ (letters[l].st # "none" => letters'[l].st # "none")
  BY DEF LettersForward
<1>1. letters[l] \in Letter
  BY RowFields DEF BoardTypeInv
<1>2. letters'[l] = letters[l] \/ letters'[l] = [letters[l] EXCEPT !.st = "gone"]
  BY DEF Deleted
<1> QED
  BY <1>1, <1>2 DEF Used, Letter

LEMMA OthersLetters ==
  ASSUME BoardTypeInv, [BoardNext]_boardVars,
         \A g \in Guests : ~SpendLetter(g) /\ ~ServeLetter(g) /\ \A l \in Letters : ~OpenLetter(g, l)
  PROVE  LettersAlone
<1>b. \A g \in Guests : guest[g] \in Guest /\ GuestShape(guest[g]) /\ GuestSound(guest[g])
  BY DEF BoardTypeInv, BoardTypeOK, GuestSound
<1>c. \A l \in Letters : letters[l] \in Letter
  BY RowFields DEF BoardTypeInv
<1>d. letters' = letters => LettersForward
  BY DEF LettersForward, Used
<1>e. Away.at \notin WithLetter
  BY AwaySound DEF WithLetter
<1>1. ASSUME NEW g \in Guests, NEW by \in Owner, NEW cat \in Categories, CheckPost(g, by, cat)
      PROVE  LettersAlone
  <2>1. GuestSound([Away EXCEPT !.at = "insert", !.by = by, !.cat = cat])
    BY VisitSteps DEF Owner
  <2>2. [Away EXCEPT !.at = "insert", !.by = by, !.cat = cat].at = "insert"
    BY DEF Away
  <2> QED
    BY <1>1, <2>1, <2>2, LettersByVisit DEF CheckPost, WithLetter
<1>2. ASSUME NEW g \in Guests, WritesPost(g), UNCHANGED <<letters, served>> PROVE LettersAlone
  <2>1. ReadersStay
    BY <1>2, Wrote, AwaySound DEF ReadersStay
  <2> QED
    BY <1>2, <1>d, <2>1 DEF LettersAlone
<1>3. ASSUME NEW g \in Guests, NEW p \in Posts, OpenManagePage(g, p) \/ DeletePost(g, p) \/ CheckUpload(g, p)
                                                \/ WriteReply(g, p)
      PROVE  LettersAlone
  <2>1. PICK at \in {"verify", "unlink", "reserve", "write"} :
          /\ Visits(g, [Away EXCEPT !.at = at, !.post = p])
          /\ UNCHANGED <<posts, pictures, letters, crossed, strays, served>>
    BY <1>3 DEF OpenManagePage, DeletePost, CheckUpload, WriteReply
  <2>2. GuestSound([Away EXCEPT !.at = at, !.post = p])
    BY VisitSteps
  <2>3. [Away EXCEPT !.at = at, !.post = p].at \notin WithLetter
    BY DEF Away, WithLetter
  <2> QED
    BY <2>1, <2>2, <2>3, LettersByVisit
<1>4. ASSUME NEW g \in Guests, NEW p \in Posts, NEW cat \in Categories,
             Visits(g, [Away EXCEPT !.at = "update", !.post = p, !.cat = cat]),
             UNCHANGED <<posts, pictures, letters, crossed, strays, served>>
      PROVE  LettersAlone
  <2>1. GuestSound([Away EXCEPT !.at = "update", !.post = p, !.cat = cat])
    BY VisitSteps
  <2>2. [Away EXCEPT !.at = "update", !.post = p, !.cat = cat].at \notin WithLetter
    BY DEF Away, WithLetter
  <2> QED
    BY <1>4, <2>1, <2>2, LettersByVisit
<1>5. ASSUME NEW g \in Guests, NEW p \in Posts,
             PatchPost(g, p) \/ \E cat \in Categories : ReplacePost(g, p, cat)
      PROVE  LettersAlone
  <2>1. posts[p].cat \in Categories
    BY RowFields DEF BoardTypeInv, Post
  <2> QED
    BY <1>4, <1>5, <2>1 DEF PatchPost, ReplacePost
<1>6. ASSUME NEW g \in Guests, Turns(g, Away), UNCHANGED <<letters, served>> PROVE LettersAlone
  BY <1>6, <1>d, <1>e, AwaySound, LettersByTurn
<1>7. ASSUME NEW g \in Guests, NEW p \in Posts, InsertPost(g, p) PROVE LettersAlone
  BY <1>2, <1>7 DEF InsertPost
<1>8. ASSUME NEW g \in Guests, VerifyPost(g) \/ UpdatePost(g) \/ Unreserve(g) \/ RemoveFile(g) \/ LeaveBoard(g)
      PROVE  LettersAlone
  BY <1>2, <1>6, <1>8 DEF VerifyPost, UpdatePost, Unreserve, RemoveFile, LeaveBoard
<1>9. ASSUME NEW g \in Guests, NEW at \in {"wipe", "unreserve", "remove file"}, TurnsTo(g, at),
             GuestSound([guest[g] EXCEPT !.at = at]), UNCHANGED <<letters, served>>
      PROVE  LettersAlone
  <2>1. [guest[g] EXCEPT !.at = at].at \notin WithLetter
    BY <1>b DEF Guest, WithLetter
  <2> QED
    BY <1>9, <1>d, <2>1, LettersByTurn DEF TurnsTo
<1>10. ASSUME NEW g \in Guests, UnlinkPictures(g) \/ SavePicture(g) \/ DeleteRow(g) PROVE LettersAlone
  <2>1. CASE UnlinkPictures(g)
    BY <1>9, <1>b, <2>1, TurnSteps DEF UnlinkPictures
  <2>2. CASE DeleteRow(g)
    BY <1>9, <1>b, <2>2, TurnSteps DEF DeleteRow
  <2>3. CASE SavePicture(g)
    <3>1. Turns(g, Away) \/ TurnsTo(g, "unreserve")
      BY <2>3 DEF SavePicture
    <3>2. GuestSound([guest[g] EXCEPT !.at = "unreserve"]) /\ UNCHANGED <<letters, served>>
      BY <1>b, <2>3, TurnSteps DEF SavePicture
    <3> QED
      BY <1>6, <1>9, <3>1, <3>2
  <2> QED
    BY <1>10, <2>1, <2>2, <2>3
<1>11. ASSUME NEW g \in Guests, NEW i \in Pictures, ReservePicture(g, i) PROVE LettersAlone
  <2>1. GuestSound([guest[g] EXCEPT !.at = "save", !.picture = i])
    BY <1>11, <1>b, TurnSteps DEF ReservePicture
  <2>2. [guest[g] EXCEPT !.at = "save", !.picture = i].at \notin WithLetter
    BY <1>b DEF Guest, WithLetter
  <2>3. Turns(g, [guest[g] EXCEPT !.at = "save", !.picture = i]) \/ Turns(g, Away)
    BY <1>11 DEF ReservePicture
  <2>4. UNCHANGED <<letters, served>>
    BY <1>11 DEF ReservePicture
  <2> QED
    BY <1>6, <1>d, <2>1, <2>2, <2>3, <2>4, LettersByTurn
<1>12. ASSUME NEW g \in Guests, WipePost(g) PROVE LettersAlone
  <2>1. LettersForward
    BY <1>12, DeletedLetters DEF WipePost
  <2> QED
    BY <1>12, <1>e, <2>1, AwaySound, LettersByTurn DEF WipePost
<1>13. ASSUME NEW g \in Guests, NEW i \in Pictures, DeletePicture(g, i) PROVE LettersAlone
  <2>1. GuestSound([Away EXCEPT !.at = "delete row", !.picture = i])
    BY VisitSteps
  <2>2. [Away EXCEPT !.at = "delete row", !.picture = i].at \notin WithLetter
    BY DEF Away, WithLetter
  <2> QED
    BY <1>13, <2>1, <2>2, LettersByVisit DEF DeletePicture
<1>14. ASSUME NEW g \in Guests, NEW l \in Letters, SendReply(g, l) PROVE LettersAlone
  <2>1. LettersForward
    <3> SUFFICES ASSUME NEW m \in Letters
                 PROVE (Used(m) => Used(m)') /\ (letters[m].st # "none" => letters'[m].st # "none")
      BY DEF LettersForward
    <3>1. letters'[m] = letters[m] \/ letters[m].st = "none"
      BY <1>14 DEF SendReply
    <3> QED
      BY <3>1 DEF Used
  <2> QED
    BY <1>14, <1>e, <2>1, AwaySound, LettersByTurn DEF SendReply
<1>15. ASSUME NEW l \in Letters, RequestRenewal(l) PROVE LettersAlone
  <2>1. LettersForward
    <3> SUFFICES ASSUME NEW m \in Letters
                 PROVE (Used(m) => Used(m)') /\ (letters[m].st # "none" => letters'[m].st # "none")
      BY DEF LettersForward
    <3>1. letters'[m] = letters[m] \/ letters[m].st = "none"
      BY <1>15 DEF RequestRenewal
    <3> QED
      BY <3>1 DEF Used
  <2> QED
    BY <1>15, <2>1 DEF RequestRenewal, LettersAlone, ReadersStay
<1>16. ASSUME NEW g \in Guests, DiscardLetter(g) PROVE LettersAlone
  <2>1. LettersForward
    <3> SUFFICES ASSUME NEW m \in Letters
                 PROVE (Used(m) => Used(m)') /\ (letters[m].st # "none" => letters'[m].st # "none")
      BY DEF LettersForward
    <3>0. letters \in [Letters -> Letter]
      BY DEF BoardTypeInv, BoardTypeOK
    <3>1. letters'[m] = letters[m] \/ letters'[m].st = "gone"
      BY <1>16, <1>c, <3>0 DEF DiscardLetter, Letter
    <3> QED
      BY <3>1 DEF Used
  <2> QED
    BY <1>16, <1>e, <2>1, AwaySound, LettersByTurn DEF DiscardLetter
<1>17. CASE SweepPosts
  BY <1>17, DeletedLetters DEF SweepPosts, LettersAlone, ReadersStay
<1>18. CASE SweepLetters \/ \E l \in Letters : LetterExpires(l)
  <2>1. LettersForward
    <3> SUFFICES ASSUME NEW m \in Letters
                 PROVE (Used(m) => Used(m)') /\ (letters[m].st # "none" => letters'[m].st # "none")
      BY DEF LettersForward
    <3>0. letters \in [Letters -> Letter]
      BY DEF BoardTypeInv, BoardTypeOK
    <3>1. letters'[m].st = letters[m].st \/ letters'[m].st = "gone"
      BY <1>18, <1>c, <3>0 DEF SweepLetters, LetterExpires, Letter
    <3> QED
      BY <3>1 DEF Used
  <2> QED
    BY <1>18, <2>1 DEF SweepLetters, LetterExpires, LettersAlone, ReadersStay
<1>19. CASE UNCHANGED boardVars \/ \E p \in Posts : PostExpires(p)
  BY <1>19 DEF boardVars, PostExpires, LettersAlone, LettersForward, ReadersStay, Used
<1> QED
  BY <1>1, <1>3, <1>5, <1>7, <1>8, <1>10, <1>11, <1>12, <1>13, <1>14, <1>15, <1>16, <1>17, <1>18, <1>19
     DEF BoardNext

LEMMA LinkInit == BoardInit => LinkInv
  BY AwaySound DEF BoardInit, LinkInv

\* One reader goes on with its letter.
LEMMA LinkTurn ==
  ASSUME BoardTypeInv, LinkInv, NEW g \in Guests, NEW step, GuestSound(step), Turns(g, step), LettersForward,
         \A l \in Letters : served'[l] > 0 => served[l] > 0 \/ Used(l)',
         step.at \in {"spend", "discard"} => letters'[step.letter].st # "none",
         step.at = "mint" => letters'[step.letter].st \in {"spent", "gone"}
  PROVE  LinkInv'
<1>1. \A x \in Guests : guest[x].at \in WithLetter => guest[x].letter \in Letters
  BY GuestFields DEF BoardTypeInv, BoardTypeOK, GuestShape
<1>2. ASSUME NEW x \in Guests
      PROVE  /\ guest'[x].at \in {"spend", "discard"} => letters'[guest'[x].letter].st # "none"
             /\ guest'[x].at = "mint" => letters'[guest'[x].letter].st \in {"spent", "gone"}
  <2>1. CASE x = g
    BY <2>1, Turned DEF Used
  <2>2. CASE x # g
    BY <1>1, <2>2, Turned DEF LinkInv, LettersForward, Used, WithLetter
  <2> QED
    BY <2>1, <2>2
<1>3. \A l \in Letters : served'[l] > 0 => Used(l)'
  BY DEF LinkInv, LettersForward
<1> QED
  BY <1>2, <1>3 DEF LinkInv, Used

LEMMA LinkStep == BoardTypeInv /\ LinkInv /\ [BoardNext]_boardVars => LinkInv'
<1> SUFFICES ASSUME BoardTypeInv, LinkInv, [BoardNext]_boardVars PROVE LinkInv'
  OBVIOUS
<1>b. \A g \in Guests : /\ guest[g] \in Guest /\ GuestSound(guest[g])
                        /\ guest[g].at \in WithLetter => guest[g].letter \in Letters
  BY GuestFields DEF BoardTypeInv, BoardTypeOK, GuestShape, GuestSound
<1>c. letters \in [Letters -> Letter] /\ \A l \in Letters : letters[l] \in Letter
  BY RowFields DEF BoardTypeInv, BoardTypeOK
<1>1. CASE LettersAlone
  <2>1. \A x \in Guests : guest'[x].at \in WithLetter <=> guest'[x].letter # NoLetter
    BY BoardTypeStep DEF BoardTypeInv, GuestShape
  <2> QED
    BY <1>1, <1>b, <2>1 DEF LinkInv, LettersAlone, LettersForward, ReadersStay, Used, WithLetter
<1>2. ASSUME NEW g \in Guests, NEW l \in Letters, OpenLetter(g, l) PROVE LinkInv'
  <2>1. PICK at \in {"discard", "spend"} : Visits(g, [Away EXCEPT !.letter = l, !.at = at])
    BY <1>2 DEF OpenLetter
  <2> DEFINE step == [Away EXCEPT !.letter = l, !.at = at]
  <2>2. GuestSound(step)
    BY VisitSteps
  <2>3. step.at = at /\ step.letter = l
    BY DEF Away
  <2>4. Turns(g, step)
    BY <2>1, Visited
  <2>5. letters' = letters /\ served' = served /\ letters[l].st = "open"
    BY <1>2 DEF OpenLetter
  <2>6. LettersForward
    BY <2>5 DEF LettersForward, Used
  <2> HIDE DEF step
  <2> QED
    BY <2>2, <2>3, <2>4, <2>5, <2>6, LinkTurn
<1>3. ASSUME NEW g \in Guests, SpendLetter(g) PROVE LinkInv'
  <2> DEFINE step == [guest[g] EXCEPT !.at = "mint"]
             l == guest[g].letter
  <2>1. l \in Letters /\ letters[l].st # "none"
    BY <1>3, <1>b DEF SpendLetter, WithLetter, LinkInv
  <2>2. GuestSound(step)
    BY <1>3, <1>b, TurnSteps DEF SpendLetter
  <2>3. step.at = "mint" /\ step.letter = l
    BY <1>b DEF Guest
  <2>4. Turns(g, step) /\ letters' = Spent(l) /\ served' = served
    BY <1>3 DEF SpendLetter, TurnsTo
  <2>5. letters[l].st \in {"open", "spent", "gone"}
    BY <1>c, <2>1 DEF Letter
  <2>6. letters'[l].st \in {"spent", "gone"} /\ \A m \in Letters \ {l} : letters'[m] = letters[m]
    BY <1>c, <2>1, <2>4, <2>5 DEF Spent, Letter
  <2>7. LettersForward
    BY <2>6 DEF LettersForward, Used
  <2>8. letters'[step.letter].st \in {"spent", "gone"}
    BY <2>3, <2>6
  <2> HIDE DEF step, l
  <2> QED
    BY <2>2, <2>3, <2>4, <2>7, <2>8, LinkTurn
<1>4. ASSUME NEW g \in Guests, ServeLetter(g) PROVE LinkInv'
  <2>1. letters' = letters /\ Turns(g, Away) /\ served' = [served EXCEPT ![guest[g].letter] = @ + 1]
        /\ Used(guest[g].letter)
    BY <1>4 DEF ServeLetter, LinkInv
  <2>2. \A m \in Letters : served'[m] > 0 => served[m] > 0 \/ Used(m)'
    BY <2>1 DEF BoardTypeInv, BoardTypeOK, Used
  <2>3. LettersForward
    BY <2>1 DEF LettersForward, Used
  <2> QED
    BY <2>1, <2>2, <2>3, AwaySound, LinkTurn
<1> QED
  BY <1>1, <1>2, <1>3, <1>4, OthersLetters

LEMMA OnceUsed ==
  ASSUME BoardTypeInv, LinkInv, [BoardNext]_boardVars, NEW l \in Letters, served[l] > 0, ~Reading(l)
  PROVE  ~Reading(l)' /\ served'[l] = served[l]
<1>a. Used(l) /\ l # NoLetter
  BY BoardAssumption DEF LinkInv
<1>1. CASE LettersAlone
  BY <1>1, <1>a DEF LettersAlone, ReadersStay, Reading
<1>2. ASSUME NEW g \in Guests, NEW m \in Letters, OpenLetter(g, m) PROVE ~Reading(l)' /\ served'[l] = served[l]
  <2>1. m # l /\ served' = served
    BY <1>2, <1>a DEF OpenLetter, Used
  <2>2. PICK at \in {"discard", "spend"} : Visits(g, [Away EXCEPT !.letter = m, !.at = at])
    BY <1>2 DEF OpenLetter
  <2>3. GuestSound([Away EXCEPT !.letter = m, !.at = at]) /\ [Away EXCEPT !.letter = m, !.at = at].letter = m
    BY VisitSteps DEF Away
  <2>4. guest'[g].letter = m /\ \A x \in Guests \ {g} : guest'[x] = guest[x]
    BY <2>2, <2>3, Visited, Turned
  <2> QED
    BY <2>1, <2>4 DEF Reading
<1>3. ASSUME NEW g \in Guests, SpendLetter(g) PROVE ~Reading(l)' /\ served'[l] = served[l]
  <2>1. /\ guest' = [guest EXCEPT ![g] = [guest[g] EXCEPT !.at = "mint"]] /\ served' = served
        /\ guest[g] \in Guest
    BY <1>3 DEF SpendLetter, TurnsTo, Turns, BoardTypeInv, BoardTypeOK
  <2>2. \A x \in Guests : guest'[x].letter = guest[x].letter
    BY <2>1 DEF Guest
  <2> QED
    BY <2>1, <2>2 DEF Reading
<1>4. ASSUME NEW g \in Guests, ServeLetter(g) PROVE ~Reading(l)' /\ served'[l] = served[l]
  <2>1. guest[g].letter # l
    BY DEF Reading
  <2>2. served'[l] = served[l]
    BY <1>4, <2>1 DEF ServeLetter, BoardTypeInv, BoardTypeOK
  <2>3. ReadersStay
    BY <1>4, AwaySound, NoReader DEF ServeLetter, WithLetter
  <2> QED
    BY <1>a, <2>2, <2>3 DEF ReadersStay, Reading
<1> QED
  BY <1>1, <1>2, <1>3, <1>4, OthersLetters

\* A link that was used and that nobody is still reading works no more, for any number
\* of letters and of requests that open them at once.
THEOREM LinkTheorem == BoardSpec => LinkWorksOnce
<1>1. BoardTypeInv /\ LinkInv /\ [BoardNext]_boardVars =>
        [\A l \in Letters : served[l] > 0 /\ ~Reading(l) => ~Reading(l)' /\ served'[l] = served[l]]_boardVars
  BY OnceUsed
<1> QED
  BY <1>1, BoardTypeInit, BoardTypeStep, LinkInit, LinkStep, PTL DEF BoardSpec, LinkWorksOnce

-----------------------------------------------------------------------------
(* Pictures.  An upload has its reserved row to itself until the file is   *)
(* there; a file without a row is about to be removed, a row without a file *)
(* about to be given one or to go.                                          *)

Uploads == {"save", "unreserve"}
Works == WithPicture \cup {"wipe"}
Rowed == \A g \in Guests : guest[g].at \in WithPicture => pictures[guest[g].picture].row # "none"
Unsaved ==
  \A g \in Guests :
    /\ guest[g].at = "save" => ~pictures[guest[g].picture].file
    /\ guest[g].at = "unreserve" => ~pictures[guest[g].picture].file \/ guest[g].picture \in strays
    /\ guest[g].at = "remove file" => pictures[guest[g].picture].row # "there"
OneUpload ==
  \A g, h \in Guests :
    guest[g].at \in Uploads /\ guest[h].at \in Uploads /\ guest[g].picture = guest[h].picture => g = h
RowlessExplained ==
  \A i \in Pictures : pictures[i].row # "there" /\ pictures[i].file =>
    i \in strays \/ \E g \in Guests : guest[g].at = "remove file" /\ guest[g].picture = i
FilelessExplained ==
  \A i \in Pictures : pictures[i].row = "there" /\ ~pictures[i].file =>
    \/ i \in strays
    \/ \E g \in Guests : guest[g].at \in Uploads /\ guest[g].picture = i
    \/ \E g \in Guests : guest[g].at = "wipe" /\ guest[g].post = pictures[i].on
PicturesInv == Rowed /\ Unsaved /\ OneUpload /\ RowlessExplained /\ FilelessExplained

LEMMA PicturesSound == BoardTypeInv /\ PicturesInv => PicturesWhole
<1> SUFFICES ASSUME BoardTypeInv, PicturesInv, NEW i \in Pictures, i \notin strays, ~Handled(i)
             PROVE  (pictures[i].row = "there") = pictures[i].file
  BY DEF PicturesWhole
<1>1. pictures[i].file \in BOOLEAN
  BY RowFields DEF BoardTypeInv, Picture
<1>2. \A g \in Guests :
        /\ guest[g].picture = i => guest[g].at \notin {"save", "unreserve", "remove file"}
        /\ guest[g].at = "wipe" => guest[g].post # pictures[i].on
  BY DEF Handled
<1>3. pictures[i].file => pictures[i].row = "there"
  BY <1>2 DEF PicturesInv, RowlessExplained
<1>4. pictures[i].row = "there" => pictures[i].file
  BY <1>2 DEF PicturesInv, FilelessExplained, Uploads
<1> QED
  BY <1>1, <1>3, <1>4

LEMMA PicturesInit == BoardInit => PicturesInv
<1> SUFFICES ASSUME BoardInit PROVE PicturesInv
  OBVIOUS
<1>1. \A g \in Guests : guest[g].at = "away"
  BY AwaySound DEF BoardInit
<1>2. \A i \in Pictures : pictures[i].row = "none" /\ ~pictures[i].file
  BY DEF BoardInit
<1> QED
  BY <1>1, <1>2 DEF PicturesInv, Rowed, Unsaved, OneUpload, RowlessExplained, FilelessExplained,
     Uploads, WithPicture

\* Who works on pictures goes on with the same ones.
SameWork(x) ==
  /\ guest[x].at \in Works => guest'[x].at \in Works
  /\ guest'[x].at \in Works => /\ guest'[x].at = guest[x].at /\ guest'[x].picture = guest[x].picture
                               /\ guest'[x].post = guest[x].post
PicturesAlone == UNCHANGED <<pictures, strays>> /\ \A x \in Guests : SameWork(x)

LEMMA AloneKeeps ==
  ASSUME BoardTypeInv, PicturesInv, PicturesAlone
  PROVE  PicturesInv'
<1>1. \A x \in Guests : guest[x].at \in Works => /\ guest'[x].at = guest[x].at
                                                 /\ guest'[x].picture = guest[x].picture
                                                 /\ guest'[x].post = guest[x].post
  BY DEF PicturesAlone, SameWork
<1>2. \A x \in Guests : guest'[x].at \in Works => /\ guest'[x].at = guest[x].at
                                                  /\ guest'[x].picture = guest[x].picture
                                                  /\ guest'[x].post = guest[x].post
  BY DEF PicturesAlone, SameWork
<1>3. pictures' = pictures /\ strays' = strays
  BY DEF PicturesAlone
<1>4. Rowed'
  BY <1>2, <1>3 DEF PicturesInv, Rowed, Works
<1>5. Unsaved'
  BY <1>2, <1>3 DEF PicturesInv, Unsaved, Works, WithPicture
<1>6. OneUpload'
  BY <1>2 DEF PicturesInv, OneUpload, Works, WithPicture, Uploads
<1>7. RowlessExplained'
  <2>1. \A x \in Guests : guest[x].at = "remove file" =>
          guest'[x].at = "remove file" /\ guest'[x].picture = guest[x].picture
    BY <1>1 DEF Works, WithPicture
  <2> QED
    BY <1>3, <2>1 DEF PicturesInv, RowlessExplained
<1>8. FilelessExplained'
  BY <1>1, <1>3 DEF PicturesInv, FilelessExplained, Works, WithPicture, Uploads
<1> QED
  BY <1>4, <1>5, <1>6, <1>7, <1>8 DEF PicturesInv

LEMMA AloneByTurn ==
  ASSUME BoardTypeInv, NEW g \in Guests, guest[g].at \notin Works, NEW step, GuestSound(step), Turns(g, step),
         step.at \notin Works, UNCHANGED <<pictures, strays>>
  PROVE  PicturesAlone
  BY Turned DEF PicturesAlone, SameWork

LEMMA AloneByVisit ==
  ASSUME BoardTypeInv, NEW g \in Guests, NEW step, GuestSound(step), Visits(g, step),
         step.at \notin Works, UNCHANGED <<posts, pictures, letters, crossed, strays, served>>
  PROVE  PicturesAlone
<1>1. guest[g].at \notin Works
  BY Visited, AwaySound DEF Works, WithPicture
<1> QED
  BY <1>1, Visited, AloneByTurn

\* The steps that leave the pictures and who works on them alone.
LEMMA OthersPictures ==
  ASSUME BoardTypeInv, [BoardNext]_boardVars,
         ~SweepPosts,
         \A g \in Guests : /\ ~UnlinkPictures(g) /\ ~WipePost(g) /\ ~SavePicture(g) /\ ~Unreserve(g)
                           /\ ~DeleteRow(g) /\ ~RemoveFile(g) /\ ~LeaveBoard(g)
                           /\ \A i \in Pictures : ~ReservePicture(g, i) /\ ~DeletePicture(g, i)
  PROVE  PicturesAlone
<1>b. \A g \in Guests : guest[g] \in Guest /\ GuestShape(guest[g]) /\ GuestSound(guest[g])
  BY DEF BoardTypeInv, BoardTypeOK, GuestSound
<1>e. Away.at \notin Works
  BY AwaySound DEF Works, WithPicture
<1>1. ASSUME NEW g \in Guests, NEW by \in Owner, NEW cat \in Categories, CheckPost(g, by, cat)
      PROVE  PicturesAlone
  <2>1. GuestSound([Away EXCEPT !.at = "insert", !.by = by, !.cat = cat])
    BY VisitSteps DEF Owner
  <2>2. [Away EXCEPT !.at = "insert", !.by = by, !.cat = cat].at \notin Works
    BY DEF Away, Works, WithPicture
  <2> QED
    BY <1>1, <2>1, <2>2, AloneByVisit DEF CheckPost
<1>2. ASSUME NEW g \in Guests, guest[g].at \notin Works, WritesPost(g), UNCHANGED <<pictures, strays>>
      PROVE  PicturesAlone
  BY <1>2, <1>e, Wrote DEF PicturesAlone, SameWork
<1>3. ASSUME NEW g \in Guests, NEW p \in Posts, OpenManagePage(g, p) \/ DeletePost(g, p) \/ CheckUpload(g, p)
                                                \/ WriteReply(g, p)
      PROVE  PicturesAlone
  <2>1. PICK at \in {"verify", "unlink", "reserve", "write"} :
          /\ Visits(g, [Away EXCEPT !.at = at, !.post = p])
          /\ UNCHANGED <<posts, pictures, letters, crossed, strays, served>>
    BY <1>3 DEF OpenManagePage, DeletePost, CheckUpload, WriteReply
  <2>2. GuestSound([Away EXCEPT !.at = at, !.post = p])
    BY VisitSteps
  <2>3. [Away EXCEPT !.at = at, !.post = p].at \notin Works
    BY DEF Away, Works, WithPicture
  <2> QED
    BY <2>1, <2>2, <2>3, AloneByVisit
<1>4. ASSUME NEW g \in Guests, NEW p \in Posts, NEW cat \in Categories,
             Visits(g, [Away EXCEPT !.at = "update", !.post = p, !.cat = cat]),
             UNCHANGED <<posts, pictures, letters, crossed, strays, served>>
      PROVE  PicturesAlone
  <2>1. GuestSound([Away EXCEPT !.at = "update", !.post = p, !.cat = cat])
    BY VisitSteps
  <2>2. [Away EXCEPT !.at = "update", !.post = p, !.cat = cat].at \notin Works
    BY DEF Away, Works, WithPicture
  <2> QED
    BY <1>4, <2>1, <2>2, AloneByVisit
<1>5. ASSUME NEW g \in Guests, NEW p \in Posts,
             PatchPost(g, p) \/ \E cat \in Categories : ReplacePost(g, p, cat)
      PROVE  PicturesAlone
  <2>1. posts[p].cat \in Categories
    BY RowFields DEF BoardTypeInv, Post
  <2> QED
    BY <1>4, <1>5, <2>1 DEF PatchPost, ReplacePost
<1>6. ASSUME NEW g \in Guests, guest[g].at \notin Works, Turns(g, Away), UNCHANGED <<pictures, strays>>
      PROVE  PicturesAlone
  BY <1>6, <1>e, AwaySound, AloneByTurn
<1>7. ASSUME NEW g \in Guests, VerifyPost(g) \/ UpdatePost(g) \/ \E p \in Posts : InsertPost(g, p)
      PROVE  PicturesAlone
  <2>1. guest[g].at \notin Works
    BY <1>7 DEF VerifyPost, UpdatePost, InsertPost, Works, WithPicture
  <2> QED
    BY <1>2, <1>6, <1>7, <2>1 DEF VerifyPost, UpdatePost, InsertPost
<1>8. ASSUME NEW g \in Guests, DiscardLetter(g) \/ ServeLetter(g) \/ \E l \in Letters : SendReply(g, l)
      PROVE  PicturesAlone
  <2>1. guest[g].at \notin Works
    BY <1>8 DEF DiscardLetter, ServeLetter, SendReply, Works, WithPicture
  <2> QED
    BY <1>6, <1>8, <2>1 DEF DiscardLetter, ServeLetter, SendReply
<1>9. ASSUME NEW g \in Guests, SpendLetter(g) PROVE PicturesAlone
  <2>1. guest[g].at \notin Works /\ [guest[g] EXCEPT !.at = "mint"].at \notin Works
    BY <1>9, <1>b DEF SpendLetter, Works, WithPicture, Guest
  <2>2. GuestSound([guest[g] EXCEPT !.at = "mint"])
    BY <1>9, <1>b, TurnSteps DEF SpendLetter
  <2> QED
    BY <1>9, <2>1, <2>2, AloneByTurn DEF SpendLetter, TurnsTo
<1>10. ASSUME NEW g \in Guests, NEW l \in Letters, OpenLetter(g, l) PROVE PicturesAlone
  <2>1. PICK at \in {"discard", "spend"} :
          /\ Visits(g, [Away EXCEPT !.letter = l, !.at = at])
          /\ UNCHANGED <<posts, pictures, letters, crossed, strays, served>>
    BY <1>10 DEF OpenLetter
  <2>2. GuestSound([Away EXCEPT !.letter = l, !.at = at])
    BY VisitSteps
  <2>3. [Away EXCEPT !.letter = l, !.at = at].at \notin Works
    BY DEF Away, Works, WithPicture
  <2> QED
    BY <2>1, <2>2, <2>3, AloneByVisit
<1>11. CASE UNCHANGED <<pictures, strays, guest>>
  BY <1>11 DEF PicturesAlone, SameWork
<1>12. CASE \/ \E p \in Posts : PostExpires(p)
            \/ \E l \in Letters : RequestRenewal(l) \/ LetterExpires(l)
            \/ SweepLetters
  BY <1>11, <1>12 DEF PostExpires, RequestRenewal, LetterExpires, SweepLetters
<1>13. CASE UNCHANGED boardVars
  BY <1>11, <1>13 DEF boardVars
<1> QED
  BY <1>1, <1>3, <1>5, <1>7, <1>8, <1>9, <1>10, <1>12, <1>13 DEF BoardNext

\* What a turn of g to step must not upset: its own new step, what the others rely
\* on, and the pictures it leaves with a row or a file alone.
OwnPart(g, step) ==
  /\ step.at \in WithPicture => pictures'[step.picture].row # "none"
  /\ step.at = "save" => ~pictures'[step.picture].file
  /\ step.at = "unreserve" => ~pictures'[step.picture].file \/ step.picture \in strays'
  /\ step.at = "remove file" => pictures'[step.picture].row # "there"
OwnUpload(g, step) ==
  step.at \in Uploads => \A h \in Guests \ {g} : guest[h].at \in Uploads => guest[h].picture # step.picture
OthersPart(g) ==
  /\ strays \subseteq strays'
  /\ \A i \in Pictures : /\ pictures[i].row # "none" => pictures'[i].row # "none"
                         /\ pictures[i].row = "gone" => pictures'[i].row = "gone"
  /\ \A h \in Guests \ {g} :
       guest[h].at \in Uploads /\ ~pictures[guest[h].picture].file => ~pictures'[guest[h].picture].file
Rowless(g, step) ==
  \A i \in Pictures : pictures'[i].row # "there" /\ pictures'[i].file =>
    \/ i \in strays'
    \/ step.at = "remove file" /\ step.picture = i
    \/ \E h \in Guests \ {g} : guest[h].at = "remove file" /\ guest[h].picture = i
Fileless(g, step) ==
  \A i \in Pictures : pictures'[i].row = "there" /\ ~pictures'[i].file =>
    \/ i \in strays'
    \/ step.at \in Uploads /\ step.picture = i
    \/ step.at = "wipe" /\ step.post = pictures'[i].on
    \/ \E h \in Guests \ {g} : guest[h].at \in Uploads /\ guest[h].picture = i
    \/ \E h \in Guests \ {g} : guest[h].at = "wipe" /\ guest[h].post = pictures'[i].on

LEMMA PicturesTurn ==
  ASSUME BoardTypeInv, PicturesInv, NEW g \in Guests, NEW step, GuestSound(step), Turns(g, step),
         OwnPart(g, step), OwnUpload(g, step), OthersPart(g), Rowless(g, step), Fileless(g, step)
  PROVE  PicturesInv'
<1>1. guest'[g] = step /\ \A x \in Guests \ {g} : guest'[x] = guest[x]
  BY Turned
<1>2. \A x \in Guests : guest[x].at \in WithPicture =>
        guest[x].picture \in Pictures /\ pictures[guest[x].picture].row \in {"none", "there", "gone"}
  BY GuestFields, RowFields DEF BoardTypeInv, BoardTypeOK, GuestShape, Picture
<1>3. Rowed'
  <2> SUFFICES ASSUME NEW x \in Guests, guest'[x].at \in WithPicture
               PROVE  pictures'[guest'[x].picture].row # "none"
    BY DEF Rowed, WithPicture
  <2>1. CASE x = g
    BY <1>1, <2>1 DEF OwnPart
  <2>2. CASE x # g
    BY <1>1, <1>2, <2>2 DEF OthersPart, PicturesInv, Rowed
  <2> QED
    BY <2>1, <2>2
<1>4. Unsaved'
  <2> SUFFICES ASSUME NEW x \in Guests
               PROVE  /\ guest'[x].at = "save" => ~pictures'[guest'[x].picture].file
                      /\ guest'[x].at = "unreserve" =>
                           ~pictures'[guest'[x].picture].file \/ guest'[x].picture \in strays'
                      /\ guest'[x].at = "remove file" => pictures'[guest'[x].picture].row # "there"
    BY DEF Unsaved
  <2>1. CASE x = g
    BY <1>1, <2>1 DEF OwnPart
  <2>2. CASE x # g
    <3>1. guest'[x] = guest[x]
      BY <1>1, <2>2
    <3>2. guest[x].at \in Uploads /\ ~pictures[guest[x].picture].file =>
            ~pictures'[guest[x].picture].file
      BY <2>2 DEF OthersPart
    <3>3. guest[x].at = "remove file" => pictures[guest[x].picture].row = "gone" /\ guest[x].picture \in Pictures
      BY <1>2 DEF PicturesInv, Rowed, Unsaved, WithPicture
    <3>4. guest[x].at = "remove file" => pictures'[guest[x].picture].row # "there"
      BY <3>3 DEF OthersPart
    <3> QED
      BY <3>1, <3>2, <3>4 DEF PicturesInv, Unsaved, OthersPart, Uploads
  <2> QED
    BY <2>1, <2>2
<1>5. OneUpload'
  <2> SUFFICES ASSUME NEW x \in Guests, NEW y \in Guests, guest'[x].at \in Uploads, guest'[y].at \in Uploads,
                      guest'[x].picture = guest'[y].picture, x # y
               PROVE  FALSE
    BY DEF OneUpload, Uploads
  <2>1. CASE x = g
    BY <1>1, <2>1 DEF OwnUpload
  <2>2. CASE y = g
    BY <1>1, <2>2 DEF OwnUpload
  <2>3. CASE x # g /\ y # g
    BY <1>1, <2>3 DEF PicturesInv, OneUpload
  <2> QED
    BY <2>1, <2>2, <2>3
<1>6. RowlessExplained'
  BY <1>1 DEF RowlessExplained, Rowless
<1>7. FilelessExplained'
  <2>1. ASSUME NEW i \in Pictures, pictures'[i].row = "there", ~pictures'[i].file
        PROVE  \/ i \in strays'
               \/ \E x \in Guests : guest'[x].at \in Uploads /\ guest'[x].picture = i
               \/ \E x \in Guests : guest'[x].at = "wipe" /\ guest'[x].post = pictures'[i].on
    BY <1>1, <2>1 DEF Fileless
  <2> QED
    BY <2>1 DEF FilelessExplained, Uploads
<1> QED
  BY <1>3, <1>4, <1>5, <1>6, <1>7 DEF PicturesInv

LEMMA PicturesStep == BoardTypeInv /\ PicturesInv /\ [BoardNext]_boardVars => PicturesInv'
<1> SUFFICES ASSUME BoardTypeInv, PicturesInv, [BoardNext]_boardVars PROVE PicturesInv'
  OBVIOUS
<1>b. \A g \in Guests : guest[g] \in Guest /\ GuestShape(guest[g]) /\ GuestSound(guest[g])
  BY DEF BoardTypeInv, BoardTypeOK, GuestSound
<1>c. \A g \in Guests : guest[g].at \in WithPicture => guest[g].picture \in Pictures
  BY <1>b, GuestFields DEF GuestShape
<1>d. pictures \in [Pictures -> Picture] /\ \A i \in Pictures : pictures[i] \in Picture
  BY RowFields DEF BoardTypeInv, BoardTypeOK
<1>f. \A i \in Pictures : pictures[i].row \in {"none", "there", "gone"} /\ pictures[i].file \in BOOLEAN
  BY <1>d DEF Picture
<1>g. ASSUME NEW g \in Guests PROVE OwnPart(g, Away) /\ OwnUpload(g, Away)
  BY AwaySound DEF OwnPart, OwnUpload, WithPicture, Uploads
<1>1. CASE PicturesAlone
  BY <1>1, AloneKeeps
<1>2. ASSUME NEW g \in Guests, UnlinkPictures(g) PROVE PicturesInv'
  <2> DEFINE step == [guest[g] EXCEPT !.at = "wipe"]
  <2>1. GuestSound(step) /\ step.at = "wipe" /\ step.post = guest[g].post /\ Turns(g, step)
    BY <1>2, <1>b, TurnSteps DEF UnlinkPictures, TurnsTo, Guest
  <2>2. strays' = strays /\ guest[g].at = "unlink"
    BY <1>2 DEF UnlinkPictures
  <2>3. \A i \in Pictures :
          /\ pictures'[i].row = pictures[i].row /\ pictures'[i].on = pictures[i].on
          /\ \/ pictures'[i] = pictures[i]
             \/ ~pictures'[i].file /\ pictures[i].row = "there" /\ pictures[i].on = guest[g].post
    <3> SUFFICES ASSUME NEW i \in Pictures
                 PROVE  /\ pictures'[i].row = pictures[i].row /\ pictures'[i].on = pictures[i].on
                        /\ \/ pictures'[i] = pictures[i]
                           \/ ~pictures'[i].file /\ pictures[i].row = "there" /\ pictures[i].on = guest[g].post
      OBVIOUS
    <3>1. pictures'[i] = IF i \in Album(guest[g].post) THEN [pictures[i] EXCEPT !.file = FALSE] ELSE pictures[i]
      BY <1>2 DEF UnlinkPictures
    <3>2. CASE i \in Album(guest[g].post)
      <4>1. pictures[i].row = "there" /\ pictures[i].on = guest[g].post
        BY <3>2 DEF Album
      <4>2. pictures'[i] = [pictures[i] EXCEPT !.file = FALSE] /\ pictures[i] \in Picture
        BY <1>d, <3>1, <3>2
      <4> QED
        BY <4>1, <4>2 DEF Picture
    <3>3. CASE i \notin Album(guest[g].post)
      BY <3>1, <3>3
    <3> QED
      BY <3>2, <3>3
  <2> HIDE DEF step
  <2>4. OwnPart(g, step) /\ OwnUpload(g, step)
    BY <2>1 DEF OwnPart, OwnUpload, WithPicture, Uploads
  <2>5. OthersPart(g)
    BY <1>c, <2>2, <2>3 DEF OthersPart, Uploads, WithPicture
  <2>6. Rowless(g, step)
    BY <2>2, <2>3 DEF Rowless, PicturesInv, RowlessExplained
  <2>7. Fileless(g, step)
    BY <2>1, <2>2, <2>3 DEF Fileless, PicturesInv, FilelessExplained, Uploads
  <2> QED
    BY <2>1, <2>4, <2>5, <2>6, <2>7, PicturesTurn
<1>3. ASSUME NEW g \in Guests, WipePost(g) PROVE PicturesInv'
  <2>1. strays' = strays \cup {i \in Album(guest[g].post) : pictures[i].file}
        /\ guest[g].at = "wipe" /\ Turns(g, Away)
    BY <1>3 DEF WipePost
  <2>2. \A i \in Pictures :
          /\ pictures'[i].file = pictures[i].file /\ pictures'[i].on = pictures[i].on
          /\ i \in Album(guest[g].post) => pictures'[i].row = "gone"
          /\ i \notin Album(guest[g].post) => pictures'[i] = pictures[i]
    BY <1>3, <1>d DEF WipePost, Deleted, Album, Picture
  <2>3. \A i \in Pictures : i \in Album(guest[g].post) <=>
          pictures[i].row = "there" /\ pictures[i].on = guest[g].post
    BY DEF Album
  <2>4. OthersPart(g)
    BY <1>c, <2>1, <2>2, <2>3 DEF OthersPart, Uploads, WithPicture
  <2>5. Rowless(g, Away)
    <3> SUFFICES ASSUME NEW i \in Pictures, pictures'[i].row # "there", pictures'[i].file, i \notin strays'
                 PROVE  \E h \in Guests \ {g} : guest[h].at = "remove file" /\ guest[h].picture = i
      BY DEF Rowless
    <3>1. i \notin Album(guest[g].post) /\ i \notin strays
      BY <2>1, <2>2
    <3>2. pictures[i].row # "there" /\ pictures[i].file
      BY <2>2, <3>1
    <3> QED
      BY <2>1, <3>1, <3>2 DEF PicturesInv, RowlessExplained
  <2>6. Fileless(g, Away)
    BY <2>1, <2>2, <2>3 DEF Fileless, PicturesInv, FilelessExplained, Uploads
  <2> QED
    BY <1>g, <2>1, <2>4, <2>5, <2>6, AwaySound, PicturesTurn
<1>4. ASSUME NEW g \in Guests, NEW i \in Pictures, ReservePicture(g, i) PROVE PicturesInv'
  <2>1. guest[g].at = "reserve" /\ pictures[i].row = "none" /\ strays' = strays
    BY <1>4 DEF ReservePicture
  <2>2. CASE Posted(guest[g].post)
    <3> DEFINE step == [guest[g] EXCEPT !.at = "save", !.picture = i]
    <3>1. GuestSound(step) /\ step.at = "save" /\ step.picture = i /\ Turns(g, step)
      BY <1>4, <1>b, <2>2, TurnSteps DEF ReservePicture, Guest
    <3>2. /\ pictures'[i].row = "there" /\ ~pictures'[i].file
          /\ \A j \in Pictures \ {i} : pictures'[j] = pictures[j]
      BY <1>4, <1>d, <2>2 DEF ReservePicture
    <3>3. \A h \in Guests : guest[h].at \in WithPicture => guest[h].picture # i
      BY <2>1 DEF PicturesInv, Rowed
    <3> HIDE DEF step
    <3>4. OwnPart(g, step) /\ OwnUpload(g, step)
      BY <3>1, <3>2, <3>3 DEF OwnPart, OwnUpload, WithPicture, Uploads
    <3>5. OthersPart(g)
      BY <1>c, <2>1, <3>2 DEF OthersPart, Uploads, WithPicture
    <3>6. Rowless(g, step)
      BY <2>1, <3>2 DEF Rowless, PicturesInv, RowlessExplained
    <3>7. Fileless(g, step)
      BY <2>1, <3>1, <3>2 DEF Fileless, PicturesInv, FilelessExplained, Uploads
    <3> QED
      BY <3>1, <3>4, <3>5, <3>6, <3>7, PicturesTurn
  <2>3. CASE ~Posted(guest[g].post)
    <3>1. guest[g].at \notin Works /\ Away.at \notin Works
      BY <2>1, AwaySound DEF Works, WithPicture
    <3>2. Turns(g, Away) /\ UNCHANGED <<pictures, strays>>
      BY <1>4, <2>3 DEF ReservePicture
    <3> QED
      BY <3>1, <3>2, AwaySound, AloneByTurn, AloneKeeps
  <2> QED
    BY <2>2, <2>3
<1>5. ASSUME NEW g \in Guests, SavePicture(g) PROVE PicturesInv'
  <2> DEFINE i == guest[g].picture
  <2>1. i \in Pictures /\ guest[g].at = "save"
    BY <1>5, <1>c DEF SavePicture, WithPicture
  <2>2. PICK ok \in BOOLEAN, part \in BOOLEAN :
          /\ pictures' = [pictures EXCEPT ![i].file = ok \/ part]
          /\ IF ok THEN Turns(g, Away) ELSE TurnsTo(g, "unreserve")
          /\ strays' = IF (ok \/ part) /\ (~ok \/ pictures[i].row # "there") THEN strays \cup {i} ELSE strays
    BY <1>5 DEF SavePicture
  <2>3. /\ pictures'[i].row = pictures[i].row /\ pictures'[i].on = pictures[i].on
        /\ pictures'[i].file <=> (ok \/ part)
        /\ \A j \in Pictures \ {i} : pictures'[j] = pictures[j]
    BY <1>d, <2>1, <2>2 DEF Picture
  <2>4. pictures[i].row # "none" /\ ~pictures[i].file
    BY <2>1 DEF PicturesInv, Rowed, Unsaved, WithPicture
  <2>5. \A h \in Guests \ {g} : guest[h].at \in Uploads => guest[h].picture # i
    BY <2>1 DEF PicturesInv, OneUpload, Uploads
  <2>6. strays \subseteq strays' /\ strays' \subseteq strays \cup {i}
    BY <2>2
  <2>7. OthersPart(g)
    BY <1>c, <2>3, <2>5, <2>6 DEF OthersPart, Uploads, WithPicture
  <2>8. CASE ok
    <3>1. Rowless(g, Away)
      <4>1. ASSUME NEW j \in Pictures, j # i, pictures'[j].row # "there", pictures'[j].file
            PROVE  j \in strays' \/ \E h \in Guests \ {g} : guest[h].at = "remove file" /\ guest[h].picture = j
        BY <2>1, <2>3, <2>6, <4>1 DEF PicturesInv, RowlessExplained
      <4>2. pictures'[i].row # "there" => i \in strays'
        BY <2>2, <2>3, <2>8
      <4> QED
        BY <4>1, <4>2 DEF Rowless
    <3>2. Fileless(g, Away)
      <4>1. ASSUME NEW j \in Pictures, j # i, pictures'[j].row = "there", ~pictures'[j].file
            PROVE  \/ j \in strays'
                   \/ \E h \in Guests \ {g} : guest[h].at \in Uploads /\ guest[h].picture = j
                   \/ \E h \in Guests \ {g} : guest[h].at = "wipe" /\ guest[h].post = pictures'[j].on
        BY <2>1, <2>3, <2>6, <4>1 DEF PicturesInv, FilelessExplained
      <4>2. pictures'[i].file
        BY <2>3, <2>8
      <4> QED
        BY <4>1, <4>2 DEF Fileless
    <3> QED
      BY <1>g, <2>2, <2>7, <2>8, <3>1, <3>2, AwaySound, PicturesTurn
  <2>9. CASE ~ok
    <3> DEFINE step == [guest[g] EXCEPT !.at = "unreserve"]
    <3>1. GuestSound(step) /\ step.at = "unreserve" /\ step.picture = i /\ Turns(g, step)
      BY <1>b, <2>1, <2>2, <2>9, TurnSteps DEF TurnsTo, Guest
    <3>2. pictures'[i].file => i \in strays'
      BY <2>2, <2>3, <2>9
    <3> HIDE DEF step, i
    <3>3. OwnPart(g, step) /\ OwnUpload(g, step)
      BY <2>3, <2>4, <2>5, <3>1, <3>2 DEF OwnPart, OwnUpload, WithPicture, Uploads
    <3>4. Rowless(g, step)
      BY <2>1, <2>3, <2>6, <3>1, <3>2 DEF Rowless, PicturesInv, RowlessExplained
    <3>5. Fileless(g, step)
      <4>1. ASSUME NEW j \in Pictures, j # i, pictures'[j].row = "there", ~pictures'[j].file
            PROVE  \/ j \in strays'
                   \/ \E h \in Guests \ {g} : guest[h].at \in Uploads /\ guest[h].picture = j
                   \/ \E h \in Guests \ {g} : guest[h].at = "wipe" /\ guest[h].post = pictures'[j].on
        <5>1. guest[g].picture # j
          BY <4>1 DEF i
        <5> QED
          BY <2>1, <2>3, <2>6, <4>1, <5>1 DEF PicturesInv, FilelessExplained
      <4> QED
        BY <3>1, <4>1 DEF Fileless, Uploads
    <3> QED
      BY <2>7, <3>1, <3>3, <3>4, <3>5, PicturesTurn
  <2> QED
    BY <2>8, <2>9
<1>h. ASSUME NEW i \in Pictures, WithoutRow(i)
      PROVE  /\ \A j \in Pictures \ {i} : pictures'[j] = pictures[j]
             /\ pictures'[i].file = pictures[i].file /\ pictures'[i].row # "there"
             /\ pictures[i].row = "gone" => pictures'[i].row = "gone"
             /\ pictures[i].row # "none" => pictures'[i].row # "none"
  BY <1>h, <1>d DEF WithoutRow, Picture
<1>6. ASSUME NEW g \in Guests, Unreserve(g) PROVE PicturesInv'
  <2>1. PICK i \in Pictures : i = guest[g].picture
    BY <1>6, <1>c DEF Unreserve, WithPicture
  <2>2. guest[g].at = "unreserve" /\ strays' = strays /\ Turns(g, Away) /\ WithoutRow(i)
    BY <1>6, <2>1 DEF Unreserve
  <2>3. ~pictures[i].file \/ i \in strays
    BY <2>1, <2>2 DEF PicturesInv, Unsaved
  <2>4. OthersPart(g)
    BY <1>c, <1>h, <2>2 DEF OthersPart, Uploads, WithPicture
  <2>5. Rowless(g, Away)
    BY <1>h, <2>2, <2>3 DEF Rowless, PicturesInv, RowlessExplained
  <2>6. Fileless(g, Away)
    BY <1>h, <2>1, <2>2 DEF Fileless, PicturesInv, FilelessExplained, Uploads
  <2> QED
    BY <1>g, <2>2, <2>4, <2>5, <2>6, AwaySound, PicturesTurn
<1>7. ASSUME NEW g \in Guests, NEW i \in Pictures, DeletePicture(g, i) PROVE PicturesInv'
  <2> DEFINE step == [Away EXCEPT !.at = "delete row", !.picture = i]
  <2>1. GuestSound(step) /\ step.at = "delete row" /\ step.picture = i
    BY VisitSteps DEF Away
  <2>2. Turns(g, step) /\ guest[g] = Away /\ pictures' = pictures /\ strays' = strays
        /\ pictures[i].row = "there"
    BY <1>7, Visited DEF DeletePicture
  <2>3. guest[g].at = "away"
    BY <2>2, AwaySound
  <2> HIDE DEF step
  <2>4. OwnPart(g, step) /\ OwnUpload(g, step)
    BY <2>1, <2>2 DEF OwnPart, OwnUpload, WithPicture, Uploads
  <2>5. OthersPart(g)
    BY <2>2 DEF OthersPart
  <2>6. Rowless(g, step)
    BY <2>2, <2>3 DEF Rowless, PicturesInv, RowlessExplained
  <2>7. Fileless(g, step)
    BY <2>2, <2>3 DEF Fileless, PicturesInv, FilelessExplained, Uploads
  <2> QED
    BY <2>1, <2>2, <2>4, <2>5, <2>6, <2>7, PicturesTurn
<1>8. ASSUME NEW g \in Guests, DeleteRow(g) PROVE PicturesInv'
  <2> DEFINE step == [guest[g] EXCEPT !.at = "remove file"]
  <2>1. PICK i \in Pictures : i = guest[g].picture
    BY <1>8, <1>c DEF DeleteRow, WithPicture
  <2>2. guest[g].at = "delete row" /\ strays' = strays /\ Turns(g, step) /\ WithoutRow(i)
    BY <1>8, <2>1 DEF DeleteRow, TurnsTo
  <2>3. GuestSound(step) /\ step.at = "remove file" /\ step.picture = i
    BY <1>b, <2>1, <2>2, TurnSteps DEF Guest
  <2>4. pictures[i].row # "none"
    BY <2>1, <2>2 DEF PicturesInv, Rowed, WithPicture
  <2> HIDE DEF step
  <2>5. OwnPart(g, step) /\ OwnUpload(g, step)
    BY <1>h, <2>2, <2>3, <2>4 DEF OwnPart, OwnUpload, Uploads
  <2>6. OthersPart(g)
    BY <1>c, <1>h, <2>2 DEF OthersPart, Uploads, WithPicture
  <2>7. Rowless(g, step)
    BY <1>h, <2>2, <2>3 DEF Rowless, PicturesInv, RowlessExplained
  <2>8. Fileless(g, step)
    <3>1. ASSUME NEW j \in Pictures, pictures'[j].row = "there", ~pictures'[j].file
          PROVE  \/ j \in strays'
                 \/ \E h \in Guests \ {g} : guest[h].at \in Uploads /\ guest[h].picture = j
                 \/ \E h \in Guests \ {g} : guest[h].at = "wipe" /\ guest[h].post = pictures'[j].on
      <4>1. pictures'[j] = pictures[j]
        BY <1>h, <2>2, <3>1
      <4> QED
        BY <2>2, <3>1, <4>1 DEF PicturesInv, FilelessExplained, Uploads
    <3> QED
      BY <3>1 DEF Fileless
  <2> QED
    BY <2>2, <2>3, <2>5, <2>6, <2>7, <2>8, PicturesTurn
<1>9. ASSUME NEW g \in Guests, RemoveFile(g) PROVE PicturesInv'
  <2>1. PICK i \in Pictures : i = guest[g].picture
    BY <1>9, <1>c DEF RemoveFile, WithPicture
  <2>2. guest[g].at = "remove file" /\ strays' = strays /\ Turns(g, Away) /\ pictures' = FileRemoved(i)
    BY <1>9, <2>1 DEF RemoveFile
  <2>3. /\ \A j \in Pictures \ {i} : pictures'[j] = pictures[j]
        /\ pictures'[i].row = pictures[i].row /\ ~pictures'[i].file
    BY <1>d, <2>1, <2>2 DEF FileRemoved, Picture
  <2>4. pictures[i].row # "there"
    BY <2>1, <2>2 DEF PicturesInv, Unsaved
  <2>5. OthersPart(g)
    BY <1>c, <2>2, <2>3 DEF OthersPart, Uploads, WithPicture
  <2>6. Rowless(g, Away)
    BY <2>1, <2>2, <2>3 DEF Rowless, PicturesInv, RowlessExplained
  <2>7. Fileless(g, Away)
    BY <2>2, <2>3, <2>4 DEF Fileless, PicturesInv, FilelessExplained, Uploads
  <2> QED
    BY <1>g, <2>2, <2>5, <2>6, <2>7, AwaySound, PicturesTurn
<1>10. ASSUME NEW g \in Guests, LeaveBoard(g) PROVE PicturesInv'
  <2>1. Turns(g, Away) /\ pictures' = pictures /\ strays' = strays \cup Interrupted(g)
    BY <1>10 DEF LeaveBoard
  <2>2. /\ guest[g].at = "wipe" => Interrupted(g) = Album(guest[g].post)
        /\ guest[g].at \in {"save", "unreserve", "remove file"} => Interrupted(g) = {guest[g].picture}
    BY DEF Interrupted
  <2>3. OthersPart(g)
    BY <2>1 DEF OthersPart
  <2>4. Rowless(g, Away)
    BY <2>1, <2>2 DEF Rowless, PicturesInv, RowlessExplained
  <2>5. Fileless(g, Away)
    BY <2>1, <2>2 DEF Fileless, PicturesInv, FilelessExplained, Uploads, Album
  <2> QED
    BY <1>g, <2>1, <2>3, <2>4, <2>5, AwaySound, PicturesTurn
<1>11. CASE SweepPosts
  <2>1. guest' = guest /\ strays' = strays \cup {i \in UNION {Album(p) : p \in Expired} : pictures[i].file}
    BY <1>11 DEF SweepPosts
  <2>2. \A i \in Pictures :
          /\ pictures'[i].file = pictures[i].file /\ pictures'[i].on = pictures[i].on
          /\ \/ pictures'[i] = pictures[i]
             \/ pictures[i].row = "there" /\ pictures'[i].row = "gone" /\ (pictures[i].file => i \in strays')
    <3> SUFFICES ASSUME NEW i \in Pictures
                 PROVE  /\ pictures'[i].file = pictures[i].file /\ pictures'[i].on = pictures[i].on
                        /\ \/ pictures'[i] = pictures[i]
                           \/ pictures[i].row = "there" /\ pictures'[i].row = "gone"
                              /\ (pictures[i].file => i \in strays')
      OBVIOUS
    <3>1. pictures'[i] = IF pictures[i].row = "there" /\ pictures[i].on \in Expired
                         THEN [pictures[i] EXCEPT !.row = "gone"] ELSE pictures[i]
      BY <1>11 DEF SweepPosts, Deleted
    <3>2. CASE pictures[i].row = "there" /\ pictures[i].on \in Expired
      <4>1. i \in Album(pictures[i].on)
        BY <3>2 DEF Album
      <4>2. pictures[i].file => i \in strays'
        BY <2>1, <3>2, <4>1
      <4> QED
        BY <1>d, <3>1, <3>2, <4>2 DEF Picture
    <3>3. CASE ~(pictures[i].row = "there" /\ pictures[i].on \in Expired)
      BY <3>1, <3>3
    <3> QED
      BY <3>2, <3>3
  <2>3. Rowed'
    BY <1>c, <2>1, <2>2 DEF PicturesInv, Rowed, WithPicture
  <2>7. Unsaved'
    <3> SUFFICES ASSUME NEW g \in Guests, guest[g].at \in {"save", "unreserve", "remove file"}
                 PROVE  /\ guest[g].at = "save" => ~pictures'[guest[g].picture].file
                        /\ guest[g].at = "unreserve" =>
                             ~pictures'[guest[g].picture].file \/ guest[g].picture \in strays'
                        /\ guest[g].at = "remove file" => pictures'[guest[g].picture].row # "there"
      BY <2>1 DEF Unsaved
    <3>1. guest[g].picture \in Pictures
      BY <1>c DEF WithPicture
    <3> QED
      BY <2>1, <2>2, <3>1 DEF PicturesInv, Unsaved
  <2>4. OneUpload'
    BY <2>1 DEF PicturesInv, OneUpload, Uploads
  <2>5. RowlessExplained'
    BY <2>1, <2>2 DEF PicturesInv, RowlessExplained
  <2>6. FilelessExplained'
    BY <2>1, <2>2 DEF PicturesInv, FilelessExplained, Uploads
  <2> QED
    BY <2>3, <2>4, <2>5, <2>6, <2>7 DEF PicturesInv
<1> QED
  BY <1>1, <1>2, <1>3, <1>4, <1>5, <1>6, <1>7, <1>8, <1>9, <1>10, <1>11, OthersPictures

\* A picture has a row and a file or neither, unless a request works on it or it is one
\* of the strays: for any number of pictures, of uploads, deletions and sweeps at once.
THEOREM PicturesTheorem == BoardSpec => []PicturesWhole
<1> QED
  BY BoardTypeInit, BoardTypeStep, PicturesInit, PicturesStep, PicturesSound, PTL DEF BoardSpec

-----------------------------------------------------------------------------
(* The cap.  As long as nobody has written on a count that was outrun, no  *)
(* visitor is over the cap, and who has counted and was not outrun since    *)
(* still has room.                                                          *)

Room(cat, by, except) == Cardinality(Counting(cat, by) \ {except}) < Cap
Within == \A id \in Identities, cat \in Categories : Cardinality(Held(cat, id)) <= Cap
RoomToInsert ==
  \A g \in Guests, cat \in Categories, by \in SUBSET Identities :
    guest[g].at = "insert" /\ ~guest[g].outrun /\ guest[g].cat = cat /\ guest[g].by = by => Room(cat, by, NoPost)
RoomToUpdate ==
  \A g \in Guests, p \in Posts, cat \in Categories, by \in SUBSET Identities :
    guest[g].at = "update" /\ ~guest[g].outrun /\ guest[g].post = p /\ guest[g].cat = cat /\ posts[p].by = by =>
      posts[p].st # "none" /\ (posts[p].cat = cat \/ Room(cat, by, p))
CapInv == ~crossed => Within /\ RoomToInsert /\ RoomToUpdate

LEMMA CountingFinite ==
  ASSUME NEW cat, NEW by, NEW except
  PROVE  /\ Counting(cat, by) \subseteq Posts /\ IsFiniteSet(Counting(cat, by))
         /\ IsFiniteSet(Counting(cat, by) \ {except})
         /\ \A id : Held(cat, id) \subseteq Posts /\ IsFiniteSet(Held(cat, id))
<1>1. Counting(cat, by) \subseteq Posts /\ \A id : Held(cat, id) \subseteq Posts
  BY DEF Counting, Held
<1> QED
  BY <1>1, FS_Subset, BoardAssumption

LEMMA CapSound == BoardTypeInv /\ CapInv => CapOnlyByOverlap
<1> SUFFICES ASSUME BoardTypeInv, CapInv, ~crossed, NEW id \in Identities, NEW cat \in Categories
             PROVE  ~(Cardinality(Held(cat, id)) > Cap)
  BY DEF CapOnlyByOverlap
<1>1. Cardinality(Held(cat, id)) <= Cap
  BY DEF CapInv, Within
<1>2. Cardinality(Held(cat, id)) \in Nat /\ Cap \in Nat
  BY CountingFinite, FS_CardinalityType, BoardAssumption
<1> QED
  BY <1>1, <1>2

LEMMA CapInit == BoardInit => CapInv
<1> SUFFICES ASSUME BoardInit PROVE CapInv
  OBVIOUS
<1>1. ASSUME NEW id \in Identities, NEW cat \in Categories PROVE Cardinality(Held(cat, id)) <= Cap
  <2>1. Held(cat, id) = {}
    BY DEF BoardInit, Held, Live, Posted
  <2> QED
    BY <2>1, FS_EmptySet, BoardAssumption
<1>2. \A g \in Guests : guest[g].at = "away"
  BY AwaySound DEF BoardInit
<1> QED
  BY <1>1, <1>2 DEF CapInv, Within, RoomToInsert, RoomToUpdate

\* The steps that bring no post back and change neither its type nor its owner.
PostsLose ==
  \A p \in Posts : /\ posts'[p].by = posts[p].by /\ posts'[p].cat = posts[p].cat
                   /\ Live(p)' => Live(p)
                   /\ posts[p].st # "none" => posts'[p].st # "none"
LEMMA RoomStays ==
  ASSUME PostsLose, NEW cat, NEW by, NEW except
  PROVE  /\ Cardinality(Counting(cat, by)') <= Cardinality(Counting(cat, by))
         /\ Room(cat, by, except) => Room(cat, by, except)'
<1>1. Counting(cat, by)' \subseteq Counting(cat, by)
  BY DEF PostsLose, Counting
<1>2. IsFiniteSet(Counting(cat, by)) /\ IsFiniteSet(Counting(cat, by) \ {except})
  BY CountingFinite
<1>3. /\ Cardinality(Counting(cat, by)') <= Cardinality(Counting(cat, by))
      /\ Cardinality(Counting(cat, by)' \ {except}) <= Cardinality(Counting(cat, by) \ {except})
  <2>1. Counting(cat, by)' \ {except} \subseteq Counting(cat, by) \ {except}
    BY <1>1
  <2> QED
    BY <1>1, <1>2, <2>1, FS_Subset
<1>4. /\ Cardinality(Counting(cat, by)' \ {except}) \in Nat /\ Cardinality(Counting(cat, by) \ {except}) \in Nat
      /\ Cap \in Nat
  <2>1. IsFiniteSet(Counting(cat, by)' \ {except})
    BY <1>1, <1>2, FS_Subset
  <2> QED
    BY <1>2, <2>1, FS_CardinalityType, BoardAssumption
<1> QED
  BY <1>3, <1>4 DEF Room

\* Who counts after the step has counted before it, or has room now.
SameCount(x) ==
  guest'[x].at \in {"insert", "update"} =>
    /\ guest'[x].at = guest[x].at /\ guest'[x].cat = guest[x].cat /\ guest'[x].by = guest[x].by
    /\ guest'[x].post = guest[x].post /\ guest'[x].outrun = guest[x].outrun
CountsNow(x) ==
  /\ guest'[x].at = "insert" => Room(guest'[x].cat, guest'[x].by, NoPost)
  /\ guest'[x].at = "update" =>
       /\ posts[guest'[x].post].st # "none"
       /\ \/ posts[guest'[x].post].cat = guest'[x].cat
          \/ Room(guest'[x].cat, posts[guest'[x].post].by, guest'[x].post)

LEMMA CapByLoss ==
  ASSUME BoardTypeInv, CapInv, PostsLose, crossed' = crossed, \A x \in Guests : SameCount(x) \/ CountsNow(x)
  PROVE  CapInv'
<1> SUFFICES ASSUME ~crossed PROVE Within' /\ RoomToInsert' /\ RoomToUpdate'
  BY DEF CapInv
<1>1. Within /\ RoomToInsert /\ RoomToUpdate
  BY DEF CapInv
<1>2. Within'
  <2> SUFFICES ASSUME NEW id \in Identities, NEW cat \in Categories
               PROVE  Cardinality(Held(cat, id)') <= Cap
    BY DEF Within
  <2>1. Cardinality(Held(cat, id)) <= Cap
    BY <1>1 DEF Within
  <2>3. Held(cat, id)' \subseteq Held(cat, id)
    BY DEF PostsLose, Held
  <2>4. IsFiniteSet(Held(cat, id)) /\ IsFiniteSet(Held(cat, id)')
    BY <2>3, CountingFinite, FS_Subset
  <2>2. Cardinality(Held(cat, id)') <= Cardinality(Held(cat, id))
    BY <2>3, <2>4, FS_Subset
  <2>5. Cardinality(Held(cat, id)') \in Nat /\ Cardinality(Held(cat, id)) \in Nat /\ Cap \in Nat
    BY <2>4, FS_CardinalityType, BoardAssumption
  <2> QED
    BY <2>1, <2>2, <2>5
<1>3. RoomToInsert'
  <2> SUFFICES ASSUME NEW x \in Guests, NEW cat \in Categories, NEW by \in SUBSET Identities,
                      guest'[x].at = "insert", ~guest'[x].outrun, guest'[x].cat = cat, guest'[x].by = by
               PROVE  Room(cat, by, NoPost)'
    BY DEF RoomToInsert
  <2>1. Room(cat, by, NoPost)
    BY <1>1 DEF RoomToInsert, SameCount, CountsNow
  <2> QED
    BY <2>1, RoomStays
<1>4. RoomToUpdate'
  <2> SUFFICES ASSUME NEW x \in Guests, NEW p \in Posts, NEW cat \in Categories, NEW by \in SUBSET Identities,
                      guest'[x].at = "update", ~guest'[x].outrun, guest'[x].post = p, guest'[x].cat = cat,
                      posts'[p].by = by
               PROVE  posts'[p].st # "none" /\ (posts'[p].cat = cat \/ Room(cat, by, p)')
    BY DEF RoomToUpdate
  <2>1. posts'[p].cat = posts[p].cat /\ posts[p].by = by /\ (posts[p].st # "none" => posts'[p].st # "none")
    BY DEF PostsLose
  <2>2. posts[p].st # "none" /\ (posts[p].cat = cat \/ Room(cat, by, p))
    BY <1>1, <2>1 DEF RoomToUpdate, SameCount, CountsNow
  <2> QED
    BY <2>1, <2>2, RoomStays
<1> QED
  BY <1>2, <1>3, <1>4

LEMMA CapByTurn ==
  ASSUME BoardTypeInv, CapInv, NEW g \in Guests, NEW step, GuestSound(step), Turns(g, step),
         step.at \notin {"insert", "update"}, PostsLose, crossed' = crossed
  PROVE  CapInv'
<1>1. \A x \in Guests : SameCount(x)
  BY Turned DEF SameCount
<1> QED
  BY <1>1, CapByLoss

\* A post p is written on a count: whoever has counted is outrun, and p fits in.
LEMMA CapByWrite ==
  ASSUME BoardTypeInv, CapInv, NEW g \in Guests, WritesPost(g), NEW p \in Posts, NEW cat, NEW by,
         \A q \in Posts \ {p} : posts'[q] = posts[q],
         posts'[p].cat = cat, posts'[p].by = by,
         ~crossed /\ ~guest[g].outrun => Room(cat, by, p)
  PROVE  CapInv'
<1> SUFFICES ASSUME ~crossed' PROVE Within' /\ RoomToInsert' /\ RoomToUpdate'
  BY DEF CapInv
<1>1. ~crossed /\ ~guest[g].outrun /\ Within /\ Room(cat, by, p)
  BY Wrote DEF CapInv
<1>2. \A x \in Guests : guest'[x].at \in {"insert", "update"} => guest'[x].outrun
  BY Wrote, AwaySound
<1>3. RoomToInsert' /\ RoomToUpdate'
  BY <1>2 DEF RoomToInsert, RoomToUpdate
<1>4. Within'
  <2> SUFFICES ASSUME NEW id \in Identities, NEW c \in Categories
               PROVE  Cardinality(Held(c, id)') <= Cap
    BY DEF Within
  <2>1. Cap \in Nat /\ Cardinality(Held(c, id)) <= Cap
    BY <1>1, BoardAssumption DEF Within
  <2>2. CASE c # cat \/ id \notin by \/ (id \in TelegramNames /\ ~(by \subseteq TelegramNames))
    <3>1. Held(c, id)' \subseteq Held(c, id)
      BY <2>2 DEF Held, Live, Posted
    <3>2. IsFiniteSet(Held(c, id))
      BY CountingFinite
    <3>3. Cardinality(Held(c, id)') <= Cardinality(Held(c, id))
          /\ Cardinality(Held(c, id)') \in Nat /\ Cardinality(Held(c, id)) \in Nat
      BY <3>1, <3>2, FS_Subset, FS_CardinalityType
    <3> QED
      BY <2>1, <3>3
  <2>3. CASE c = cat /\ id \in by /\ (id \in TelegramNames => by \subseteq TelegramNames)
    <3> DEFINE before == Counting(cat, by) \ {p}
    <3>1. Held(c, id)' \subseteq before \cup {p}
      <4> SUFFICES ASSUME NEW q \in Held(c, id)', q # p PROVE q \in Counting(cat, by)
        OBVIOUS
      <4>1. q \in Posts /\ posts'[q] = posts[q] /\ q \in Held(c, id)
        BY DEF Held, Live, Posted
      <4>2. SameVisitor(by, posts[q].by)
        BY <2>3, <4>1, BoardAssumption DEF Held, SameVisitor, TelegramNames
      <4> QED
        BY <2>3, <4>1, <4>2 DEF Counting, Held
    <3>2. IsFiniteSet(before) /\ Cardinality(before) < Cap /\ p \notin before
      BY <1>1, CountingFinite DEF Room
    <3> HIDE DEF before
    <3>3. Cardinality(before \cup {p}) = Cardinality(before) + 1 /\ IsFiniteSet(before \cup {p})
      BY <3>2, FS_AddElement
    <3>4. Cardinality(Held(c, id)') <= Cardinality(before \cup {p})
          /\ Cardinality(Held(c, id)') \in Nat /\ Cardinality(before) \in Nat
      BY <3>1, <3>2, <3>3, FS_Subset, FS_CardinalityType
    <3> QED
      BY <2>1, <3>2, <3>3, <3>4
  <2> QED
    BY <2>2, <2>3
<1> QED
  BY <1>3, <1>4

LEMMA CapStep == BoardTypeInv /\ CapInv /\ [BoardNext]_boardVars => CapInv'
<1> SUFFICES ASSUME BoardTypeInv, CapInv, [BoardNext]_boardVars PROVE CapInv'
  OBVIOUS
<1>b. \A g \in Guests : guest[g] \in Guest /\ GuestShape(guest[g]) /\ GuestSound(guest[g])
  BY DEF BoardTypeInv, BoardTypeOK, GuestSound
<1>c. \A g \in Guests : guest[g].at \in WithPost => guest[g].post \in Posts
  BY <1>b, GuestFields DEF GuestShape
<1>d. posts \in [Posts -> Post] /\ \A p \in Posts : posts[p] \in Post
  BY RowFields DEF BoardTypeInv, BoardTypeOK
<1>e. Away.at \notin {"insert", "update"}
  BY AwaySound
<1>f. posts' = posts => PostsLose
  BY DEF PostsLose, Live, Posted
<1>g. ASSUME NEW ps, Deleted(ps) PROVE PostsLose
  <2> SUFFICES ASSUME NEW p \in Posts
               PROVE  /\ posts'[p].by = posts[p].by /\ posts'[p].cat = posts[p].cat
                      /\ Live(p)' => Live(p)
                      /\ posts[p].st # "none" => posts'[p].st # "none"
    BY DEF PostsLose
  <2>1. posts'[p] = posts[p] \/ posts'[p] = [posts[p] EXCEPT !.st = "gone"]
    BY <1>g DEF Deleted
  <2> QED
    BY <1>d, <2>1 DEF Post, Live, Posted
<1>1. ASSUME NEW g \in Guests, NEW by \in Owner, NEW cat \in Categories, CheckPost(g, by, cat) PROVE CapInv'
  <2> DEFINE step == [Away EXCEPT !.at = "insert", !.by = by, !.cat = cat]
  <2>1. GuestSound(step)
    BY VisitSteps DEF Owner
  <2>2. step.at = "insert" /\ step.by = by /\ step.cat = cat
    BY DEF Away
  <2>3. Visits(g, step) /\ posts' = posts /\ crossed' = crossed
    BY <1>1 DEF CheckPost
  <2>4. Room(cat, by, NoPost)
    <3>1. Cardinality(Counting(cat, by) \ {NoPost}) \in Nat /\ Cap \in Nat
      BY CountingFinite, FS_CardinalityType, BoardAssumption
    <3> QED
      BY <1>1, <3>1 DEF CheckPost, Exceeded, Room
  <2> HIDE DEF step
  <2>5. guest'[g] = step /\ \A x \in Guests \ {g} : guest'[x] = guest[x]
    BY <2>1, <2>3, Visited, Turned
  <2>6. \A x \in Guests : SameCount(x) \/ CountsNow(x)
    BY <2>2, <2>4, <2>5 DEF SameCount, CountsNow
  <2> QED
    BY <1>f, <2>3, <2>6, CapByLoss
<1>2. ASSUME NEW g \in Guests, NEW p \in Posts, InsertPost(g, p) PROVE CapInv'
  <2>1. /\ posts'[p].by = guest[g].by /\ posts'[p].cat = guest[g].cat
        /\ \A q \in Posts \ {p} : posts'[q] = posts[q]
    BY <1>2, <1>d DEF InsertPost
  <2>2. ~crossed /\ ~guest[g].outrun => Room(guest[g].cat, guest[g].by, p)
    <3>1. guest[g].cat \in Categories /\ guest[g].by \in SUBSET Identities /\ guest[g].at = "insert"
          /\ posts[p].st = "none"
      BY <1>2, <1>b, GuestFields DEF InsertPost
    <3>2. ~crossed /\ ~guest[g].outrun => Room(guest[g].cat, guest[g].by, NoPost)
      BY <3>1 DEF CapInv, RoomToInsert
    <3>3. Counting(guest[g].cat, guest[g].by) \ {NoPost} = Counting(guest[g].cat, guest[g].by) \ {p}
      BY <3>1, BoardAssumption DEF Counting, Live, Posted
    <3> QED
      BY <3>2, <3>3 DEF Room
  <2> QED
    BY <1>2, <2>1, <2>2, CapByWrite DEF InsertPost
<1>3. ASSUME NEW g \in Guests, UpdatePost(g) PROVE CapInv'
  <2>1. PICK p \in Posts : p = guest[g].post
    BY <1>3, <1>c DEF UpdatePost, WithPost
  <2>2. CASE Posted(p) /\ posts[p].cat # guest[g].cat
    <3>1. posts' = [posts EXCEPT ![p].cat = guest[g].cat] /\ WritesPost(g) /\ guest[g].at = "update"
      BY <1>3, <2>1, <2>2 DEF UpdatePost
    <3>2. /\ posts'[p].by = posts[p].by /\ posts'[p].cat = guest[g].cat
          /\ \A q \in Posts \ {p} : posts'[q] = posts[q]
      BY <1>d, <3>1 DEF Post
    <3>3. guest[g].cat \in Categories /\ posts[p].by \in SUBSET Identities
      BY <1>b, <1>d, GuestFields DEF Post
    <3>4. ~crossed /\ ~guest[g].outrun => Room(guest[g].cat, posts[p].by, p)
      BY <2>1, <2>2, <3>1, <3>3 DEF CapInv, RoomToUpdate
    <3> QED
      BY <3>1, <3>2, <3>4, CapByWrite
  <2>3. CASE ~(Posted(p) /\ posts[p].cat # guest[g].cat)
    <3>1. Turns(g, Away) /\ posts' = posts /\ crossed' = crossed
      BY <1>3, <2>1, <2>3 DEF UpdatePost
    <3> QED
      BY <1>e, <1>f, <3>1, AwaySound, CapByTurn
  <2> QED
    BY <2>2, <2>3
<1>4. ASSUME NEW g \in Guests, NEW p \in Posts, NEW cat \in Categories,
             Visits(g, [Away EXCEPT !.at = "update", !.post = p, !.cat = cat]), Live(p),
             posts[p].cat = cat \/ Room(cat, posts[p].by, p),
             UNCHANGED <<posts, pictures, letters, crossed, strays, served>>
      PROVE  CapInv'
  <2> DEFINE step == [Away EXCEPT !.at = "update", !.post = p, !.cat = cat]
  <2>1. GuestSound(step) /\ step.at = "update" /\ step.post = p /\ step.cat = cat
    BY VisitSteps DEF Away
  <2>2. Visits(g, step)
    BY <1>4
  <2> HIDE DEF step
  <2>3. guest'[g] = step /\ \A x \in Guests \ {g} : guest'[x] = guest[x]
    BY <2>1, <2>2, Visited, Turned
  <2>4. CountsNow(g)
    BY <1>4, <2>1, <2>3 DEF CountsNow, Live, Posted
  <2>5. \A x \in Guests : SameCount(x) \/ CountsNow(x)
    BY <2>3, <2>4 DEF SameCount
  <2> QED
    BY <1>4, <1>f, <2>5, CapByLoss
<1>5. ASSUME NEW g \in Guests, NEW p \in Posts, PatchPost(g, p) PROVE CapInv'
  <2>1. posts[p].cat \in Categories
    BY <1>d DEF Post
  <2> QED
    BY <1>4, <1>5, <2>1 DEF PatchPost
<1>6. ASSUME NEW g \in Guests, NEW p \in Posts, NEW cat \in Categories, ReplacePost(g, p, cat) PROVE CapInv'
  <2>1. Cardinality(Counting(cat, posts[p].by) \ {p}) \in Nat /\ Cap \in Nat
    BY CountingFinite, FS_CardinalityType, BoardAssumption
  <2>2. Room(cat, posts[p].by, p)
    BY <1>6, <2>1 DEF ReplacePost, Exceeded, Room
  <2> QED
    BY <1>4, <1>6, <2>2 DEF ReplacePost
<1>7. ASSUME NEW g \in Guests, NEW p \in Posts, OpenManagePage(g, p) \/ DeletePost(g, p) \/ CheckUpload(g, p)
                                                \/ WriteReply(g, p)
      PROVE  CapInv'
  <2>1. PICK at \in {"verify", "unlink", "reserve", "write"} :
          Visits(g, [Away EXCEPT !.at = at, !.post = p]) /\ posts' = posts /\ crossed' = crossed
    BY <1>7 DEF OpenManagePage, DeletePost, CheckUpload, WriteReply
  <2>2. GuestSound([Away EXCEPT !.at = at, !.post = p])
        /\ [Away EXCEPT !.at = at, !.post = p].at \notin {"insert", "update"}
    BY VisitSteps DEF Away
  <2> QED
    BY <1>f, <2>1, <2>2, Visited, CapByTurn
<1>8. ASSUME NEW g \in Guests, VerifyPost(g) PROVE CapInv'
  <2>1. PostsLose
    <3>1. PICK p \in Posts : p = guest[g].post
      BY <1>8, <1>c DEF VerifyPost, WithPost
    <3>2. posts' = posts \/ posts' = [posts EXCEPT ![p].verified = TRUE]
      BY <1>8, <3>1 DEF VerifyPost
    <3>3. CASE posts' = [posts EXCEPT ![p].verified = TRUE]
      BY <1>d, <3>3 DEF PostsLose, Live, Posted, Post
    <3> QED
      BY <1>f, <3>2, <3>3
  <2> QED
    BY <1>8, <1>e, <2>1, AwaySound, CapByTurn DEF VerifyPost
<1>9. ASSUME NEW g \in Guests, WipePost(g) PROVE CapInv'
  BY <1>9, <1>e, <1>g, AwaySound, CapByTurn DEF WipePost
<1>10. ASSUME NEW g \in Guests,
              Unreserve(g) \/ RemoveFile(g) \/ DiscardLetter(g) \/ ServeLetter(g) \/ LeaveBoard(g)
              \/ \E l \in Letters : SendReply(g, l)
       PROVE  CapInv'
  <2>1. Turns(g, Away) /\ posts' = posts /\ crossed' = crossed
    BY <1>10 DEF Unreserve, RemoveFile, DiscardLetter, ServeLetter, LeaveBoard, SendReply
  <2> QED
    BY <1>e, <1>f, <2>1, AwaySound, CapByTurn
<1>h. ASSUME NEW g \in Guests, NEW at \in {"wipe", "unreserve", "remove file", "mint"}, TurnsTo(g, at),
             GuestSound([guest[g] EXCEPT !.at = at]), posts' = posts, crossed' = crossed
      PROVE  CapInv'
  <2>1. [guest[g] EXCEPT !.at = at].at \notin {"insert", "update"}
    BY <1>b DEF Guest
  <2> QED
    BY <1>h, <1>f, <2>1, CapByTurn DEF TurnsTo
<1>11. ASSUME NEW g \in Guests, UnlinkPictures(g) \/ DeleteRow(g) \/ SpendLetter(g) PROVE CapInv'
  <2>1. CASE UnlinkPictures(g)
    BY <1>h, <1>b, <2>1, TurnSteps DEF UnlinkPictures
  <2>2. CASE DeleteRow(g)
    BY <1>h, <1>b, <2>2, TurnSteps DEF DeleteRow
  <2>3. CASE SpendLetter(g)
    BY <1>h, <1>b, <2>3, TurnSteps DEF SpendLetter
  <2> QED
    BY <1>11, <2>1, <2>2, <2>3
<1>12. ASSUME NEW g \in Guests, SavePicture(g) PROVE CapInv'
  <2>1. (Turns(g, Away) \/ TurnsTo(g, "unreserve")) /\ posts' = posts /\ crossed' = crossed
    BY <1>12 DEF SavePicture
  <2>2. GuestSound([guest[g] EXCEPT !.at = "unreserve"])
    BY <1>12, <1>b, TurnSteps DEF SavePicture
  <2> QED
    BY <1>e, <1>f, <1>h, <2>1, <2>2, AwaySound, CapByTurn
<1>13. ASSUME NEW g \in Guests, NEW i \in Pictures, ReservePicture(g, i) PROVE CapInv'
  <2>1. GuestSound([guest[g] EXCEPT !.at = "save", !.picture = i])
        /\ [guest[g] EXCEPT !.at = "save", !.picture = i].at \notin {"insert", "update"}
    BY <1>13, <1>b, TurnSteps DEF ReservePicture, Guest
  <2>2. Turns(g, Away) \/ Turns(g, [guest[g] EXCEPT !.at = "save", !.picture = i])
    BY <1>13 DEF ReservePicture
  <2>3. posts' = posts /\ crossed' = crossed
    BY <1>13 DEF ReservePicture
  <2> QED
    BY <1>e, <1>f, <2>1, <2>2, <2>3, AwaySound, CapByTurn
<1>14. ASSUME NEW g \in Guests, NEW i \in Pictures, DeletePicture(g, i) PROVE CapInv'
  <2>1. GuestSound([Away EXCEPT !.at = "delete row", !.picture = i])
        /\ [Away EXCEPT !.at = "delete row", !.picture = i].at \notin {"insert", "update"}
    BY VisitSteps DEF Away
  <2> QED
    BY <1>14, <1>f, <2>1, Visited, CapByTurn DEF DeletePicture
<1>15. ASSUME NEW g \in Guests, NEW l \in Letters, OpenLetter(g, l) PROVE CapInv'
  <2>1. PICK at \in {"discard", "spend"} :
          Visits(g, [Away EXCEPT !.letter = l, !.at = at]) /\ posts' = posts /\ crossed' = crossed
    BY <1>15 DEF OpenLetter
  <2>2. GuestSound([Away EXCEPT !.letter = l, !.at = at])
        /\ [Away EXCEPT !.letter = l, !.at = at].at \notin {"insert", "update"}
    BY VisitSteps DEF Away
  <2> QED
    BY <1>f, <2>1, <2>2, Visited, CapByTurn
<1>i. ASSUME PostsLose, guest' = guest, crossed' = crossed PROVE CapInv'
  BY <1>i, CapByLoss DEF SameCount
<1>16. ASSUME NEW p \in Posts, PostExpires(p) PROVE CapInv'
  <2>1. PostsLose
    BY <1>16, <1>d DEF PostExpires, PostsLose, Live, Posted, Post
  <2> QED
    BY <1>16, <1>i, <2>1 DEF PostExpires
<1>17. CASE SweepPosts
  BY <1>17, <1>g, <1>i DEF SweepPosts
<1>18. CASE SweepLetters \/ (\E l \in Letters : RequestRenewal(l) \/ LetterExpires(l)) \/ UNCHANGED boardVars
  BY <1>18, <1>f, <1>i DEF SweepLetters, RequestRenewal, LetterExpires, boardVars
<1> QED
  BY <1>1, <1>2, <1>3, <1>5, <1>6, <1>7, <1>8, <1>9, <1>10, <1>11, <1>12, <1>13, <1>14, <1>15, <1>16,
     <1>17, <1>18 DEF BoardNext

\* Whoever is over the cap was let there by two requests that overlapped, for any cap and
\* any number of visitors, posts and categories.
THEOREM CapTheorem == BoardSpec => []CapOnlyByOverlap
<1> QED
  BY BoardTypeInit, BoardTypeStep, CapInit, CapStep, CapSound, PTL DEF BoardSpec
================================================================================
