-------------------------------- MODULE Board --------------------------------
(***************************************************************************)
(* The contact board of one event of cmd/dansal: posts and the links that   *)
(* manage them, the cap on a visitor's posts (contact_posts.go), the        *)
(* pictures of a post (contact_post_images.go), replies that their sender   *)
(* confirms, links that renew a board session (board_sessions.go), and the  *)
(* hourly sweep (main.go).                                                  *)
(*                                                                         *)
(* A post's columns are its type's category and whom it counts for.  Board  *)
(* sessions only decide whether a post is verified at once: they are the    *)
(* choice in InsertPost.  Forwarding to a poster without a channel sends    *)
(* nothing and is not told apart.                                           *)
(***************************************************************************)
EXTENDS Naturals, FiniteSets

CONSTANTS
  Posts,      \* rows of contact_posts
  Identities, \* addresses, accounts and Telegram names that the cap counts
  Mails, Accounts, \* the addresses and the accounts among them
  Categories, \* postTypeCategoryGroup
  LostFound,  \* the category whose posts may have pictures
  Pictures,   \* rows of contact_post_images and their files
  Letters,    \* rows of contact_requests and of the renew tokens
  Guests,     \* concurrently running requests
  NoPost, NoPicture, NoLetter,
  Cap,        \* postCategoryCap, the same for every category
  MaxOpenPosts, \* max_open_tokens_per_address
  PictureCap, \* contactPostImageCap
  MaxVisits   \* bound: requests that are begun

ASSUME BoardAssumption ==
  /\ IsFiniteSet(Posts) /\ LostFound \in Categories /\ Mails \cup Accounts \subseteq Identities
  /\ NoPost \notin Posts /\ NoPicture \notin Pictures /\ NoLetter \notin Letters
  /\ Cap \in Nat \ {0} /\ MaxOpenPosts \in Nat \ {0} /\ PictureCap \in Nat \ {0}
  /\ MaxVisits \in Nat

TelegramNames == Identities \ (Mails \cup Accounts)
Owner == (SUBSET Identities) \ {{}}
Post == [st : {"none", "there", "gone"}, by : SUBSET Identities, cat : Categories,
         verified : BOOLEAN, over : BOOLEAN]
Picture == [row : {"none", "there", "gone"}, file : BOOLEAN, on : Posts \cup {NoPost}]
Letter == [st : {"none", "open", "spent", "gone"}, kind : {"reply", "renewal"},
           on : Posts \cup {NoPost}, over : BOOLEAN]
BoardSteps == {"away", "insert", "verify", "update", "unlink", "wipe", "reserve", "save",
               "unreserve", "delete row", "remove file", "write", "discard", "spend", "mint"}
Guest == [at : BoardSteps, by : SUBSET Identities, cat : Categories, post : Posts \cup {NoPost},
          picture : Pictures \cup {NoPicture}, letter : Letters \cup {NoLetter}, outrun : BOOLEAN]

VARIABLES
  posts, pictures, letters,
  guest,    \* guest[g]: the step request g executes next, and what it has read or was
            \* sent (outrun is a ghost: the posts were changed since it read them)
  visits,   \* requests begun
  crossed,  \* ghost: a post was written on a count that another request had outrun
  strays,   \* ghost: pictures whose row and file an upload, a sweep or a failure parted
  served    \* ghost: served[l]: replies forwarded, sessions minted with letter l

boardVars == <<posts, pictures, letters, guest, visits, crossed, strays, served>>

Away == [at |-> "away", by |-> {}, cat |-> LostFound, post |-> NoPost, picture |-> NoPicture,
         letter |-> NoLetter, outrun |-> FALSE]
BoardInit ==
  /\ posts = [p \in Posts |-> [st |-> "none", by |-> {}, cat |-> LostFound,
                               verified |-> FALSE, over |-> FALSE]]
  /\ pictures = [i \in Pictures |-> [row |-> "none", file |-> FALSE, on |-> NoPost]]
  /\ letters = [l \in Letters |-> [st |-> "none", kind |-> "reply", on |-> NoPost, over |-> FALSE]]
  /\ guest = [g \in Guests |-> Away]
  /\ visits = 0
  /\ crossed = FALSE /\ strays = {}
  /\ served = [l \in Letters |-> 0]

Posted(p) == posts[p].st = "there"
Live(p) == Posted(p) /\ ~posts[p].over
Visits(g, step) ==
  /\ guest[g] = Away
  /\ visits < MaxVisits
  /\ visits' = visits + 1
  /\ guest' = [guest EXCEPT ![g] = step]
Turns(g, step) == guest' = [guest EXCEPT ![g] = step]
TurnsTo(g, at) == Turns(g, [guest[g] EXCEPT !.at = at])

-----------------------------------------------------------------------------
(* Posts                                                                   *)

\* boardPostCapExceeded: live posts of the category with the visitor's address or
\* account; a Telegram name counts for a visitor who gives neither, and only in
\* posts without an address.
SameVisitor(by, of) ==
  \/ (by \cap of) \ TelegramNames # {}
  \/ by \subseteq TelegramNames /\ of \cap Mails = {} /\ by \cap of # {}
Counting(cat, by) == {p \in Posts : Live(p) /\ posts[p].cat = cat /\ SameVisitor(by, posts[p].by)}
\* Mutant: off by one.
ExceededLate(cat, by, except) == Cardinality(Counting(cat, by) \ {except}) > Cap
Exceeded(cat, by, except) == Cardinality(Counting(cat, by) \ {except}) >= Cap

\* createContactPost: the limit of posts of an address that wait to be verified,
\* then the cap.
Waiting(id) == {p \in Posts : Live(p) /\ ~posts[p].verified /\ id \in posts[p].by}
CheckPost(g, by, cat) ==
  /\ \A id \in by \cap Mails : Cardinality(Waiting(id)) < MaxOpenPosts
  /\ ~Exceeded(cat, by, NoPost)
  /\ Visits(g, [Away EXCEPT !.at = "insert", !.by = by, !.cat = cat])
  /\ UNCHANGED <<posts, pictures, letters, crossed, strays, served>>

\* g writes a post: whoever has counted before counted something else.
WritesPost(g) ==
  /\ guest' = [x \in Guests |->
       IF x = g THEN Away
       ELSE [guest[x] EXCEPT !.outrun = @ \/ guest[x].at \in {"insert", "update"}]]
  /\ crossed' = (crossed \/ guest[g].outrun)

InsertPost(g, p) ==
  /\ guest[g].at = "insert"
  /\ posts[p].st = "none"
  /\ \E sure \in BOOLEAN :
       posts' = [posts EXCEPT ![p] = [st |-> "there", by |-> guest[g].by, cat |-> guest[g].cat,
                                      verified |-> sure, over |-> FALSE]]
  /\ WritesPost(g)
  /\ UNCHANGED <<pictures, letters, visits, strays, served>>

\* getContactPostByToken: opening the manage page verifies the post.
OpenManagePage(g, p) ==
  /\ Live(p) /\ ~posts[p].verified
  /\ Visits(g, [Away EXCEPT !.at = "verify", !.post = p])
  /\ UNCHANGED <<posts, pictures, letters, crossed, strays, served>>

VerifyPost(g) ==
  /\ guest[g].at = "verify"
  /\ posts' = IF Posted(guest[g].post) THEN [posts EXCEPT ![guest[g].post].verified = TRUE] ELSE posts
  /\ Turns(g, Away)
  /\ UNCHANGED <<pictures, letters, visits, crossed, strays, served>>

\* putContactPost, and updateContactPost with a type: the cap for the new type.
ReplacePost(g, p, cat) ==
  /\ Live(p)
  /\ ~Exceeded(cat, posts[p].by, p)
  /\ Visits(g, [Away EXCEPT !.at = "update", !.post = p, !.cat = cat])
  /\ UNCHANGED <<posts, pictures, letters, crossed, strays, served>>

\* updateContactPost without one: the type it read is written back, uncounted.
PatchPost(g, p) ==
  /\ Live(p)
  /\ Visits(g, [Away EXCEPT !.at = "update", !.post = p, !.cat = posts[p].cat])
  /\ UNCHANGED <<posts, pictures, letters, crossed, strays, served>>

UpdatePost(g) ==
  /\ guest[g].at = "update"
  /\ LET p == guest[g].post IN
       IF Posted(p) /\ posts[p].cat # guest[g].cat
       THEN posts' = [posts EXCEPT ![p].cat = guest[g].cat] /\ WritesPost(g)
       ELSE Turns(g, Away) /\ UNCHANGED <<posts, crossed>>
  /\ UNCHANGED <<pictures, letters, visits, strays, served>>

\* deleteContactPostByManageToken, deleteContactPost.
DeletePost(g, p) ==
  /\ Posted(p)
  /\ Visits(g, [Away EXCEPT !.at = "unlink", !.post = p])
  /\ UNCHANGED <<posts, pictures, letters, crossed, strays, served>>

\* wipeAndDeleteContactPost: the files of the pictures there are, then the rows;
\* the foreign keys take pictures and replies along.
Album(p) == {i \in Pictures : pictures[i].row = "there" /\ pictures[i].on = p}
UnlinkPictures(g) ==
  /\ guest[g].at = "unlink"
  /\ pictures' = [i \in Pictures |-> IF i \in Album(guest[g].post)
                                     THEN [pictures[i] EXCEPT !.file = FALSE] ELSE pictures[i]]
  /\ TurnsTo(g, "wipe")
  /\ UNCHANGED <<posts, letters, visits, crossed, strays, served>>

Deleted(ps) ==
  /\ posts' = [p \in Posts |-> IF p \in ps /\ Posted(p) THEN [posts[p] EXCEPT !.st = "gone"] ELSE posts[p]]
  /\ pictures' = [i \in Pictures |-> IF pictures[i].row = "there" /\ pictures[i].on \in ps
                                     THEN [pictures[i] EXCEPT !.row = "gone"] ELSE pictures[i]]
  /\ letters' = [l \in Letters |-> IF letters[l].kind = "reply" /\ letters[l].on \in ps
                                      /\ letters[l].st \in {"open", "spent"}
                                   THEN [letters[l] EXCEPT !.st = "gone"] ELSE letters[l]]
WipePost(g) ==
  /\ guest[g].at = "wipe"
  /\ Deleted({guest[g].post})
  /\ Turns(g, Away)
  /\ strays' = strays \cup {i \in Album(guest[g].post) : pictures[i].file}
  /\ UNCHANGED <<visits, crossed, served>>

-----------------------------------------------------------------------------
(* Pictures                                                                *)

\* uploadContactPostImage: checks, a row for the id, the file.
CheckUpload(g, p) ==
  /\ Live(p) /\ posts[p].cat = LostFound
  /\ Cardinality(Album(p)) < PictureCap
  /\ Visits(g, [Away EXCEPT !.at = "reserve", !.post = p])
  /\ UNCHANGED <<posts, pictures, letters, crossed, strays, served>>

ReservePicture(g, i) ==
  /\ guest[g].at = "reserve"
  /\ pictures[i].row = "none"
  /\ IF Posted(guest[g].post)
     THEN /\ pictures' = [pictures EXCEPT ![i] = [row |-> "there", file |-> FALSE, on |-> guest[g].post]]
          /\ Turns(g, [guest[g] EXCEPT !.at = "save", !.picture = i])
     ELSE UNCHANGED pictures /\ Turns(g, Away)
  /\ UNCHANGED <<posts, letters, visits, crossed, strays, served>>

\* saveImageToDir; a failure may leave the part that was written.
SavePicture(g) ==
  /\ guest[g].at = "save"
  /\ LET i == guest[g].picture IN
       \E ok \in BOOLEAN, part \in BOOLEAN :
         /\ pictures' = [pictures EXCEPT ![i].file = ok \/ part]
         /\ IF ok THEN Turns(g, Away) ELSE TurnsTo(g, "unreserve")
         /\ strays' = IF (ok \/ part) /\ (~ok \/ pictures[i].row # "there") THEN strays \cup {i} ELSE strays
  /\ UNCHANGED <<posts, letters, visits, crossed, served>>

WithoutRow(i) ==
  pictures' = IF pictures[i].row = "there" THEN [pictures EXCEPT ![i].row = "gone"] ELSE pictures
Unreserve(g) ==
  /\ guest[g].at = "unreserve"
  /\ WithoutRow(guest[g].picture)
  /\ Turns(g, Away)
  /\ UNCHANGED <<posts, letters, visits, crossed, strays, served>>

\* deleteContactPostImage: the row, then the file.
DeletePicture(g, i) ==
  /\ pictures[i].row = "there" /\ Live(pictures[i].on)
  /\ Visits(g, [Away EXCEPT !.at = "delete row", !.picture = i])
  /\ UNCHANGED <<posts, pictures, letters, crossed, strays, served>>
DeleteRow(g) ==
  /\ guest[g].at = "delete row"
  /\ WithoutRow(guest[g].picture)
  /\ TurnsTo(g, "remove file")
  /\ UNCHANGED <<posts, letters, visits, crossed, strays, served>>
FileKept(i) == pictures  \* mutant: only the row goes
FileRemoved(i) == [pictures EXCEPT ![i].file = FALSE]
RemoveFile(g) ==
  /\ guest[g].at = "remove file"
  /\ pictures' = FileRemoved(guest[g].picture)
  /\ Turns(g, Away)
  /\ UNCHANGED <<posts, letters, visits, crossed, strays, served>>

-----------------------------------------------------------------------------
(* Letters                                                                 *)

\* contactPoster: a reply to a verified post waits for its sender.
WriteReply(g, p) ==
  /\ Live(p) /\ posts[p].verified
  /\ Visits(g, [Away EXCEPT !.at = "write", !.post = p])
  /\ UNCHANGED <<posts, pictures, letters, crossed, strays, served>>

NewLetter(kind, p) == [st |-> "open", kind |-> kind, on |-> p, over |-> FALSE]
SendReply(g, l) ==
  /\ guest[g].at = "write"
  /\ letters[l].st = "none"
  /\ letters' = IF Posted(guest[g].post) THEN [letters EXCEPT ![l] = NewLetter("reply", guest[g].post)]
                ELSE letters
  /\ Turns(g, Away)
  /\ UNCHANGED <<posts, pictures, visits, crossed, strays, served>>

\* requestBoardSessionRenewHandler: an address with a live, verified post.
RequestRenewal(l) ==
  /\ letters[l].st = "none"
  /\ \E p \in Posts : Live(p) /\ posts[p].verified
  /\ letters' = [letters EXCEPT ![l] = NewLetter("renewal", NoPost)]
  /\ UNCHANGED <<posts, pictures, guest, visits, crossed, strays, served>>

\* verifyContactRequest reads the letter and the poster; useBoardSessionRenewHandler.
OpenLetter(g, l) ==
  /\ letters[l].st = "open"
  /\ Visits(g, [Away EXCEPT !.letter = l, !.at = IF letters[l].over THEN "discard" ELSE "spend"])
  /\ UNCHANGED <<posts, pictures, letters, crossed, strays, served>>

DiscardLetter(g) ==
  /\ guest[g].at = "discard"
  /\ letters' = [letters EXCEPT ![guest[g].letter].st = "gone"]
  /\ Turns(g, Away)
  /\ UNCHANGED <<posts, pictures, visits, crossed, strays, served>>

\* A confirmed reply keeps its row without the token, a renew token is deleted.
\* The row count of neither statement is looked at.
SpentNever(l) == letters  \* mutant: the link stays open
Spent(l) ==
  IF letters[l].st # "open" THEN letters
  ELSE [letters EXCEPT ![l].st = IF letters[l].kind = "reply" THEN "spent" ELSE "gone"]
SpendLetter(g) ==
  /\ guest[g].at = "spend"
  /\ letters' = Spent(guest[g].letter)
  /\ TurnsTo(g, "mint")
  /\ UNCHANGED <<posts, pictures, visits, crossed, strays, served>>

\* The reply is forwarded, the session is inserted.
ServeLetter(g) ==
  /\ guest[g].at = "mint"
  /\ served' = [served EXCEPT ![guest[g].letter] = @ + 1]
  /\ Turns(g, Away)
  /\ UNCHANGED <<posts, pictures, letters, visits, crossed, strays>>

-----------------------------------------------------------------------------
(* Time                                                                    *)

PostExpires(p) ==
  /\ Live(p)
  /\ posts' = [posts EXCEPT ![p].over = TRUE]
  /\ UNCHANGED <<pictures, letters, guest, visits, crossed, strays, served>>
LetterExpires(l) ==
  /\ letters[l].st = "open" /\ ~letters[l].over
  /\ letters' = [letters EXCEPT ![l].over = TRUE]
  /\ UNCHANGED <<posts, pictures, guest, visits, crossed, strays, served>>

\* startTokenCleanup deletes posts by a plain DELETE: the files stay.
Expired == {p \in Posts : Posted(p) /\ posts[p].over}
SweepPosts ==
  /\ Expired # {}
  /\ Deleted(Expired)
  /\ strays' = strays \cup {i \in UNION {Album(p) : p \in Expired} : pictures[i].file}
  /\ UNCHANGED <<guest, visits, crossed, served>>
\* sweepRetentionData, cleanExpiredBoardSessions.
SweepLetters ==
  /\ \E l \in Letters : letters[l].st = "open" /\ letters[l].over
  /\ letters' = [l \in Letters |-> IF letters[l].st = "open" /\ letters[l].over
                                   THEN [letters[l] EXCEPT !.st = "gone"] ELSE letters[l]]
  /\ UNCHANGED <<posts, pictures, guest, visits, crossed, strays, served>>

\* A statement fails, or the server restarts: the rest of a handler is not executed.
Interrupted(g) ==
  CASE guest[g].at = "wipe" -> Album(guest[g].post)
    [] guest[g].at \in {"save", "unreserve", "remove file"} -> {guest[g].picture}
    [] OTHER -> {}
LeaveBoard(g) ==
  /\ guest[g] # Away
  /\ Turns(g, Away)
  /\ strays' = strays \cup Interrupted(g)
  /\ UNCHANGED <<posts, pictures, letters, visits, crossed, served>>

BoardNext ==
  \/ \E g \in Guests :
       \/ \E by \in Owner, cat \in Categories : CheckPost(g, by, cat)
       \/ \E p \in Posts :
            \/ InsertPost(g, p) \/ OpenManagePage(g, p) \/ PatchPost(g, p) \/ DeletePost(g, p)
            \/ \E cat \in Categories : ReplacePost(g, p, cat)
            \/ CheckUpload(g, p) \/ WriteReply(g, p)
       \/ VerifyPost(g) \/ UpdatePost(g) \/ UnlinkPictures(g) \/ WipePost(g)
       \/ \E i \in Pictures : ReservePicture(g, i) \/ DeletePicture(g, i)
       \/ SavePicture(g) \/ Unreserve(g) \/ DeleteRow(g) \/ RemoveFile(g)
       \/ \E l \in Letters : SendReply(g, l) \/ OpenLetter(g, l)
       \/ DiscardLetter(g) \/ SpendLetter(g) \/ ServeLetter(g) \/ LeaveBoard(g)
  \/ \E p \in Posts : PostExpires(p)
  \/ \E l \in Letters : RequestRenewal(l) \/ LetterExpires(l)
  \/ SweepPosts \/ SweepLetters

BoardSpec == BoardInit /\ [][BoardNext]_boardVars

-----------------------------------------------------------------------------
(* Properties                                                              *)

BoardTypeOK ==
  /\ posts \in [Posts -> Post]
  /\ pictures \in [Pictures -> Picture]
  /\ letters \in [Letters -> Letter]
  /\ guest \in [Guests -> Guest]
  /\ visits \in 0 .. MaxVisits
  /\ crossed \in BOOLEAN /\ strays \subseteq Pictures
  /\ served \in [Letters -> Nat]

\* A visitor has more posts of a category than the cap allows only if two requests
\* overlapped: an insert or a change of type that counted before the other wrote,
\* or a PATCH that put back the type it had read (boardPostCapExceeded is asked
\* outside of every transaction, and for a post under each of its identities); a
\* Telegram name is held to it by the posts that give nothing else.
Held(cat, id) ==
  {p \in Posts : /\ Live(p) /\ posts[p].cat = cat /\ id \in posts[p].by
                 /\ id \in TelegramNames => posts[p].by \subseteq TelegramNames}
CapOnlyByOverlap ==
  \A id \in Identities, cat \in Categories : Cardinality(Held(cat, id)) > Cap => crossed

\* A picture has a row and a file or neither, when no request works on it: but for
\* a file that a sweep left behind, that was saved for a post that was being
\* deleted, or that a failed or interrupted request left (wipeAndDeleteContactPost
\* and deleteContactPostImage, uploadContactPostImage's reserved row).
Handled(i) ==
  \E g \in Guests :
    \/ guest[g].picture = i /\ guest[g].at \in {"save", "unreserve", "remove file"}
    \/ guest[g].at = "wipe" /\ pictures[i].on = guest[g].post
PicturesWhole == \A i \in Pictures : (pictures[i].row = "there") = pictures[i].file \/ Handled(i) \/ i \in strays

\* Once a link was used and no request that read it is still under way, it works
\* no more: a reply is not forwarded twice, a renewal mints no second session
\* ("Single-use: delete immediately", "invalid or already used verification link").
Reading(l) == \E g \in Guests : guest[g].letter = l
LinkWorksOnce == [][\A l \in Letters : served[l] > 0 /\ ~Reading(l) => ~Reading(l)' /\ served'[l] = served[l]]_boardVars
=============================================================================
