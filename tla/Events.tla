------------------------------- MODULE Events -------------------------------
(***************************************************************************)
(* One row of events in cmd/dansal and everybody who writes it: organisers  *)
(* with PUT and PATCH under If-Match (events.go, etag.go), the bulk and     *)
(* series endpoints, publication and deletion, the suggester with the       *)
(* manage link and the reviewers of the edits (suggest.go,                  *)
(* suggest_manage.go), and the feed imports (fetchurl.go, dedup.go).        *)
(*                                                                         *)
(* The columns are abstracted to text (title, description, times, cancelled)*)
(* and link (URL and contact, which a suggester cannot change unseen once   *)
(* the event is public).  The other tables of an event are left out, and so *)
(* is SEQUENCE, which lets an import skip what it would skip anyway.        *)
(***************************************************************************)
EXTENDS Naturals

CONSTANTS
  Editors,    \* concurrently running requests and imports
  Proposals,  \* links that a suggester submits
  OwnLink,    \* the link of organisers and of the feed
  NoProposal, \* pending_edit_json is NULL
  MaxEdits,   \* bound: requests and imports that are begun
  MaxVersion, \* bound: versions of the event in its feed
  MaxSecond   \* bound: the clock

ASSUME EventsAssumption ==
  /\ OwnLink \notin Proposals /\ NoProposal \notin Proposals
  /\ MaxEdits \in Nat /\ MaxVersion \in Nat \ {0} /\ MaxSecond \in Nat \ {0}

AnyLink == Proposals \cup {OwnLink}
Seconds == 0 .. MaxSecond      \* 0 is NULL: changed_at, source_last_modified
Row == [st : {"none", "there", "gone"}, public : BOOLEAN, text : 0 .. MaxVersion,
        link : AnyLink, pending : Proposals \cup {NoProposal}, changed : Seconds,
        modified : Seconds]
EditSteps == {"idle", "form", "write", "stamp", "decline", "edit", "approve", "reject", "import"}
Editor == [at : EditSteps, guarded : BOOLEAN, etag : Seconds, rev : Nat,
           public : BOOLEAN, link : AnyLink, proposal : Proposals \cup {NoProposal},
           version : 0 .. MaxVersion, stamp : Seconds, excused : BOOLEAN]

VARIABLES
  event,   \* the row; text is the version of the feed, 0 when written here
  source,  \* the feed: its version, when that was made, whether it says so
  editor,  \* editor[e]: the step e executes next, and what it has read or was sent
           \* (rev and excused are ghosts)
  time,    \* [second, begun]
  rev,     \* ghost: how often the row was changed
  trail    \* ghosts: see EvInit

evVars == <<event, source, editor, time, rev, trail>>

Off == [at |-> "idle", guarded |-> FALSE, etag |-> 0, rev |-> 0, public |-> FALSE,
        link |-> OwnLink, proposal |-> NoProposal, version |-> 0, stamp |-> 0, excused |-> FALSE]

EvInit ==
  /\ event = [st |-> "none", public |-> FALSE, text |-> 0, link |-> OwnLink,
              pending |-> NoProposal, changed |-> 0, modified |-> 0]
  /\ \E dated \in BOOLEAN : source = [version |-> 1, made |-> 1, dated |-> dated]
  /\ editor = [e \in Editors |-> Off]
  /\ time = [second |-> 1, begun |-> 0]
  /\ rev = 0
  /\ trail = [imported |-> 0,   \* newest version that was imported
               vetted |-> {}]    \* proposals that an organiser let through, or that overtook him

There == event.st = "there"
Now == time.second
Become(e, step) == editor' = [editor EXCEPT ![e] = step]
Begins(e) ==
  /\ editor[e] = Off
  /\ time.begun < MaxEdits
  /\ time' = [time EXCEPT !.begun = @ + 1]
StartEdit(e, step) == Begins(e) /\ Become(e, step)

\* e changes the row.  A request that has read it is excused from noticing when it
\* has already compared, when the change leaves no stamp, or one of the same second.
Unnoticed(x, stamped) == x.at = "write" \/ ~stamped \/ x.etag = Now
Changes(e, next, stamped) ==
  /\ rev' = rev + 1
  /\ editor' = [x \in Editors |->
       IF x = e THEN next
       ELSE [editor[x] EXCEPT !.excused = @ \/ (editor[x].guarded /\ Unnoticed(editor[x], stamped))]]

-----------------------------------------------------------------------------
(* Organisers                                                              *)

\* getEvent, for a form or for a client that sends the ETag back.
OpenForm(e, guarded) ==
  /\ There
  /\ StartEdit(e, [Off EXCEPT !.at = "form", !.guarded = guarded, !.etag = event.changed,
                              !.rev = rev, !.public = event.public, !.link = event.link])
  /\ UNCHANGED <<event, source, rev, trail>>

\* updateEvent and patchEvent read the row and compare; PATCH takes the columns it
\* was not sent from that read, PUT has them from the form.  What the organiser
\* sends may publish the event or take it back, and replace the link by one of his.
Matches(e) == ~editor[e].guarded \/ editor[e].etag = event.changed
SubmitForm(e, patch, shown) ==
  /\ editor[e].at = "form"
  /\ IF ~There \/ ~Matches(e) THEN Become(e, Off)
     ELSE \E l \in {IF patch THEN event.link ELSE editor[e].link, OwnLink} :
            Become(e, [editor[e] EXCEPT !.at = "write", !.public = shown, !.link = l])
  /\ UNCHANGED <<event, source, time, rev, trail>>

\* The transaction writes every column, by id alone.
\* Mutant: changed_at is left alone.
WrittenUnstamped(e) == [event EXCEPT !.text = 0, !.public = editor[e].public, !.link = editor[e].link]
Written(e) == [event EXCEPT !.text = 0, !.public = editor[e].public, !.link = editor[e].link,
                            !.changed = Now]
WriteForm(e) ==
  /\ editor[e].at = "write"
  /\ IF ~There THEN Become(e, Off) /\ UNCHANGED <<event, rev, trail>>
     ELSE /\ event' = Written(e)
          /\ Changes(e, Off, TRUE)
          /\ trail' = IF editor[e].public
                      THEN [trail EXCEPT !.vetted = @ \cup ({editor[e].link} \cap Proposals)] ELSE trail
  /\ UNCHANGED <<source, time>>

\* cancelEvent, the bulk and the series endpoints: one UPDATE, then touchEvent.
TouchText(e) ==
  /\ There /\ Begins(e)
  /\ event' = [event EXCEPT !.text = 0]
  /\ Changes(e, [Off EXCEPT !.at = "stamp"], FALSE)
  /\ UNCHANGED <<source, trail>>

StampEvent(e) ==
  /\ editor[e].at = "stamp"
  /\ event' = IF There THEN [event EXCEPT !.changed = Now] ELSE event
  /\ Become(e, Off)
  /\ UNCHANGED <<source, time, rev, trail>>

\* publishEvent leaves changed_at alone.
PublishEvent(e) ==
  /\ There /\ ~event.public /\ Begins(e)
  /\ event' = [event EXCEPT !.public = TRUE]
  /\ Changes(e, Off, FALSE)
  /\ trail' = [trail EXCEPT !.vetted = @ \cup ({event.link} \cap Proposals)]
  /\ UNCHANGED source

\* declineEventHandler reads that the event is a draft; deleteEvent does not ask.
DeclineRead(e) ==
  /\ There /\ ~event.public
  /\ StartEdit(e, [Off EXCEPT !.at = "decline"])
  /\ UNCHANGED <<event, source, rev, trail>>

HardDelete(e) ==
  /\ There
  /\ Begins(e) \/ (editor[e].at = "decline" /\ time' = time)
  /\ event' = [event EXCEPT !.st = "gone"]
  /\ Changes(e, Off, FALSE)
  /\ UNCHANGED <<source, trail>>

-----------------------------------------------------------------------------
(* Suggestions                                                             *)

\* suggestHandler inserts a draft without a changed_at.
Suggest(l) ==
  /\ event.st = "none"
  /\ event' = [event EXCEPT !.st = "there", !.link = l]
  /\ rev' = rev + 1
  /\ UNCHANGED <<source, editor, time, trail>>

\* patchSuggestManageEvent reads whether the event is public; a draft is edited
\* freely, of a public event the link is put aside when it differs.
EditRead(e, l) ==
  /\ There
  /\ StartEdit(e, [Off EXCEPT !.at = "edit", !.public = event.public, !.link = l,
                     !.proposal = IF event.public /\ l # event.link /\ l \in Proposals THEN l
                                  ELSE NoProposal])
  /\ UNCHANGED <<event, source, rev, trail>>

\* Mutant: a public event is edited like a draft.
SubmittedFreely(e) == [event EXCEPT !.text = 0, !.link = editor[e].link, !.changed = Now]
Submitted(e) ==
  IF ~editor[e].public
  THEN [event EXCEPT !.text = 0, !.link = editor[e].link, !.changed = Now]
  ELSE [event EXCEPT !.text = 0, !.changed = Now,
          !.pending = IF editor[e].proposal # NoProposal THEN editor[e].proposal ELSE @]
EditWrite(e) ==
  /\ editor[e].at = "edit"
  /\ IF ~There THEN Become(e, Off) /\ UNCHANGED <<event, rev, trail>>
     ELSE /\ event' = Submitted(e)
          /\ Changes(e, Off, TRUE)
          /\ trail' = IF event.public /\ ~editor[e].public
                      THEN [trail EXCEPT !.vetted = @ \cup ({editor[e].link} \cap Proposals)] ELSE trail
  /\ UNCHANGED <<source, time>>

\* Mutant: nobody asks whether an edit is pending.
ReviewReadAny(e, at) ==
  /\ at \in {"approve", "reject"}
  /\ There
  /\ StartEdit(e, [Off EXCEPT !.at = at, !.proposal = event.pending])
  /\ UNCHANGED <<event, source, rev, trail>>

\* handlePendingEdit applies what it read and clears what is there by then; neither
\* stamps the row.
ReviewRead(e, at) ==
  /\ at \in {"approve", "reject"}
  /\ There /\ event.pending # NoProposal
  /\ StartEdit(e, [Off EXCEPT !.at = at, !.proposal = event.pending])
  /\ UNCHANGED <<event, source, rev, trail>>

ReviewWrite(e) ==
  /\ editor[e].at \in {"approve", "reject"}
  /\ IF ~There THEN Become(e, Off) /\ UNCHANGED <<event, rev, trail>>
     ELSE /\ event' = [event EXCEPT !.pending = NoProposal,
                         !.link = IF editor[e].at = "approve" THEN editor[e].proposal ELSE @]
          /\ Changes(e, Off, FALSE)
          /\ trail' = [trail EXCEPT !.vetted = @ \cup {editor[e].proposal}]
  /\ UNCHANGED <<source, time>>

-----------------------------------------------------------------------------
(* Feed imports                                                            *)

\* fetchFeedBody: what the feed says now, with or without LAST-MODIFIED.
FetchFeed(e) ==
  /\ StartEdit(e, [Off EXCEPT !.at = "import", !.version = source.version,
                              !.stamp = IF source.dated THEN source.made ELSE 0])
  /\ UNCHANGED <<event, source, rev, trail>>

\* insertEventCore, in the transaction of importEntriesTx.
SameRevisionIgnored(stamp) == FALSE  \* mutant: the stamp is not compared
SameRevision(stamp) == stamp > 0 /\ stamp <= event.modified
Protected(stamp) == event.changed > 0 /\ stamp <= event.changed
Inserted(v, s) == [st |-> "there", public |-> TRUE, text |-> v, link |-> OwnLink,
                   pending |-> NoProposal, changed |-> Now, modified |-> s]
Merged(v, s, l) == [event EXCEPT !.text = v, !.modified = s, !.link = l]
Replaced(v, s) == [event EXCEPT !.text = v, !.modified = s, !.link = OwnLink, !.public = TRUE,
                                !.changed = Now]
ImportEntry(e) ==
  /\ editor[e].at = "import"
  /\ LET v == editor[e].version
         s == editor[e].stamp IN
       IF event.st = "gone" \/ (There /\ (SameRevision(s) \/ Protected(s)))
       THEN Become(e, Off) /\ UNCHANGED <<event, rev, trail>>
       ELSE /\ \/ event.st = "none" /\ event' = Inserted(v, s)
               \/ /\ There /\ event.changed > 0
                  /\ \E l \in {event.link, OwnLink} : event' = Merged(v, s, l)
               \/ There /\ event.changed = 0 /\ event' = Replaced(v, s)
            /\ Changes(e, Off, event'.changed # event.changed)
            /\ trail' = [trail EXCEPT !.imported = v]
  /\ UNCHANGED <<source, time>>

\* The publisher of the feed revises the event.
ReviseFeed ==
  /\ source.version < MaxVersion
  /\ source' = [source EXCEPT !.version = @ + 1, !.made = Now]
  /\ UNCHANGED <<event, editor, time, rev, trail>>

EvTick ==
  /\ time.second < MaxSecond
  /\ time' = [time EXCEPT !.second = @ + 1]
  /\ UNCHANGED <<event, source, editor, rev, trail>>

\* A request fails, or the server restarts, between two statements.
GiveUp(e) ==
  /\ editor[e] # Off
  /\ Become(e, Off)
  /\ UNCHANGED <<event, source, time, rev, trail>>

EvNext ==
  \/ \E e \in Editors :
       \/ \E guarded \in BOOLEAN : OpenForm(e, guarded)
       \/ \E patch, shown \in BOOLEAN : SubmitForm(e, patch, shown)
       \/ WriteForm(e) \/ TouchText(e) \/ StampEvent(e) \/ PublishEvent(e)
       \/ DeclineRead(e) \/ HardDelete(e)
       \/ \E l \in AnyLink : EditRead(e, l)
       \/ EditWrite(e)
       \/ \E at \in {"approve", "reject"} : ReviewRead(e, at)
       \/ ReviewWrite(e) \/ FetchFeed(e) \/ ImportEntry(e) \/ GiveUp(e)
  \/ \E l \in AnyLink : Suggest(l)
  \/ ReviseFeed \/ EvTick

EvSpec == EvInit /\ [][EvNext]_evVars

-----------------------------------------------------------------------------
(* Properties                                                              *)

EvTypeOK ==
  /\ event \in Row
  /\ source \in [version : 1 .. MaxVersion, made : Seconds, dated : BOOLEAN]
  /\ editor \in [Editors -> Editor]
  /\ time \in [second : 1 .. MaxSecond, begun : 0 .. MaxEdits]
  /\ rev \in Nat
  /\ trail \in [imported : 0 .. MaxVersion, vetted : SUBSET Proposals]

\* A conditional write that passed the comparison is about to overwrite nothing its
\* client has not seen, but for the known gaps: a change of the same second, one
\* after the comparison, one that does not move changed_at (publishing, a review,
\* a merge from the feed) or has not yet (etag.go, API.md on If-Match).
LostUpdatesExplained ==
  \A e \in Editors :
    editor[e].at = "write" /\ editor[e].guarded /\ There /\ editor[e].rev # rev
      => editor[e].excused

\* The link a suggester submits reaches the public page only through someone who
\* published or approved it, or by an edit that found the event still a draft
\* (patchSuggestManageEvent, handlePendingEdit, and every write that takes the
\* link along).
PublicOnlyReviewed == There /\ event.public /\ event.link \in Proposals => event.link \in trail.vetted

\* However fetches overlap, an import never puts an older version of the feed over
\* a newer one that the row has held, or the same version over a later edit
\* (SEQUENCE and LAST-MODIFIED, the protection of manual edits in insertEventCore).
FeedNeverGoesBack ==
  [][There /\ event'.text > 0 /\ event'.text # event.text => event'.text > trail.imported]_evVars
=============================================================================
