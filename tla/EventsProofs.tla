----------------------------- MODULE EventsProofs -----------------------------
(* Machine-checked proofs about Events, for every value of its constants. *)
EXTENDS Events, TLAPS

-----------------------------------------------------------------------------
(* Types.  A review applies what it read, which is not NULL.                *)

EvTypeInv ==
  /\ EvTypeOK
  /\ \A e \in Editors : editor[e].at \in {"approve", "reject"} => editor[e].proposal \in Proposals

LEMMA OffIsEditor == Off \in Editor /\ Off.at = "idle" /\ ~Off.guarded
  BY EventsAssumption DEF Off, Editor, EditSteps, Seconds, AnyLink

\* What a change of the row does to the requests that are under way.
LEMMA ChangesEffect ==
  ASSUME EvTypeOK, NEW e \in Editors, NEW next \in Editor, NEW stamped \in BOOLEAN,
         Changes(e, next, stamped)
  PROVE  /\ rev' = rev + 1 /\ rev' \in Nat
         /\ editor' \in [Editors -> Editor]
         /\ editor'[e] = next
         /\ \A x \in Editors \ {e} :
              /\ editor'[x] = [editor[x] EXCEPT !.excused = editor'[x].excused]
              /\ editor'[x].excused = (editor[x].excused \/ (editor[x].guarded /\ Unnoticed(editor[x], stamped)))
<1>1. \A x \in Editors : editor[x] \in Editor
  BY DEF EvTypeOK
<1>2. \A x \in Editors : Unnoticed(editor[x], stamped) \in BOOLEAN
  BY <1>1 DEF Unnoticed, Editor
<1>3. rev' = rev + 1 /\ rev' \in Nat
  BY DEF Changes, EvTypeOK
<1>4. \A x \in Editors \ {e} :
        editor'[x] = [editor[x] EXCEPT !.excused = @ \/ (editor[x].guarded /\ Unnoticed(editor[x], stamped))]
  BY DEF Changes
<1>5. editor'[e] = next
  BY DEF Changes
<1>6. ASSUME NEW x \in Editors \ {e}
      PROVE  editor'[x] \in Editor
  <2>1. editor[x] \in Editor /\ Unnoticed(editor[x], stamped) \in BOOLEAN
    BY <1>1, <1>2
  <2>2. editor'[x] = [editor[x] EXCEPT !.excused = @ \/ (editor[x].guarded /\ Unnoticed(editor[x], stamped))]
    BY <1>4
  <2>3. (editor[x].excused \/ (editor[x].guarded /\ Unnoticed(editor[x], stamped))) \in BOOLEAN
    BY <2>1 DEF Editor
  <2> QED
    BY <2>1, <2>2, <2>3 DEF Editor
<1>7. editor' \in [Editors -> Editor]
  <2>1. editor' = [x \in Editors |-> editor'[x]]
    BY DEF Changes
  <2> QED
    BY <1>5, <1>6, <2>1
<1>8. ASSUME NEW x \in Editors \ {e}
      PROVE  /\ editor'[x] = [editor[x] EXCEPT !.excused = editor'[x].excused]
             /\ editor'[x].excused = (editor[x].excused \/ (editor[x].guarded /\ Unnoticed(editor[x], stamped)))
  BY <1>1, <1>4, <1>8 DEF Editor
<1> QED
  BY <1>3, <1>5, <1>7, <1>8

\* What setting one request's step does.
LEMMA BecomeEffect ==
  ASSUME EvTypeOK, NEW e \in Editors, NEW step \in Editor, Become(e, step)
  PROVE  /\ editor' \in [Editors -> Editor]
         /\ editor'[e] = step
         /\ \A x \in Editors \ {e} : editor'[x] = editor[x]
  BY DEF EvTypeOK, Become

LEMMA BeginsEffect ==
  ASSUME EvTypeOK, NEW e \in Editors, Begins(e)
  PROVE  /\ time' \in [second : 1 .. MaxSecond, begun : 0 .. MaxEdits]
         /\ time'.second = time.second
         /\ editor[e] = Off
  BY EventsAssumption DEF EvTypeOK, Begins

-----------------------------------------------------------------------------
(* Type correctness, one step per action.                                   *)

LEMMA EvTypeInit == EvInit => EvTypeInv
  BY OffIsEditor, EventsAssumption DEF EvInit, EvTypeInv, EvTypeOK, Row, AnyLink, Seconds

\* A step is well formed when it is an editor and a review has its proposal.
Formed(step) == step \in Editor /\ (step.at \in {"approve", "reject"} => step.proposal \in Proposals)

\* A step that changes no row and moves only the request e.
LEMMA TypeBecome ==
  ASSUME EvTypeInv, NEW e \in Editors, NEW step, Formed(step), Become(e, step),
         UNCHANGED <<source, rev, trail>>,
         event' \in Row, time' \in [second : 1 .. MaxSecond, begun : 0 .. MaxEdits]
  PROVE  EvTypeInv'
  BY BecomeEffect DEF EvTypeInv, EvTypeOK, Formed

\* A step that changes the row.
LEMMA TypeChanges ==
  ASSUME EvTypeInv, NEW e \in Editors, NEW next, Formed(next), NEW stamped \in BOOLEAN,
         Changes(e, next, stamped), UNCHANGED source,
         event' \in Row, time' \in [second : 1 .. MaxSecond, begun : 0 .. MaxEdits],
         trail' \in [imported : 0 .. MaxVersion, vetted : SUBSET Proposals]
  PROVE  EvTypeInv'
<1>1. next \in Editor
  BY DEF Formed
<1>2. EvTypeOK'
  BY <1>1, ChangesEffect DEF EvTypeInv, EvTypeOK
<1>3. ASSUME NEW x \in Editors, editor'[x].at \in {"approve", "reject"}
      PROVE  editor'[x].proposal \in Proposals
  <2>1. CASE x = e
    BY <1>1, <1>3, <2>1, ChangesEffect DEF EvTypeInv, Formed
  <2>2. CASE x # e
    <3>1. editor'[x] = [editor[x] EXCEPT !.excused = editor'[x].excused]
      BY <1>1, <2>2, ChangesEffect DEF EvTypeInv
    <3>2. editor[x] \in Editor
      BY DEF EvTypeInv, EvTypeOK
    <3>3. editor'[x].at = editor[x].at /\ editor'[x].proposal = editor[x].proposal
      BY <3>1, <3>2 DEF Editor
    <3> QED
      BY <1>3, <3>3 DEF EvTypeInv
  <2> QED
    BY <2>1, <2>2
<1> QED
  BY <1>2, <1>3 DEF EvTypeInv

\* The fields of the row and of a request, for the steps below.
LEMMA Fields ==
  ASSUME EvTypeOK
  PROVE  /\ event.st \in {"none", "there", "gone"} /\ event.public \in BOOLEAN
         /\ event.text \in 0 .. MaxVersion /\ event.link \in AnyLink
         /\ event.pending \in Proposals \cup {NoProposal}
         /\ event.changed \in 0 .. MaxSecond /\ event.modified \in 0 .. MaxSecond
         /\ \A e \in Editors : editor[e] \in Editor
         /\ source.version \in 1 .. MaxVersion /\ source.made \in 0 .. MaxSecond
         /\ source.dated \in BOOLEAN
         /\ time.second \in 1 .. MaxSecond /\ time.begun \in 0 .. MaxEdits
         /\ trail.imported \in 0 .. MaxVersion
         /\ trail.vetted \in SUBSET Proposals
         /\ Now \in Seconds /\ OwnLink \in AnyLink /\ 0 \in 0 .. MaxVersion
  BY EventsAssumption DEF EvTypeOK, Row, Seconds, Now, AnyLink

LEMMA EditorFields ==
  ASSUME NEW s \in Editor
  PROVE  /\ s.at \in EditSteps /\ s.guarded \in BOOLEAN /\ s.etag \in 0 .. MaxSecond
         /\ s.rev \in Nat /\ s.public \in BOOLEAN /\ s.link \in AnyLink
         /\ s.proposal \in Proposals \cup {NoProposal} /\ s.version \in 0 .. MaxVersion
         /\ s.stamp \in 0 .. MaxSecond /\ s.excused \in BOOLEAN
  BY DEF Editor, Seconds

LEMMA EvTypeStep == EvTypeInv /\ [EvNext]_evVars => EvTypeInv'
<1> SUFFICES ASSUME EvTypeInv, [EvNext]_evVars PROVE EvTypeInv'
  OBVIOUS
<1> USE DEF Formed
<1>a. EvTypeOK /\ \A e \in Editors : editor[e] \in Editor
  BY Fields DEF EvTypeInv
<1>b. event \in Row
  BY DEF EvTypeInv, EvTypeOK
<1>c. time \in [second : 1 .. MaxSecond, begun : 0 .. MaxEdits]
  BY DEF EvTypeInv, EvTypeOK
<1>d. trail \in [imported : 0 .. MaxVersion, vetted : SUBSET Proposals]
  BY DEF EvTypeInv, EvTypeOK
<1>1. ASSUME NEW e \in Editors, NEW guarded \in BOOLEAN, OpenForm(e, guarded) PROVE EvTypeInv'
  <2> DEFINE step == [Off EXCEPT !.at = "form", !.guarded = guarded, !.etag = event.changed,
                              !.rev = rev, !.public = event.public, !.link = event.link]
  <2>1. event.changed \in Seconds /\ rev \in Nat /\ event.public \in BOOLEAN /\ event.link \in AnyLink
    BY <1>a, Fields DEF EvTypeOK, Seconds
  <2>a. Formed(step)
    BY <2>1, OffIsEditor DEF Editor, EditSteps
  <2>2. Become(e, step) /\ Begins(e) /\ UNCHANGED <<event, source, rev, trail>>
    BY <1>1 DEF OpenForm, StartEdit
  <2> HIDE DEF step
  <2> QED
    BY <1>a, <1>b, <2>a, <2>2, BeginsEffect, TypeBecome
<1>2. ASSUME NEW e \in Editors, NEW patch \in BOOLEAN, NEW shown \in BOOLEAN, SubmitForm(e, patch, shown) PROVE EvTypeInv'
  <2> DEFINE step(l) == [editor[e] EXCEPT !.at = "write", !.public = shown, !.link = l]
  <2>1. ASSUME NEW l \in AnyLink PROVE Formed(step(l))
    BY <1>a, Fields, EditorFields DEF Editor, EditSteps
  <2>2. (Become(e, Off) \/ \E l \in AnyLink : Become(e, step(l))) /\ UNCHANGED <<event, source, time, rev, trail>>
    <3>1. event.link \in AnyLink /\ editor[e].link \in AnyLink /\ OwnLink \in AnyLink
      BY <1>a, Fields, EditorFields
    <3> QED
      BY <1>2, <3>1 DEF SubmitForm
  <2> HIDE DEF step
  <2> QED
    BY <1>b, <1>c, <2>1, <2>2, OffIsEditor, TypeBecome
<1>3. ASSUME NEW e \in Editors, WriteForm(e) PROVE EvTypeInv'
  <2>1. CASE ~There
    BY <1>3, <1>b, <1>c, <2>1, OffIsEditor, TypeBecome DEF WriteForm
  <2>2. CASE There
    <3>1. event' \in Row
      BY <1>3, <1>a, <1>b, <2>2, Fields, EditorFields DEF WriteForm, Written, Row, Now, Seconds
    <3>2. trail' \in [imported : 0 .. MaxVersion, vetted : SUBSET Proposals]
      BY <1>3, <1>a, <2>2, Fields DEF WriteForm, EvTypeOK
    <3>3. Changes(e, Off, TRUE) /\ UNCHANGED <<source, time>>
      BY <1>3, <2>2 DEF WriteForm
    <3> QED
      BY <1>c, <3>1, <3>2, <3>3, OffIsEditor, TypeChanges
  <2> QED
    BY <2>1, <2>2
<1>4. ASSUME NEW e \in Editors, TouchText(e) PROVE EvTypeInv'
  <2>1. [Off EXCEPT !.at = "stamp"] \in Editor /\ [Off EXCEPT !.at = "stamp"].at = "stamp"
    BY OffIsEditor DEF Editor, EditSteps
  <2>2. event' \in Row
    BY <1>4, <1>a, <1>b, Fields DEF TouchText, Row
  <2>3. trail' \in [imported : 0 .. MaxVersion, vetted : SUBSET Proposals]
    BY <1>4, <1>d DEF TouchText
  <2>4. Begins(e) /\ Changes(e, [Off EXCEPT !.at = "stamp"], FALSE) /\ UNCHANGED source
    BY <1>4 DEF TouchText
  <2>5. Formed([Off EXCEPT !.at = "stamp"])
    BY <2>1
  <2> QED
    BY <1>a, <2>2, <2>3, <2>4, <2>5, BeginsEffect, TypeChanges
<1>5. ASSUME NEW e \in Editors, StampEvent(e) PROVE EvTypeInv'
  <2>1. event' \in Row
    BY <1>5, <1>a, <1>b, Fields DEF StampEvent, Row
  <2> QED
    BY <1>5, <1>c, <2>1, OffIsEditor, TypeBecome DEF StampEvent
<1>6. ASSUME NEW e \in Editors, PublishEvent(e) PROVE EvTypeInv'
  <2>1. event' \in Row
    BY <1>6, <1>b DEF PublishEvent, Row
  <2>2. trail' \in [imported : 0 .. MaxVersion, vetted : SUBSET Proposals]
    BY <1>6, <1>d DEF PublishEvent
  <2> QED
    BY <1>6, <1>a, <2>1, <2>2, BeginsEffect, OffIsEditor, TypeChanges DEF PublishEvent
<1>7. ASSUME NEW e \in Editors, DeclineRead(e) PROVE EvTypeInv'
  <2>1. Formed([Off EXCEPT !.at = "decline"])
    BY OffIsEditor DEF Editor, EditSteps
  <2> QED
    BY <1>7, <1>a, <1>b, <2>1, BeginsEffect, TypeBecome DEF DeclineRead, StartEdit
<1>8. ASSUME NEW e \in Editors, HardDelete(e) PROVE EvTypeInv'
  <2>1. event' \in Row
    BY <1>8, <1>b DEF HardDelete, Row
  <2>2. time' \in [second : 1 .. MaxSecond, begun : 0 .. MaxEdits]
    BY <1>8, <1>a, <1>c, BeginsEffect DEF HardDelete
  <2> QED
    BY <1>8, <1>d, <2>1, <2>2, OffIsEditor, TypeChanges DEF HardDelete
<1>9. ASSUME NEW e \in Editors, NEW l \in AnyLink, EditRead(e, l) PROVE EvTypeInv'
  <2> DEFINE step == [Off EXCEPT !.at = "edit", !.public = event.public, !.link = l,
                     !.proposal = IF event.public /\ l # event.link /\ l \in Proposals THEN l
                                  ELSE NoProposal]
  <2>a. (IF event.public /\ l # event.link /\ l \in Proposals THEN l ELSE NoProposal)
           \in Proposals \cup {NoProposal}
    OBVIOUS
  <2>b. event.public \in BOOLEAN
    BY <1>a, Fields
  <2>1. Formed(step)
    BY <2>a, <2>b, OffIsEditor DEF Editor, EditSteps
  <2>2. Become(e, step) /\ Begins(e) /\ UNCHANGED <<event, source, rev, trail>>
    BY <1>9 DEF EditRead, StartEdit
  <2> HIDE DEF step
  <2> QED
    BY <1>a, <1>b, <2>1, <2>2, BeginsEffect, TypeBecome
<1>10. ASSUME NEW e \in Editors, EditWrite(e) PROVE EvTypeInv'
  <2>1. CASE ~There
    BY <1>10, <1>b, <1>c, <2>1, OffIsEditor, TypeBecome DEF EditWrite
  <2>2. CASE There
    <3>1. event' \in Row
      BY <1>10, <1>a, <1>b, <2>2, Fields, EditorFields DEF EditWrite, Submitted, Row, Now, Seconds
    <3>2. trail' \in [imported : 0 .. MaxVersion, vetted : SUBSET Proposals]
      BY <1>10, <1>d, <2>2, Fields DEF EditWrite
    <3> QED
      BY <1>10, <1>c, <2>2, <3>1, <3>2, OffIsEditor, TypeChanges DEF EditWrite
  <2> QED
    BY <2>1, <2>2
<1>11. ASSUME NEW e \in Editors, NEW at \in {"approve", "reject"}, ReviewRead(e, at) PROVE EvTypeInv'
  <2> DEFINE step == [Off EXCEPT !.at = at, !.proposal = event.pending]
  <2>1. Formed(step)
    BY <1>11, <1>a, Fields, OffIsEditor, EventsAssumption DEF ReviewRead, Editor, EditSteps
  <2>2. Become(e, step) /\ Begins(e) /\ UNCHANGED <<event, source, rev, trail>>
    BY <1>11 DEF ReviewRead, StartEdit
  <2> HIDE DEF step
  <2> QED
    BY <1>a, <1>b, <2>1, <2>2, BeginsEffect, TypeBecome
<1>12. ASSUME NEW e \in Editors, ReviewWrite(e) PROVE EvTypeInv'
  <2>1. CASE ~There
    BY <1>12, <1>b, <1>c, <2>1, OffIsEditor, TypeBecome DEF ReviewWrite
  <2>2. CASE There
    <3>1. editor[e].proposal \in Proposals
      BY <1>12 DEF ReviewWrite, EvTypeInv
    <3>2. event' \in Row
      BY <1>12, <1>a, <1>b, <2>2, <3>1, Fields DEF ReviewWrite, Row, AnyLink
    <3>3. trail' \in [imported : 0 .. MaxVersion, vetted : SUBSET Proposals]
      BY <1>12, <1>d, <2>2, <3>1, Fields DEF ReviewWrite
    <3> QED
      BY <1>12, <1>c, <2>2, <3>2, <3>3, OffIsEditor, TypeChanges DEF ReviewWrite
  <2> QED
    BY <2>1, <2>2
<1>13. ASSUME NEW e \in Editors, FetchFeed(e) PROVE EvTypeInv'
  <2> DEFINE step == [Off EXCEPT !.at = "import", !.version = source.version,
                              !.stamp = IF source.dated THEN source.made ELSE 0]
  <2>a. (IF source.dated THEN source.made ELSE 0) \in Seconds /\ source.version \in 0 .. MaxVersion
    BY <1>a, Fields, EventsAssumption DEF Seconds
  <2>1. Formed(step)
    BY <2>a, OffIsEditor DEF Editor, EditSteps
  <2>2. Become(e, step) /\ Begins(e) /\ UNCHANGED <<event, source, rev, trail>>
    BY <1>13 DEF FetchFeed, StartEdit
  <2> HIDE DEF step
  <2> QED
    BY <1>a, <1>b, <2>1, <2>2, BeginsEffect, TypeBecome
<1>14. ASSUME NEW e \in Editors, ImportEntry(e) PROVE EvTypeInv'
  <2>1. CASE UNCHANGED <<event, rev, trail>> /\ Become(e, Off)
    BY <1>14, <1>b, <1>c, <2>1, OffIsEditor, TypeBecome DEF ImportEntry
  <2>2. CASE ~(UNCHANGED <<event, rev, trail>> /\ Become(e, Off))
    <3>1. event' \in Row
      <4>1. editor[e].version \in 0 .. MaxVersion /\ editor[e].stamp \in Seconds
        BY <1>a, EditorFields DEF Seconds
      <4>2. Now \in Seconds /\ OwnLink \in AnyLink /\ event.link \in AnyLink
        BY <1>a, Fields
      <4>3. \/ event' = Inserted(editor[e].version, editor[e].stamp)
            \/ \E l \in AnyLink : event' = Merged(editor[e].version, editor[e].stamp, l)
            \/ event' = Replaced(editor[e].version, editor[e].stamp)
        BY <1>14, <2>2, <4>2 DEF ImportEntry
      <4>a. CASE event' = Inserted(editor[e].version, editor[e].stamp)
        BY <4>1, <4>2, <4>a DEF Inserted, Row
      <4>b. ASSUME NEW l \in AnyLink, event' = Merged(editor[e].version, editor[e].stamp, l)
            PROVE  event' \in Row
        BY <1>b, <4>1, <4>b DEF Merged, Row
      <4>c. CASE event' = Replaced(editor[e].version, editor[e].stamp)
        BY <1>b, <4>1, <4>2, <4>c DEF Replaced, Row
      <4> QED
        BY <4>3, <4>a, <4>b, <4>c
    <3>2. trail' \in [imported : 0 .. MaxVersion, vetted : SUBSET Proposals]
      BY <1>14, <1>a, <1>d, <2>2, EditorFields DEF ImportEntry
    <3>3. Changes(e, Off, event'.changed # event.changed) /\ UNCHANGED <<source, time>>
      BY <1>14, <2>2 DEF ImportEntry
    <3>4. (event'.changed # event.changed) \in BOOLEAN
      OBVIOUS
    <3> QED
      BY <1>c, <3>1, <3>2, <3>3, <3>4, OffIsEditor, TypeChanges
  <2> QED
    BY <2>1, <2>2
<1>15. ASSUME NEW e \in Editors, GiveUp(e) PROVE EvTypeInv'
  BY <1>15, <1>b, <1>c, OffIsEditor, TypeBecome DEF GiveUp
<1>16. ASSUME NEW l \in AnyLink, Suggest(l) PROVE EvTypeInv'
  <2>1. event' \in Row
    BY <1>16, <1>b DEF Suggest, Row
  <2> QED
    BY <1>16, <2>1 DEF Suggest, EvTypeInv, EvTypeOK
<1>17. CASE ReviseFeed
  <2>1. source' = [source EXCEPT !.version = @ + 1, !.made = Now] /\ source.version < MaxVersion
    BY <1>17 DEF ReviseFeed
  <2>2. source.version + 1 \in 1 .. MaxVersion /\ Now \in Seconds
    BY <1>a, <2>1, Fields, EventsAssumption
  <2>3. source \in [version : 1 .. MaxVersion, made : Seconds, dated : BOOLEAN]
    BY <1>a DEF EvTypeOK
  <2>4. source' \in [version : 1 .. MaxVersion, made : Seconds, dated : BOOLEAN]
    BY <2>1, <2>2, <2>3
  <2> QED
    BY <1>17, <2>4 DEF ReviseFeed, EvTypeInv, EvTypeOK
<1>18. CASE EvTick
  <2>1. time' = [time EXCEPT !.second = @ + 1] /\ time.second < MaxSecond
    BY <1>18 DEF EvTick
  <2>2. time.second + 1 \in 1 .. MaxSecond
    BY <1>a, <2>1, Fields, EventsAssumption
  <2>3. time' \in [second : 1 .. MaxSecond, begun : 0 .. MaxEdits]
    BY <1>c, <2>1, <2>2
  <2> QED
    BY <1>18, <2>3 DEF EvTick, EvTypeInv, EvTypeOK
<1>19. CASE UNCHANGED evVars
  BY <1>19 DEF evVars, EvTypeInv, EvTypeOK
<1> QED
  BY <1>1, <1>2, <1>3, <1>4, <1>5, <1>6, <1>7, <1>8, <1>9, <1>10, <1>11, <1>12, <1>13, <1>14,
     <1>15, <1>16, <1>17, <1>18, <1>19 DEF EvNext

\* The row, the feed and the requests keep the types that EvTypeOK gives them.
THEOREM EvTypeCorrect == EvSpec => []EvTypeOK
<1>1. EvTypeInv => EvTypeOK
  BY DEF EvTypeInv
<1> QED
  BY <1>1, EvTypeInit, EvTypeStep, PTL DEF EvSpec

-----------------------------------------------------------------------------
(* Nothing unreviewed is public.  A row that is not there yet is no draft   *)
(* that was published: Suggest sets the link and nothing else.              *)

PublicInv == (event.st = "none" => ~event.public) /\ PublicOnlyReviewed

\* The row's link, and what may be changed about it: enough for every action but
\* the ones that let a proposal through.
LEMMA PublicKept ==
  ASSUME EvTypeInv, PublicInv, trail.vetted \subseteq trail'.vetted,
         event'.st # "none" \/ event'.public = event.public,
         event'.st = "none" => event.st = "none",
         \/ event'.link = event.link /\ (event'.public => event.public /\ There)
         \/ event'.link \notin Proposals
         \/ event'.link \in trail'.vetted
         \/ ~event'.public
         \/ event'.st = "gone"
  PROVE  PublicInv'
  BY Fields DEF EvTypeInv, PublicInv, PublicOnlyReviewed, There

LEMMA PublicInit == EvInit => PublicInv
  BY DEF EvInit, PublicInv, PublicOnlyReviewed, There

LEMMA PublicStep == EvTypeInv /\ PublicInv /\ [EvNext]_evVars => PublicInv'
<1> SUFFICES ASSUME EvTypeInv, PublicInv, [EvNext]_evVars PROVE PublicInv'
  OBVIOUS
<1>a. event \in Row /\ trail.vetted \in SUBSET Proposals
  BY Fields DEF EvTypeInv, EvTypeOK
<1>b. trail \in [imported : 0 .. MaxVersion, vetted : SUBSET Proposals]
  BY DEF EvTypeInv, EvTypeOK
<1>c. OwnLink \notin Proposals
  BY EventsAssumption
<1>d. CASE UNCHANGED <<event, trail>>
  BY <1>d DEF PublicInv, PublicOnlyReviewed, There
<1>1. ASSUME NEW e \in Editors, WriteForm(e), There PROVE PublicInv'
  <2>1. /\ event'.link = editor[e].link /\ event'.public = editor[e].public
        /\ event'.st = "there"
    BY <1>1, <1>a DEF WriteForm, Written, Row, There
  <2>2. editor[e].public => editor[e].link \notin Proposals \/ editor[e].link \in trail'.vetted
    BY <1>1, <1>b DEF WriteForm
  <2>3. trail.vetted \subseteq trail'.vetted
    BY <1>1, <1>b DEF WriteForm
  <2> QED
    BY <2>1, <2>2, <2>3, PublicKept
<1>2. ASSUME NEW e \in Editors, EditWrite(e), There PROVE PublicInv'
  <2>1. /\ event'.public = event.public /\ event'.st = "there"
        /\ event'.link = IF ~editor[e].public THEN editor[e].link ELSE event.link
    BY <1>2, <1>a DEF EditWrite, Submitted, Row, There
  <2>2. event.public /\ ~editor[e].public =>
          editor[e].link \notin Proposals \/ editor[e].link \in trail'.vetted
    BY <1>2, <1>b DEF EditWrite
  <2>3. trail.vetted \subseteq trail'.vetted
    BY <1>2, <1>b DEF EditWrite
  <2> QED
    BY <1>2, <2>1, <2>2, <2>3, PublicKept
<1>3. ASSUME NEW e \in Editors, ReviewWrite(e), There PROVE PublicInv'
  <2>1. /\ event'.public = event.public /\ event'.st = "there"
        /\ event'.link \in {event.link, editor[e].proposal}
    BY <1>3, <1>a DEF ReviewWrite, Row, There
  <2>2. trail'.vetted = trail.vetted \cup {editor[e].proposal}
    BY <1>3, <1>b DEF ReviewWrite
  <2> QED
    BY <1>3, <2>1, <2>2, PublicKept
<1>4. ASSUME NEW e \in Editors, PublishEvent(e) PROVE PublicInv'
  <2>1. event'.link = event.link /\ event'.st = "there"
    BY <1>4, <1>a DEF PublishEvent, Row, There
  <2>2. trail'.vetted = trail.vetted \cup ({event.link} \cap Proposals)
    BY <1>4, <1>b DEF PublishEvent
  <2> QED
    BY <2>1, <2>2, PublicKept
<1>5. ASSUME NEW e \in Editors, ImportEntry(e), ~(UNCHANGED <<event, trail>>) PROVE PublicInv'
  <2>1. trail'.vetted = trail.vetted
    BY <1>5, <1>b DEF ImportEntry
  <2>2. CASE event' = Inserted(editor[e].version, editor[e].stamp)
    BY <2>1, <2>2, <1>c, PublicKept DEF Inserted
  <2>3. CASE There /\ event' = Replaced(editor[e].version, editor[e].stamp)
    BY <2>1, <2>3, <1>a, <1>c, PublicKept DEF Replaced, Row, There
  <2>4. ASSUME There, NEW l \in {event.link, OwnLink}, event' = Merged(editor[e].version, editor[e].stamp, l)
        PROVE  PublicInv'
    <3>1. event'.st = "there" /\ event'.public = event.public /\ event'.link = l
      BY <2>4, <1>a DEF Merged, Row, There
    <3> QED
      BY <2>1, <2>4, <3>1, <1>c, PublicKept
  <2> QED
    BY <1>5, <2>2, <2>3, <2>4 DEF ImportEntry
<1>6. ASSUME NEW e \in Editors, TouchText(e) \/ StampEvent(e) PROVE PublicInv'
  <2>1. /\ event'.link = event.link /\ event'.public = event.public /\ event'.st = event.st
        /\ trail' = trail
    BY <1>6, <1>a DEF TouchText, StampEvent, Row
  <2> QED
    BY <2>1 DEF PublicInv, PublicOnlyReviewed, There
<1>7. ASSUME NEW e \in Editors, HardDelete(e) PROVE PublicInv'
  BY <1>7, <1>a, PublicKept DEF HardDelete, Row
<1>8. ASSUME NEW l \in AnyLink, Suggest(l) PROVE PublicInv'
  <2>1. event'.st = "there" /\ event'.public = event.public /\ trail' = trail /\ ~event.public
    BY <1>8, <1>a DEF Suggest, Row, PublicInv
  <2> QED
    BY <2>1, PublicKept
<1>9. \/ UNCHANGED <<event, trail>>
      \/ \E e \in Editors : \/ (WriteForm(e) \/ EditWrite(e) \/ ReviewWrite(e)) /\ There
                            \/ PublishEvent(e) \/ ImportEntry(e) \/ TouchText(e) \/ StampEvent(e)
                            \/ HardDelete(e)
      \/ \E l \in AnyLink : Suggest(l)
  BY DEF EvNext, evVars, OpenForm, SubmitForm, WriteForm, DeclineRead, EditRead, EditWrite, ReviewRead,
         ReviewWrite, FetchFeed, GiveUp, ReviseFeed, EvTick
<1> QED
  BY <1>d, <1>1, <1>2, <1>3, <1>4, <1>5, <1>6, <1>7, <1>8, <1>9

\* The link a suggester submits is public only after someone published or approved
\* it, or with an edit that found the event still a draft, however the edits,
\* reviews, publications and imports overlap.
THEOREM ReviewedTheorem == EvSpec => []PublicOnlyReviewed
<1>1. PublicInv => PublicOnlyReviewed
  BY DEF PublicInv
<1> QED
  BY <1>1, EvTypeInit, EvTypeStep, PublicInit, PublicStep, PTL DEF EvSpec

-----------------------------------------------------------------------------
(* If-Match.  A form that is stale and was not excused still has an older   *)
(* ETag than the row, so that the comparison is going to refuse it.         *)

Conditional(e) == editor[e].guarded /\ editor[e].at \in {"form", "write"}
Aware(e) ==
  Conditional(e) =>
    /\ event.st # "none"
    /\ editor[e].etag <= event.changed
    /\ There /\ editor[e].rev # rev /\ ~editor[e].excused =>
         editor[e].at = "form" /\ editor[e].etag < event.changed
LostInv == event.changed <= Now /\ \A e \in Editors : Aware(e)

LEMMA LostInit == EvInit => LostInv
  BY DEF EvInit, LostInv, Aware, Conditional, Now, Off

\* A change of the row that excuses those it does not show itself to.
LEMMA AwareAfterChange ==
  ASSUME EvTypeInv, LostInv, NEW e \in Editors, NEW next \in Editor, NEW stamped \in BOOLEAN,
         Changes(e, next, stamped), ~next.guarded, time'.second = time.second, event' \in Row,
         event.st # "none" => event'.st # "none",
         stamped => event'.changed = Now, event'.changed \in {Now, event.changed}
  PROVE  LostInv'
<1>1. event.changed <= event'.changed /\ event'.changed <= Now' /\ event'.changed \in Nat
      /\ event.changed \in Nat /\ Now \in Nat /\ Now' = Now
  BY Fields DEF EvTypeInv, LostInv, Now, Seconds
<1>2. ASSUME NEW x \in Editors PROVE Aware(x)'
  <2>1. CASE x = e
    BY <2>1, ChangesEffect DEF EvTypeInv, Aware, Conditional
  <2>2. CASE x # e
    <3>1. editor[x] \in Editor
      BY Fields DEF EvTypeInv
    <3>2. /\ editor'[x] = [editor[x] EXCEPT !.excused = editor'[x].excused]
          /\ editor'[x].excused = (editor[x].excused \/ (editor[x].guarded /\ Unnoticed(editor[x], stamped)))
      BY <2>2, ChangesEffect DEF EvTypeInv
    <3>3. /\ editor'[x].at = editor[x].at /\ editor'[x].guarded = editor[x].guarded
          /\ editor'[x].etag = editor[x].etag
      BY <3>1, <3>2 DEF Editor
    <3>4. editor'[x].excused = (editor[x].excused \/ (editor[x].guarded /\ Unnoticed(editor[x], stamped)))
      BY <3>2
    <3>5. editor[x].etag \in Nat
      BY <3>1, EditorFields
    <3>6. ASSUME Conditional(x), ~editor'[x].excused
          PROVE  editor[x].at = "form" /\ editor[x].etag < event'.changed
      <4>1. editor[x].at # "write" /\ stamped /\ editor[x].etag # Now
        BY <3>4, <3>6 DEF Conditional, Unnoticed
      <4>2. event'.changed = Now /\ editor[x].etag <= event.changed /\ event.changed <= Now
        BY <3>6, <4>1 DEF LostInv, Aware
      <4> QED
        BY <1>1, <3>5, <3>6, <4>1, <4>2 DEF Conditional
    <3>7. Conditional(x) => event.st # "none" /\ editor[x].etag <= event.changed
      BY DEF LostInv, Aware
    <3> QED
      BY <1>1, <3>3, <3>5, <3>6, <3>7 DEF Aware, Conditional
  <2> QED
    BY <2>1, <2>2
<1> QED
  BY <1>1, <1>2 DEF LostInv

\* A step that changes no column the comparison is about.
LEMMA AwareAfterRead ==
  ASSUME EvTypeInv, LostInv, NEW e \in Editors, NEW step \in Editor, Become(e, step),
         UNCHANGED <<event, rev>>, time'.second = time.second,
         Aware(e)'
  PROVE  LostInv'
  BY BecomeEffect DEF EvTypeInv, LostInv, Aware, Conditional, There, Now

LEMMA LostStep == EvTypeInv /\ LostInv /\ [EvNext]_evVars => LostInv'
<1> SUFFICES ASSUME EvTypeInv, LostInv, [EvNext]_evVars PROVE LostInv'
  OBVIOUS
<1>a. EvTypeOK /\ EvTypeInv'
  BY EvTypeStep DEF EvTypeInv
<1>b. /\ event \in Row /\ event' \in Row /\ event.changed \in Nat /\ Now \in Nat
      /\ editor \in [Editors -> Editor] /\ editor' \in [Editors -> Editor]
  BY <1>a, Fields DEF EvTypeInv, EvTypeOK, Seconds
<1>1. ASSUME NEW e \in Editors, Become(e, Off), UNCHANGED <<event, rev>>, time'.second = time.second
      PROVE  LostInv'
  <2>1. Aware(e)'
    BY <1>a, <1>1, OffIsEditor, BecomeEffect DEF Aware, Conditional
  <2> QED
    BY <1>1, <2>1, OffIsEditor, AwareAfterRead
<1>2. ASSUME NEW e \in Editors, NEW step \in Editor, ~step.guarded, StartEdit(e, step),
             UNCHANGED <<event, rev>>
      PROVE  LostInv'
  <2>1. Become(e, step) /\ time'.second = time.second
    BY <1>a, <1>2, BeginsEffect DEF StartEdit
  <2>2. Aware(e)'
    BY <1>a, <1>2, <2>1, BecomeEffect DEF Aware, Conditional
  <2> QED
    BY <1>2, <2>1, <2>2, AwareAfterRead
<1>3. ASSUME NEW e \in Editors, NEW guarded \in BOOLEAN, OpenForm(e, guarded) PROVE LostInv'
  <2> DEFINE step == [Off EXCEPT !.at = "form", !.guarded = guarded, !.etag = event.changed,
                              !.rev = rev, !.public = event.public, !.link = event.link]
  <2>1. Become(e, step) /\ Begins(e) /\ UNCHANGED <<event, source, rev, trail>> /\ There
    BY <1>3 DEF OpenForm, StartEdit
  <2>2. step \in Editor /\ step.rev = rev /\ step.etag = event.changed
    BY <1>a, Fields, OffIsEditor DEF Editor, EditSteps, EvTypeOK, Seconds
  <2> HIDE DEF step
  <2>3. editor'[e] = step /\ time'.second = time.second
    BY <1>a, <2>1, <2>2, BecomeEffect, BeginsEffect
  <2>4. Aware(e)'
    BY <1>b, <2>1, <2>2, <2>3 DEF Aware, There
  <2> QED
    BY <2>1, <2>2, <2>3, <2>4, AwareAfterRead
<1>4. ASSUME NEW e \in Editors, NEW patch \in BOOLEAN, NEW shown \in BOOLEAN, SubmitForm(e, patch, shown) PROVE LostInv'
  <2>1. CASE Become(e, Off)
    BY <1>4, <1>1, <2>1 DEF SubmitForm
  <2>2. CASE ~Become(e, Off)
    <3>0. PICK l \in {IF patch THEN event.link ELSE editor[e].link, OwnLink} :
            Become(e, [editor[e] EXCEPT !.at = "write", !.public = shown, !.link = l])
      BY <1>4, <2>2 DEF SubmitForm
    <3> DEFINE step == [editor[e] EXCEPT !.at = "write", !.public = shown, !.link = l]
    <3>1. Become(e, step) /\ UNCHANGED <<event, source, time, rev, trail>> /\ There /\ Matches(e)
          /\ editor[e].at = "form"
      BY <1>4, <2>2, <3>0 DEF SubmitForm
    <3>2. editor[e] \in Editor
      BY <1>a, Fields
    <3>3. step \in Editor
      <4>1. l \in AnyLink
        BY <1>a, <3>2, Fields, EditorFields
      <4> QED
        BY <3>2, <4>1, EditorFields DEF Editor, EditSteps
    <3>4. /\ step.guarded = editor[e].guarded /\ step.etag = editor[e].etag
          /\ step.rev = editor[e].rev /\ step.excused = editor[e].excused
      BY <3>2 DEF Editor
    <3> HIDE DEF step
    <3>5. editor'[e] = step
      BY <1>a, <3>1, <3>3, BecomeEffect
    <3>6. Conditional(e)' => /\ event.st # "none" /\ editor[e].etag = event.changed
                             /\ There /\ editor[e].rev # rev => editor[e].excused
      <4>1. ASSUME editor[e].guarded
            PROVE  /\ event.st # "none" /\ editor[e].etag = event.changed
                   /\ There /\ editor[e].rev # rev => editor[e].excused
        <5>1. Conditional(e) /\ editor[e].etag = event.changed
          BY <3>1, <4>1 DEF Conditional, Matches
        <5> QED
          BY <1>b, <5>1 DEF LostInv, Aware
      <4> QED
        BY <3>4, <3>5, <4>1 DEF Conditional
    <3>7. Aware(e)'
      BY <1>b, <3>1, <3>4, <3>5, <3>6 DEF Aware, There
    <3> QED
      BY <3>1, <3>3, <3>7, AwareAfterRead
  <2> QED
    BY <2>1, <2>2
<1>5. ASSUME NEW e \in Editors, WriteForm(e) PROVE LostInv'
  <2>1. CASE There
    <3>1. event'.changed = Now /\ event'.st = "there"
      BY <1>5, <1>b, <2>1 DEF WriteForm, Written, Row, There
    <3>2. Changes(e, Off, TRUE) /\ time'.second = time.second
      BY <1>5, <2>1 DEF WriteForm
    <3>3. event.st # "none" => event'.st # "none"
      BY <3>1
    <3> QED
      BY <1>b, <3>1, <3>2, <3>3, OffIsEditor, AwareAfterChange, Zenon
  <2> QED
    BY <1>5, <1>1, <2>1 DEF WriteForm
<1>6. ASSUME NEW e \in Editors, TouchText(e) PROVE LostInv'
  <2>1. [Off EXCEPT !.at = "stamp"] \in Editor /\ ~[Off EXCEPT !.at = "stamp"].guarded
    BY OffIsEditor DEF Editor, EditSteps
  <2>2. event'.changed = event.changed /\ event'.st = event.st /\ time'.second = time.second
        /\ Changes(e, [Off EXCEPT !.at = "stamp"], FALSE)
    BY <1>6, <1>a, <1>b, BeginsEffect DEF TouchText, Row
  <2> QED
    BY <1>b, <2>1, <2>2, AwareAfterChange
<1>7. ASSUME NEW e \in Editors, StampEvent(e) PROVE LostInv'
  <2>1. /\ event'.st = event.st /\ (event'.changed = Now \/ event'.changed = event.changed)
        /\ rev' = rev /\ time' = time
    BY <1>7, <1>b DEF StampEvent, Row
  <2>2. event.changed <= event'.changed /\ event'.changed <= Now' /\ event'.changed \in Nat
    BY <1>b, <2>1 DEF LostInv, Now
  <2>3. ASSUME NEW x \in Editors PROVE Aware(x)'
    <3>1. CASE x = e
      BY <1>a, <1>7, <3>1, OffIsEditor, BecomeEffect DEF StampEvent, Aware, Conditional
    <3>2. CASE x # e
      <4>1. editor'[x] = editor[x]
        BY <1>a, <1>7, <3>2, OffIsEditor, BecomeEffect DEF StampEvent
      <4>2. editor[x].etag \in Nat
        BY <1>a, Fields, EditorFields
      <4> QED
        BY <1>b, <2>1, <2>2, <4>1, <4>2 DEF LostInv, Aware, Conditional, There
    <3> QED
      BY <3>1, <3>2
  <2> QED
    BY <2>2, <2>3 DEF LostInv
<1>8. ASSUME NEW e \in Editors, PublishEvent(e) PROVE LostInv'
  <2>1. event'.changed = event.changed /\ event'.st = event.st /\ time'.second = time.second
        /\ Changes(e, Off, FALSE)
    BY <1>8, <1>a, <1>b, BeginsEffect DEF PublishEvent, Row
  <2> QED
    BY <1>b, <2>1, OffIsEditor, AwareAfterChange
<1>9. ASSUME NEW e \in Editors, HardDelete(e) PROVE LostInv'
  <2>1. event'.changed = event.changed /\ event'.st # "none" /\ time'.second = time.second
        /\ Changes(e, Off, FALSE)
    BY <1>9, <1>a, <1>b, BeginsEffect DEF HardDelete, Row
  <2> QED
    BY <1>b, <2>1, OffIsEditor, AwareAfterChange
<1>10. ASSUME NEW e \in Editors, EditWrite(e) PROVE LostInv'
  <2>1. CASE There
    <3>1. event'.changed = Now /\ event'.st = "there"
      BY <1>10, <1>b, <2>1 DEF EditWrite, Submitted, Row, There
    <3>2. Changes(e, Off, TRUE) /\ time'.second = time.second
      BY <1>10, <2>1 DEF EditWrite
    <3>3. event.st # "none" => event'.st # "none"
      BY <3>1
    <3> QED
      BY <1>b, <3>1, <3>2, <3>3, OffIsEditor, AwareAfterChange, Zenon
  <2> QED
    BY <1>10, <1>1, <2>1 DEF EditWrite
<1>11. ASSUME NEW e \in Editors, ReviewWrite(e) PROVE LostInv'
  <2>1. CASE There
    <3>1. event'.changed = event.changed /\ event'.st = "there"
      BY <1>11, <1>b, <2>1 DEF ReviewWrite, Row, There
    <3> QED
      BY <1>11, <1>b, <2>1, <3>1, OffIsEditor, AwareAfterChange DEF ReviewWrite
  <2> QED
    BY <1>11, <1>1, <2>1 DEF ReviewWrite
<1>12. ASSUME NEW e \in Editors, ImportEntry(e) PROVE LostInv'
  <2>1. CASE Become(e, Off) /\ UNCHANGED <<event, rev, trail>>
    BY <1>12, <1>1, <2>1 DEF ImportEntry
  <2>2. CASE ~(Become(e, Off) /\ UNCHANGED <<event, rev, trail>>)
    <3>1. event'.st = "there" /\ (event'.changed = Now \/ event'.changed = event.changed)
      <4>1. CASE event' = Inserted(editor[e].version, editor[e].stamp)
        BY <4>1 DEF Inserted
      <4>2. CASE There /\ event' = Replaced(editor[e].version, editor[e].stamp)
        BY <1>b, <4>2 DEF Replaced, Row, There
      <4>3. ASSUME There, NEW l \in {event.link, OwnLink},
                   event' = Merged(editor[e].version, editor[e].stamp, l)
            PROVE  event'.st = "there" /\ event'.changed = event.changed
        BY <1>b, <4>3 DEF Merged, Row, There
      <4> QED
        BY <1>12, <2>2, <4>1, <4>2, <4>3 DEF ImportEntry
    <3>2. Changes(e, Off, event'.changed # event.changed) /\ time' = time
      BY <1>12, <2>2 DEF ImportEntry
    <3>3. (event'.changed # event.changed) \in BOOLEAN
      OBVIOUS
    <3>4. (event'.changed # event.changed => event'.changed = Now) /\ event'.changed \in {Now, event.changed}
      BY <3>1
    <3>5. time'.second = time.second
      BY <3>2
    <3> QED
      BY <1>b, <3>1, <3>2, <3>3, <3>4, <3>5, OffIsEditor, AwareAfterChange
  <2> QED
    BY <2>1, <2>2
<1>13. ASSUME NEW l \in AnyLink, Suggest(l) PROVE LostInv'
  <2>1. event'.changed = event.changed /\ event.st = "none" /\ editor' = editor /\ time' = time
    BY <1>13, <1>b DEF Suggest, Row
  <2>2. \A x \in Editors : ~Conditional(x)
    BY <2>1 DEF LostInv, Aware
  <2> QED
    BY <2>1, <2>2 DEF LostInv, Aware, Conditional, Now
<1>14. ASSUME NEW e \in Editors, DeclineRead(e) PROVE LostInv'
  <2>1. [Off EXCEPT !.at = "decline"] \in Editor /\ ~[Off EXCEPT !.at = "decline"].guarded
    BY OffIsEditor DEF Editor, EditSteps
  <2> QED
    BY <1>14, <1>2, <2>1 DEF DeclineRead
<1>15. ASSUME NEW e \in Editors, NEW l \in AnyLink, EditRead(e, l) PROVE LostInv'
  <2> DEFINE step == [Off EXCEPT !.at = "edit", !.public = event.public, !.link = l,
                     !.proposal = IF event.public /\ l # event.link /\ l \in Proposals THEN l
                                  ELSE NoProposal]
  <2>1. (IF event.public /\ l # event.link /\ l \in Proposals THEN l ELSE NoProposal)
           \in Proposals \cup {NoProposal}
    OBVIOUS
  <2>2. step \in Editor /\ ~step.guarded
    BY <1>a, <2>1, Fields, OffIsEditor DEF Editor, EditSteps
  <2>3. StartEdit(e, step) /\ UNCHANGED <<event, rev>>
    BY <1>15 DEF EditRead
  <2> HIDE DEF step
  <2> QED
    BY <1>2, <2>2, <2>3
<1>16. ASSUME NEW e \in Editors, NEW at \in {"approve", "reject"}, ReviewRead(e, at) PROVE LostInv'
  <2> DEFINE step == [Off EXCEPT !.at = at, !.proposal = event.pending]
  <2>1. step \in Editor /\ ~step.guarded
    BY <1>a, Fields, OffIsEditor DEF Editor, EditSteps
  <2>2. StartEdit(e, step) /\ UNCHANGED <<event, rev>>
    BY <1>16 DEF ReviewRead
  <2> HIDE DEF step
  <2> QED
    BY <1>2, <2>1, <2>2
<1>17. ASSUME NEW e \in Editors, FetchFeed(e) PROVE LostInv'
  <2> DEFINE step == [Off EXCEPT !.at = "import", !.version = source.version,
                              !.stamp = IF source.dated THEN source.made ELSE 0]
  <2>1. (IF source.dated THEN source.made ELSE 0) \in Seconds /\ source.version \in 0 .. MaxVersion
    BY <1>a, Fields, EventsAssumption DEF Seconds
  <2>2. step \in Editor /\ ~step.guarded
    BY <2>1, OffIsEditor DEF Editor, EditSteps
  <2>3. StartEdit(e, step) /\ UNCHANGED <<event, rev>>
    BY <1>17 DEF FetchFeed
  <2> HIDE DEF step
  <2> QED
    BY <1>2, <2>2, <2>3
<1>18. ASSUME NEW e \in Editors, GiveUp(e) PROVE LostInv'
  BY <1>18, <1>1 DEF GiveUp
<1>19. CASE EvTick
  <2>1. Now' = Now + 1 /\ UNCHANGED <<event, source, editor, rev, trail>>
    BY <1>19, <1>a DEF EvTick, Now, EvTypeOK
  <2> QED
    BY <1>b, <2>1 DEF LostInv, Aware, Conditional, There
<1>20. CASE ReviseFeed \/ UNCHANGED evVars
  BY <1>20 DEF ReviseFeed, evVars, LostInv, Aware, Conditional, There, Now
<1> QED
  BY <1>3, <1>4, <1>5, <1>6, <1>7, <1>8, <1>9, <1>10, <1>11, <1>12, <1>13, <1>14, <1>15, <1>16,
     <1>17, <1>18, <1>19, <1>20 DEF EvNext

\* A conditional write that passed the comparison overwrites nothing unseen but what
\* the stamp cannot show: for any number of requests, however they overlap.
THEOREM LostUpdatesTheorem == EvSpec => []LostUpdatesExplained
<1>1. EvTypeInv /\ LostInv => LostUpdatesExplained
  <2> SUFFICES ASSUME EvTypeInv, LostInv, NEW e \in Editors,
                      editor[e].at = "write", editor[e].guarded, There, editor[e].rev # rev
               PROVE  editor[e].excused
    BY DEF LostUpdatesExplained
  <2> QED
    BY DEF LostInv, Aware, Conditional
<1> QED
  BY <1>1, EvTypeInit, EvTypeStep, LostInit, LostStep, PTL DEF EvSpec

-----------------------------------------------------------------------------
(* Feeds.  The stamps of the versions are ordered as the versions are, and  *)
(* a row that holds a version holds its stamp, or is protected.             *)

Importing(e) == editor[e].at = "import"
Bookkeeping ==
  /\ event.st = "none" => trail.imported = 0
  /\ There /\ trail.imported > 0 => event.changed > 0
  /\ trail.imported <= source.version
  /\ 0 < source.made /\ source.made <= Now
  /\ \A e \in Editors : Importing(e) =>
       /\ 1 <= editor[e].version /\ editor[e].version <= source.version
       /\ source.dated => editor[e].stamp > 0
       /\ ~source.dated => editor[e].stamp = 0
LatestFetch(e) ==
  /\ editor[e].stamp <= source.made
  /\ editor[e].version = source.version => editor[e].stamp = source.made
Passed(e) == There /\ editor[e].version <= trail.imported => editor[e].stamp <= event.modified
Ordered(e, f) == editor[e].version <= editor[f].version => editor[e].stamp <= editor[f].stamp
Stamped ==
  source.dated =>
    /\ There /\ trail.imported = source.version => source.made <= event.modified
    /\ \A e \in Editors : Importing(e) => LatestFetch(e) /\ Passed(e)
    /\ \A e, f \in Editors : Importing(e) /\ Importing(f) => Ordered(e, f)
FeedInv == Bookkeeping /\ Stamped

LEMMA FeedInvInit == EvInit => FeedInv
  BY EventsAssumption
     DEF EvInit, FeedInv, Bookkeeping, Stamped, Importing, There, Now, Off

\* The imports that are under way keep what they fetched.
ImportsKept ==
  \A x \in Editors : Importing(x)' => /\ Importing(x)
                                      /\ editor'[x].version = editor[x].version
                                      /\ editor'[x].stamp = editor[x].stamp

LEMMA KeptByBecome ==
  ASSUME EvTypeInv, NEW e \in Editors, NEW step \in Editor, Become(e, step), step.at # "import"
  PROVE  ImportsKept
  BY BecomeEffect DEF EvTypeInv, ImportsKept, Importing

LEMMA KeptByChange ==
  ASSUME EvTypeInv, NEW e \in Editors, NEW next \in Editor, NEW stamped \in BOOLEAN,
         Changes(e, next, stamped), next.at # "import"
  PROVE  ImportsKept
<1> SUFFICES ASSUME NEW x \in Editors, Importing(x)'
             PROVE  /\ Importing(x)
                    /\ editor'[x].version = editor[x].version /\ editor'[x].stamp = editor[x].stamp
  BY DEF ImportsKept
<1>1. x # e
  BY ChangesEffect DEF EvTypeInv, Importing
<1>2. editor'[x] = [editor[x] EXCEPT !.excused = editor'[x].excused]
  BY <1>1, ChangesEffect DEF EvTypeInv
<1>3. editor[x] \in Editor
  BY Fields DEF EvTypeInv
<1> QED
  BY <1>2, <1>3 DEF Importing, Editor

\* Numbers, for the arithmetic below.
LEMMA Counts ==
  ASSUME EvTypeInv
  PROVE  /\ event.changed \in Nat /\ event.modified \in Nat /\ trail.imported \in Nat
         /\ source.version \in Nat /\ source.made \in Nat /\ Now \in Nat /\ 0 < Now
         /\ \A e \in Editors : editor[e].version \in Nat /\ editor[e].stamp \in Nat
  BY Fields, EditorFields, EventsAssumption DEF EvTypeInv, Now

\* What every step but a fetch, an import and a revision leaves to the feed.
LEMMA FeedKept ==
  ASSUME EvTypeInv, EvTypeInv', FeedInv, ImportsKept, source' = source,
         trail'.imported = trail.imported, event'.modified = event.modified,
         event'.st = event.st \/ event'.st = "gone" \/ (event.st = "none" /\ event'.st = "there"),
         event'.changed \in {event.changed, Now}, Now <= Now'
  PROVE  FeedInv'
<1>a. Now' \in Nat
  BY DEF EvTypeInv, EvTypeOK, Now
<1>1. /\ event.changed \in Nat /\ event.modified \in Nat /\ trail.imported \in Nat
      /\ source.version \in Nat /\ source.made \in Nat /\ Now \in Nat /\ 0 < Now /\ Now' \in Nat
      /\ \A e \in Editors : editor[e].version \in Nat /\ editor[e].stamp \in Nat
  BY <1>a, Counts
<1>2. There' => There \/ trail.imported = 0
  BY DEF There, FeedInv, Bookkeeping
<1>3. event'.st = "none" => event.st = "none"
  OBVIOUS
<1>4. Bookkeeping'
  BY <1>1, <1>2, <1>3 DEF Bookkeeping, FeedInv, ImportsKept
<1>5. ASSUME source.dated PROVE There' /\ trail'.imported = source'.version => source'.made <= event'.modified
  <2>1. 0 < source.version
    BY <1>1, <1>5 DEF FeedInv, Bookkeeping, EvTypeInv, EvTypeOK
  <2> QED
    BY <1>1, <1>2, <1>5, <2>1 DEF FeedInv, Stamped
<1>6. ASSUME source.dated, NEW e \in Editors, Importing(e)'
      PROVE  LatestFetch(e)' /\ Passed(e)'
  <2>1. Importing(e) /\ editor'[e].version = editor[e].version /\ editor'[e].stamp = editor[e].stamp
    BY <1>6 DEF ImportsKept
  <2>2. LatestFetch(e) /\ Passed(e) /\ 1 <= editor[e].version
    BY <1>6, <2>1 DEF FeedInv, Stamped, Bookkeeping
  <2> QED
    BY <1>1, <1>2, <2>1, <2>2 DEF LatestFetch, Passed
<1>7. ASSUME source.dated, NEW e \in Editors, NEW f \in Editors, Importing(e)', Importing(f)'
      PROVE  Ordered(e, f)'
  BY <1>7 DEF ImportsKept, FeedInv, Stamped, Ordered
<1> QED
  BY <1>4, <1>5, <1>6, <1>7 DEF FeedInv, Stamped

LEMMA FeedByFetch ==
  ASSUME EvTypeInv, FeedInv, NEW e \in Editors, FetchFeed(e)
  PROVE  FeedInv'
<1> DEFINE step == [Off EXCEPT !.at = "import", !.version = source.version,
                            !.stamp = IF source.dated THEN source.made ELSE 0]
<1>1. (IF source.dated THEN source.made ELSE 0) \in Seconds /\ source.version \in 0 .. MaxVersion
  BY Fields, EventsAssumption DEF Seconds, EvTypeInv
<1>2. /\ step \in Editor /\ step.version = source.version
      /\ step.stamp = IF source.dated THEN source.made ELSE 0
  BY <1>1, OffIsEditor DEF Editor, EditSteps
<1>3. StartEdit(e, step) /\ UNCHANGED <<event, source, rev, trail>>
  BY DEF FetchFeed
<1> HIDE DEF step
<1>4. editor'[e] = step /\ \A x \in Editors \ {e} : editor'[x] = editor[x]
  BY <1>2, <1>3, BecomeEffect DEF StartEdit, EvTypeInv
<1>5. time'.second = time.second
  BY <1>3, BeginsEffect DEF StartEdit, EvTypeInv
<1>6. /\ event.changed \in Nat /\ event.modified \in Nat /\ trail.imported \in Nat
      /\ source.version \in Nat /\ source.made \in Nat /\ 1 <= source.version
      /\ \A x \in Editors : editor[x].version \in Nat /\ editor[x].stamp \in Nat
  BY Counts, Fields DEF EvTypeInv
<1>7. Bookkeeping'
  BY <1>2, <1>3, <1>4, <1>5, <1>6 DEF FeedInv, Bookkeeping, There, Now, Importing
<1>8. ASSUME source.dated, NEW x \in Editors, Importing(x)' PROVE LatestFetch(x)' /\ Passed(x)'
  <2>1. CASE x = e
    <3>1. editor'[x].version = source.version /\ editor'[x].stamp = source.made
      BY <1>2, <1>4, <1>8, <2>1
    <3>2. trail.imported <= source.version
      BY DEF FeedInv, Bookkeeping
    <3>3. There /\ trail.imported = source.version => source.made <= event.modified
      BY <1>8 DEF FeedInv, Stamped
    <3> QED
      BY <1>3, <1>6, <3>1, <3>2, <3>3 DEF LatestFetch, Passed, There
  <2>2. CASE x # e
    BY <1>3, <1>4, <1>8, <2>2 DEF FeedInv, Stamped, Importing, LatestFetch, Passed, There
  <2> QED
    BY <2>1, <2>2
<1>9. ASSUME source.dated, NEW x \in Editors, NEW y \in Editors, Importing(x)', Importing(y)'
      PROVE  Ordered(x, y)'
  <2>1. ASSUME NEW z \in Editors, z # e, Importing(z)'
        PROVE  /\ Importing(z) /\ editor'[z] = editor[z]
               /\ editor[z].stamp <= source.made /\ editor[z].version <= source.version
               /\ editor[z].version = source.version => editor[z].stamp = source.made
    BY <1>4, <1>9, <2>1 DEF FeedInv, Bookkeeping, Stamped, Importing, LatestFetch
  <2>2. editor'[e].version = source.version /\ editor'[e].stamp = source.made
    BY <1>2, <1>4, <1>9
  <2>3. CASE x = e /\ y = e
    BY <1>6, <2>2, <2>3 DEF Ordered
  <2>4. CASE x = e /\ y # e
    BY <1>6, <1>9, <2>1, <2>2, <2>4 DEF Ordered
  <2>5. CASE x # e /\ y = e
    BY <1>6, <1>9, <2>1, <2>2, <2>5 DEF Ordered
  <2>6. CASE x # e /\ y # e
    BY <1>9, <2>1, <2>6 DEF FeedInv, Stamped, Ordered
  <2> QED
    BY <2>3, <2>4, <2>5, <2>6
<1>10. Stamped'
  <2>1. There' = There
    BY <1>3 DEF There
  <2> QED
    BY <1>3, <1>8, <1>9, <2>1 DEF FeedInv, Stamped
<1> QED
  BY <1>7, <1>10 DEF FeedInv

LEMMA FeedByRevision ==
  ASSUME EvTypeInv, FeedInv, ReviseFeed
  PROVE  FeedInv'
<1>1. /\ source'.version = source.version + 1 /\ source'.made = Now /\ source'.dated = source.dated
      /\ UNCHANGED <<event, editor, time, rev, trail>>
  BY DEF ReviseFeed, EvTypeInv, EvTypeOK
<1>2. /\ event.changed \in Nat /\ event.modified \in Nat /\ trail.imported \in Nat
      /\ source.version \in Nat /\ source.made \in Nat /\ Now \in Nat /\ 0 < Now
      /\ \A x \in Editors : editor[x].version \in Nat /\ editor[x].stamp \in Nat
  BY Counts
<1>3. Bookkeeping'
  BY <1>1, <1>2 DEF FeedInv, Bookkeeping, There, Now, Importing
<1>4. ASSUME source.dated, NEW x \in Editors, Importing(x) PROVE LatestFetch(x)' /\ Passed(x)'
  <2>1. LatestFetch(x) /\ Passed(x) /\ editor[x].version <= source.version /\ source.made <= Now
    BY <1>4 DEF FeedInv, Bookkeeping, Stamped
  <2> QED
    BY <1>1, <1>2, <2>1 DEF LatestFetch, Passed, There
<1>5. trail.imported <= source.version
  BY DEF FeedInv, Bookkeeping
<1> QED
  BY <1>1, <1>2, <1>3, <1>4, <1>5 DEF FeedInv, Stamped, Importing, Ordered

\* The argument of the theorem: what an import writes is newer than all before it.
LEMMA ImportIsNewer ==
  ASSUME EvTypeInv, FeedInv, NEW e \in Editors, Importing(e), event.st # "gone",
         ~(There /\ (SameRevision(editor[e].stamp) \/ Protected(editor[e].stamp)))
  PROVE  trail.imported < editor[e].version
<1>1. /\ event.changed \in Nat /\ event.modified \in Nat /\ trail.imported \in Nat
      /\ editor[e].version \in Nat /\ editor[e].stamp \in Nat /\ 1 <= editor[e].version
  BY Counts DEF FeedInv, Bookkeeping
<1>2. CASE trail.imported = 0
  BY <1>1, <1>2
<1>3. CASE trail.imported > 0
  <2>1. There
    BY <1>1, <1>3, Fields DEF FeedInv, Bookkeeping, There, EvTypeInv
  <2>2. event.changed > 0 /\ ~(editor[e].stamp <= event.changed)
    BY <1>3, <2>1 DEF FeedInv, Bookkeeping, Protected
  <2>3. source.dated
    BY <1>1, <2>2 DEF FeedInv, Bookkeeping
  <2>4. ~(editor[e].stamp <= event.modified)
    BY <2>1, <2>3 DEF FeedInv, Bookkeeping, SameRevision
  <2>5. ~(editor[e].version <= trail.imported)
    BY <2>1, <2>3, <2>4 DEF FeedInv, Stamped, Passed
  <2> QED
    BY <1>1, <2>5
<1> QED
  BY <1>1, <1>2, <1>3

LEMMA FeedByImport ==
  ASSUME EvTypeInv, EvTypeInv', FeedInv, NEW e \in Editors, ImportEntry(e)
  PROVE  FeedInv'
<1> DEFINE v == editor[e].version
           s == editor[e].stamp
<1>1. CASE Become(e, Off) /\ UNCHANGED <<event, rev, trail>>
  <2>1. ImportsKept
    BY <1>1, OffIsEditor, KeptByBecome
  <2>2. UNCHANGED <<source, time>>
    BY DEF ImportEntry
  <2>3. Now' = Now /\ Now \in Nat
    BY <2>2, Counts DEF Now
  <2> QED
    BY <1>1, <2>1, <2>2, <2>3, FeedKept
<1>2. CASE ~(Become(e, Off) /\ UNCHANGED <<event, rev, trail>>)
  <2>1. /\ Importing(e) /\ event.st # "gone" /\ UNCHANGED <<source, time>>
        /\ ~(There /\ (SameRevision(s) \/ Protected(s)))
        /\ Changes(e, Off, event'.changed # event.changed)
        /\ trail' = [trail EXCEPT !.imported = v]
    BY <1>2 DEF ImportEntry, Importing
  <2>2. ImportsKept
    <3>1. (event'.changed # event.changed) \in BOOLEAN
      OBVIOUS
    <3> QED
      BY <2>1, <3>1, OffIsEditor, KeptByChange
  <2>3. ~Importing(e)'
    <3>1. (event'.changed # event.changed) \in BOOLEAN
      OBVIOUS
    <3> QED
      BY <2>1, <3>1, OffIsEditor, ChangesEffect DEF EvTypeInv, Importing
  <2>a. event'.changed \in Nat
    BY DEF EvTypeInv, EvTypeOK, Row, Seconds
  <2>4. /\ event.changed \in Nat /\ event'.changed \in Nat /\ event.modified \in Nat /\ trail.imported \in Nat
        /\ source.version \in Nat /\ source.made \in Nat /\ Now \in Nat /\ 0 < Now
        /\ \A x \in Editors : editor[x].version \in Nat /\ editor[x].stamp \in Nat
    BY <2>a, Counts
  <2>5. event'.st = "there" /\ event'.modified = s /\ 0 < event'.changed
    <3>1. CASE event' = Inserted(v, s)
      BY <2>4, <3>1 DEF Inserted
    <3>2. CASE There /\ event' = Replaced(v, s)
      BY <2>4, <3>2 DEF Replaced, Row, There, EvTypeInv, EvTypeOK
    <3>3. ASSUME There, event.changed > 0, NEW l \in {event.link, OwnLink}, event' = Merged(v, s, l)
          PROVE  event'.st = "there" /\ event'.modified = s /\ 0 < event'.changed
      BY <2>4, <3>3 DEF Merged, Row, There, EvTypeInv, EvTypeOK
    <3> QED
      BY <1>2, <3>1, <3>2, <3>3 DEF ImportEntry
  <2>6. trail'.imported = v
    BY <2>1 DEF EvTypeInv, EvTypeOK
  <2>7. /\ 1 <= v /\ v <= source.version
        /\ source.dated => LatestFetch(e)
    BY <2>1 DEF FeedInv, Bookkeeping, Stamped
  <2>8. Bookkeeping'
    <3>1. Now' = Now
      BY <2>1 DEF Now
    <3> QED
      BY <2>1, <2>2, <2>4, <2>5, <2>6, <2>7, <3>1 DEF FeedInv, Bookkeeping, ImportsKept
  <2>9. ASSUME source.dated, NEW x \in Editors, Importing(x)' PROVE LatestFetch(x)' /\ Passed(x)'
    <3>1. Importing(x) /\ editor'[x].version = editor[x].version /\ editor'[x].stamp = editor[x].stamp
      BY <2>2, <2>9 DEF ImportsKept
    <3>2. LatestFetch(x) /\ Ordered(x, e)
      BY <2>1, <2>9, <3>1 DEF FeedInv, Stamped
    <3> QED
      BY <2>1, <2>4, <2>5, <2>6, <3>1, <3>2 DEF LatestFetch, Passed, Ordered
  <2>10. ASSUME source.dated, NEW x \in Editors, NEW y \in Editors, Importing(x)', Importing(y)'
         PROVE  Ordered(x, y)'
    BY <2>2, <2>10 DEF ImportsKept, FeedInv, Stamped, Ordered
  <2>11. source.dated /\ v = source.version => source.made <= s
    BY <2>4, <2>7 DEF LatestFetch
  <2> QED
    BY <2>1, <2>5, <2>6, <2>8, <2>9, <2>10, <2>11 DEF FeedInv, Stamped
<1> QED
  BY <1>1, <1>2

\* What the other steps do to what the invariant speaks of.
Neutral ==
  /\ ImportsKept /\ source' = source /\ trail'.imported = trail.imported
  /\ event'.modified = event.modified /\ event'.text \in {0, event.text}
  /\ event'.st = event.st \/ event'.st = "gone" \/ (event.st = "none" /\ event'.st = "there")
  /\ event'.changed \in {event.changed, Now} /\ Now <= Now'

LEMMA OthersNeutral ==
  ASSUME EvTypeInv, [EvNext]_evVars,
         ~ReviseFeed, \A e \in Editors : ~FetchFeed(e) /\ ~ImportEntry(e)
  PROVE  Neutral
<1>a. EvTypeOK
  BY DEF EvTypeInv
<1>b. event \in Row /\ trail \in [imported : 0 .. MaxVersion, vetted : SUBSET Proposals] /\ Now \in Nat
  BY <1>a, Counts DEF EvTypeOK
<1>c. Off \in Editor /\ Off.at # "import"
  BY OffIsEditor
<1>d. TRUE \in BOOLEAN /\ FALSE \in BOOLEAN
  OBVIOUS
<1>1. ASSUME NEW e \in Editors, NEW step \in Editor, Become(e, step), step.at # "import",
             UNCHANGED <<event, source, trail>>, time'.second = time.second
      PROVE  Neutral
  BY <1>b, <1>1, KeptByBecome DEF Neutral, Now
<1>2. ASSUME NEW e \in Editors, NEW step \in Editor, StartEdit(e, step), step.at # "import",
             UNCHANGED <<event, source, trail>>
      PROVE  Neutral
  BY <1>a, <1>1, <1>2, BeginsEffect DEF StartEdit
<1>3. ASSUME NEW e \in Editors, NEW next \in Editor, next.at # "import", NEW stamped \in BOOLEAN,
             Changes(e, next, stamped), source' = source, trail'.imported = trail.imported,
             time'.second = time.second, event'.modified = event.modified,
             event'.text \in {0, event.text}, event'.st \in {event.st, "gone"},
             event'.changed \in {event.changed, Now}
      PROVE  Neutral
  BY <1>b, <1>3, KeptByChange DEF Neutral, Now
<1>4. ASSUME NEW e \in Editors, NEW guarded \in BOOLEAN, OpenForm(e, guarded) PROVE Neutral
  <2> DEFINE step == [Off EXCEPT !.at = "form", !.guarded = guarded, !.etag = event.changed,
                              !.rev = rev, !.public = event.public, !.link = event.link]
  <2>1. step \in Editor /\ step.at = "form"
    BY <1>a, Fields, OffIsEditor DEF Editor, EditSteps, EvTypeOK, Seconds
  <2>2. StartEdit(e, step) /\ UNCHANGED <<event, source, trail>>
    BY <1>4 DEF OpenForm
  <2> HIDE DEF step
  <2> QED
    BY <1>2, <2>1, <2>2
<1>5. ASSUME NEW e \in Editors, NEW patch \in BOOLEAN, NEW shown \in BOOLEAN, SubmitForm(e, patch, shown) PROVE Neutral
  <2> DEFINE step(l) == [editor[e] EXCEPT !.at = "write", !.public = shown, !.link = l]
  <2>1. editor[e] \in Editor
    BY <1>a, Fields
  <2>2. ASSUME NEW l \in AnyLink PROVE step(l) \in Editor /\ step(l).at = "write"
    BY <1>a, <2>1, Fields, EditorFields DEF Editor, EditSteps
  <2>3. (Become(e, Off) \/ \E l \in AnyLink : Become(e, step(l))) /\ UNCHANGED <<event, source, time, rev, trail>>
    <3>1. event.link \in AnyLink /\ editor[e].link \in AnyLink /\ OwnLink \in AnyLink
      BY <1>a, <2>1, Fields, EditorFields
    <3> QED
      BY <1>5, <3>1 DEF SubmitForm
  <2> HIDE DEF step
  <2> QED
    BY <1>c, <1>1, <2>2, <2>3
<1>6. ASSUME NEW e \in Editors, WriteForm(e) PROVE Neutral
  <2>1. CASE There
    <3>1. /\ event'.changed = Now /\ event'.st = event.st /\ event'.modified = event.modified
          /\ event'.text = 0
      BY <1>6, <1>b, <2>1 DEF WriteForm, Written, Row
    <3>2. trail'.imported = trail.imported
      BY <1>6, <1>b, <2>1 DEF WriteForm
    <3>3. Changes(e, Off, TRUE) /\ UNCHANGED <<source, time>>
      BY <1>6, <2>1 DEF WriteForm
    <3> QED
      BY <1>c, <1>d, <1>3, <3>1, <3>2, <3>3
  <2> QED
    BY <1>6, <1>c, <1>1, <2>1 DEF WriteForm
<1>7. ASSUME NEW e \in Editors, TouchText(e) PROVE Neutral
  <2>1. [Off EXCEPT !.at = "stamp"] \in Editor /\ [Off EXCEPT !.at = "stamp"].at # "import"
    BY OffIsEditor DEF Editor, EditSteps
  <2>2. /\ event'.changed = event.changed /\ event'.st = event.st /\ event'.text = 0
        /\ event'.modified = event.modified /\ UNCHANGED <<source, trail>>
    BY <1>7, <1>b DEF TouchText, Row
  <2>3. Changes(e, [Off EXCEPT !.at = "stamp"], FALSE) /\ time'.second = time.second
    BY <1>7, <1>a, BeginsEffect DEF TouchText
  <2> QED
    BY <1>d, <1>3, <2>1, <2>2, <2>3
<1>8. ASSUME NEW e \in Editors, StampEvent(e) PROVE Neutral
  <2>1. /\ event'.changed \in {event.changed, Now} /\ event'.st = event.st /\ event'.text = event.text
        /\ event'.modified = event.modified /\ UNCHANGED <<source, time, trail>> /\ Become(e, Off)
    BY <1>8, <1>b DEF StampEvent, Row
  <2> QED
    BY <1>b, <1>c, <2>1, KeptByBecome DEF Neutral, Now
<1>9. ASSUME NEW e \in Editors, PublishEvent(e) PROVE Neutral
  <2>1. /\ event'.changed = event.changed /\ event'.st = event.st /\ event'.text = event.text
        /\ event'.modified = event.modified /\ source' = source /\ trail'.imported = trail.imported
    BY <1>9, <1>b DEF PublishEvent, Row
  <2>2. Changes(e, Off, FALSE) /\ time'.second = time.second
    BY <1>9, <1>a, BeginsEffect DEF PublishEvent
  <2> QED
    BY <1>c, <1>d, <1>3, <2>1, <2>2
<1>10. ASSUME NEW e \in Editors, HardDelete(e) PROVE Neutral
  <2>1. /\ event'.changed = event.changed /\ event'.st = "gone" /\ event'.text = event.text
        /\ event'.modified = event.modified /\ UNCHANGED <<source, trail>>
    BY <1>10, <1>b DEF HardDelete, Row
  <2>2. Changes(e, Off, FALSE) /\ time'.second = time.second
    BY <1>10, <1>a, BeginsEffect DEF HardDelete
  <2> QED
    BY <1>c, <1>d, <1>3, <2>1, <2>2
<1>11. ASSUME NEW e \in Editors, EditWrite(e) PROVE Neutral
  <2>1. CASE There
    <3>1. /\ event'.changed = Now /\ event'.st = event.st /\ event'.modified = event.modified
          /\ event'.text = 0
      BY <1>11, <1>b, <2>1 DEF EditWrite, Submitted, Row
    <3>2. trail'.imported = trail.imported
      BY <1>11, <1>b, <2>1 DEF EditWrite
    <3>3. Changes(e, Off, TRUE) /\ UNCHANGED <<source, time>>
      BY <1>11, <2>1 DEF EditWrite
    <3> QED
      BY <1>c, <1>d, <1>3, <3>1, <3>2, <3>3
  <2> QED
    BY <1>11, <1>c, <1>1, <2>1 DEF EditWrite
<1>12. ASSUME NEW e \in Editors, ReviewWrite(e) PROVE Neutral
  <2>1. CASE There
    <3>1. /\ event'.changed = event.changed /\ event'.st = event.st
          /\ event'.modified = event.modified /\ event'.text = event.text
      BY <1>12, <1>b, <2>1 DEF ReviewWrite, Row
    <3>2. trail'.imported = trail.imported
      BY <1>12, <1>b, <2>1 DEF ReviewWrite
    <3>3. Changes(e, Off, FALSE) /\ UNCHANGED <<source, time>>
      BY <1>12, <2>1 DEF ReviewWrite
    <3> QED
      BY <1>c, <1>d, <1>3, <3>1, <3>2, <3>3
  <2> QED
    BY <1>12, <1>c, <1>1, <2>1 DEF ReviewWrite
<1>13. ASSUME NEW e \in Editors, DeclineRead(e) PROVE Neutral
  <2>1. [Off EXCEPT !.at = "decline"] \in Editor /\ [Off EXCEPT !.at = "decline"].at # "import"
    BY OffIsEditor DEF Editor, EditSteps
  <2> QED
    BY <1>13, <1>2, <2>1 DEF DeclineRead
<1>14. ASSUME NEW e \in Editors, NEW l \in AnyLink, EditRead(e, l) PROVE Neutral
  <2> DEFINE step == [Off EXCEPT !.at = "edit", !.public = event.public, !.link = l,
                     !.proposal = IF event.public /\ l # event.link /\ l \in Proposals THEN l
                                  ELSE NoProposal]
  <2>1. (IF event.public /\ l # event.link /\ l \in Proposals THEN l ELSE NoProposal)
           \in Proposals \cup {NoProposal}
    OBVIOUS
  <2>2. step \in Editor /\ step.at = "edit"
    BY <1>a, <2>1, Fields, OffIsEditor DEF Editor, EditSteps
  <2>3. StartEdit(e, step) /\ UNCHANGED <<event, source, trail>>
    BY <1>14 DEF EditRead
  <2> HIDE DEF step
  <2> QED
    BY <1>2, <2>2, <2>3
<1>15. ASSUME NEW e \in Editors, NEW at \in {"approve", "reject"}, ReviewRead(e, at) PROVE Neutral
  <2> DEFINE step == [Off EXCEPT !.at = at, !.proposal = event.pending]
  <2>1. step \in Editor /\ step.at # "import"
    BY <1>a, Fields, OffIsEditor DEF Editor, EditSteps
  <2>2. StartEdit(e, step) /\ UNCHANGED <<event, source, trail>>
    BY <1>15 DEF ReviewRead
  <2> HIDE DEF step
  <2> QED
    BY <1>2, <2>1, <2>2
<1>16. ASSUME NEW e \in Editors, GiveUp(e) PROVE Neutral
  BY <1>16, <1>c, <1>1 DEF GiveUp
<1>17. ASSUME NEW l \in AnyLink, Suggest(l) PROVE Neutral
  BY <1>17, <1>b DEF Suggest, Neutral, ImportsKept, Importing, Row, Now
<1>18. CASE EvTick
  BY <1>18, <1>b DEF EvTick, Neutral, ImportsKept, Importing, EvTypeInv, EvTypeOK, Now
<1>19. CASE UNCHANGED evVars
  BY <1>19, <1>b DEF evVars, Neutral, ImportsKept, Importing, Now
<1> QED
  BY <1>4, <1>5, <1>6, <1>7, <1>8, <1>9, <1>10, <1>11, <1>12, <1>13, <1>14, <1>15, <1>16, <1>17,
     <1>18, <1>19 DEF EvNext

LEMMA FeedStep == EvTypeInv /\ FeedInv /\ [EvNext]_evVars => FeedInv'
<1> SUFFICES ASSUME EvTypeInv, FeedInv, [EvNext]_evVars PROVE FeedInv'
  OBVIOUS
<1>1. EvTypeInv'
  BY EvTypeStep
<1>2. CASE ReviseFeed
  BY <1>2, FeedByRevision
<1>3. ASSUME NEW e \in Editors, FetchFeed(e) PROVE FeedInv'
  BY <1>3, FeedByFetch
<1>4. ASSUME NEW e \in Editors, ImportEntry(e) PROVE FeedInv'
  BY <1>1, <1>4, FeedByImport
<1>5. CASE Neutral
  BY <1>1, <1>5, FeedKept DEF Neutral
<1> QED
  BY <1>2, <1>3, <1>4, <1>5, OthersNeutral

LEMMA NeverBack ==
  ASSUME EvTypeInv, FeedInv, [EvNext]_evVars, There, event'.text > 0, event'.text # event.text
  PROVE  event'.text > trail.imported
<1>1. ~Neutral
  BY DEF Neutral
<1>2. ~ReviseFeed /\ \A e \in Editors : ~FetchFeed(e)
  BY DEF ReviseFeed, FetchFeed
<1>3. PICK e \in Editors : ImportEntry(e)
  BY <1>1, <1>2, OthersNeutral
<1>4. /\ Importing(e) /\ event.st # "gone"
      /\ ~(There /\ (SameRevision(editor[e].stamp) \/ Protected(editor[e].stamp)))
  BY <1>3 DEF ImportEntry, Importing
<1>5. event'.text = editor[e].version
  <2>1. \/ \E l \in {event.link, OwnLink} : event' = Merged(editor[e].version, editor[e].stamp, l)
        \/ event' = Replaced(editor[e].version, editor[e].stamp)
    BY <1>3 DEF ImportEntry, There
  <2> QED
    BY <2>1 DEF Merged, Replaced, EvTypeInv, EvTypeOK, Row
<1>6. editor[e].version \in Nat /\ trail.imported \in Nat
  BY Counts
<1> QED
  BY <1>4, <1>5, <1>6, ImportIsNewer

\* An import puts no older version of the feed over a newer one, nor the same one over
\* a later edit: for any number of overlapping fetches, edits and revisions.
THEOREM NeverBackTheorem == EvSpec => FeedNeverGoesBack
<1>1. EvTypeInv /\ FeedInv /\ [EvNext]_evVars =>
        [There /\ event'.text > 0 /\ event'.text # event.text => event'.text > trail.imported]_evVars
  BY NeverBack
<1> QED
  BY <1>1, EvTypeInit, EvTypeStep, FeedInvInit, FeedStep, PTL DEF EvSpec, FeedNeverGoesBack
=============================================================================
