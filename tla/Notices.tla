------------------------------- MODULE Notices -------------------------------
(***************************************************************************)
(* What users are told and what they tell: announcements, notifications,   *)
(* the notification centre that merges both, and feedback.                 *)
(*                                                                         *)
(* Source: platform/announcements, platform/notifications and              *)
(* platform/feedback (service.py), their repositories and routers.         *)
(*                                                                         *)
(* The services share one lock, so each of their methods is one step; a    *)
(* handler that resolves a feedback notifies its author in a second one.   *)
(***************************************************************************)
EXTENDS Naturals, FiniteSets, Sequences

CONSTANTS
  Readers, Audiences,     \* users and the roles they may have
  Posts, Notes,           \* identifiers of announcements and notifications
  MaxEdits, MaxFeedbacks  \* bounds: announcement edits, feedbacks

ASSUME NoticesAssumption ==
  /\ "all" \notin Audiences /\ "everyone" \notin Readers
  /\ Posts \cap Notes = {}
  /\ MaxEdits \in Nat /\ MaxFeedbacks \in Nat

Absent   == [status |-> "absent"]
\* When it is shown: starts_at and ends_at against the present time.
Showing == {"early", "now", "over"}
PostType == {Absent} \cup
  [status : {"draft", "published", "archived"}, audience : Audiences \cup {"all"},
   window : Showing, version : Nat \ {0}]
NoteType == {Absent} \cup [status : {"sent"}, to : Readers \cup {"everyone"}, read : BOOLEAN]
Progress == {"open", "processing", "resolved", "rejected"}
FeedbackType == [by : Readers, linked : BOOLEAN, status : Progress, reward : {0, 1}, due : Nat]

VARIABLES
  post,       \* announcements rows
  note,       \* notifications rows
  receipt,    \* notification_read_receipts: the version a reader has covered
  role,       \* of each reader
  feedback,   \* feedbacks rows, oldest first; due: notices still to be written
  edits,      \* history: edits so far, the times they carry
  marked      \* history: who marked what since it was last edited

noticesVars == <<post, note, receipt, role, feedback, edits, marked>>
Items == Posts \cup Notes

NoticesTypeOK ==
  /\ post \in [Posts -> PostType] /\ note \in [Notes -> NoteType]
  /\ receipt \in [Readers -> [Items -> Nat]]
  /\ role \in [Readers -> Audiences]
  /\ feedback \in Seq(FeedbackType)
  /\ edits \in 0 .. MaxEdits /\ marked \subseteq Readers \X Items

\* Notifications to everyone are rows of an earlier version; no handler writes one.
NoticesInit ==
  /\ post = [p \in Posts |-> Absent]
  /\ note \in [Notes -> {Absent, [status |-> "sent", to |-> "everyone", read |-> FALSE]}]
  /\ receipt = [u \in Readers |-> [i \in Items |-> 0]]
  /\ role \in [Readers -> Audiences]
  /\ feedback = <<>> /\ edits = 0 /\ marked = {}

-----------------------------------------------------------------------------
(* Announcements.                                                           *)

\* updated_at is the time of the edit: a version no receipt covers yet.
Saved(p, r) ==
  /\ edits < MaxEdits /\ edits' = edits + 1
  /\ post' = [post EXCEPT ![p] =
       [status |-> r.status, audience |-> r.audience, window |-> r.window,
        version |-> edits + 1]]
  /\ marked' = {x \in marked : x[2] /= p}
  /\ UNCHANGED <<note, receipt, role, feedback>>

Draft == [status : {"draft", "published"}, audience : Audiences \cup {"all"}, window : Showing]

CreateAnnouncement(p, r) == post[p] = Absent /\ Saved(p, r)

UpdateAnnouncement(p, r) == post[p] /= Absent /\ Saved(p, r)

ArchiveAnnouncement(p) ==
  /\ post[p] /= Absent
  /\ Saved(p, [post[p] EXCEPT !.status = "archived"])

\* starts_at or ends_at is reached.
TimePasses(p) ==
  /\ post[p] /= Absent /\ post[p].window /= "over"
  /\ post' = [post EXCEPT ![p].window = IF @ = "early" THEN "now" ELSE "over"]
  /\ UNCHANGED <<note, receipt, role, feedback, edits, marked>>

-----------------------------------------------------------------------------
(* The notification centre.                                                 *)

\* announcement_visible_for_role and list_active_announcements
VisiblePost(u, p) ==
  post[p].status = "published" /\ post[p].audience \in {"all", role[u]} /\ post[p].window = "now"

MayRead(u, n) == note[n] /= Absent /\ note[n].to \in {"everyone", u}

\* Faulty variant: any receipt counts, however old.
CoversAny(u, i, version) == receipt[u][i] > 0
\* receipt_covers
Covers(u, i, version) == receipt[u][i] >= version

\* build_notification_center_items, under its limits of 50 and 500 items.
Centre(u) == {p \in Posts : VisiblePost(u, p)} \cup {n \in Notes : MayRead(u, n)}

ShownRead(u, i) ==
  IF i \in Posts THEN Covers(u, i, post[i].version)
  ELSE IF note[i].to = u THEN note[i].read ELSE Covers(u, i, 1)

\* What marking the items I does: a receipt of the present version for what
\* others see too, the flag of the row for what only u sees.
Mark(u, I) ==
  /\ receipt' = [receipt EXCEPT ![u] = [i \in Items |->
       IF i \notin I THEN @[i]
       ELSE IF i \in Posts THEN post[i].version
       ELSE IF note[i].to = u THEN @[i] ELSE 1]]
  /\ note' = [n \in Notes |->
       IF n \in I /\ note[n].to = u THEN [note[n] EXCEPT !.read = TRUE] ELSE note[n]]
  /\ marked' = marked \cup ({u} \X I)
  /\ UNCHANGED <<post, role, feedback, edits>>

MarkItem(u, i) == i \in Centre(u) /\ Mark(u, {i})

MarkAll(u) == Mark(u, {i \in Centre(u) : ~ShownRead(u, i)})

\* The older handlers set the flag of the row, that of a notification to
\* everyone too; the centre does not look at that one.
MarkRows(u, N) ==
  /\ note' = [n \in Notes |-> IF n \in N THEN [note[n] EXCEPT !.read = TRUE] ELSE note[n]]
  /\ marked' = marked \cup {<<u, n>> : n \in {m \in N : note[m].to = u}}
  /\ UNCHANGED <<post, receipt, role, feedback, edits>>

MarkNotification(u, n) == MayRead(u, n) /\ MarkRows(u, {n})

MarkAllNotifications(u) == MarkRows(u, {n \in Notes : MayRead(u, n) /\ ~note[n].read})

ChangeRole(u, r) ==
  /\ role[u] /= r
  /\ role' = [role EXCEPT ![u] = r]
  /\ UNCHANGED <<post, note, receipt, feedback, edits, marked>>

-----------------------------------------------------------------------------
(* Feedback.                                                                *)

\* An answer reported as wrong names answer records of the author.
CreateFeedback(u, category, linked) ==
  /\ Len(feedback) < MaxFeedbacks
  /\ category = "wrong_answer" => linked
  /\ feedback' = Append(feedback,
       [by |-> u, linked |-> linked, status |-> "open", reward |-> 0, due |-> 0])
  /\ UNCHANGED <<post, note, receipt, role, edits, marked>>

\* resolve_feedback_with_reward: rewards only rise; a resolution that changes
\* something is followed by a notification.
ResolveFeedback(i, status, reward) ==
  LET f == feedback[i]
      kept == IF status = "resolved" /\ reward > f.reward THEN reward ELSE f.reward
      changes == status /= f.status \/ kept /= f.reward
  IN /\ f.due = 0
     /\ feedback' = [feedback EXCEPT
          ![i] = [f EXCEPT !.status = status, !.reward = kept,
                           !.due = IF changes THEN 1 ELSE 0]]
     /\ UNCHANGED <<post, note, receipt, role, edits, marked>>

\* try_create_notification: an error is logged, the resolution stands.
NotifyAuthor(i) ==
  /\ feedback[i].due > 0
  /\ feedback' = [feedback EXCEPT ![i].due = @ - 1]
  /\ \/ \E n \in Notes :
          /\ note[n] = Absent
          /\ note' = [note EXCEPT ![n] = [status |-> "sent", to |-> feedback[i].by, read |-> FALSE]]
     \/ UNCHANGED note
  /\ UNCHANGED <<post, receipt, role, edits, marked>>

-----------------------------------------------------------------------------
NoticesNext ==
  \/ \E p \in Posts :
       \/ \E r \in Draft : CreateAnnouncement(p, r) \/ UpdateAnnouncement(p, r)
       \/ ArchiveAnnouncement(p) \/ TimePasses(p)
  \/ \E u \in Readers :
       \/ \E i \in Items : MarkItem(u, i)
       \/ \E n \in Notes : MarkNotification(u, n)
       \/ MarkAll(u) \/ MarkAllNotifications(u)
       \/ \E r \in Audiences : ChangeRole(u, r)
       \/ \E category \in {"answer", "wrong_answer"}, linked \in BOOLEAN :
            CreateFeedback(u, category, linked)
  \/ \E i \in DOMAIN feedback :
       \/ \E status \in Progress, reward \in {0, 1} : ResolveFeedback(i, status, reward)
       \/ NotifyAuthor(i)

NoticesSpec == NoticesInit /\ [][NoticesNext]_noticesVars

-----------------------------------------------------------------------------
\* The centre shows an item as read to those who marked it since it was last
\* edited and to nobody else: an edited or republished announcement is unread
\* again for all, and what one reader marks stays unread for the others, the
\* flags the older handlers set on rows everyone sees included.
ReadByHimself ==
  \A u \in Readers : \A i \in Centre(u) : ShownRead(u, i) <=> <<u, i>> \in marked
=============================================================================
