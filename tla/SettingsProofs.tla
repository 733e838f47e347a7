---------------------------- MODULE SettingsProofs ----------------------------
(***************************************************************************)
(* Proofs about what an administrator publishes and what the service runs  *)
(* with: Notices and Configuration, for every set of readers and items, of *)
(* requests, models and kinds of answers.                                  *)
(***************************************************************************)
EXTENDS Notices, Configuration, SequenceTheorems, TLAPS

USE NoticesAssumption, ConfigurationAssumption

-----------------------------------------------------------------------------
(***************************************************************************)
(* Notices: what a reader has read.                                        *)
(***************************************************************************)

\* No version and no receipt is of an edit still to come.
VersionsPast ==
  /\ \A p \in Posts : post[p] /= Absent => post[p].version <= edits
  /\ \A u \in Readers, p \in Posts : receipt[u][p] <= edits
\* A receipt of the present version is what marks an announcement, ...
PostsMarked ==
  \A u \in Readers, p \in Posts :
    post[p] /= Absent => (<<u, p>> \in marked <=> receipt[u][p] >= post[p].version)
\* ... the flag a notification to one reader, a receipt one to everyone.
NotesMarked ==
  \A u \in Readers, n \in Notes :
    /\ note[n] = Absent => <<u, n>> \notin marked
    /\ note[n] /= Absent /\ note[n].to = u => (<<u, n>> \in marked <=> note[n].read)
    /\ note[n] /= Absent /\ note[n].to = "everyone" => (<<u, n>> \in marked <=> receipt[u][n] >= 1)

NoticesInv == NoticesTypeOK /\ VersionsPast /\ PostsMarked /\ NotesMarked

-----------------------------------------------------------------------------
LEMMA PostShape ==
  ASSUME NoticesTypeOK, NEW p \in Posts, post[p] /= Absent
  PROVE  /\ post[p] \in [status : {"draft", "published", "archived"}, audience : Audiences \cup {"all"},
                         window : Showing, version : Nat \ {0}]
         /\ post[p].version \in Nat \ {0}
  BY DEF NoticesTypeOK, PostType

LEMMA NoteShape ==
  ASSUME NoticesTypeOK, NEW n \in Notes, note[n] /= Absent
  PROVE  /\ note[n] \in [status : {"sent"}, to : Readers \cup {"everyone"}, read : BOOLEAN]
         /\ note[n].to \in Readers \cup {"everyone"} /\ note[n].read \in BOOLEAN
  BY DEF NoticesTypeOK, NoteType

LEMMA NoticesInvInit == NoticesInit => NoticesInv
<1> SUFFICES ASSUME NoticesInit PROVE NoticesInv
  OBVIOUS
<1>1. NoticesTypeOK
  <2>1. feedback \in Seq(FeedbackType)
    BY DEF NoticesInit
  <2>2. note \in [Notes -> NoteType]
    <3>1. [status |-> "sent", to |-> "everyone", read |-> FALSE] \in NoteType /\ Absent \in NoteType
      BY DEF NoteType
    <3>2. note \in [Notes -> {Absent, [status |-> "sent", to |-> "everyone", read |-> FALSE]}]
      BY DEF NoticesInit
    <3> QED BY <3>1, <3>2
  <2> QED BY <2>1, <2>2 DEF NoticesInit, NoticesTypeOK, PostType
<1>2. VersionsPast /\ PostsMarked
  BY DEF NoticesInit, VersionsPast, PostsMarked, Items
<1>3. NotesMarked
  <2>1. \A n \in Notes : note[n] = Absent \/ note[n].to = "everyone"
    BY DEF NoticesInit
  <2>2. \A u \in Readers, n \in Notes : receipt[u][n] = 0 /\ <<u, n>> \notin marked
    BY DEF NoticesInit, Items
  <2>3. ASSUME NEW u \in Readers, NEW n \in Notes, note[n].to = u PROVE note[n] = Absent
    BY <2>1, <2>3
  <2>5. \A u \in Readers, n \in Notes : receipt[u][n] = 0
    BY Zenon, <2>2
  <2>4. \A u \in Readers, n \in Notes : ~(receipt[u][n] >= 1)
    BY <2>5
  <2> QED BY Zenon, <2>2, <2>3, <2>4 DEF NotesMarked
<1> QED BY <1>1, <1>2, <1>3 DEF NoticesInv

\* An edit has a version later than every receipt, and unmarks its announcement.
LEMMA NoticesEdit ==
  ASSUME NoticesInv, NEW p \in Posts, NEW r, Saved(p, r),
         r.status \in {"draft", "published", "archived"}, r.audience \in Audiences \cup {"all"},
         r.window \in Showing
  PROVE  NoticesInv'
<1>t. /\ post \in [Posts -> PostType] /\ edits \in 0 .. MaxEdits
      /\ receipt \in [Readers -> [Items -> Nat]] /\ marked \subseteq Readers \X Items
  BY DEF NoticesInv, NoticesTypeOK
<1>1. PICK s : s = [status |-> r.status, audience |-> r.audience, window |-> r.window,
                    version |-> edits + 1]
  OBVIOUS
<1>2. /\ post' = [post EXCEPT ![p] = s] /\ s \in PostType /\ s /= Absent /\ s.version = edits + 1
  BY <1>t, <1>1 DEF Saved, PostType, Absent
<1>3. /\ edits' = edits + 1 /\ edits' \in 0 .. MaxEdits /\ note' = note /\ receipt' = receipt
      /\ marked' = {x \in marked : x[2] /= p} /\ role' = role /\ feedback' = feedback
  BY <1>t DEF Saved
<1>4. NoticesTypeOK'
  BY <1>t, <1>2, <1>3 DEF NoticesInv, NoticesTypeOK
<1>5. \A q \in Posts : post'[q] = IF q = p THEN s ELSE post[q]
  BY <1>t, <1>2
<1>6. \A u \in Readers, q \in Posts : receipt[u][q] \in Nat /\ receipt[u][q] <= edits
  BY <1>t DEF NoticesInv, VersionsPast, Items
<1>7. VersionsPast'
  <2>1. ASSUME NEW q \in Posts, post'[q] /= Absent PROVE post'[q].version <= edits'
    <3>1. CASE q = p
      BY <1>2, <1>3, <1>5, <1>t, <3>1
    <3>2. CASE q /= p
      <4>1. post[q] /= Absent /\ post'[q] = post[q]
        BY <1>5, <2>1, <3>2
      <4>2. post[q].version \in Nat /\ post[q].version <= edits
        BY <4>1, PostShape DEF NoticesInv, VersionsPast
      <4> QED BY <1>3, <1>t, <4>1, <4>2
    <3> QED BY <3>1, <3>2
  <2> QED BY <1>3, <1>6, <1>t, <2>1 DEF VersionsPast
<1>8. \A u \in Readers, i \in Items : <<u, i>> \in marked' <=> <<u, i>> \in marked /\ i /= p
  BY <1>3
<1>9. PostsMarked'
  <2> SUFFICES ASSUME NEW u \in Readers, NEW q \in Posts, post'[q] /= Absent
               PROVE  <<u, q>> \in marked' <=> receipt'[u][q] >= post'[q].version
    BY DEF PostsMarked
  <2>1. CASE q = p
    BY <1>2, <1>3, <1>5, <1>6, <1>8, <1>t, <2>1 DEF Items
  <2>2. CASE q /= p
    BY <1>3, <1>5, <1>8, <2>2 DEF Items, NoticesInv, PostsMarked
  <2> QED BY <2>1, <2>2
<1>10. NotesMarked'
  <2>1. \A u \in Readers, n \in Notes : <<u, n>> \in marked' <=> <<u, n>> \in marked
    BY <1>8 DEF Items
  <2> QED BY Zenon, <1>3, <2>1 DEF NoticesInv, NotesMarked
<1> QED BY <1>4, <1>7, <1>9, <1>10 DEF NoticesInv

\* Reaching a date changes neither version nor marks.
LEMMA NoticesTime ==
  ASSUME NoticesInv, NEW p \in Posts, TimePasses(p)
  PROVE  NoticesInv'
<1>t. /\ post \in [Posts -> PostType] /\ edits \in 0 .. MaxEdits
  BY DEF NoticesInv, NoticesTypeOK
<1>1. post[p] \in [status : {"draft", "published", "archived"}, audience : Audiences \cup {"all"},
                   window : Showing, version : Nat \ {0}]
  BY PostShape DEF TimePasses, NoticesInv
<1>2. PICK r : r = [post[p] EXCEPT !.window = IF post[p].window = "early" THEN "now" ELSE "over"]
  OBVIOUS
<1>3. r \in PostType /\ r /= Absent /\ r.version = post[p].version /\ post[p] /= Absent
  BY <1>1, <1>2 DEF PostType, Showing, TimePasses, Absent
<1>4. post' = [post EXCEPT ![p] = r]
  BY <1>1, <1>2 DEF TimePasses
<1>5. /\ note' = note /\ receipt' = receipt /\ role' = role /\ feedback' = feedback
      /\ edits' = edits /\ marked' = marked
  BY DEF TimePasses
<1>6. \A q \in Posts : post'[q] /= Absent => post[q] /= Absent /\ post'[q].version = post[q].version
  BY <1>t, <1>3, <1>4
<1>7. NoticesTypeOK'
  BY <1>t, <1>3, <1>4, <1>5 DEF NoticesInv, NoticesTypeOK
<1>8. VersionsPast' /\ PostsMarked'
  BY <1>5, <1>6 DEF NoticesInv, VersionsPast, PostsMarked
<1>9. NotesMarked'
  BY Zenon, <1>5 DEF NoticesInv, NotesMarked
<1> QED BY <1>7, <1>8, <1>9 DEF NoticesInv

\* The receipts and the flags follow what is marked.
LEMMA NoticesMark ==
  ASSUME NoticesInv, NEW u \in Readers, NEW I \in SUBSET Centre(u), Mark(u, I)
  PROVE  NoticesInv'
<1>t. /\ post \in [Posts -> PostType] /\ note \in [Notes -> NoteType] /\ edits \in 0 .. MaxEdits
      /\ receipt \in [Readers -> [Items -> Nat]] /\ marked \subseteq Readers \X Items
  BY DEF NoticesInv, NoticesTypeOK
<1>0. I \subseteq Items /\ Posts \cap Notes = {}
  BY DEF Centre, Items
<1>1. \A p \in Posts \cap I : post[p] /= Absent /\ post[p].version \in Nat \ {0} /\ post[p].version <= edits
  <2> SUFFICES ASSUME NEW p \in Posts \cap I
               PROVE  post[p] /= Absent /\ post[p].version \in Nat \ {0} /\ post[p].version <= edits
    OBVIOUS
  <2>1. post[p].status = "published"
    BY <1>0 DEF Centre, VisiblePost
  <2>2. post[p] /= Absent
    BY <2>1 DEF Absent
  <2> QED BY <2>2, PostShape DEF NoticesInv, VersionsPast
<1>2. \A n \in Notes \cap I : note[n] /= Absent /\ note[n].to \in {"everyone", u}
  BY <1>0 DEF Centre, MayRead
<1>3. /\ post' = post /\ role' = role /\ feedback' = feedback /\ edits' = edits
      /\ marked' = marked \cup ({u} \X I)
  BY DEF Mark
<1>4. PICK g \in [Items -> Nat] :
        /\ receipt' = [receipt EXCEPT ![u] = g]
        /\ g = [i \in Items |-> IF i \notin I THEN receipt[u][i]
                                ELSE IF i \in Posts THEN post[i].version
                                ELSE IF note[i].to = u THEN receipt[u][i] ELSE 1]
  <2> DEFINE g == [i \in Items |-> IF i \notin I THEN receipt[u][i]
                                   ELSE IF i \in Posts THEN post[i].version
                                   ELSE IF note[i].to = u THEN receipt[u][i] ELSE 1]
  <2>1. g \in [Items -> Nat]
    BY <1>t, <1>1
  <2>2. receipt' = [receipt EXCEPT ![u] = g]
    BY Zenon DEF Mark
  <2> QED BY Zenon, <2>1, <2>2
<1>5. /\ receipt' \in [Readers -> [Items -> Nat]] /\ receipt'[u] = g
      /\ \A v \in Readers \ {u} : receipt'[v] = receipt[v]
  BY <1>t, <1>4
<1>6. \A n \in Notes : note'[n] = IF n \in I /\ note[n].to = u THEN [note[n] EXCEPT !.read = TRUE] ELSE note[n]
  BY DEF Mark
<1>7. \A n \in Notes :
        /\ note'[n] \in NoteType /\ (note'[n] = Absent <=> note[n] = Absent)
        /\ note[n] /= Absent => note'[n].to = note[n].to
        /\ n \in I /\ note[n].to = u => note'[n].read
        /\ ~(n \in I /\ note[n].to = u) => note'[n] = note[n]
  <2> SUFFICES ASSUME NEW n \in Notes
               PROVE  /\ note'[n] \in NoteType /\ (note'[n] = Absent <=> note[n] = Absent)
                      /\ note[n] /= Absent => note'[n].to = note[n].to
                      /\ n \in I /\ note[n].to = u => note'[n].read
                      /\ ~(n \in I /\ note[n].to = u) => note'[n] = note[n]
    BY Zenon
  <2>1. CASE n \in I /\ note[n].to = u
    <3>1. note[n] \in [status : {"sent"}, to : Readers \cup {"everyone"}, read : BOOLEAN]
      BY <1>2, <2>1, NoteShape DEF NoticesInv
    <3>2. note'[n] = [note[n] EXCEPT !.read = TRUE]
      BY <1>6, <2>1
    <3>3. PICK r : r = [note[n] EXCEPT !.read = TRUE]
      OBVIOUS
    <3>4. /\ r \in [status : {"sent"}, to : Readers \cup {"everyone"}, read : BOOLEAN]
          /\ r.read = TRUE /\ r.to = note[n].to
      BY <3>1, <3>3
    <3>5. r /= Absent /\ note[n] /= Absent
      BY <3>1, <3>4 DEF Absent
    <3> QED BY <2>1, <3>2, <3>3, <3>4, <3>5 DEF NoteType
  <2>2. CASE ~(n \in I /\ note[n].to = u)
    BY <1>6, <1>t, <2>2
  <2> QED BY <2>1, <2>2
<1>8. NoticesTypeOK'
  <2>1. note' \in [Notes -> NoteType]
    BY <1>7 DEF Mark
  <2>2. marked' \subseteq Readers \X Items
    BY <1>0, <1>3, <1>t
  <2> QED BY <1>3, <1>5, <2>1, <2>2 DEF NoticesInv, NoticesTypeOK
<1>9. \A v \in Readers, i \in Items : <<v, i>> \in marked' <=> <<v, i>> \in marked \/ (v = u /\ i \in I)
  BY <1>3
<1>10. VersionsPast'
  <2>1. \A v \in Readers, p \in Posts : receipt[v][p] <= edits
    BY DEF NoticesInv, VersionsPast
  <2>2. \A v \in Readers, p \in Posts : receipt'[v][p] <= edits
    BY <1>1, <1>4, <1>5, <2>1 DEF Items
  <2> QED BY <1>3, <2>2 DEF NoticesInv, VersionsPast
<1>11. PostsMarked'
  <2> SUFFICES ASSUME NEW v \in Readers, NEW p \in Posts, post[p] /= Absent
               PROVE  <<v, p>> \in marked' <=> receipt'[v][p] >= post[p].version
    BY <1>3 DEF PostsMarked
  <2>1. <<v, p>> \in marked <=> receipt[v][p] >= post[p].version
    BY DEF NoticesInv, PostsMarked
  <2>2. CASE v = u /\ p \in I
    BY <1>1, <1>4, <1>5, <1>9, <2>2 DEF Items
  <2>3. CASE ~(v = u /\ p \in I)
    <3>1. receipt'[v][p] = receipt[v][p]
      BY <1>4, <1>5, <2>3 DEF Items
    <3> QED BY <1>9, <2>1, <2>3, <3>1 DEF Items
  <2> QED BY <2>2, <2>3
<1>12. NotesMarked'
  <2> SUFFICES ASSUME NEW v \in Readers, NEW n \in Notes
               PROVE  /\ note'[n] = Absent => <<v, n>> \notin marked'
                      /\ note'[n] /= Absent /\ note'[n].to = v => (<<v, n>> \in marked' <=> note'[n].read)
                      /\ note'[n] /= Absent /\ note'[n].to = "everyone" =>
                           (<<v, n>> \in marked' <=> receipt'[v][n] >= 1)
    BY Zenon DEF NotesMarked
  <2>0. /\ note[n] = Absent => <<v, n>> \notin marked
        /\ note[n] /= Absent /\ note[n].to = v => (<<v, n>> \in marked <=> note[n].read)
        /\ note[n] /= Absent /\ note[n].to = "everyone" => (<<v, n>> \in marked <=> receipt[v][n] >= 1)
    BY Zenon DEF NoticesInv, NotesMarked
  <2>m. /\ <<v, n>> \in marked' <=> <<v, n>> \in marked \/ (v = u /\ n \in I)
        /\ n \notin Posts /\ n \in Items
    BY <1>9, <1>0 DEF Items
  <2>1. note'[n] = Absent => <<v, n>> \notin marked'
    BY <1>2, <1>7, <2>0, <2>m
  <2>2. ASSUME note'[n] /= Absent, note'[n].to = v PROVE <<v, n>> \in marked' <=> note'[n].read
    <3>1. note[n] /= Absent /\ note[n].to = v
      BY <1>7, <2>2
    <3>2. CASE v = u /\ n \in I
      BY <1>7, <2>m, <3>1, <3>2
    <3>3. CASE ~(v = u /\ n \in I)
      <4>1. note'[n] = note[n]
        BY <1>7, <3>1, <3>3
      <4>2. <<v, n>> \in marked' <=> <<v, n>> \in marked
        BY <2>m, <3>3
      <4> QED BY Zenon, <2>0, <3>1, <4>1, <4>2
    <3> QED BY <3>2, <3>3
  <2>3. ASSUME note'[n] /= Absent, note'[n].to = "everyone"
        PROVE <<v, n>> \in marked' <=> receipt'[v][n] >= 1
    <3>1. note[n] /= Absent /\ note[n].to = "everyone" /\ note[n].to /= u
      BY <1>7, <2>3
    <3>2. CASE v = u /\ n \in I
      BY <1>4, <1>5, <2>m, <3>1, <3>2
    <3>3. CASE ~(v = u /\ n \in I)
      <4>1. receipt'[v][n] = receipt[v][n]
        BY <1>4, <1>5, <2>m, <3>3
      <4> QED BY <2>0, <2>m, <3>1, <3>3, <4>1
    <3> QED BY <3>2, <3>3
  <2> QED BY <2>1, <2>2, <2>3
<1> QED BY <1>8, <1>10, <1>11, <1>12 DEF NoticesInv

\* The older handlers set the flags of rows; the row of everyone is not marked
\* by it, and its flag is not what the centre looks at.
LEMMA NoticesRows ==
  ASSUME NoticesInv, NEW u \in Readers, NEW N \in SUBSET Notes, \A n \in N : MayRead(u, n),
         MarkRows(u, N)
  PROVE  NoticesInv'
<1>t. note \in [Notes -> NoteType] /\ marked \subseteq Readers \X Items
  BY DEF NoticesInv, NoticesTypeOK
<1>1. /\ post' = post /\ receipt' = receipt /\ role' = role /\ feedback' = feedback /\ edits' = edits
      /\ marked' = marked \cup {<<u, n>> : n \in {m \in N : note[m].to = u}}
  BY DEF MarkRows
<1>2. \A n \in Notes : note'[n] = IF n \in N THEN [note[n] EXCEPT !.read = TRUE] ELSE note[n]
  BY DEF MarkRows
<1>3. \A n \in N : note[n] /= Absent /\ note[n].to \in {"everyone", u}
  BY DEF MayRead
<1>4. \A n \in N : /\ note'[n] \in NoteType /\ note'[n] /= Absent
                   /\ note'[n].to = note[n].to /\ note'[n].read
  <2> SUFFICES ASSUME NEW n \in N
               PROVE  /\ note'[n] \in NoteType /\ note'[n] /= Absent
                      /\ note'[n].to = note[n].to /\ note'[n].read
    BY Zenon
  <2>1. note[n] \in [status : {"sent"}, to : Readers \cup {"everyone"}, read : BOOLEAN]
    BY <1>3, NoteShape DEF NoticesInv
  <2>2. PICK r : r = [note[n] EXCEPT !.read = TRUE]
    OBVIOUS
  <2>3. /\ r \in [status : {"sent"}, to : Readers \cup {"everyone"}, read : BOOLEAN]
        /\ r.read = TRUE /\ r.to = note[n].to
    BY <2>1, <2>2
  <2>4. note'[n] = r /\ r /= Absent
    BY <1>2, <2>2, <2>3 DEF Absent
  <2> QED BY <2>3, <2>4 DEF NoteType
<1>5. NoticesTypeOK'
  <2>1. note' \in [Notes -> NoteType]
    BY <1>2, <1>4, <1>t DEF MarkRows
  <2>2. marked' \subseteq Readers \X Items
    BY <1>1, <1>t DEF Items
  <2> QED BY <1>1, <2>1, <2>2 DEF NoticesInv, NoticesTypeOK
<1>6. VersionsPast'
  BY <1>1 DEF NoticesInv, VersionsPast
<1>7. \A v \in Readers, p \in Posts : <<v, p>> \in marked' <=> <<v, p>> \in marked
  BY <1>1
<1>8. PostsMarked'
  BY <1>1, <1>7 DEF NoticesInv, PostsMarked
<1>9. NotesMarked'
  <2> SUFFICES ASSUME NEW v \in Readers, NEW n \in Notes
               PROVE  /\ note'[n] = Absent => <<v, n>> \notin marked'
                      /\ note'[n] /= Absent /\ note'[n].to = v => (<<v, n>> \in marked' <=> note'[n].read)
                      /\ note'[n] /= Absent /\ note'[n].to = "everyone" =>
                           (<<v, n>> \in marked' <=> receipt'[v][n] >= 1)
    BY Zenon DEF NotesMarked
  <2>0. /\ note[n] = Absent => <<v, n>> \notin marked
        /\ note[n] /= Absent /\ note[n].to = v => (<<v, n>> \in marked <=> note[n].read)
        /\ note[n] /= Absent /\ note[n].to = "everyone" => (<<v, n>> \in marked <=> receipt[v][n] >= 1)
    BY Zenon DEF NoticesInv, NotesMarked
  <2>m. <<v, n>> \in marked' <=> <<v, n>> \in marked \/ (v = u /\ n \in N /\ note[n].to = u)
    BY <1>1
  <2>1. CASE n \notin N
    <3>1. note'[n] = note[n] /\ (<<v, n>> \in marked' <=> <<v, n>> \in marked)
      BY <1>2, <2>1, <2>m
    <3> QED BY Zenon, <1>1, <2>0, <3>1
  <2>2. CASE n \in N
    <3>1. ASSUME note'[n].to = v PROVE <<v, n>> \in marked' <=> note'[n].read
      <4>1. note[n].to = v /\ v = u
        BY <1>3, <1>4, <2>2, <3>1
      <4> QED BY <1>4, <2>2, <2>m, <4>1
    <3>2. ASSUME note'[n].to = "everyone" PROVE <<v, n>> \in marked' <=> receipt'[v][n] >= 1
      <4>1. note[n].to = "everyone" /\ note[n].to /= u /\ note[n] /= Absent
        BY <1>3, <1>4, <2>2, <3>2
      <4> QED BY <1>1, <2>0, <2>m, <4>1
    <3> QED BY <1>4, <2>2, <3>1, <3>2
  <2> QED BY <2>1, <2>2
<1> QED BY <1>5, <1>6, <1>8, <1>9 DEF NoticesInv

\* A notification to the author of a feedback is new, so nobody has marked it.
LEMMA NoticesAuthor ==
  ASSUME NoticesInv, NEW i \in DOMAIN feedback, NotifyAuthor(i)
  PROVE  NoticesInv'
<1>t. /\ note \in [Notes -> NoteType] /\ feedback \in Seq(FeedbackType)
  BY DEF NoticesInv, NoticesTypeOK
<1>1. /\ post' = post /\ receipt' = receipt /\ role' = role /\ edits' = edits /\ marked' = marked
  BY DEF NotifyAuthor
<1>2. feedback[i] \in FeedbackType /\ feedback[i].due > 0 /\ feedback[i].by \in Readers
  <2>1. feedback[i] \in FeedbackType
    BY <1>t
  <2> QED BY <2>1 DEF NotifyAuthor, FeedbackType
<1>3. feedback' \in Seq(FeedbackType)
  <2>1. PICK f : f = [feedback[i] EXCEPT !.due = feedback[i].due - 1]
    OBVIOUS
  <2>2. f \in FeedbackType
    BY <1>2, <2>1 DEF FeedbackType
  <2>3. feedback' = [feedback EXCEPT ![i] = f]
    BY <1>2, <2>1 DEF NotifyAuthor
  <2> QED BY <1>t, <2>2, <2>3, ExceptSeq
<1>4. CASE note' = note
  <2>1. NoticesTypeOK'
    BY Zenon, <1>1, <1>3, <1>4 DEF NoticesInv, NoticesTypeOK
  <2> QED BY Zenon, <1>1, <1>4, <2>1 DEF NoticesInv, VersionsPast, PostsMarked, NotesMarked
<1>5. ASSUME NEW n \in Notes, note[n] = Absent,
             note' = [note EXCEPT ![n] = [status |-> "sent", to |-> feedback[i].by, read |-> FALSE]]
      PROVE  NoticesInv'
  <2>1. PICK r : r = [status |-> "sent", to |-> feedback[i].by, read |-> FALSE]
    OBVIOUS
  <2>2. r \in NoteType /\ r /= Absent /\ r.to \in Readers /\ ~r.read
    BY <1>2, <2>1 DEF NoteType, Absent
  <2>3. \A m \in Notes : note'[m] = IF m = n THEN r ELSE note[m]
    BY <1>5, <1>t, <2>1
  <2>4. note' \in [Notes -> NoteType]
    BY <1>5, <1>t, <2>1, <2>2
  <2>5. NoticesTypeOK'
    BY Zenon, <1>1, <1>3, <2>4 DEF NoticesInv, NoticesTypeOK
  <2>6. VersionsPast' /\ PostsMarked'
    BY Zenon, <1>1 DEF NoticesInv, VersionsPast, PostsMarked
  <2>7. NotesMarked'
    <3> SUFFICES ASSUME NEW v \in Readers, NEW m \in Notes
                 PROVE  /\ note'[m] = Absent => <<v, m>> \notin marked'
                        /\ note'[m] /= Absent /\ note'[m].to = v => (<<v, m>> \in marked' <=> note'[m].read)
                        /\ note'[m] /= Absent /\ note'[m].to = "everyone" =>
                             (<<v, m>> \in marked' <=> receipt'[v][m] >= 1)
      BY Zenon DEF NotesMarked
    <3>0. /\ note[m] = Absent => <<v, m>> \notin marked
          /\ note[m] /= Absent /\ note[m].to = v => (<<v, m>> \in marked <=> note[m].read)
          /\ note[m] /= Absent /\ note[m].to = "everyone" => (<<v, m>> \in marked <=> receipt[v][m] >= 1)
      BY Zenon DEF NoticesInv, NotesMarked
    <3>1. CASE m = n
      <4>1. note'[m] = r /\ <<v, m>> \notin marked'
        BY <1>1, <1>5, <2>3, <3>0, <3>1
      <4>2. note'[m] /= Absent /\ ~note'[m].read /\ note'[m].to /= "everyone"
        BY <2>2, <4>1
      <4> QED BY Zenon, <4>1, <4>2
    <3>2. CASE m /= n
      <4>1. note'[m] = note[m]
        BY <2>3, <3>2
      <4> QED BY Zenon, <1>1, <3>0, <4>1
    <3> QED BY <3>1, <3>2
  <2> QED BY <2>5, <2>6, <2>7 DEF NoticesInv
<1> QED BY Zenon, <1>4, <1>5 DEF NotifyAuthor

\* The other steps of feedbacks and roles touch nothing the centre shows.
LEMMA NoticesOther ==
  ASSUME NoticesInv, feedback' \in Seq(FeedbackType), role' \in [Readers -> Audiences],
         UNCHANGED <<post, note, receipt, edits, marked>>
  PROVE  NoticesInv'
<1>1. /\ post' = post /\ note' = note /\ receipt' = receipt /\ edits' = edits /\ marked' = marked
  OBVIOUS
<1>2. NoticesTypeOK'
  BY Zenon, <1>1 DEF NoticesInv, NoticesTypeOK
<1>3. VersionsPast'
  BY Zenon, <1>1 DEF NoticesInv, VersionsPast
<1>4. PostsMarked'
  BY Zenon, <1>1 DEF NoticesInv, PostsMarked
<1>5. NotesMarked'
  BY Zenon, <1>1 DEF NoticesInv, NotesMarked
<1> QED BY <1>2, <1>3, <1>4, <1>5 DEF NoticesInv

LEMMA NoticesInvStep ==
  ASSUME NoticesInv, NoticesNext
  PROVE  NoticesInv'
<1>t. feedback \in Seq(FeedbackType) /\ role \in [Readers -> Audiences]
  BY DEF NoticesInv, NoticesTypeOK
<1>1. ASSUME NEW p \in Posts, NEW r \in Draft, CreateAnnouncement(p, r) \/ UpdateAnnouncement(p, r)
      PROVE  NoticesInv'
  <2>1. Saved(p, r)
    BY Zenon, <1>1 DEF CreateAnnouncement, UpdateAnnouncement
  <2>2. /\ r.status \in {"draft", "published", "archived"} /\ r.audience \in Audiences \cup {"all"}
        /\ r.window \in Showing
    BY DEF Draft
  <2> QED BY <2>1, <2>2, NoticesEdit
<1>2. ASSUME NEW p \in Posts, ArchiveAnnouncement(p) PROVE NoticesInv'
  <2>1. post[p] \in [status : {"draft", "published", "archived"}, audience : Audiences \cup {"all"},
                     window : Showing, version : Nat \ {0}]
    BY <1>2, PostShape DEF ArchiveAnnouncement, NoticesInv
  <2>2. PICK r : r = [post[p] EXCEPT !.status = "archived"]
    OBVIOUS
  <2>3. /\ r.status \in {"draft", "published", "archived"} /\ r.audience \in Audiences \cup {"all"}
        /\ r.window \in Showing
    BY <2>1, <2>2
  <2>4. Saved(p, r)
    BY Zenon, <1>2, <2>2 DEF ArchiveAnnouncement
  <2> QED BY <2>3, <2>4, NoticesEdit
<1>3. ASSUME NEW u \in Readers, NEW i \in Items, MarkItem(u, i) PROVE NoticesInv'
  <2>1. {i} \in SUBSET Centre(u) /\ Mark(u, {i})
    BY <1>3 DEF MarkItem
  <2> QED BY <2>1, NoticesMark
<1>4. ASSUME NEW u \in Readers, MarkAll(u) PROVE NoticesInv'
  <2>1. {i \in Centre(u) : ~ShownRead(u, i)} \in SUBSET Centre(u)
    OBVIOUS
  <2> QED BY Zenon, <1>4, <2>1, NoticesMark DEF MarkAll
<1>5. ASSUME NEW u \in Readers, NEW n \in Notes, MarkNotification(u, n) PROVE NoticesInv'
  <2>1. {n} \in SUBSET Notes /\ (\A m \in {n} : MayRead(u, m)) /\ MarkRows(u, {n})
    BY <1>5 DEF MarkNotification
  <2> QED BY <2>1, NoticesRows
<1>6. ASSUME NEW u \in Readers, MarkAllNotifications(u) PROVE NoticesInv'
  <2>1. PICK N \in SUBSET Notes : (\A n \in N : MayRead(u, n)) /\ MarkRows(u, N)
    <3> DEFINE N == {n \in Notes : MayRead(u, n) /\ ~note[n].read}
    <3>1. N \in SUBSET Notes /\ \A n \in N : MayRead(u, n)
      OBVIOUS
    <3>2. MarkRows(u, N)
      BY Zenon, <1>6 DEF MarkAllNotifications
    <3> QED BY Zenon, <3>1, <3>2
  <2> QED BY <2>1, NoticesRows
<1>7. ASSUME NEW u \in Readers, NEW r \in Audiences, ChangeRole(u, r) PROVE NoticesInv'
  <2>1. role' \in [Readers -> Audiences] /\ feedback' = feedback
    BY <1>7, <1>t DEF ChangeRole
  <2> QED BY <1>7, <1>t, <2>1, NoticesOther DEF ChangeRole
<1>8. ASSUME NEW u \in Readers, NEW category \in {"answer", "wrong_answer"}, NEW linked \in BOOLEAN,
             CreateFeedback(u, category, linked)
      PROVE  NoticesInv'
  <2>1. PICK f : f = [by |-> u, linked |-> linked, status |-> "open", reward |-> 0, due |-> 0]
    OBVIOUS
  <2>2. f \in FeedbackType
    BY <2>1 DEF FeedbackType, Progress
  <2>3. feedback' = Append(feedback, f)
    BY <1>8, <2>1 DEF CreateFeedback
  <2>4. feedback' \in Seq(FeedbackType)
    BY <1>t, <2>2, <2>3, AppendProperties
  <2> QED BY <1>8, <1>t, <2>4, NoticesOther DEF CreateFeedback
<1>9. ASSUME NEW i \in DOMAIN feedback, NEW new \in Progress, NEW reward \in {0, 1},
             ResolveFeedback(i, new, reward)
      PROVE  NoticesInv'
  <2>1. feedback[i] \in FeedbackType
    BY <1>t
  <2>2. PICK kept, due : /\ kept \in {0, 1} /\ due \in {0, 1}
                         /\ feedback' = [feedback EXCEPT
                              ![i] = [feedback[i] EXCEPT !.status = new, !.reward = kept, !.due = due]]
    <3>1. feedback[i].reward \in {0, 1}
      BY <2>1 DEF FeedbackType
    <3> QED BY <1>9, <3>1 DEF ResolveFeedback
  <2>3. [feedback[i] EXCEPT !.status = new, !.reward = kept, !.due = due] \in FeedbackType
    <3>1. PICK f : f = [feedback[i] EXCEPT !.status = new, !.reward = kept, !.due = due]
      OBVIOUS
    <3>2. f \in FeedbackType
      <4>1. kept \in {0, 1} /\ due \in Nat
        BY <2>2
      <4> QED BY <2>1, <3>1, <4>1 DEF FeedbackType
    <3> QED BY <3>1, <3>2
  <2>4. feedback' \in Seq(FeedbackType)
    BY <1>t, <2>2, <2>3, ExceptSeq
  <2> QED BY <1>9, <1>t, <2>4, NoticesOther DEF ResolveFeedback
<1> QED BY Zenon, <1>1, <1>2, <1>3, <1>4, <1>5, <1>6, <1>7, <1>8, <1>9, NoticesTime, NoticesAuthor
     DEF NoticesNext

LEMMA NoticesInvariant == NoticesSpec => []NoticesInv
<1>1. NoticesInv /\ [NoticesNext]_noticesVars => NoticesInv'
  <2>1. ASSUME NoticesInv, UNCHANGED noticesVars PROVE NoticesInv'
    BY Zenon, <2>1 DEF noticesVars, NoticesInv, NoticesTypeOK, VersionsPast, PostsMarked, NotesMarked
  <2> QED BY <2>1, NoticesInvStep
<1> QED BY <1>1, NoticesInvInit, PTL DEF NoticesSpec

\* The centre shows an item as read to exactly those who marked it since its
\* last edit (platform/notifications/service.py, receipt_covers and the two
\* ways of marking): receipts of older versions cover nothing, and the flag of
\* a row that everyone sees counts for nobody.
THEOREM ReadersMarkForThemselves == NoticesSpec => []ReadByHimself
<1>1. NoticesInv => ReadByHimself
  <2> SUFFICES ASSUME NoticesInv, NEW u \in Readers, NEW i \in Centre(u)
               PROVE  ShownRead(u, i) <=> <<u, i>> \in marked
    BY DEF ReadByHimself
  <2>1. CASE i \in Posts
    <3>1. post[i] /= Absent
      <4>1. VisiblePost(u, i)
        BY <2>1 DEF Centre
      <4> QED BY <4>1 DEF VisiblePost, Absent
    <3> QED BY <2>1, <3>1 DEF NoticesInv, PostsMarked, ShownRead, Covers
  <2>2. CASE i \notin Posts
    <3>1. i \in Notes /\ note[i] /= Absent /\ note[i].to \in {"everyone", u}
      BY <2>2 DEF Centre, MayRead
    <3>2. /\ note[i].to = u => (<<u, i>> \in marked <=> note[i].read)
          /\ note[i].to = "everyone" => (<<u, i>> \in marked <=> receipt[u][i] >= 1)
      BY Zenon, <3>1 DEF NoticesInv, NotesMarked
    <3>3. CASE note[i].to = u
      BY Zenon, <2>2, <3>2, <3>3 DEF ShownRead
    <3>4. CASE note[i].to /= u
      BY Zenon, <2>2, <3>1, <3>2, <3>4 DEF ShownRead, Covers
    <3> QED BY <3>3, <3>4
  <2> QED BY <2>1, <2>2
<1> QED BY <1>1, NoticesInvariant, PTL

\* The types of announcements, notifications and feedbacks hold throughout.
THEOREM NoticesTypes == NoticesSpec => []NoticesTypeOK
<1>1. NoticesInv => NoticesTypeOK
  BY DEF NoticesInv
<1> QED BY <1>1, NoticesInvariant, PTL

-----------------------------------------------------------------------------
(***************************************************************************)
(* Configuration: when the edit of a setting takes effect.                 *)
(***************************************************************************)

\* What a request has read so far is what the rows hold now.
Fresh(e) ==
  /\ editor[e].stage \in {"stack", "flags", "retries", "assign", "rest_of_it"} =>
       editor[e].first = runtime
  /\ editor[e].stage \in {"flags", "retries", "assign", "rest_of_it"} => editor[e].chain = Active
  /\ editor[e].stage \in {"retries", "assign", "rest_of_it"} => editor[e].flags = runtime
  /\ editor[e].stage \in {"assign", "rest_of_it"} => editor[e].retries = system.retries
  /\ editor[e].stage = "rest_of_it" =>
       served.chain = Result(e).chain /\ served.search = Result(e).search
  /\ editor[e].stage \in {"rest", "prices"} => served = Stored

\* No request is in progress before the start is over.
IdleAtStart == boot /= "up" => AllRest /\ asked = billing
OneAtATime ==
  \A e, f \in Editors : e /= f => editor[e] = Resting \/ editor[f] = Resting
PricesFresh ==
  /\ asked = billing
  /\ \A e \in Editors : editor[e].stage = "prices" => editor[e].copy = billing

\* Of a request at rest Fresh says that the running service is up to date; it
\* need not be while another request refreshes it.
ServiceFresh ==
  \A e \in Editors : (\A f \in Editors \ {e} : editor[f] = Resting) => Fresh(e)

ConfigInv ==
  /\ ConfigTypeOK /\ IdleAtStart
  /\ boot = "up" /\ ~overlapped =>
       /\ OneAtATime /\ PricesFresh
       /\ failedReads = 0 => ServiceFresh /\ (AllRest => served = Stored)

-----------------------------------------------------------------------------
LEMMA EditorShape ==
  ASSUME ConfigTypeOK, NEW e \in Editors
  PROVE  /\ editor[e].stage \in {"rest", "saved", "stack", "flags", "retries", "assign", "rest_of_it", "prices"}
         /\ editor[e].stage = "rest" <=> editor[e] = Resting
         /\ editor[e].stage \notin {"rest", "prices"} =>
              editor[e] \in [stage : {"saved", "stack", "flags", "retries", "assign", "rest_of_it"},
                             first : RuntimeType, chain : SUBSET Models, flags : RuntimeType,
                             retries : {"few", "many"}]
         /\ editor[e].stage = "prices" =>
              editor[e] \in [stage : {"prices"}, copy : [Outcomes -> {0, 1}], item : Outcomes, price : {0, 1}]
<1>1. PICK r : r = editor[e]
  OBVIOUS
<1>2. r \in EditorType
  BY <1>1 DEF ConfigTypeOK
<1>3. CASE r = Resting
  BY <1>1, <1>3 DEF Resting
<1>4. CASE r \in [stage : {"saved", "stack", "flags", "retries", "assign", "rest_of_it"},
                  first : RuntimeType, chain : SUBSET Models, flags : RuntimeType,
                  retries : {"few", "many"}]
  BY <1>1, <1>4 DEF Resting
<1>5. CASE r \in [stage : {"prices"}, copy : [Outcomes -> {0, 1}], item : Outcomes, price : {0, 1}]
  BY <1>1, <1>5 DEF Resting
<1> QED BY <1>2, <1>3, <1>4, <1>5 DEF EditorType

LEMMA BuiltType ==
  ASSUME NEW first \in RuntimeType, NEW chain \in SUBSET Models, NEW flags \in RuntimeType,
         NEW retries \in {"few", "many"}
  PROVE  Built(first, chain, flags, retries) \in ServedType
<1>1. \A k \in RuntimeKeys : first[k] \in BOOLEAN /\ flags[k] \in BOOLEAN
  BY DEF RuntimeType
<1>2. /\ first["search"] \in BOOLEAN /\ first["cache"] \in BOOLEAN /\ first["no_bank"] \in BOOLEAN
      /\ flags["fallback"] \in BOOLEAN /\ flags["no_bank"] \in BOOLEAN
  BY <1>1 DEF RuntimeKeys
<1> QED BY <1>2 DEF Built, ServedType

LEMMA DefaultsType == DefaultRuntime \in RuntimeType /\ JustSaved \in EditorType /\ Resting \in EditorType
<1>1. DefaultRuntime \in RuntimeType
  BY DEF DefaultRuntime, RuntimeType
<1> QED BY <1>1 DEF JustSaved, EditorType

LEMMA ConfigTypeInit == ConfigInit => ConfigTypeOK
<1> SUFFICES ASSUME ConfigInit PROVE ConfigTypeOK
  OBVIOUS
<1>1. runtime \in RuntimeType
  BY DefaultsType DEF ConfigInit
<1>2. served \in ServedType
  BY <1>1, BuiltType DEF ConfigInit
<1>3. system \in SystemType
  <2>1. DefaultSystem \in SystemType
    BY DEF DefaultSystem, SystemType, Modes
  <2>2. \A v \in {"yes", "no"} :
          [DefaultSystem EXCEPT !.legacy_mode = v, !.mail = v, !.password = v] \in SystemType
    BY <2>1 DEF SystemType
  <2> QED BY <2>1, <2>2 DEF ConfigInit
<1>4. models \in [Models -> ModelState] /\ billing \in [Outcomes -> {0, 1}] /\ asked = billing
  BY DEF ConfigInit, ModelState
<1>5. editor \in [Editors -> EditorType]
  BY DefaultsType DEF ConfigInit
<1>6. /\ legacy \in BOOLEAN /\ boot = "migrate" /\ overlapped \in BOOLEAN
      /\ changes \in 0 .. MaxChanges /\ failedReads \in 0 .. MaxFailedReads
  <2>1. legacy \in BOOLEAN /\ overlapped \in BOOLEAN
    BY Zenon DEF ConfigInit
  <2>2. changes = 0 /\ failedReads = 0 /\ boot = "migrate"
    BY DEF ConfigInit
  <2> QED BY <2>1, <2>2
<1> QED BY <1>1, <1>2, <1>3, <1>4, <1>5, <1>6 DEF ConfigTypeOK

\* A record of settings, field by field.
LEMMA SystemEdited ==
  ASSUME NEW s \in SystemType, NEW edit \in SystemEdit, NEW t,
         t = [k \in DOMAIN s |-> IF edit[k] = "keep" THEN s[k] ELSE edit[k]]
  PROVE  t \in SystemType
<1>1. DOMAIN s = {"mode", "legacy_mode", "mail", "password", "retries"}
  BY DEF SystemType
<1>2. /\ t.mode = IF edit.mode = "keep" THEN s.mode ELSE edit.mode
      /\ t.legacy_mode = IF edit.legacy_mode = "keep" THEN s.legacy_mode ELSE edit.legacy_mode
      /\ t.mail = IF edit.mail = "keep" THEN s.mail ELSE edit.mail
      /\ t.password = IF edit.password = "keep" THEN s.password ELSE edit.password
      /\ t.retries = IF edit.retries = "keep" THEN s.retries ELSE edit.retries
  BY <1>1
<1>3. /\ t.mode \in Modes /\ t.legacy_mode \in {"yes", "no"} /\ t.mail \in {"yes", "no"}
      /\ t.password \in {"yes", "no"} /\ t.retries \in {"few", "many"}
  BY <1>2 DEF SystemType, SystemEdit, Modes
<1>4. t = [mode |-> t.mode, legacy_mode |-> t.legacy_mode, mail |-> t.mail, password |-> t.password,
           retries |-> t.retries]
  BY <1>1
<1> QED BY <1>3, <1>4 DEF SystemType

-----------------------------------------------------------------------------
\* What a request that saves, or one that goes on, does to the requests.
LEMMA EditorSet ==
  ASSUME ConfigTypeOK, NEW e \in Editors, NEW r \in EditorType, editor' = [editor EXCEPT ![e] = r]
  PROVE  /\ editor' \in [Editors -> EditorType] /\ editor'[e] = r
         /\ \A f \in Editors \ {e} : editor'[f] = editor[f]
  BY DEF ConfigTypeOK

\* A stage of a refresh goes to a record of the same kind, or to rest.
LEMMA StageTypes ==
  ASSUME ConfigTypeOK, NEW e \in Editors, NEW stage, NEW next, Goes(e, stage, next),
         stage \in {"saved", "stack", "flags", "retries", "assign", "rest_of_it"}
  PROVE  editor[e] \in [stage : {"saved", "stack", "flags", "retries", "assign", "rest_of_it"},
                        first : RuntimeType, chain : SUBSET Models, flags : RuntimeType,
                        retries : {"few", "many"}]
  BY EditorShape DEF Goes

LEMMA ActiveType == Active \in SUBSET Models
  BY DEF Active

LEMMA ReadsType ==
  ASSUME ConfigTypeOK, NEW e \in Editors,
         ReadForStack(e) \/ ReadModels(e) \/ ReadFlags(e) \/ ReadRetries(e)
  PROVE  /\ \E r \in EditorType : editor' = [editor EXCEPT ![e] = r]
         /\ UNCHANGED <<system, runtime, models, billing, legacy, boot, served, changes, asked, overlapped>>
         /\ failedReads' \in 0 .. MaxFailedReads
<1>t. runtime \in RuntimeType /\ system.retries \in {"few", "many"} /\ failedReads \in 0 .. MaxFailedReads
  BY DEF ConfigTypeOK, SystemType
<1>1. /\ UNCHANGED <<system, runtime, models, billing, legacy, boot, served, changes, asked, overlapped>>
      /\ failedReads' \in 0 .. MaxFailedReads
  BY <1>t DEF ReadForStack, ReadModels, ReadFlags, ReadRetries, Goes, rows, history
<1>2. editor[e] \in [stage : {"saved", "stack", "flags", "retries", "assign", "rest_of_it"},
                     first : RuntimeType, chain : SUBSET Models, flags : RuntimeType,
                     retries : {"few", "many"}]
  BY StageTypes DEF ReadForStack, ReadModels, ReadFlags, ReadRetries
<1>3. PICK a, b, c, d, g :
        /\ a = [editor[e] EXCEPT !.stage = "stack", !.first = runtime]
        /\ b = [editor[e] EXCEPT !.stage = "flags", !.chain = Active]
        /\ c = [editor[e] EXCEPT !.stage = "flags", !.chain = {}]
        /\ d = [editor[e] EXCEPT !.stage = "retries", !.flags = runtime]
        /\ g = [editor[e] EXCEPT !.stage = "assign", !.retries = system.retries]
  OBVIOUS
<1>4. a \in EditorType /\ b \in EditorType /\ c \in EditorType /\ d \in EditorType /\ g \in EditorType
  BY <1>t, <1>2, <1>3, ActiveType DEF EditorType
<1>5. \/ editor' = [editor EXCEPT ![e] = a] \/ editor' = [editor EXCEPT ![e] = b]
      \/ editor' = [editor EXCEPT ![e] = c] \/ editor' = [editor EXCEPT ![e] = d]
      \/ editor' = [editor EXCEPT ![e] = g]
  BY Zenon, <1>3 DEF ReadForStack, ReadModels, ReadFlags, ReadRetries, Goes
<1> QED BY Zenon, <1>1, <1>4, <1>5

LEMMA AssignsType ==
  ASSUME ConfigTypeOK, NEW e \in Editors, AssignProvider(e) \/ AssignRest(e)
  PROVE  /\ \E r \in EditorType : editor' = [editor EXCEPT ![e] = r]
         /\ UNCHANGED <<system, runtime, models, billing, legacy, boot, failedReads, changes, asked, overlapped>>
         /\ served' \in ServedType
<1>1. UNCHANGED <<system, runtime, models, billing, legacy, boot, failedReads, changes, asked, overlapped>>
  BY DEF AssignProvider, AssignRest, Goes, rows, history
<1>2. editor[e] \in [stage : {"saved", "stack", "flags", "retries", "assign", "rest_of_it"},
                     first : RuntimeType, chain : SUBSET Models, flags : RuntimeType,
                     retries : {"few", "many"}]
  BY StageTypes DEF AssignProvider, AssignRest
<1>3. Result(e) \in ServedType
  BY <1>2, BuiltType DEF Result
<1>4. served \in ServedType
  BY DEF ConfigTypeOK
<1>5. served' \in ServedType
  BY <1>3, <1>4 DEF AssignProvider, AssignRest, RestOfIt, ServedType
<1>6. PICK a : a = [editor[e] EXCEPT !.stage = "rest_of_it"]
  OBVIOUS
<1>7. a \in EditorType /\ Resting \in EditorType
  BY <1>2, <1>6 DEF EditorType
<1>8. editor' = [editor EXCEPT ![e] = a] \/ editor' = [editor EXCEPT ![e] = Resting]
  BY Zenon, <1>6 DEF AssignProvider, AssignRest, Goes
<1> QED BY Zenon, <1>1, <1>5, <1>7, <1>8

\* The rows a request saves have their types.
LEMMA SavesType ==
  ASSUME ConfigTypeOK, NEW e \in Editors,
         \/ \E edit \in SystemEdit : SetSystemConfig(e, edit)
         \/ \E k \in RuntimeKeys, v \in BOOLEAN : SetRuntimeConfig(e, k, v)
         \/ \E m \in Models, s \in ModelState : SaveModel(e, m, s)
  PROVE  /\ editor' = [editor EXCEPT ![e] = JustSaved]
         /\ boot = "up" /\ editor[e] = Resting
         /\ overlapped' = (overlapped \/ ~AllRest) /\ changes' \in 0 .. MaxChanges
         /\ system' \in SystemType /\ runtime' \in RuntimeType /\ models' \in [Models -> ModelState]
         /\ UNCHANGED <<billing, legacy, boot, served, failedReads, asked>>
<1>t. /\ changes \in 0 .. MaxChanges /\ system \in SystemType /\ runtime \in RuntimeType
      /\ models \in [Models -> ModelState]
  BY DEF ConfigTypeOK
<1>1. Begins(e, JustSaved) /\ UNCHANGED <<billing, legacy, boot, served, failedReads, asked>>
  BY Zenon DEF SetSystemConfig, SetRuntimeConfig, SaveModel
<1>2. /\ editor' = [editor EXCEPT ![e] = JustSaved] /\ boot = "up" /\ editor[e] = Resting
      /\ overlapped' = (overlapped \/ ~AllRest) /\ changes < MaxChanges /\ changes' = changes + 1
  BY Zenon, <1>1 DEF Begins
<1>3. ASSUME NEW edit \in SystemEdit, SetSystemConfig(e, edit)
      PROVE  system' \in SystemType /\ runtime' \in RuntimeType /\ models' \in [Models -> ModelState]
  <2>1. system' = [k \in DOMAIN system |-> IF edit[k] = "keep" THEN system[k] ELSE edit[k]]
    BY Zenon, <1>3 DEF SetSystemConfig
  <2>2. system' \in SystemType
    BY <1>t, <2>1, SystemEdited
  <2> QED BY <1>3, <1>t, <2>2 DEF SetSystemConfig
<1>4. ASSUME NEW k \in RuntimeKeys, NEW v \in BOOLEAN, SetRuntimeConfig(e, k, v)
      PROVE  system' \in SystemType /\ runtime' \in RuntimeType /\ models' \in [Models -> ModelState]
  BY <1>4, <1>t DEF SetRuntimeConfig, RuntimeType
<1>5. ASSUME NEW m \in Models, NEW s \in ModelState, SaveModel(e, m, s)
      PROVE  system' \in SystemType /\ runtime' \in RuntimeType /\ models' \in [Models -> ModelState]
  BY <1>5, <1>t DEF SaveModel
<1>6. changes' \in 0 .. MaxChanges
  BY <1>2, <1>t
<1> QED BY Zenon, <1>1, <1>2, <1>3, <1>4, <1>5, <1>6

\* The same of the two steps that change prices.
LEMMA PricesType ==
  ASSUME ConfigTypeOK, NEW e \in Editors,
         WritePrices(e) \/ \E i \in Outcomes, v \in {0, 1} : ReadPrices(e, i, v)
  PROVE  /\ \E r \in EditorType : editor' = [editor EXCEPT ![e] = r]
         /\ billing' \in [Outcomes -> {0, 1}] /\ asked' \in [Outcomes -> {0, 1}]
         /\ overlapped' \in BOOLEAN /\ changes' \in 0 .. MaxChanges
         /\ UNCHANGED <<system, runtime, models, legacy, boot, served, failedReads>>
<1>t. /\ changes \in 0 .. MaxChanges /\ billing \in [Outcomes -> {0, 1}] /\ asked \in [Outcomes -> {0, 1}]
      /\ overlapped \in BOOLEAN
  BY DEF ConfigTypeOK
<1>1. ASSUME WritePrices(e)
      PROVE  /\ \E r \in EditorType : editor' = [editor EXCEPT ![e] = r]
             /\ billing' \in [Outcomes -> {0, 1}] /\ asked' \in [Outcomes -> {0, 1}]
             /\ overlapped' \in BOOLEAN /\ changes' \in 0 .. MaxChanges
             /\ UNCHANGED <<system, runtime, models, legacy, boot, served, failedReads>>
  <2>1. /\ editor[e].copy \in [Outcomes -> {0, 1}] /\ editor[e].item \in Outcomes
        /\ editor[e].price \in {0, 1}
    BY <1>1, EditorShape DEF WritePrices
  <2>2. billing' \in [Outcomes -> {0, 1}] /\ asked' \in [Outcomes -> {0, 1}]
    BY <1>1, <1>t, <2>1 DEF WritePrices
  <2>3. \E r \in EditorType : editor' = [editor EXCEPT ![e] = r]
    BY Zenon, <1>1, DefaultsType DEF WritePrices
  <2> QED BY <1>1, <1>t, <2>2, <2>3 DEF WritePrices
<1>2. ASSUME NEW i \in Outcomes, NEW v \in {0, 1}, ReadPrices(e, i, v)
      PROVE  /\ \E r \in EditorType : editor' = [editor EXCEPT ![e] = r]
             /\ billing' \in [Outcomes -> {0, 1}] /\ asked' \in [Outcomes -> {0, 1}]
             /\ overlapped' \in BOOLEAN /\ changes' \in 0 .. MaxChanges
             /\ UNCHANGED <<system, runtime, models, legacy, boot, served, failedReads>>
  <2>1. PICK r : r = [stage |-> "prices", copy |-> billing, item |-> i, price |-> v]
    OBVIOUS
  <2>2. r \in EditorType
    BY <1>t, <2>1 DEF EditorType
  <2>3. editor' = [editor EXCEPT ![e] = r]
    BY Zenon, <1>2, <2>1 DEF ReadPrices, Begins
  <2>4. overlapped' \in BOOLEAN
    BY Zenon, <1>2 DEF ReadPrices, Begins
  <2>5. /\ changes' \in 0 .. MaxChanges /\ asked' = asked
        /\ UNCHANGED <<system, runtime, models, billing, legacy, boot, served, failedReads>>
    BY <1>2, <1>t DEF ReadPrices, Begins, rows
  <2> QED BY <1>t, <2>2, <2>3, <2>4, <2>5
<1> QED BY Zenon, <1>1, <1>2

LEMMA ConfigTypeStep ==
  ASSUME ConfigTypeOK, ConfigNext
  PROVE  ConfigTypeOK'
<1>t. /\ system \in SystemType /\ runtime \in RuntimeType
      /\ models \in [Models -> ModelState] /\ billing \in [Outcomes -> {0, 1}]
      /\ legacy \in BOOLEAN /\ boot \in {"migrate", "model", "system", "build", "up"}
      /\ served \in ServedType /\ editor \in [Editors -> EditorType]
      /\ changes \in 0 .. MaxChanges /\ failedReads \in 0 .. MaxFailedReads
      /\ asked \in [Outcomes -> {0, 1}] /\ overlapped \in BOOLEAN
  BY Zenon DEF ConfigTypeOK
<1>1. CASE MigrateRuntime
  <2>1. runtime' \in RuntimeType
    BY <1>1, <1>t DEF MigrateRuntime, RuntimeType, RuntimeKeys
  <2> QED BY <1>1, <1>t, <2>1 DEF MigrateRuntime, Booting, history, ConfigTypeOK
<1>2. CASE MigrateModel
  <2>1. models' \in [Models -> ModelState]
    BY <1>2, <1>t DEF MigrateModel, ModelState
  <2> QED BY <1>2, <1>t, <2>1 DEF MigrateModel, Booting, history, ConfigTypeOK
<1>3. CASE MigrateSystem
  <2>1. system' \in SystemType
    BY <1>3, <1>t DEF MigrateSystem, SystemType, Modes
  <2> QED BY <1>3, <1>t, <2>1 DEF MigrateSystem, Booting, history, ConfigTypeOK
<1>4. CASE BuildService
  <2>1. system.retries \in {"few", "many"}
    BY <1>t DEF SystemType
  <2>2. /\ Built(runtime, Active, runtime, system.retries) \in ServedType
        /\ Built(runtime, {}, runtime, system.retries) \in ServedType
    BY <1>t, <2>1, BuiltType, ActiveType
  <2>3. served' \in ServedType
    BY Zenon, <1>4, <2>2 DEF BuildService
  <2>4. failedReads' \in 0 .. MaxFailedReads
    BY <1>4, <1>t DEF BuildService
  <2> QED BY <1>4, <1>t, <2>3, <2>4 DEF BuildService, Booting, rows, history, ConfigTypeOK
<1>5. CASE Restart
  <2>1. editor' \in [Editors -> EditorType]
    BY <1>5, DefaultsType DEF Restart
  <2> QED BY <1>5, <1>t, <2>1 DEF Restart, rows, ConfigTypeOK
<1>6. ASSUME NEW e \in Editors,
         \/ \E edit \in SystemEdit : SetSystemConfig(e, edit)
         \/ \E k \in RuntimeKeys, v \in BOOLEAN : SetRuntimeConfig(e, k, v)
         \/ \E m \in Models, s \in ModelState : SaveModel(e, m, s)
      PROVE ConfigTypeOK'
  <2>1. /\ editor' = [editor EXCEPT ![e] = JustSaved]
        /\ overlapped' = (overlapped \/ ~AllRest) /\ changes' \in 0 .. MaxChanges
        /\ system' \in SystemType /\ runtime' \in RuntimeType /\ models' \in [Models -> ModelState]
        /\ billing' = billing /\ legacy' = legacy /\ boot' = boot /\ served' = served
        /\ failedReads' = failedReads /\ asked' = asked
    BY <1>6, SavesType
  <2>2. editor' \in [Editors -> EditorType]
    BY <2>1, EditorSet, DefaultsType
  <2>3. overlapped' \in BOOLEAN
    BY Zenon, <2>1
  <2> QED BY Zenon, <1>t, <2>1, <2>2, <2>3 DEF ConfigTypeOK
<1>7. ASSUME NEW e \in Editors,
         WritePrices(e) \/ \E i \in Outcomes, v \in {0, 1} : ReadPrices(e, i, v)
      PROVE ConfigTypeOK'
  <2>1. PICK r \in EditorType : editor' = [editor EXCEPT ![e] = r]
    BY Zenon, <1>7, PricesType
  <2>2. editor' \in [Editors -> EditorType]
    BY <2>1, EditorSet
  <2>3. /\ billing' \in [Outcomes -> {0, 1}] /\ asked' \in [Outcomes -> {0, 1}]
        /\ overlapped' \in BOOLEAN /\ changes' \in 0 .. MaxChanges
        /\ system' = system /\ runtime' = runtime /\ models' = models /\ legacy' = legacy
        /\ boot' = boot /\ served' = served /\ failedReads' = failedReads
    BY <1>7, PricesType
  <2> QED BY Zenon, <1>t, <2>2, <2>3 DEF ConfigTypeOK
<1>8. ASSUME NEW e \in Editors, ReadForStack(e) \/ ReadModels(e) \/ ReadFlags(e) \/ ReadRetries(e)
      PROVE ConfigTypeOK'
  <2>1. PICK r \in EditorType : editor' = [editor EXCEPT ![e] = r]
    BY Zenon, <1>8, ReadsType
  <2>2. editor' \in [Editors -> EditorType]
    BY <2>1, EditorSet
  <2>3. /\ system' = system /\ runtime' = runtime /\ models' = models /\ billing' = billing
        /\ legacy' = legacy /\ boot' = boot /\ served' = served /\ changes' = changes
        /\ asked' = asked /\ overlapped' = overlapped /\ failedReads' \in 0 .. MaxFailedReads
    BY <1>8, ReadsType
  <2> QED BY Zenon, <1>t, <2>2, <2>3 DEF ConfigTypeOK
<1>9. ASSUME NEW e \in Editors, AssignProvider(e) \/ AssignRest(e) PROVE ConfigTypeOK'
  <2>1. PICK r \in EditorType : editor' = [editor EXCEPT ![e] = r]
    BY Zenon, <1>9, AssignsType
  <2>2. editor' \in [Editors -> EditorType]
    BY <2>1, EditorSet
  <2>3. /\ system' = system /\ runtime' = runtime /\ models' = models /\ billing' = billing
        /\ legacy' = legacy /\ boot' = boot /\ failedReads' = failedReads /\ changes' = changes
        /\ asked' = asked /\ overlapped' = overlapped /\ served' \in ServedType
    BY <1>9, AssignsType
  <2> QED BY Zenon, <1>t, <2>2, <2>3 DEF ConfigTypeOK
<1> QED BY Zenon, <1>1, <1>2, <1>3, <1>4, <1>5, <1>6, <1>7, <1>8, <1>9 DEF ConfigNext

-----------------------------------------------------------------------------
\* What the invariant says of requests that do not overlap.
Alone ==
  /\ OneAtATime /\ PricesFresh
  /\ failedReads = 0 => ServiceFresh /\ (AllRest => served = Stored)

\* The only request in progress, after a step of it.
LEMMA OnlyOne ==
  ASSUME ConfigTypeOK, NEW e \in Editors, NEW r \in EditorType, editor' = [editor EXCEPT ![e] = r],
         \A f \in Editors \ {e} : editor[f] = Resting,
         asked' = billing', r.stage = "prices" => r.copy = billing',
         failedReads' = 0 => Fresh(e)'
  PROVE  Alone'
<1>1. editor'[e] = r /\ \A f \in Editors \ {e} : editor'[f] = Resting
  BY EditorSet
<1>2. Resting.stage = "rest"
  BY DEF Resting
<1>3. OneAtATime'
  BY <1>1 DEF OneAtATime
<1>4. PricesFresh'
  BY <1>1, <1>2 DEF PricesFresh
<1>5. ASSUME failedReads' = 0, AllRest' PROVE served' = Stored'
  BY <1>2, <1>5 DEF AllRest, Fresh
<1>6. ASSUME failedReads' = 0 PROVE ServiceFresh'
  <2> SUFFICES ASSUME NEW f \in Editors, \A g \in Editors \ {f} : editor'[g] = Resting
               PROVE  Fresh(f)'
    BY DEF ServiceFresh
  <2>1. CASE f = e
    BY <1>6, <2>1
  <2>2. CASE f /= e
    <3>1. \A g \in Editors : editor'[g] = Resting
      BY <1>1, <2>2
    <3>2. editor'[f].stage = "rest" /\ served' = Stored'
      BY <1>2, <1>5, <1>6, <3>1 DEF AllRest
    <3> QED BY <3>2 DEF Fresh
  <2> QED BY <2>1, <2>2
<1> QED BY <1>3, <1>4, <1>5, <1>6 DEF Alone

\* A request that goes on was alone.
LEMMA GoesAlone ==
  ASSUME ConfigInv, NEW e \in Editors, editor[e].stage /= "rest", ~overlapped
  PROVE  /\ boot = "up" /\ Alone /\ \A f \in Editors \ {e} : editor[f] = Resting
         /\ failedReads = 0 => Fresh(e)
<1>1. editor[e] /= Resting
  BY DEF Resting
<1>2. boot = "up"
  BY <1>1 DEF ConfigInv, IdleAtStart, AllRest
<1>3. Alone
  BY <1>2 DEF ConfigInv, Alone
<1>4. \A f \in Editors \ {e} : editor[f] = Resting
  BY <1>1, <1>3 DEF Alone, OneAtATime
<1> QED BY <1>2, <1>3, <1>4 DEF Alone, ServiceFresh

LEMMA AloneReads ==
  ASSUME ConfigInv, NEW e \in Editors, ~overlapped,
         ReadForStack(e) \/ ReadModels(e) \/ ReadFlags(e) \/ ReadRetries(e)
  PROVE  Alone'
<1>t. ConfigTypeOK /\ failedReads \in Nat
  BY DEF ConfigInv, ConfigTypeOK
<1>1. editor[e].stage \in {"saved", "stack", "flags", "retries"}
  BY DEF ReadForStack, ReadModels, ReadFlags, ReadRetries, Goes
<1>2. /\ Alone /\ \A f \in Editors \ {e} : editor[f] = Resting
      /\ failedReads = 0 => Fresh(e)
  BY <1>1, GoesAlone
<1>3. PICK r \in EditorType : editor' = [editor EXCEPT ![e] = r]
  BY Zenon, <1>t, ReadsType
<1>4. /\ system' = system /\ runtime' = runtime /\ models' = models /\ billing' = billing
      /\ served' = served /\ asked' = asked
  BY <1>t, ReadsType
<1>5. editor[e] \in [stage : {"saved", "stack", "flags", "retries", "assign", "rest_of_it"},
                     first : RuntimeType, chain : SUBSET Models, flags : RuntimeType,
                     retries : {"few", "many"}]
  BY <1>t, StageTypes DEF ReadForStack, ReadModels, ReadFlags, ReadRetries
<1>6. editor'[e] = r
  BY <1>t, <1>3, EditorSet
<1>7. r.stage /= "prices" /\ (failedReads' = 0 => Fresh(e)')
  <2>1. CASE ReadForStack(e)
    <3>1. r = [editor[e] EXCEPT !.stage = "stack", !.first = runtime]
      BY <2>1, <1>6, <1>t DEF ReadForStack, Goes, ConfigTypeOK
    <3>2. r.stage = "stack" /\ r.first = runtime
      BY <1>5, <3>1
    <3> QED BY <1>4, <1>6, <3>2 DEF Fresh
  <2>2. CASE ReadFlags(e)
    <3>1. r = [editor[e] EXCEPT !.stage = "retries", !.flags = runtime] /\ editor[e].stage = "flags"
      BY <2>2, <1>6, <1>t DEF ReadFlags, Goes, ConfigTypeOK
    <3>2. r.stage = "retries" /\ r.flags = runtime /\ r.first = editor[e].first /\ r.chain = editor[e].chain
      BY <1>5, <3>1
    <3>3. failedReads' = failedReads
      BY <2>2 DEF ReadFlags
    <3> QED BY <1>2, <1>4, <1>6, <3>1, <3>2, <3>3 DEF Fresh, Active
  <2>3. CASE ReadRetries(e)
    <3>1. /\ r = [editor[e] EXCEPT !.stage = "assign", !.retries = system.retries]
          /\ editor[e].stage = "retries"
      BY <2>3, <1>6, <1>t DEF ReadRetries, Goes, ConfigTypeOK
    <3>2. /\ r.stage = "assign" /\ r.flags = editor[e].flags /\ r.first = editor[e].first
          /\ r.chain = editor[e].chain /\ r.retries = system.retries
      BY <1>5, <3>1
    <3>3. failedReads' = failedReads
      BY <2>3 DEF ReadRetries
    <3> QED BY <1>2, <1>4, <1>6, <3>1, <3>2, <3>3 DEF Fresh, Active
  <2>4. CASE ReadModels(e)
    <3>1. CASE Goes(e, "stack", [editor[e] EXCEPT !.stage = "flags", !.chain = Active])
               /\ UNCHANGED <<served, failedReads>>
      <4>1. /\ r = [editor[e] EXCEPT !.stage = "flags", !.chain = Active] /\ editor[e].stage = "stack"
        BY <3>1, <1>6, <1>t DEF Goes, ConfigTypeOK
      <4>2. r.stage = "flags" /\ r.first = editor[e].first /\ r.chain = Active
        BY <1>5, <4>1
      <4> QED BY <1>2, <1>4, <1>6, <3>1, <4>1, <4>2 DEF Fresh, Active
    <3>2. CASE Goes(e, "stack", [editor[e] EXCEPT !.stage = "flags", !.chain = {}])
               /\ failedReads' = failedReads + 1
      <4>1. r = [editor[e] EXCEPT !.stage = "flags", !.chain = {}]
        BY <3>2, <1>6, <1>t DEF Goes, ConfigTypeOK
      <4>2. r.stage = "flags" /\ failedReads' /= 0
        BY <1>5, <1>t, <3>2, <4>1
      <4> QED BY <4>2
    <3> QED BY <2>4, <3>1, <3>2 DEF ReadModels
  <2> QED BY <2>1, <2>2, <2>3, <2>4
<1>8. asked' = billing'
  BY <1>2, <1>4 DEF Alone, PricesFresh
<1> QED BY <1>t, <1>2, <1>3, <1>7, <1>8, OnlyOne

LEMMA AloneAssigns ==
  ASSUME ConfigInv, NEW e \in Editors, ~overlapped, AssignProvider(e) \/ AssignRest(e)
  PROVE  Alone'
<1>t. ConfigTypeOK
  BY DEF ConfigInv
<1>1. editor[e].stage \in {"assign", "rest_of_it"}
  BY DEF AssignProvider, AssignRest, Goes
<1>2. /\ Alone /\ \A f \in Editors \ {e} : editor[f] = Resting
      /\ failedReads = 0 => Fresh(e)
  BY <1>1, GoesAlone
<1>3. PICK r \in EditorType : editor' = [editor EXCEPT ![e] = r]
  BY Zenon, <1>t, AssignsType
<1>4. /\ system' = system /\ runtime' = runtime /\ models' = models /\ billing' = billing
      /\ asked' = asked /\ failedReads' = failedReads
  BY <1>t, AssignsType
<1>5. editor[e] \in [stage : {"saved", "stack", "flags", "retries", "assign", "rest_of_it"},
                     first : RuntimeType, chain : SUBSET Models, flags : RuntimeType,
                     retries : {"few", "many"}]
  BY <1>t, StageTypes DEF AssignProvider, AssignRest
<1>6. editor'[e] = r /\ Active' = Active
  BY <1>t, <1>3, <1>4, EditorSet DEF Active
<1>7. served \in ServedType
  BY <1>t DEF ConfigTypeOK
<1>8. r.stage /= "prices" /\ (failedReads' = 0 => Fresh(e)')
  <2>1. CASE AssignProvider(e)
    <3>1. /\ r = [editor[e] EXCEPT !.stage = "rest_of_it"] /\ editor[e].stage = "assign"
          /\ served' = [served EXCEPT !.chain = Result(e).chain, !.search = Result(e).search]
      BY <2>1, <1>6, <1>t DEF AssignProvider, Goes, ConfigTypeOK
    <3>2. /\ r.stage = "rest_of_it" /\ r.flags = editor[e].flags /\ r.first = editor[e].first
          /\ r.chain = editor[e].chain /\ r.retries = editor[e].retries
      BY <1>5, <3>1
    <3>3. served'.chain = Result(e).chain /\ served'.search = Result(e).search
      BY <1>7, <3>1 DEF ServedType
    <3>4. Result(e)' = Result(e)
      BY <1>6, <3>2 DEF Result
    <3> QED BY <1>2, <1>4, <1>6, <3>1, <3>2, <3>3, <3>4 DEF Fresh
  <2>2. CASE AssignRest(e)
    <3>1. /\ r = Resting /\ editor[e].stage = "rest_of_it" /\ served' = RestOfIt(e)
      BY <2>2, <1>6, <1>t DEF AssignRest, Goes, ConfigTypeOK
    <3>2. Resting.stage = "rest"
      BY DEF Resting
    <3>3. ASSUME failedReads' = 0 PROVE served' = Stored'
      <4>1. /\ Result(e) = Stored
            /\ served.chain = Result(e).chain /\ served.search = Result(e).search
        BY <1>2, <1>4, <3>1, <3>3 DEF Fresh, Result, Stored
      <4>2. RestOfIt(e) = Result(e)
        BY <4>1 DEF RestOfIt, Result, Built
      <4>3. Stored' = Stored
        BY <1>4, <1>6 DEF Stored
      <4> QED BY <3>1, <4>1, <4>2, <4>3
    <3> QED BY <1>6, <3>1, <3>2, <3>3 DEF Fresh
  <2> QED BY <2>1, <2>2
<1>9. asked' = billing'
  BY <1>2, <1>4 DEF Alone, PricesFresh
<1> QED BY <1>t, <1>2, <1>3, <1>8, <1>9, OnlyOne

\* A request that begins alone finds everything up to date.
LEMMA BeginsAlone ==
  ASSUME ConfigInv, ~overlapped, AllRest, boot = "up"
  PROVE  /\ asked = billing /\ \A f \in Editors : editor[f] = Resting
         /\ failedReads = 0 => served = Stored
  BY DEF ConfigInv, PricesFresh, AllRest

LEMMA ConfigInvStep ==
  ASSUME ConfigInv, ConfigNext
  PROVE  ConfigInv'
<1>t. ConfigTypeOK /\ ConfigTypeOK'
  BY ConfigTypeStep DEF ConfigInv
<1>q. ASSUME IdleAtStart', boot' = "up" /\ ~overlapped' => Alone' PROVE ConfigInv'
  BY <1>t, <1>q DEF ConfigInv, Alone
<1>r. Resting.stage = "rest" /\ JustSaved.stage = "saved"
  BY DEF Resting, JustSaved
<1>1. CASE MigrateRuntime \/ MigrateModel \/ MigrateSystem
  <2>1. boot /= "up" /\ boot' /= "up" /\ editor' = editor /\ asked' = asked /\ billing' = billing
    BY <1>1 DEF MigrateRuntime, MigrateModel, MigrateSystem, Booting, history
  <2> QED BY <1>q, <2>1 DEF ConfigInv, IdleAtStart, AllRest
<1>2. CASE BuildService
  <2>1. /\ boot /= "up" /\ boot' = "up" /\ editor' = editor /\ asked' = asked /\ billing' = billing
        /\ system' = system /\ models' = models /\ runtime' = runtime
    BY <1>2 DEF BuildService, Booting, rows, history
  <2>2. AllRest' /\ asked' = billing'
    BY <2>1 DEF ConfigInv, IdleAtStart, AllRest
  <2>3. failedReads \in Nat
    BY <1>t DEF ConfigTypeOK
  <2>4. ASSUME failedReads' = 0 PROVE served' = Stored'
    <3>1. served' = Built(runtime, Active, runtime, system.retries)
      BY <1>2, <2>3, <2>4 DEF BuildService
    <3> QED BY <2>1, <3>1 DEF Stored, Active
  <2>5. OneAtATime' /\ PricesFresh'
    BY <1>r, <2>2 DEF AllRest, OneAtATime, PricesFresh
  <2>6. failedReads' = 0 => ServiceFresh'
    BY <1>r, <2>2, <2>4 DEF AllRest, ServiceFresh, Fresh
  <2> QED BY <1>q, <2>1, <2>4, <2>5, <2>6 DEF Alone, IdleAtStart
<1>3. CASE Restart
  <2>1. boot' /= "up" /\ AllRest' /\ asked' = billing'
    BY <1>3 DEF Restart, AllRest, rows
  <2> QED BY <1>q, <2>1 DEF IdleAtStart
<1>4. ASSUME NEW e \in Editors,
         \/ \E edit \in SystemEdit : SetSystemConfig(e, edit)
         \/ \E k \in RuntimeKeys, v \in BOOLEAN : SetRuntimeConfig(e, k, v)
         \/ \E m \in Models, s \in ModelState : SaveModel(e, m, s)
      PROVE ConfigInv'
  <2>1. /\ editor' = [editor EXCEPT ![e] = JustSaved] /\ boot = "up" /\ boot' = boot
        /\ overlapped' = (overlapped \/ ~AllRest) /\ asked' = asked /\ billing' = billing
    BY <1>4, <1>t, SavesType
  <2>2. ASSUME ~overlapped' PROVE Alone'
    <3>1. ~overlapped /\ AllRest
      BY Zenon, <2>1, <2>2
    <3>2. asked = billing /\ \A f \in Editors : editor[f] = Resting
      BY <2>1, <3>1, BeginsAlone
    <3>3. editor'[e] = JustSaved
      BY <1>t, <2>1, DefaultsType, EditorSet
    <3>4. Fresh(e)'
      BY <1>r, <3>3 DEF Fresh
    <3> QED BY <1>t, <1>r, <2>1, <3>2, <3>4, DefaultsType, OnlyOne
  <2> QED BY <1>q, <2>1, <2>2 DEF IdleAtStart
<1>5. ASSUME NEW e \in Editors, NEW i \in Outcomes, NEW v \in {0, 1}, ReadPrices(e, i, v)
      PROVE ConfigInv'
  <2>1. PICK r : r = [stage |-> "prices", copy |-> billing, item |-> i, price |-> v]
    OBVIOUS
  <2>2. /\ editor' = [editor EXCEPT ![e] = r] /\ boot = "up" /\ boot' = boot
        /\ overlapped' = (overlapped \/ ~AllRest) /\ asked' = asked /\ billing' = billing
        /\ system' = system /\ runtime' = runtime /\ models' = models /\ served' = served
        /\ failedReads' = failedReads
    BY Zenon, <1>5, <2>1 DEF ReadPrices, Begins, rows
  <2>3. r \in EditorType /\ r.stage = "prices" /\ r.copy = billing
    BY <1>t, <2>1 DEF EditorType, ConfigTypeOK
  <2>4. ASSUME ~overlapped' PROVE Alone'
    <3>1. ~overlapped /\ AllRest
      BY Zenon, <2>2, <2>4
    <3>2. /\ asked = billing /\ \A f \in Editors : editor[f] = Resting
          /\ failedReads = 0 => served = Stored
      BY <2>2, <3>1, BeginsAlone
    <3>3. editor'[e] = r
      BY <1>t, <2>2, <2>3, EditorSet
    <3>4. failedReads' = 0 => Fresh(e)'
      BY <2>2, <2>3, <3>2, <3>3 DEF Fresh, Stored, Active
    <3> QED BY <1>t, <2>2, <2>3, <3>2, <3>4, OnlyOne
  <2> QED BY <1>q, <2>2, <2>4 DEF IdleAtStart
<1>6. ASSUME NEW e \in Editors, WritePrices(e) PROVE ConfigInv'
  <2>1. /\ editor' = [editor EXCEPT ![e] = Resting] /\ boot' = boot /\ overlapped' = overlapped
        /\ system' = system /\ runtime' = runtime /\ models' = models /\ served' = served
        /\ failedReads' = failedReads /\ editor[e].stage = "prices"
        /\ billing' = [editor[e].copy EXCEPT ![editor[e].item] = editor[e].price]
        /\ asked' = [asked EXCEPT ![editor[e].item] = editor[e].price]
    BY <1>6 DEF WritePrices
  <2>2. boot = "up"
    BY <2>1, <1>r DEF ConfigInv, IdleAtStart, AllRest
  <2>3. ASSUME ~overlapped' PROVE Alone'
    <3>1. /\ Alone /\ \A f \in Editors \ {e} : editor[f] = Resting
          /\ failedReads = 0 => Fresh(e)
      BY <2>1, <2>3, GoesAlone
    <3>2. asked' = billing'
      BY <2>1, <3>1 DEF Alone, PricesFresh
    <3>3. editor'[e] = Resting
      BY <1>t, <2>1, DefaultsType, EditorSet
    <3>4. failedReads' = 0 => Fresh(e)'
      BY <1>r, <2>1, <3>1, <3>3 DEF Fresh, Stored, Active
    <3> QED BY <1>t, <1>r, <2>1, <3>1, <3>2, <3>4, DefaultsType, OnlyOne
  <2> QED BY <1>q, <2>1, <2>2, <2>3 DEF IdleAtStart
<1>7. ASSUME NEW e \in Editors, ReadForStack(e) \/ ReadModels(e) \/ ReadFlags(e) \/ ReadRetries(e)
      PROVE ConfigInv'
  <2>1. boot = "up" /\ boot' = boot /\ overlapped' = overlapped
    BY <1>7 DEF ReadForStack, ReadModels, ReadFlags, ReadRetries, Goes, history
  <2> QED BY Zenon, <1>7, <1>q, <2>1, AloneReads DEF IdleAtStart
<1>8. ASSUME NEW e \in Editors, AssignProvider(e) \/ AssignRest(e) PROVE ConfigInv'
  <2>1. boot = "up" /\ boot' = boot /\ overlapped' = overlapped
    BY <1>8 DEF AssignProvider, AssignRest, Goes, history
  <2> QED BY Zenon, <1>8, <1>q, <2>1, AloneAssigns DEF IdleAtStart
<1> QED BY Zenon, <1>1, <1>2, <1>3, <1>4, <1>5, <1>6, <1>7, <1>8 DEF ConfigNext

LEMMA ConfigInvariant == ConfigSpec => []ConfigInv
<1>1. ConfigInit => ConfigInv
  <2> SUFFICES ASSUME ConfigInit PROVE ConfigInv
    OBVIOUS
  <2>1. IdleAtStart /\ boot /= "up"
    BY DEF ConfigInit, IdleAtStart, AllRest
  <2> QED BY <2>1, ConfigTypeInit DEF ConfigInv
<1>2. ConfigInv /\ [ConfigNext]_configVars => ConfigInv'
  <2>1. ASSUME ConfigInv, UNCHANGED configVars PROVE ConfigInv'
    <3>1. /\ system' = system /\ runtime' = runtime /\ models' = models /\ billing' = billing
          /\ legacy' = legacy /\ boot' = boot /\ served' = served /\ editor' = editor
          /\ changes' = changes /\ failedReads' = failedReads /\ asked' = asked
          /\ overlapped' = overlapped
      BY Zenon, <2>1 DEF configVars
    <3>2. ConfigTypeOK'
      BY Zenon, <2>1, <3>1 DEF ConfigInv, ConfigTypeOK
    <3>3. Stored' = Stored /\ (AllRest' <=> AllRest) /\ (IdleAtStart' <=> IdleAtStart)
          /\ (OneAtATime' <=> OneAtATime)
      BY Zenon, <3>1 DEF Stored, Active, AllRest, IdleAtStart, OneAtATime
    <3>4. PricesFresh' <=> PricesFresh
      BY Zenon, <3>1 DEF PricesFresh
    <3>5. ServiceFresh' <=> ServiceFresh
      BY Zenon, <3>1 DEF ServiceFresh, Fresh, Result, Active, Stored
    <3> QED BY Zenon, <2>1, <3>1, <3>2, <3>3, <3>4, <3>5 DEF ConfigInv
  <2> QED BY <2>1, ConfigInvStep
<1> QED BY <1>1, <1>2, PTL DEF ConfigSpec

\* Requests that do not overlap take effect: with no read failed and none in
\* progress the running service is the one the rows describe, and the prices
\* are those last asked for (refresh_answer_service, set_billing).
THEOREM LoneEditsTakeEffect == ConfigSpec => []AloneEditsTakeEffect
<1>1. ConfigInv => AloneEditsTakeEffect
  BY DEF ConfigInv, AloneEditsTakeEffect, Quiet, PricesFresh
<1> QED BY <1>1, ConfigInvariant, PTL

\* The types of the rows, of the running service and of what each request has
\* read hold throughout.
THEOREM ConfigTypes == ConfigSpec => []ConfigTypeOK
<1>1. ConfigInv => ConfigTypeOK
  BY DEF ConfigInv
<1> QED BY <1>1, ConfigInvariant, PTL
==============================================================================
