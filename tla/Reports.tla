------------------------------ MODULE Reports ------------------------------
(* What is shown of the past: usage records, the questions they answered and *)
(* feedback, a page at a time (UsageService, FeedbackService), and the       *)
(* figures of the dashboard (DashboardService).  A record gets its time      *)
(* before the lock of the platform is taken and is stored under it, so rows  *)
(* may be stored in another order than their times; a list is read page by   *)
(* page and a report figure by figure, each under the lock, while rows are   *)
(* added and midnight passes.  A time is a number of which the day is a part *)
(* and identifies its row: no two rows have the same.                        *)
EXTENDS Integers, FiniteSets

CONSTANTS
  Readers,          \* the users
  Everyone,         \* no filter by user
  Subjects,         \* the questions of the bank
  Unlinked,         \* a record without one
  Windows,          \* days back a list may reach; 0 is all of the past
  Outcomes,         \* of an answer: whether the model erred, whether it cost points
  PageSize,         \* rows of a page
  FeedbackCap,      \* feedbacks a query returns at most
  DayLength,        \* times of a day
  ReportDays,       \* days a trend may go back
  MaxDays,          \* midnights (bound)
  MaxRows           \* rows written (bound)

ASSUME ReportsAssumption ==
  /\ PageSize \in Nat /\ FeedbackCap \in Nat /\ DayLength \in Nat \ {0}
  /\ Windows \subseteq Nat /\ ReportDays \subseteq Nat \ {0}
  /\ MaxDays \in Nat /\ MaxRows \in Nat

VARIABLES
  table,            \* whose rows this behaviour writes and reads: no query reads both
  now,              \* the clock
  logs,             \* usage records stored
  feedbacks,        \* feedbacks stored
  unsaved,          \* rows built and not stored yet
  walk,             \* a client turning the pages of a list
  report            \* figures being put together

reportsVars == <<table, now, logs, feedbacks, unsaved, walk, report>>

Day(t) == t \div DayLength
FeedbackStatuses == {"open", "resolved"}
AnyStatus == "any"
Lists == {"records", "groups", "feedback"}

-----------------------------------------------------------------------------
(* Queries. *)

\* recent_day_range: the last days of the calendar, today included.
InWindow(days, t) == days = 0 \/ Day(t) > Day(now) - days

\* _apply_usage_log_filters
Matching(user, days) ==
  {l \in logs : (user = Everyone \/ l.user = user) /\ InWindow(days, l.at)}

\* The attempts of one question are one group, a record without one its own.
GroupOf(l) == IF l.subject = Unlinked THEN l.at ELSE l.subject

\* What a list shows: each of its entries belongs to the row that key names.
Entries(q) ==
  CASE q.list = "records"  -> {[key |-> l.at, at |-> l.at] : l \in Matching(q.user, q.days)}
    [] q.list = "groups"   -> {[key |-> GroupOf(l), at |-> l.at] : l \in Matching(q.user, q.days)}
    [] q.list = "feedback" ->
         {[key |-> f.at, at |-> f.at] : f \in {g \in feedbacks : q.user \in {Everyone, g.user}}}

RowsOf(es) == {e.key : e \in es}

\* ORDER BY max(created_at) DESC: the rows before row k have an entry newer
\* than all of its own.
Ahead(es, k) == RowsOf({e \in es : \A f \in es : f.key = k => f.at < e.at})

\* Faulty variant: the oldest first.
SliceOldestFirst(es, from, to) ==
  LET behind(k) == {r \in RowsOf(es) : k \in Ahead(es, r)}
  IN {e \in es : from <= Cardinality(behind(e.key)) /\ Cardinality(behind(e.key)) < to}

\* The rows from one place to another (OFFSET and LIMIT).
Slice(es, from, to) ==
  {e \in es : from <= Cardinality(Ahead(es, e.key)) /\ Cardinality(Ahead(es, e.key)) < to}

OfStatus(es, status) ==
  {e \in es : status = AnyStatus \/ \E f \in feedbacks : f.at = e.key /\ f.status = status}

\* A page.  Feedbacks are fetched up to the end of the page, then filtered, then
\* cut; usage records and groups are filtered and cut by the database.
PageOf(q, page) ==
  LET from == (page - 1) * PageSize
      to == page * PageSize
      fetched == IF to < FeedbackCap THEN to ELSE FeedbackCap
  IN IF q.list = "feedback"
     THEN Slice(OfStatus(Slice(Entries(q), 0, fetched), q.status), from, to)
     ELSE Slice(Entries(q), from, to)

\* The rows the total of a list counts.
Counted(q) ==
  RowsOf(IF q.list = "feedback" THEN OfStatus(Slice(Entries(q), 0, FeedbackCap), q.status) ELSE Entries(q))

\* usage_overview: calls, those without an error of the model, points.
Overview(found) ==
  [total   |-> Cardinality(found),
   success |-> Cardinality({l \in found : l.outcome.ok}),
   points  |-> Cardinality({l \in found : l.outcome.paid})]

Between(user, first, last) ==
  {l \in Matching(user, 0) : first <= Day(l.at) /\ Day(l.at) <= last}

\* usage_scope: everyone's figures for those who may see them and did not ask for their own.
ScopeOf(user, may_all, asked) == IF may_all /\ asked /= "self" THEN Everyone ELSE user

-----------------------------------------------------------------------------
StatusesOf(list) == IF list = "feedback" THEN FeedbackStatuses \cup {AnyStatus} ELSE {AnyStatus}
NoWalk == [stage |-> "idle"]
NoReport == [stage |-> "idle"]

ReportsInit ==
  /\ now = 0 /\ table \in {"usage", "feedback"}
  /\ logs = {} /\ feedbacks = {} /\ unsaved = {}
  /\ walk = NoWalk /\ report = NoReport

\* time.time(): a time of its own, and today has one left.
Stamped ==
  /\ Cardinality(logs) + Cardinality(feedbacks) + Cardinality(unsaved) < MaxRows
  /\ Day(now + 1) = Day(now)
  /\ now' = now + 1

\* record_usage builds the record of an answered question,
BuildLog(user, subject, outcome) ==
  /\ table = "usage" /\ Stamped
  /\ unsaved' = unsaved \cup
       {[kind |-> "log", row |-> [user |-> user, subject |-> subject, outcome |-> outcome, at |-> now]]}
  /\ UNCHANGED <<table, logs, feedbacks, walk, report>>

\* create_feedback builds a feedback,
BuildFeedback(user) ==
  /\ table = "feedback" /\ Stamped
  /\ unsaved' = unsaved \cup {[kind |-> "feedback", row |-> [user |-> user, status |-> "open", at |-> now]]}
  /\ UNCHANGED <<table, logs, feedbacks, walk, report>>

\* The row whose place in the walk's list changes now.
Touch(key) == walk' = IF walk.stage = "idle" THEN walk ELSE [walk EXCEPT !.moved = @ \cup {key}]

\* and stores it under the lock.
StoreLog(u) ==
  /\ u.kind = "log"
  /\ logs' = logs \cup {u.row} /\ unsaved' = unsaved \ {u}
  /\ Touch(GroupOf(u.row))
  /\ UNCHANGED <<table, now, feedbacks, report>>

StoreFeedback(u) ==
  /\ u.kind = "feedback"
  /\ feedbacks' = feedbacks \cup {u.row} /\ unsaved' = unsaved \ {u}
  /\ UNCHANGED <<table, now, logs, walk, report>>

\* resolve_feedback
Handle(f, status) ==
  /\ f.status /= status
  /\ feedbacks' = (feedbacks \ {f}) \cup {[f EXCEPT !.status = status]}
  /\ UNCHANGED <<table, now, logs, unsaved, walk, report>>

Midnight ==
  /\ Day(now) < MaxDays
  /\ now' = (Day(now) + 1) * DayLength
  /\ UNCHANGED <<table, logs, feedbacks, unsaved, walk, report>>

-----------------------------------------------------------------------------
(* A client asks for the first page and turns to the next one until the total *)
(* of the last answer is reached.                                             *)
\* Readings change nothing, so one of them is followed in a behaviour.
Unread == walk.stage = "idle" /\ report.stage = "idle"

Query(list, user, days, status) == [list |-> list, user |-> user, days |-> days, status |-> status]

BeginWalk(q) ==
  /\ Unread
  /\ (q.list = "feedback") = (table = "feedback")
  /\ walk' = [stage |-> "turn", q |-> q, page |-> 0, seen |-> {}, moved |-> {},
              due |-> Counted(q)]
  /\ UNCHANGED <<table, now, logs, feedbacks, unsaved, report>>

\* The last page is the one that reaches the total.
AfterPage(page) == IF page * PageSize >= Cardinality(Counted(walk.q)) THEN "done" ELSE "turn"

\* The page.  Groups and their total are read under one hold of the lock,
\* records and feedbacks first and their total after.
TurnPage ==
  /\ walk.stage = "turn"
  /\ LET page == walk.page + 1
     IN walk' = [walk EXCEPT
          !.page = page, !.seen = @ \cup RowsOf(PageOf(walk.q, page)),
          !.stage = IF walk.q.list = "groups" THEN AfterPage(page) ELSE "count"]
  /\ UNCHANGED <<table, now, logs, feedbacks, unsaved, report>>

CountRows ==
  /\ walk.stage = "count"
  /\ walk' = [walk EXCEPT !.stage = AfterPage(walk.page)]
  /\ UNCHANGED <<table, now, logs, feedbacks, unsaved, report>>

-----------------------------------------------------------------------------
(* A report: the overview, a distribution over the same days, then the trend, *)
(* whose days are computed when its turn comes and read one at a time.        *)
BeginReport(user, over, trend) ==
  /\ Unread /\ table = "usage"
  /\ LET first == Day(now) - over + 1
     IN report' = [stage |-> "modes", user |-> user, first |-> first, today |-> Day(now), trend |-> trend,
                   overview |-> Overview(Between(user, first, Day(now)))]
  /\ UNCHANGED <<table, now, logs, feedbacks, unsaved, walk>>

\* usage_distribution by the way a question was answered
ReadModes ==
  /\ report.stage = "modes"
  /\ LET found == Overview(Between(report.user, report.first, report.today))
     IN report' = [stage |-> "windows", user |-> report.user, first |-> report.first, today |-> report.today,
                   trend |-> report.trend, overview |-> report.overview, modes |-> found]
  /\ UNCHANGED <<table, now, logs, feedbacks, unsaved, walk>>

\* Faulty variant: the days before today.
DayWindowsBefore(days) == (Day(now) - days) .. (Day(now) - 1)

\* day_windows
DayWindows(days) == (Day(now) - days + 1) .. Day(now)

BeginTrend ==
  /\ report.stage = "windows"
  /\ report' = [stage |-> "trend", user |-> report.user, first |-> report.first, today |-> report.today,
                overview |-> report.overview, modes |-> report.modes,
                dated |-> Day(now), left |-> DayWindows(report.trend), days |-> [d \in {} |-> 0]]
  /\ UNCHANGED <<table, now, logs, feedbacks, unsaved, walk>>

ReadDay ==
  /\ report.stage = "trend"
  /\ \E d \in report.left :
       /\ \A e \in report.left : d <= e
       /\ report' = [report EXCEPT
            !.left = @ \ {d},
            !.days = [e \in DOMAIN @ \cup {d} |->
                        IF e = d THEN Overview(Between(report.user, d, d)) ELSE @[e]]]
  /\ UNCHANGED <<table, now, logs, feedbacks, unsaved, walk>>

\* Nothing is followed after the reading ended (bound).
ReadingOver == walk.stage = "done" \/ (report.stage = "trend" /\ report.left = {})

ReportsNext ==
  /\ ~ReadingOver
  /\ \/ \E u \in Readers, s \in Subjects \cup {Unlinked}, o \in Outcomes : BuildLog(u, s, o)
     \/ \E u \in Readers : BuildFeedback(u)
     \/ \E u \in unsaved : StoreLog(u) \/ StoreFeedback(u)
     \/ \E f \in feedbacks, status \in FeedbackStatuses : Handle(f, status)
     \/ Midnight
     \/ \E list \in Lists, u \in Readers \cup {Everyone}, days \in Windows :
          \E status \in StatusesOf(list) :
            (list = "feedback" => days = 0) /\ BeginWalk(Query(list, u, days, status))
     \/ TurnPage \/ CountRows
     \/ \E u \in Readers, may_all \in BOOLEAN, asked \in {"self", "global"}, trend \in ReportDays :
          \E over \in {1, trend} : BeginReport(ScopeOf(u, may_all, asked), over, trend)
     \/ ReadModes \/ BeginTrend \/ ReadDay

ReportsSpec == ReportsInit /\ [][ReportsNext]_reportsVars

-----------------------------------------------------------------------------
LogType ==
  [user : Readers, subject : Subjects \cup {Unlinked}, outcome : Outcomes, at : Nat]
FeedbackRowType == [user : Readers, status : FeedbackStatuses, at : Nat]

ReportsTypeOK ==
  /\ now \in Nat /\ Day(now) <= MaxDays
  /\ logs \subseteq LogType /\ feedbacks \subseteq FeedbackRowType
  /\ \A u \in unsaved : u.row \in IF u.kind = "log" THEN LogType ELSE FeedbackRowType
  /\ walk.stage \in {"idle", "turn", "count", "done"}
  /\ report.stage \in {"idle", "modes", "windows", "trend"}

\* Who turns all the pages of a list sees every row that was in it when he began
\* and still is, whatever was added meanwhile, midnight passed or not: a row may
\* be shown twice, and only two kinds may be missed.  In the list is what the
\* total counts: no feedback behind the FeedbackCap newest, which the repository
\* never returns (repositories/feedback.py:87; the service asks for 5000).  A group that got a new
\* attempt goes to the first page, which has been read; and feedbacks of one
\* status are looked for among the rows up to the end of the page only
\* (feedback/service.py:266-281), so one behind enough others of another status
\* is on no page although the total counts it.
RowsListed ==
  walk.stage = "done" =>
    \A k \in (walk.due \cap Counted(walk.q)) \ walk.seen :
      \/ walk.q.list = "groups" /\ k \in walk.moved
      \/ walk.q.list = "feedback" /\ walk.q.status /= AnyStatus

\* The sum of the figures of the days, counted one by one.
TotalOf(figure) == Cardinality(UNION {{d} \X (1..figure[d]) : d \in DOMAIN figure})

\* The figures of a report fit together although each is read by itself: the
\* overview counts no call the distribution or the trend misses, nor a point,
\* unless midnight passed before the days of the trend were computed.
ReportAddsUp ==
  report.stage = "trend" /\ report.left = {} =>
    /\ report.overview.total <= report.modes.total
    /\ report.overview.success <= report.modes.success
    /\ report.dated = report.today =>
         LET within == {d \in DOMAIN report.days : report.first <= d}
         IN /\ report.overview.total <= TotalOf([d \in within |-> report.days[d].total])
            /\ report.overview.points <= TotalOf([d \in within |-> report.days[d].points])
=============================================================================
