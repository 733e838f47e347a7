------------------------------ MODULE LogFiles ------------------------------
(* The log file and the older ones beside it (logger/__init__.py and           *)
(* logger/storage.py).  Every event is appended to the current file under a    *)
(* lock.  Cleaners run without it: a pass by the policy, in the thread of an   *)
(* event and at most one in an interval, and what an administrator asks for.   *)
(* A cleaner lists the files once and goes through the list file by file, while *)
(* events are appended and another cleaner deletes.                            *)
EXTENDS Integers, FiniteSets

CONSTANTS
  Current,          \* the file events are appended to (log_path)
  OldFiles,         \* [the other files -> the times of their events], which are negative
  Retention,        \* age the policy lets events reach
  MaxSize,          \* size, in events, the policy leaves
  Interval,         \* between two passes of the policy
  LogThreads,       \* threads that log and clean
  MaxAges, FilesKept, \* what an administrator may ask for: an age, a number of files
  MaxTime,          \* the clock (bound)
  MaxPasses         \* passes begun by administrators (bound)

\* Every file that is left from before has events, a last one among them.
ASSUME LogFilesAssumption ==
  /\ Current \notin DOMAIN OldFiles /\ IsFiniteSet(DOMAIN OldFiles)
  /\ IsFiniteSet(UNION {OldFiles[f] : f \in DOMAIN OldFiles})
  /\ \A f \in DOMAIN OldFiles :
       /\ OldFiles[f] \subseteq Int /\ \A t \in OldFiles[f] : t < 0
       /\ \E t \in OldFiles[f] : \A u \in OldFiles[f] : u <= t
  /\ Retention \in Nat /\ MaxSize \in Nat /\ Interval \in Nat /\ MaxTime \in Nat
  /\ MaxAges \subseteq Nat

VARIABLES
  clock,
  files,            \* [files that exist -> the times of their events and st_mtime]
  lastPass,         \* _LAST_LOG_POLICY_CHECK
  cleaner,          \* [LogThreads -> the pass each makes]
  passes,
  gone              \* what was deleted last, and how

logFilesVars == <<clock, files, lastPass, cleaner, passes, gone>>

Latest(events) == CHOOSE t \in events : \A u \in events : u <= t
FileOf(events) == [events |-> events, mtime |-> Latest(events)]

\* The lines of the files of S
Events(S) == UNION {{f} \X files[f].events : f \in S}
Size(S) == Cardinality(Events(S))

\* The listing: files with the times by which they are sorted.
Listing(S) == {[file |-> f, mtime |-> files[f].mtime] : f \in S \cap DOMAIN files}
Newest(listed) == CHOOSE e \in listed : \A d \in listed : d.mtime <= e.mtime
Oldest(listed) == CHOOSE e \in listed : \A d \in listed : d.mtime >= e.mtime

Idle == [stage |-> "idle"]
Nothing == [file |-> Current, events |-> {}, how |-> [mode |-> "all"]]

LogFilesInit ==
  /\ clock = 0 /\ lastPass = -Interval
  /\ \E K \in SUBSET DOMAIN OldFiles :
       files = [f \in K \cup {Current} |->
                  IF f = Current THEN [events |-> {}, mtime |-> 0] ELSE FileOf(OldFiles[f])]
  /\ cleaner = [c \in LogThreads |-> Idle]
  /\ passes = 0 /\ gone = Nothing

-----------------------------------------------------------------------------
TimePasses ==
  /\ clock < MaxTime /\ clock' = clock + 1
  /\ UNCHANGED <<files, lastPass, cleaner, passes, gone>>

\* log_event
LogEvent(c) ==
  /\ cleaner[c] = Idle /\ clock < MaxTime
  /\ files' = [files EXCEPT ![Current] = [events |-> @.events \cup {clock}, mtime |-> clock]]
  /\ clock' = clock + 1
  /\ cleaner' = [cleaner EXCEPT ![c] = [stage |-> "logged"]]
  /\ UNCHANGED <<lastPass, passes, gone>>

ByAge(age, policy) ==
  [stage |-> "age", policy |-> policy, threshold |-> clock - age,
   listed |-> DOMAIN files, todo |-> Listing(DOMAIN files)]

\* maybe_enforce_log_storage_policy
MaybeEnforce(c) ==
  /\ cleaner[c].stage = "logged"
  /\ LET due == clock - lastPass >= Interval
     IN /\ lastPass' = IF due THEN clock ELSE lastPass
        /\ cleaner' = [cleaner EXCEPT ![c] = IF due THEN ByAge(Retention, TRUE) ELSE Idle]
  /\ UNCHANGED <<clock, files, passes, gone>>

\* All the archives but the newest ones, which count with the current file.
BeyondKept(keep) ==
  LET archives == Listing(DOMAIN files \ {Current})
  IN {e \in archives : Cardinality({d \in archives : d.mtime > e.mtime}) >= keep - 1}

\* system_logs_cleanup, in one of its modes
AskCleanup(c, pass) ==
  /\ cleaner[c] = Idle /\ passes < MaxPasses
  /\ passes' = passes + 1
  /\ cleaner' = [cleaner EXCEPT ![c] = pass]
  /\ UNCHANGED <<clock, files, lastPass, gone>>

CleanAll == [stage |-> "remove", how |-> "all", todo |-> Listing(DOMAIN files)]
CleanFiles(keep) == [stage |-> "remove", how |-> "files", todo |-> BeyondKept(keep)]

\* The current file is cut, any other is unlinked; passes of others that count
\* the size do not learn of it.
Delete(c, f, how, after) ==
  /\ files' = IF f = Current THEN [files EXCEPT ![f] = [events |-> {}, mtime |-> clock]]
              ELSE [g \in DOMAIN files \ {f} |-> files[g]]
  /\ gone' = [file |-> f, events |-> IF f \in DOMAIN files THEN files[f].events ELSE {}, how |-> how]
  /\ cleaner' = [d \in LogThreads |->
       IF d = c THEN after
       ELSE IF cleaner[d].stage = "trim" THEN [cleaner[d] EXCEPT !.alone = FALSE] ELSE cleaner[d]]

\* clear_all and keep_last_n_files: file by file, if it is still there.
RemoveNext(c) ==
  /\ cleaner[c].stage = "remove"
  /\ IF cleaner[c].todo = {}
     THEN cleaner' = [cleaner EXCEPT ![c] = Idle] /\ UNCHANGED <<files, gone>>
     ELSE LET e == Newest(cleaner[c].todo)
              after == [cleaner[c] EXCEPT !.todo = @ \ {e}]
          IN IF e.file \in DOMAIN files
             THEN Delete(c, e.file, [mode |-> cleaner[c].how], after)
             ELSE cleaner' = [cleaner EXCEPT ![c] = after] /\ UNCHANGED <<files, gone>>
  /\ UNCHANGED <<clock, lastPass, passes>>

\* Faulty variant: the age of a file is that of its place in the listing.
ExpiredAsListed(c, e) == e.mtime < cleaner[c].threshold

\* before_seconds: the file is looked at again,
Expired(c, e) == e.file \in DOMAIN files /\ files[e.file].mtime < cleaner[c].threshold

LookAtAge(c) ==
  /\ cleaner[c].stage = "age" /\ cleaner[c].todo /= {}
  /\ LET e == Newest(cleaner[c].todo)
         rest == cleaner[c].todo \ {e}
     IN cleaner' = [cleaner EXCEPT ![c] =
          [stage |-> IF Expired(c, e) THEN "expired" ELSE "age",
           policy |-> @.policy, threshold |-> @.threshold, listed |-> @.listed, todo |-> rest,
           file |-> e.file, looked |-> clock]]
  /\ UNCHANGED <<clock, files, lastPass, passes, gone>>

\* and deleted if it is old, whatever was appended since.
DeleteExpired(c) ==
  /\ cleaner[c].stage = "expired"
  /\ Delete(c, cleaner[c].file,
            [mode |-> "age", threshold |-> cleaner[c].threshold, looked |-> cleaner[c].looked],
            [cleaner[c] EXCEPT !.stage = "age"])
  /\ UNCHANGED <<clock, lastPass, passes>>

\* The policy goes on with the size of the files it listed.
Measure(c) ==
  /\ cleaner[c].stage = "age" /\ cleaner[c].todo = {}
  /\ LET left == cleaner[c].listed \cap DOMAIN files
     IN cleaner' = [cleaner EXCEPT ![c] =
          IF @.policy THEN [stage |-> "trim", todo |-> Listing(left), alone |-> TRUE,
                            total |-> Size(left)]
          ELSE Idle]
  /\ UNCHANGED <<clock, files, lastPass, passes, gone>>

\* max_total_bytes leaves the current file alone, and a file that has gone.
Spared(f) == f = Current \/ f \notin DOMAIN files

\* The oldest files go until the rest is small enough.
Trim(c) ==
  /\ cleaner[c].stage = "trim"
  /\ IF cleaner[c].total <= MaxSize \/ cleaner[c].todo = {}
     THEN cleaner' = [cleaner EXCEPT ![c] = Idle] /\ UNCHANGED <<files, gone>>
     ELSE LET e == Oldest(cleaner[c].todo)
              after == [cleaner[c] EXCEPT !.todo = @ \ {e}]
          IN IF Spared(e.file)
             THEN cleaner' = [cleaner EXCEPT ![c] = after] /\ UNCHANGED <<files, gone>>
             ELSE Delete(c, e.file, [mode |-> "size", alone |-> cleaner[c].alone, total |-> Size(DOMAIN files)],
                         [after EXCEPT !.total = @ - Size({e.file})])
  /\ UNCHANGED <<clock, lastPass, passes>>

LogFilesNext ==
  \/ TimePasses
  \/ \E c \in LogThreads :
       \/ LogEvent(c) \/ MaybeEnforce(c)
       \/ AskCleanup(c, CleanAll)
       \/ \E keep \in FilesKept : AskCleanup(c, CleanFiles(keep))
       \/ \E age \in MaxAges : AskCleanup(c, ByAge(age, FALSE))
       \/ RemoveNext(c) \/ LookAtAge(c) \/ DeleteExpired(c) \/ Measure(c) \/ Trim(c)

LogFilesSpec == LogFilesInit /\ [][LogFilesNext]_logFilesVars

-----------------------------------------------------------------------------
LogFilesTypeOK ==
  /\ clock \in 0 .. MaxTime /\ lastPass \in -Interval .. MaxTime
  /\ DOMAIN files \subseteq DOMAIN OldFiles \cup {Current} /\ Current \in DOMAIN files
  /\ \A f \in DOMAIN files : files[f].mtime \in Int
  /\ \A c \in LogThreads : cleaner[c].stage \in {"idle", "logged", "remove", "age", "expired", "trim"}

\* Nothing is deleted but what the pass was to delete, however passes and events
\* overlap (cleanup_log_storage).  A pass by age takes events past that age, and
\* besides only such as were appended after it had looked at the file
\* (logger/storage.py:224-232); a pass by number or size takes no event of the
\* current file; and a pass by size takes nothing while the files together are
\* small enough, unless another pass deleted a file it had counted.
OnlyWhatMayGo ==
  LET how == gone.how
  IN gone.events /= {} =>
       CASE how.mode = "all"   -> TRUE
         [] how.mode = "files" -> gone.file /= Current
         [] how.mode = "age"   -> \A t \in gone.events : t < how.threshold \/ t >= how.looked
         [] how.mode = "size"  -> gone.file /= Current /\ (how.alone => how.total > MaxSize)
=============================================================================
