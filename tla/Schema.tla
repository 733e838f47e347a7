------------------------------- MODULE Schema -------------------------------
(* How a process brings an older database up to date before it serves          *)
(* (storage/database.py, get_engine): tables nobody uses any more and columns   *)
(* of others are dropped, columns added later are filled in.  A SQLite file is  *)
(* copied first, and each of its statements commits by itself; other databases  *)
(* run the clean-up and the additions in a transaction each, planned from what  *)
(* the inspector saw before.  Processes start together, fail where another was  *)
(* faster, crash between two steps and are started again.                       *)
EXTENDS Integers, FiniteSets, Sequences

CONSTANTS
  Instances,        \* processes on one database
  Obsolete,         \* what is to go, in the order it is dropped
  Tables,           \* the members of Obsolete that are tables; the others are columns
  Added,            \* columns to be added, in their order
  Copied,          \* the added column that is filled from another one (quota_used)
  MaxStarts         \* starts of a process (bound)

VARIABLES
  backend,          \* "sqlite" or "sql"
  present,          \* obsolete tables and columns still there
  columns,          \* added columns already there
  had,              \* what of Obsolete the older program left
  filled,           \* no counter waits to be copied into Copied
  backups,          \* [second in the name of a copy -> what it holds of Obsolete, and who wrote it]
  second,           \* the clock
  instance,         \* [Instances -> how far its start is]
  starts

schemaVars == <<backend, had, present, columns, filled, backups, second, instance, starts>>

ItemsOf(seq) == {seq[i] : i \in DOMAIN seq}

ASSUME ObsoleteAssumption == Obsolete \in Seq(ItemsOf(Obsolete))

AtRest == [at |-> "down"]
Upgraded == present = {} /\ columns = ItemsOf(Added) /\ filled

SchemaInit ==
  /\ backend \in {"sqlite", "sql"}
  /\ had \in SUBSET ItemsOf(Obsolete) /\ present = had
  /\ columns \in SUBSET ItemsOf(Added)
  /\ filled \in IF Copied \in columns THEN BOOLEAN ELSE {FALSE}
  /\ backups = <<>> /\ second = 0
  /\ instance = [p \in Instances |-> AtRest] /\ starts = [p \in Instances |-> 0]

Steps(p, next) == instance' = [instance EXCEPT ![p] = next]

\* The database is not touched.
Untouched == UNCHANGED <<backend, had, present, columns, filled, backups>>
SameClock == UNCHANGED <<second, starts>>

\* A process starts, which takes it longer than a second, and looks for what is to go.
Start(p) ==
  /\ instance[p] = AtRest /\ starts[p] < MaxStarts
  /\ starts' = [starts EXCEPT ![p] = @ + 1] /\ second' = second + 1
  /\ Steps(p, [at |-> "look"])
  /\ Untouched

Crash(p) ==
  /\ instance[p] /= AtRest
  /\ Steps(p, AtRest)
  /\ Untouched /\ SameClock

\* RuntimeError: the start failed.
Fails(p) == Steps(p, AtRest)

-----------------------------------------------------------------------------
(* SQLite *)

\* needs_cleanup
NeedsCleanup == present /= {}

LookForObsolete(p) ==
  /\ backend = "sqlite" /\ instance[p].at = "look"
  /\ Steps(p, IF NeedsCleanup THEN [at |-> "backup"] ELSE [at |-> "columns"])
  /\ Untouched /\ SameClock

\* Faulty variant: one copy, under one name, for every start.
NamedWithoutTime == 0

\* strftime: the name of a copy has the second in it.
NamedBySecond == second

\* The file is copied; a copy of the same second is overwritten.
Backup(p) ==
  /\ instance[p].at = "backup"
  /\ backups' = [s \in DOMAIN backups \cup {NamedBySecond} |->
                   IF s /= NamedBySecond THEN backups[s]
                   ELSE [holds |-> present,
                         by |-> {p} \cup (IF s \in DOMAIN backups THEN backups[s].by ELSE {})]]
  /\ Steps(p, [at |-> "drop", next |-> 1, saw |-> FALSE])
  /\ UNCHANGED <<backend, had, present, columns, filled>> /\ SameClock

\* DROP TABLE IF EXISTS, and for a column a look, then the statement.
Drop(p) ==
  /\ instance[p].at = "drop"
  /\ LET n == instance[p].next
         item == Obsolete[n]
         after == IF n = Len(Obsolete) THEN [at |-> "columns"]
                  ELSE [at |-> "drop", next |-> n + 1, saw |-> FALSE]
     IN \/ /\ item \in Tables
           /\ present' = present \ {item} /\ Steps(p, after)
        \/ /\ item \notin Tables /\ ~instance[p].saw
           /\ Steps(p, IF item \in present THEN [instance[p] EXCEPT !.saw = TRUE] ELSE after)
           /\ UNCHANGED present
        \/ /\ item \notin Tables /\ instance[p].saw
           /\ IF item \in present THEN Steps(p, after) ELSE Fails(p)
           /\ present' = present \ {item}
  /\ UNCHANGED <<backend, had, columns, filled, backups>> /\ SameClock

\* PRAGMA table_info: the columns that are missing now,
ReadColumns(p) ==
  /\ backend = "sqlite" /\ instance[p].at = "columns"
  /\ Steps(p, [at |-> "add", missing |-> ItemsOf(Added) \ columns])
  /\ Untouched /\ SameClock

\* the next of them in their order,
NextOf(missing) ==
  {Added[n] : n \in {m \in DOMAIN Added : Added[m] \in missing /\ \A k \in 1..(m - 1) : Added[k] \notin missing}}

\* ALTER TABLE ADD COLUMN, which fails for a column that is there by now.
AddColumn(p) ==
  /\ backend = "sqlite" /\ instance[p].at = "add"
  /\ \E c \in NextOf(instance[p].missing) :
       IF c \in columns
       THEN Fails(p) /\ UNCHANGED <<columns, filled>>
       ELSE /\ columns' = columns \cup {c}
            /\ filled' = (filled /\ c /= Copied)
            /\ Steps(p, [instance[p] EXCEPT !.missing = @ \ {c}])
  /\ UNCHANGED <<backend, had, present, backups>> /\ SameClock

\* UPDATE api_tokens SET quota_used = usage_count, and the engine is ready.
Fill(p) ==
  /\ backend = "sqlite" /\ instance[p].at = "add" /\ instance[p].missing = {}
  /\ filled' = TRUE
  /\ Steps(p, [at |-> "ready"])
  /\ UNCHANGED <<backend, had, present, columns, backups>> /\ SameClock

-----------------------------------------------------------------------------
(* Other databases *)

\* get_table_names
InspectTables(p) ==
  /\ backend = "sql" /\ instance[p].at = "look"
  /\ Steps(p, [at |-> "inspect", tables |-> present \cap Tables])
  /\ Untouched /\ SameClock

\* get_columns
InspectColumns(p) ==
  /\ instance[p].at = "inspect"
  /\ Steps(p, [at |-> "clean", saw |-> instance[p].tables \cup (present \ Tables)])
  /\ Untouched /\ SameClock

\* The transaction drops what was seen, all of it or, if any is gone, nothing.
CleanUp(p) ==
  /\ instance[p].at = "clean"
  /\ IF instance[p].saw \subseteq present
     THEN present' = present \ instance[p].saw /\ Steps(p, [at |-> "columns"])
     ELSE Fails(p) /\ UNCHANGED present
  /\ UNCHANGED <<backend, had, columns, filled, backups>> /\ SameClock

InspectMissing(p) ==
  /\ backend = "sql" /\ instance[p].at = "columns"
  /\ Steps(p, [at |-> "add", missing |-> ItemsOf(Added) \ columns])
  /\ Untouched /\ SameClock

\* The transaction adds what was missing and copies the counters.
AddMissing(p) ==
  /\ backend = "sql" /\ instance[p].at = "add"
  /\ IF instance[p].missing \cap columns = {}
     THEN /\ columns' = columns \cup instance[p].missing /\ filled' = TRUE
          /\ Steps(p, [at |-> "ready"])
     ELSE Fails(p) /\ UNCHANGED <<columns, filled>>
  /\ UNCHANGED <<backend, had, present, backups>> /\ SameClock

SchemaNext ==
  \/ \E p \in Instances :
       \/ Start(p) \/ Crash(p)
       \/ LookForObsolete(p) \/ Backup(p) \/ Drop(p) \/ ReadColumns(p) \/ AddColumn(p) \/ Fill(p)
       \/ InspectTables(p) \/ InspectColumns(p) \/ CleanUp(p) \/ InspectMissing(p) \/ AddMissing(p)

SchemaSpec == SchemaInit /\ [][SchemaNext]_schemaVars
-----------------------------------------------------------------------------
SchemaTypeOK ==
  /\ backend \in {"sqlite", "sql"}
  /\ present \subseteq had /\ had \subseteq ItemsOf(Obsolete) /\ columns \subseteq ItemsOf(Added)
  /\ filled \in BOOLEAN /\ second \in Nat
  /\ \A s \in DOMAIN backups : backups[s] \in [holds : SUBSET had, by : SUBSET Instances]
  /\ \A p \in Instances :
       instance[p].at \in {"down", "look", "backup", "drop", "columns", "add", "inspect", "clean", "ready"}

\* A process that serves has found or made the database complete, whatever other
\* starts did, failed at or left half done: nothing obsolete is left, no column
\* is missing, and every counter has been copied (get_engine).
ReadyIsCurrent == \A p \in Instances : instance[p].at = "ready" => Upgraded

\* What is dropped from a SQLite file can be brought back: it is in one of the
\* copies (ensure_sqlite_obsolete_platform_schema_cleanup), however many starts
\* it took.  Two processes that copy in the same second write the same copy
\* (storage/database.py:380), and then the first one's may be lost.
BackupHoldsDropped ==
  \/ backend /= "sqlite"
  \/ \E s \in DOMAIN backups : Cardinality(backups[s].by) > 1
  \/ had \ present \subseteq UNION {backups[s].holds : s \in DOMAIN backups}

\* However starts overlap, fail and crash between two statements, a process that
\* serves has a complete database, and nothing was dropped that no copy holds.
UpgradesAreSafe == ReadyIsCurrent /\ BackupHoldsDropped
=============================================================================
