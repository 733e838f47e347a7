---------------------------- MODULE AnswerCache ----------------------------
(* LlmAnswerCache of llm/cache/__init__.py with the journal file the server *)
(* runs with (state_path): every change of an entry appends one JSON line,  *)
(* a background task compacts the file, a start reads it back, and a change *)
(* of the settings builds a second cache object on the same file while the  *)
(* task of the first one may still be running (bootstrap.py,                *)
(* refresh_answer_service).  The file outlives a crash; nothing else does.  *)
EXTENDS AnswerEntries, Sequences, FiniteSets

CONSTANTS
    Keys,               \* normalised questions
    Objects,            \* cache objects of the process, at most one in service
    CompactMin,         \* STATE_COMPACTION_MIN_RECORDS
    CompactLength,      \* STATE_COMPACTION_BYTES, in lines
    MaxRecordings       \* bound on the recorded answers of a behaviour

VARIABLES
    entries,        \* entries[o][k]: _entries of the cache object o
    recorded,       \* recorded[o]: _state_record_count
    compaction,     \* compaction[o]: the background task of o
    journal,        \* the lines of the journal file
    serving,        \* the object AnswerService uses
    damaged,        \* history: a line was lost since the file was last read
    said,           \* history: said[k], answers recorded for k and not lost
    recordings      \* history: recorded answers so far

cacheVars == <<entries, recorded, compaction, journal, serving, damaged, said, recordings>>

(* A line of the file: a whole record or one that does not parse; the last *)
(* line may lack its line feed.                                            *)
Torn == "torn"
ASSUME CacheAssumption == Torn \notin Keys   \* it stands for no question

Line(k, e) == [key |-> k, entry |-> e, ended |-> TRUE]
TornLine(b) == [key |-> Torn, entry |-> NoEntry, ended |-> b]
Lines == [key : Keys \cup {Torn}, entry : Entry \cup {NoEntry}, ended : BOOLEAN]

NoTask == [at |-> "none", todo |-> {}, count |-> 0, temp |-> <<>>]

OpenTail(j) == j # <<>> /\ ~ j[Len(j)].ended

(* opening the file with "a" and writing l: what follows an unended line is *)
(* part of that line, which then parses no more                             *)
Written(j, l) ==
    IF OpenTail(j) THEN [j EXCEPT ![Len(j)] = TornLine(l.ended)] ELSE Append(j, l)

(* what an append that raises OSError may leave behind *)
FailedAppends(j, l) ==
    {j, Written(j, TornLine(FALSE)), Written(j, [l EXCEPT !.ended = FALSE])}

(* the last whole record of the key k *)
LinesOf(j, k) == {i \in DOMAIN j : j[i].key = k}
LastLine(j, k) == CHOOSE i \in LinesOf(j, k) : \A n \in LinesOf(j, k) : n <= i
LoadedEntries(j) ==
    [k \in Keys |-> IF LinesOf(j, k) = {} THEN NoEntry ELSE j[LastLine(j, k)].entry]
LoadedCount(j) == Cardinality({i \in DOMAIN j : j[i].key # Torn})

(* load_state_journal mends the end of the file: an unended line that does *)
(* not parse is cut off, one that does gets its line feed                  *)
MendedJournal(j) ==
    IF ~ OpenTail(j) THEN j
    ELSE IF j[Len(j)].key = Torn THEN SubSeq(j, 1, Len(j) - 1)
    ELSE [j EXCEPT ![Len(j)].ended = TRUE]

Used(o) == {k \in Keys : entries[o][k] # NoEntry}

CacheInit ==
    /\ entries = [o \in Objects |-> [k \in Keys |-> NoEntry]]
    /\ recorded = [o \in Objects |-> 0]
    /\ compaction = [o \in Objects |-> NoTask]
    /\ journal = <<>>
    /\ serving \in Objects
    /\ damaged = FALSE
    /\ said = [k \in Keys |-> {}]
    /\ recordings = 0

(* _schedule_compaction_if_needed, after the count went to n and the file to j *)
TaskAfter(o, n, used, j) ==
    IF /\ compaction[o].at = "none"
       /\ Len(j) >= CompactLength \/ (n >= CompactMin /\ n >= 2 * Cardinality(used))
    THEN [NoTask EXCEPT !.at = "queued"] ELSE compaction[o]

(* record_model_answer: the entry and its line under one lock.  The line    *)
(* reaches the file, or OSError is swallowed and the count stays.  A query  *)
(* that took the object just before a refresh still records in the old one. *)
Record(o, k, a, force) ==
    LET e    == Recorded(entries[o][k], a, force)
        n    == recorded[o] + 1
        used == Used(o) \cup {k}
    IN
    /\ recordings < MaxRecordings
    /\ recordings' = recordings + 1
    /\ entries' = [entries EXCEPT ![o][k] = e]
    /\ said' = [said EXCEPT ![k] = @ \cup {a}]
    /\ \/ /\ journal' = Written(journal, Line(k, e))
          /\ recorded' = [recorded EXCEPT ![o] = n]
          /\ compaction' = [compaction EXCEPT ![o] = TaskAfter(o, n, used, journal')]
          /\ damaged' = (damaged \/ o # serving)
       \/ /\ journal' \in FailedAppends(journal, Line(k, e))
          /\ damaged' = TRUE
          /\ UNCHANGED <<recorded, compaction>>
    /\ UNCHANGED serving

(* _compact_state_journal takes its snapshot under the lock and opens the *)
(* temporary file; the tasks of two objects share its name ...            *)
TakeSnapshot(o) ==
    /\ compaction[o].at = "queued"
    /\ compaction' = [compaction EXCEPT ![o] =
           [at |-> "writing", todo |-> Used(o), count |-> recorded[o], temp |-> <<>>]]
    /\ damaged' = (damaged \/ \E p \in Objects : compaction[p].at = "writing")
    /\ UNCHANGED <<entries, recorded, journal, serving, said, recordings>>

(* ... writes one live entry after the other to the temporary file, without *)
(* the lock ...                                                             *)
WriteTemp(o, k) ==
    /\ compaction[o].at = "writing"
    /\ k \in compaction[o].todo
    /\ compaction' = [compaction EXCEPT ![o].todo = @ \ {k},
                                        ![o].temp = Append(@, Line(k, entries[o][k]))]
    /\ UNCHANGED <<entries, recorded, journal, serving, damaged, said, recordings>>

(* Faulty variant: the file is replaced although lines were appended *)
NothingAppended(o) == TRUE

(* no line was appended since the snapshot *)
Unappended(o) == recorded[o] = compaction[o].count

(* ... and replaces the file under the lock, if no line was appended since. *)
(* The task of an object that is no longer in service does the same.        *)
ReplaceJournal(o) ==
    /\ compaction[o].at = "writing"
    /\ compaction[o].todo = {}
    /\ IF Unappended(o)
       THEN /\ journal' = compaction[o].temp
            /\ recorded' = [recorded EXCEPT ![o] = Len(compaction[o].temp)]
            /\ damaged' = (damaged \/ o # serving)
       ELSE UNCHANGED <<journal, recorded, damaged>>
    /\ compaction' = [compaction EXCEPT ![o] = NoTask]
    /\ UNCHANGED <<entries, serving, said, recordings>>

(* writing the temporary file fails: the task ends, the file is untouched *)
AbandonCompaction(o) ==
    /\ compaction[o].at = "writing"
    /\ compaction' = [compaction EXCEPT ![o] = NoTask]
    /\ UNCHANGED <<entries, recorded, journal, serving, damaged, said, recordings>>

(* The object o reads the file: load_entries of a new cache.  Only a start *)
(* or an undamaged file makes the history what the entries say.            *)
Opened(o) ==
    /\ journal' = MendedJournal(journal)
    /\ entries' = [entries EXCEPT ![o] = LoadedEntries(journal)]
    /\ recorded' = [recorded EXCEPT ![o] = LoadedCount(journal)]
    /\ serving' = o
    /\ said' = [k \in Keys |->
                  IF ~ damaged THEN said[k]
                  ELSE IF LoadedEntries(journal)[k] = NoEntry THEN {}
                  ELSE {LoadedEntries(journal)[k].answer}]
    /\ damaged' = FALSE
    /\ UNCHANGED recordings

(* refresh_answer_service: a new object serves, the old one is not closed *)
Refresh(o) ==
    /\ o # serving
    /\ compaction[o].at = "none"
    /\ Opened(o)
    /\ UNCHANGED compaction

(* The process dies and is started again.  A crash inside an append leaves *)
(* the outcomes of a failed one; the tasks die with the process.           *)
RestartCache(o) ==
    /\ Opened(o)
    /\ compaction' = [p \in Objects |-> NoTask]

CacheNext ==
    \/ \E o \in Objects, k \in Keys, a \in Answers, force \in BOOLEAN : Record(o, k, a, force)
    \/ \E o \in Objects, k \in Keys : WriteTemp(o, k)
    \/ \E o \in Objects :
          \/ TakeSnapshot(o)
          \/ ReplaceJournal(o)
          \/ AbandonCompaction(o)
          \/ Refresh(o)
          \/ RestartCache(o)

CacheSpec == CacheInit /\ [][CacheNext]_cacheVars

-----------------------------------------------------------------------------
(* Types of the two records the module keeps. *)
CacheTypeOK ==
    /\ entries \in [Objects -> [Keys -> Entry \cup {NoEntry}]]
    /\ recorded \in [Objects -> Nat]
    /\ \A o \in Objects : compaction[o].at \in {"none", "queued", "writing"}
    /\ \A i \in DOMAIN journal : journal[i] \in Lines
    /\ serving \in Objects

(* A start at any moment, in the middle of a compaction too, rebuilds exactly *)
(* the entries the serving cache answers from, unless an append failed or the *)
(* object a refresh replaced wrote to its files since it was last read: the   *)
(* count check of _compact_state_journal loses no line.                       *)
RestartReproduces == ~ damaged => LoadedEntries(journal) = entries[serving]

(* An entry the cache answers with was never contradicted, whatever           *)
(* compactions, restarts and later confirmations came in between: get_trusted *)
(* returns no answer the model disagreed about.                               *)
TrustedUnanimous ==
    ~ damaged =>
        \A k \in Keys :
            entries[serving][k].status = "trusted" => said[k] = {entries[serving][k].answer}
=============================================================================
