---------------------------- MODULE QuestionBank ----------------------------
(* What the server knows about one question, in the three places it is kept: *)
(* the row of the question table (storage/repositories/questions.py), the    *)
(* in-memory index (search/__init__.py) and the learned answer               *)
(* (AnswerEntries).  Queries look the answer up and learn a new one          *)
(* (answering/service.py, answering/persistence.py), administrators edit,    *)
(* delete and reindex (api/v1/questions/router.py), and a start synchronises *)
(* the table with the JSONL files and loads the index from it (api/app.py).  *)
(* Every request runs in its own thread and no lock spans two of the places. *)
(* The one question is a text.  A query in pictures whose text was recognised *)
(* as this one looks for nothing here and learns here; a query of this text   *)
(* that learns under the text of its pictures changes nothing here.           *)
EXTENDS AnswerEntries, FiniteSets

CONSTANTS
    Requests,           \* threads serving requests
    MaxRequests         \* bound on the requests of a behaviour

VARIABLES
    row,        \* the row of the question table
    index,      \* the answer the local index holds
    entry,      \* the entry of the answer cache, which its journal preserves
    file,       \* the answer of the JSONL files
    synced,     \* startup_index_signature: the file last synchronised
    request,    \* request[t]: what thread t is doing
    requests,   \* requests so far
    learned,    \* history: answers the model gave with enough confidence
    reviewed,   \* history: answers an administrator or the files stand for
    crowded,    \* history: the requests in progress overlap, or the last ones did
    apart       \* history: something happened after which row and index may differ

historyVars == <<learned, reviewed, crowded, apart>>
bankVars == <<row, index, entry, file, synced, request, requests, historyVars>>

NoAnswer == "no answer"
NoRow == [answer |-> NoAnswer, status |-> "none"]

(* the statuses the code distinguishes; "trusted" stands for every status that *)
(* is not in NON_INDEXABLE_QUESTION_STATUSES                                   *)
Statuses == {"trusted", "low_confidence", "non_reusable", "disabled", "deleted"}
Rows == [answer : Answers, status : Statuses] \cup {NoRow}

(* Faulty variant: an answer of low confidence may be indexed *)
IndexableUnlessRemoved(r) == r.status \in {"trusted", "low_confidence"}

(* question_record_is_indexable *)
Indexable(r) == r.status = "trusted"

(* list_indexable_records *)
IndexOf(r) == IF Indexable(r) THEN r.answer ELSE NoAnswer

Resting == [at |-> "resting"]
RequestType ==
    {Resting}
    \cup [at : {"look1", "look2", "look3", "look4", "model", "unindex"}]
    \cup [at : {"save", "record"}, answer : Answers, status : Statuses]
    \cup [at : {"publish"}, answer : Answers]
    \cup [at : {"write", "apply"}, row : Rows]
    \cup [at : {"replace"}, index : Answers \cup {NoAnswer}]

BankInit ==
    /\ row = NoRow
    /\ index = NoAnswer
    /\ entry = NoEntry
    /\ file = NoAnswer
    /\ synced = NoAnswer
    /\ request = [t \in Requests |-> Resting]
    /\ requests = 0
    /\ learned = {}
    /\ reviewed = {}
    /\ crowded = FALSE
    /\ apart = FALSE

AllResting == \A t \in Requests : request[t] = Resting

Begin(t, r) ==
    /\ request[t] = Resting
    /\ requests < MaxRequests
    /\ requests' = requests + 1
    /\ request' = [request EXCEPT ![t] = r]
    /\ crowded' = ~ AllResting
    /\ apart' = (apart \/ ~ AllResting)

Goes(t, r) == request' = [request EXCEPT ![t] = r] /\ UNCHANGED requests

(* AnswerService.query: the exact index, the learned answer, the index again    *)
(* (exact before fuzzy), and _model_fallback reads the learned answer once more *)
BeginQuery(t) ==
    /\ Begin(t, [at |-> "look1"])
    /\ UNCHANGED <<row, index, entry, file, synced, learned, reviewed>>

(* A look is skipped with no_local_bank_mode, which may be set at any time; the *)
(* index is skipped for a question in pictures only, the learned answer for     *)
(* every question with pictures, or when it does not fit this one.              *)
Look(t) ==
    /\ \E n \in 1..4, skipped \in BOOLEAN :
          LET here == <<"look1", "look2", "look3", "look4">>[n]
              next == <<"look2", "look3", "look4", "model">>[n]
              hit  == IF n \in {1, 3} THEN index # NoAnswer ELSE entry.status = "trusted"
          IN /\ request[t].at = here
             /\ Goes(t, IF hit /\ ~ skipped THEN Resting ELSE [at |-> next])
             /\ apart' = (apart \/ (hit /\ skipped))
    /\ UNCHANGED <<row, index, entry, file, synced, learned, reviewed, crowded>>

(* The model answers after the retries of retry_model_answer, or every attempt *)
(* failed, nothing in the answer can be filled in, or it belongs to the text   *)
(* of the pictures.  learned_status grades the answer.                         *)
ModelAnswers(t, a, status) ==
    /\ request[t].at = "model"
    /\ Goes(t, [at |-> "save", answer |-> a, status |-> status])
    /\ learned' = IF status = "trusted" THEN learned \cup {a} ELSE learned
    /\ UNCHANGED <<row, index, entry, file, synced, reviewed, crowded, apart>>

ModelFails(t) ==
    /\ request[t].at = "model"
    /\ Goes(t, Resting)
    /\ UNCHANGED <<row, index, entry, file, synced, historyVars>>

(* persist_model_answer_record overwrites the row, whatever its status; an    *)
(* exception of the repository is swallowed.  With an answer cache the answer *)
(* goes there next, without one a saved answer goes to the index.             *)
SaveAnswer(t) ==
    /\ request[t].at = "save"
    /\ \E saved, caching \in BOOLEAN :
          /\ row' = IF saved THEN [answer |-> request[t].answer, status |-> request[t].status] ELSE row
          /\ apart' = (apart \/ ~ saved)
          /\ Goes(t, IF request[t].status = "trusted" /\ caching
                     THEN [request[t] EXCEPT !.at = "record"]
                     ELSE IF request[t].status = "trusted" /\ saved
                          THEN [at |-> "publish", answer |-> request[t].answer] ELSE Resting)
    /\ UNCHANGED <<index, entry, file, synced, learned, reviewed, crowded>>

(* only an answer the cache trusts goes to the index *)
Published(e) == e.status = "trusted"

(* record_model_answer with force_trusted, as a question repository is there; *)
(* it takes no answer to a question with pictures or of a wrong shape         *)
RecordAnswer(t) ==
    /\ request[t].at = "record"
    /\ \/ /\ entry' = Recorded(entry, request[t].answer, TRUE)
          /\ Goes(t, IF Published(entry') THEN [at |-> "publish", answer |-> request[t].answer] ELSE Resting)
          /\ apart' = (apart \/ ~ Published(entry'))
       \/ /\ entry' = entry
          /\ Goes(t, Resting)
          /\ apart' = TRUE
    /\ UNCHANGED <<row, index, file, synced, learned, reviewed, crowded>>

(* index.add_or_replace *)
PublishAnswer(t) ==
    /\ request[t].at = "publish"
    /\ index' = request[t].answer
    /\ Goes(t, Resting)
    /\ UNCHANGED <<row, entry, file, synced, historyVars>>

(* question_update reads the whole record, deleted or not, and changes the *)
(* answer, the status or other columns ...                                 *)
BeginEdit(t, a, status) ==
    /\ row # NoRow
    /\ Begin(t, [at |-> "write", row |-> [answer |-> a, status |-> status]])
    /\ a # row.answer => status \in {row.status, "trusted"}
    /\ reviewed' = IF a # row.answer \/ status # row.status THEN reviewed \cup {a} ELSE reviewed
    /\ UNCHANGED <<row, index, entry, file, synced, learned>>

(* ... saves the whole record, or answers 500 ... *)
WriteEdit(t) ==
    /\ request[t].at = "write"
    /\ \/ row' = request[t].row /\ Goes(t, [request[t] EXCEPT !.at = "apply"])
       \/ row' = row /\ Goes(t, Resting)
    /\ UNCHANGED <<index, entry, file, synced, historyVars>>

(* An administrator's change that nothing overlapped leaves row and index equal *)
Resynchronises == apart' = (apart /\ crowded) /\ UNCHANGED <<learned, reviewed, crowded>>

(* ... and then puts it into the index, or takes it out *)
ApplyEdit(t) ==
    /\ request[t].at = "apply"
    /\ index' = IndexOf(request[t].row)
    /\ Goes(t, Resting)
    /\ Resynchronises
    /\ UNCHANGED <<row, entry, file, synced>>

(* Faulty variant: a deletion leaves the index alone *)
IndexAfterDeletionKept == index

(* index.remove *)
IndexAfterDeletion == NoAnswer

(* question_delete: soft_delete_question_record, then index.remove *)
BeginDelete(t) ==
    /\ row # NoRow
    /\ Begin(t, [at |-> "unindex"])
    /\ row' = [row EXCEPT !.status = "deleted"]
    /\ UNCHANGED <<index, entry, file, synced, learned, reviewed>>

Unindex(t) ==
    /\ request[t].at = "unindex"
    /\ index' = IndexAfterDeletion
    /\ Goes(t, Resting)
    /\ Resynchronises
    /\ UNCHANGED <<row, entry, file, synced>>

(* questions_reindex: the records are read, then the index is replaced *)
BeginReindex(t) ==
    /\ Begin(t, [at |-> "replace", index |-> IndexOf(row)])
    /\ UNCHANGED <<row, index, entry, file, synced, learned, reviewed>>

ReplaceIndex(t) ==
    /\ request[t].at = "replace"
    /\ index' = request[t].index
    /\ Goes(t, Resting)
    /\ Resynchronises
    /\ UNCHANGED <<row, entry, file, synced>>

(* sync_from_index: changed files overwrite every row that is not deleted *)
SyncedRow(f) ==
    IF f = synced \/ f = NoAnswer \/ row.status = "deleted" THEN row
    ELSE [answer |-> f, status |-> "trusted"]

(* The process dies and starts: the requests are lost, the files may have *)
(* changed, create_app synchronises the table and loads the index from it *)
RestartBank(f) ==
    /\ file' = f
    /\ synced' = f
    /\ reviewed' = IF f = NoAnswer THEN reviewed ELSE reviewed \cup {f}
    /\ row' = SyncedRow(f)
    /\ index' = IndexOf(row')
    /\ request' = [t \in Requests |-> Resting]
    /\ crowded' = FALSE
    /\ apart' = FALSE
    /\ UNCHANGED <<entry, requests, learned>>

BankNext ==
    \/ \E t \in Requests :
          \/ BeginQuery(t)
          \/ Look(t)
          \/ ModelFails(t)
          \/ SaveAnswer(t)
          \/ RecordAnswer(t)
          \/ PublishAnswer(t)
          \/ WriteEdit(t)
          \/ ApplyEdit(t)
          \/ BeginDelete(t)
          \/ Unindex(t)
          \/ BeginReindex(t)
          \/ ReplaceIndex(t)
    \/ \E t \in Requests, a \in Answers :
          \/ \E s \in {"trusted", "low_confidence", "non_reusable"} : ModelAnswers(t, a, s)
          \/ \E s \in Statuses \ {"deleted"} : BeginEdit(t, a, s)
    \/ \E f \in Answers \cup {NoAnswer} : RestartBank(f)

BankSpec == BankInit /\ [][BankNext]_bankVars

-----------------------------------------------------------------------------
BankTypeOK ==
    /\ row \in Rows
    /\ {index, file, synced} \subseteq Answers \cup {NoAnswer}
    /\ entry \in Entry \cup {NoEntry}
    /\ request \in [Requests -> RequestType]
    /\ learned \in SUBSET Answers
    /\ reviewed \in SUBSET Answers
    /\ crowded \in BOOLEAN /\ apart \in BOOLEAN

(* Whatever is served from the index or from the cache was given by the model *)
(* with enough confidence or stands in the files or in an edit: a low         *)
(* confidence or non-reusable answer is never served, not after an edit of    *)
(* another thread, a reindex or a restart either.                             *)
ServedIsVouched ==
    /\ index # NoAnswer => index \in learned \cup reviewed
    /\ entry.status = "trusted" => entry.answer \in learned

(* Once the process has started, or an edit, a deletion or a reindex that nothing *)
(* overlapped has ended, whatever happened before it, the index serves what the   *)
(* table says and goes on to, through queries that learn, further changes and     *)
(* restarts, as long as requests do not overlap, saves succeed, and no query      *)
(* passes over an answer it could have found here (no_local_bank_mode, pictures)  *)
(* or learns one that is kept from the index (pictures, contradicted).            *)
IndexAgreesAlone == ~ apart /\ AllResting => index = IndexOf(row)

(* docs/services/ocs-usage-cn.md:131: an answer the model contradicted goes to *)
(* "conflict" and is not used to answer.  Two queries that learn at once leave *)
(* the first answer in the index.                                              *)
ContestedNotServed ==
    entry.status = "conflict" /\ index # NoAnswer => index \in reviewed
=============================================================================
