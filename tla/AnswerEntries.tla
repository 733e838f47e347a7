--------------------------- MODULE AnswerEntries ---------------------------
(* The state machine of one entry of the answers learned from the model:    *)
(* LlmAnswerCache.record_model_answer of llm/cache/__init__.py.  An entry   *)
(* is what the cache keeps under one question key.  AnswerCache says how    *)
(* entries reach the disk, QuestionBank how they meet the question records. *)
EXTENDS Naturals

CONSTANTS
    Answers,            \* normalised candidate answers
    MinConfirmations    \* equal answers that make an entry trusted

ASSUME ConfirmationsAssumption == MinConfirmations \in Nat \ {0}

NoEntry == [status |-> "none"]

(* CachedLlmAnswer: the fields the state machine reads *)
Entry ==
    [ answer        : Answers,
      confirmations : Nat,
      conflicts     : Nat,
      status        : {"pending", "trusted", "conflict"} ]

(* the first answer recorded for a question *)
FirstEntry(a, force) ==
    [ answer        |-> a,
      confirmations |-> 1,
      conflicts     |-> 0,
      status        |-> IF force \/ MinConfirmations <= 1 THEN "trusted" ELSE "pending" ]

(* a different answer: the entry is contested from now on *)
Contested(e) == [e EXCEPT !.conflicts = @ + 1, !.status = "conflict"]

(* Faulty variant: enough later confirmations clear a conflict *)
ConfirmedAnyway(e, force) ==
    [e EXCEPT !.confirmations = @ + 1,
              !.status = IF force \/ e.confirmations + 1 >= MinConfirmations THEN "trusted" ELSE @]

(* the same answer again: trusted when it never met a conflict *)
Confirmed(e, force) ==
    [e EXCEPT !.confirmations = @ + 1,
              !.status = IF e.conflicts = 0 /\ (force \/ e.confirmations + 1 >= MinConfirmations)
                         THEN "trusted" ELSE @]

(* record_model_answer under the lock of the cache *)
Recorded(e, a, force) ==
    IF e = NoEntry THEN FirstEntry(a, force)
    ELSE IF e.answer # a THEN Contested(e)
    ELSE Confirmed(e, force)
=============================================================================
