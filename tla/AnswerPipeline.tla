--------------------------- MODULE AnswerPipeline ---------------------------
(* How the answer of a model is obtained, for the queries of one question:     *)
(* the attempts of answering/retry.py around the searches, answers, checks     *)
(* and repetitions of llm/orchestration/search_augmented.py, each of which     *)
(* tries the models in order (llm/providers/multi_model.py), each of which     *)
(* tries three forms of the request and the text an OCR finds in the images    *)
(* (llm/providers/openai_compatible.py).  A search asks the engines in turn    *)
(* and spares one that failed for a while (llm/tools/web_search/providers.py). *)
EXTENDS Naturals, FiniteSets

CONSTANTS
    Members,        \* number of active models, tried in this order
    Engines,        \* number of search engines
    RetryTimes,     \* answer_retry_times
    Repeats,        \* self_consistency_repeats
    Cooldown,       \* cooldown_seconds of CompositeWebSearchProvider
    MaxQueries,     \* bound on the queries of a behaviour
    MaxTicks        \* bound on the clock

ASSUME PipelineAssumption ==
    /\ Members \in Nat \ {0} /\ Engines \in Nat \ {0}
    /\ RetryTimes \in Nat /\ Repeats \in Nat \ {0} /\ Cooldown \in Nat

VARIABLES
    question,       \* what the code reads of the configuration and the question
    stage,          \* the operation under way
    attempt,        \* attempt of retry_model_answer
    round,          \* repetition of _run_consensus
    call,           \* the model, the tier and the form of the request under way
    engine,         \* the engine to ask next
    found,          \* an engine of this search found something
    cached,         \* _search_cache of the question
    coolUntil,      \* _disabled_until
    ticks,          \* the clock
    queries,        \* queries so far
    raised,         \* history: models that failed in this operation
    exhausted       \* history: attempts of this query that ended with no model left

pipelineVars == <<question, stage, attempt, round, call, engine, found, cached,
                  coolUntil, ticks, queries, raised, exhausted>>

Questions ==
    { q \in [ search : {"off", "first", "later"},          \* no web search; search_first
              kind   : {"choice", "many"},                 \* "many": multiple choice, completion
              images : {"none", "inline", "address"} ] :
        q.search = "later" => q.kind = "choice" }          \* search_first_types

(* the operations that call the models *)
Answering == {"answer", "second", "evidence"}
Checking == {"check", "check_second", "check_evidence", "check_plain", "last_check", "last_plain"}

FirstCall == [member |-> 1, tier |-> "plain", form |-> 1]
Forms == 3                                  \* _chat_payload_variants

PipelineInit ==
    /\ question \in Questions
    /\ stage = "idle"
    /\ attempt = 0 /\ round = 0 /\ queries = 0 /\ exhausted = 0 /\ ticks = 0
    /\ call = FirstCall
    /\ engine = 1
    /\ found = FALSE
    /\ cached = "unknown"
    /\ coolUntil = [e \in 1..Engines |-> 0]
    /\ raised = {}

(* the operation s begins: the models are tried from the first *)
Enter(s) ==
    /\ stage' = s
    /\ call' = FirstCall
    /\ raised' = {}
    /\ engine' = 1
    /\ found' = FALSE

SearchKept == UNCHANGED <<cached, coolUntil, ticks>>

(* SearchAugmentedModelProvider.answer; a question whose images could not be *)
(* loaded is not asked at all                                                *)
FirstStage == IF question.search = "first" THEN "search" ELSE "answer"

AskModel ==
    /\ stage = "idle"
    /\ queries < MaxQueries
    /\ queries' = queries + 1
    /\ attempt' = 1 /\ round' = 0 /\ exhausted' = 0
    /\ \/ Enter(FirstStage)
       \/ question.images # "none" /\ Enter("unreadable")
    /\ SearchKept
    /\ UNCHANGED question

-----------------------------------------------------------------------------
(* One request to the model under way and what follows it. *)

Sends(c) == call' = c /\ UNCHANGED <<stage, attempt, round, engine, found, raised, exhausted>>

(* The stage after an operation that returned.  A check that fails leaves the *)
(* answer as it was; Followers names the stages the confidence, the type and  *)
(* the comparison of two answers may lead to.                                 *)
Followers(s) ==
    CASE s = "answer"         -> IF question.search = "off" THEN {"answered"} ELSE {"check"}
      [] s = "check"          -> IF question.search = "first" THEN {"answered"} ELSE {"second", "search"}
      [] s = "second"         -> {"check_second"}
      [] s = "check_second"   -> {"answered", "search"}
      [] s = "evidence"       -> {"check_evidence"}
      [] s \in {"check_evidence", "check_plain"} ->
             (IF round < Repeats /\ question.kind = "many" THEN {"evidence"} ELSE {})
             \cup (IF round = 1 \/ round = Repeats \/ question.kind = "choice"
                   THEN {IF question.search = "first" THEN "answered" ELSE "last_check"} ELSE {})
      [] s \in {"last_check", "last_plain"} -> {"answered"}

(* The stage after an operation no model could do: a check with evidence is   *)
(* repeated without, any other check keeps the answer, an answer is an error. *)
AfterFailure(s) ==
    CASE s = "check_evidence" -> {"check_plain"}
      [] s = "last_check"     -> {"last_plain"}
      [] s \in Checking \ {"check_evidence", "last_check"} -> Followers(s)
      [] s \in Answering      -> {"attempt_failed"}

Proceed(s) ==
    /\ Enter(s)
    /\ round' = IF s = "evidence" THEN round + 1 ELSE round
    /\ UNCHANGED attempt

(* Faulty variant: the chain gives up at the first model that fails *)
NoFailover(m) == FALSE

(* MultiModelProvider._run goes on to the next model *)
HasNext(m) == m < Members

(* the model under way raised *)
MemberFails ==
    /\ IF HasNext(call.member)
       THEN /\ call' = [FirstCall EXCEPT !.member = call.member + 1]
            /\ raised' = raised \cup {call.member}
            /\ UNCHANGED <<stage, attempt, round, engine, found, exhausted>>
       ELSE /\ \E s \in AfterFailure(stage) : Proceed(s)
            /\ exhausted' = IF stage \in Answering /\ raised \cup {call.member} = 1..Members
                            THEN exhausted + 1 ELSE exhausted

(* The except branch of _answer runs the OCR for images given by address, also *)
(* when what failed was the call on the text an OCR had found.                 *)
OcrAgain(tier) == tier # "ocr_again"

Calling == stage \in Answering \cup Checking

(* the model answers; an answer on unreadable images counts if the OCR finds none *)
ModelReturns ==
    /\ Calling
    /\ \E s \in Followers(stage) : Proceed(s)
    /\ SearchKept /\ UNCHANGED <<question, queries, exhausted>>

(* the model says the images are unreadable and the OCR finds text in them *)
ImagesUnreadable ==
    /\ Calling
    /\ question.images # "none" /\ call.tier = "plain"
    /\ Sends([call EXCEPT !.tier = "ocr", !.form = 1])
    /\ SearchKept /\ UNCHANGED <<question, queries>>

(* the gateway refuses the token parameter: the next form of the request *)
FormRefused ==
    /\ Calling
    /\ call.form < Forms
    /\ Sends([call EXCEPT !.form = @ + 1])
    /\ SearchKept /\ UNCHANGED <<question, queries>>

(* any other error, a refusal of the last form, an answer that cannot be read *)
ModelRaises ==
    /\ Calling
    /\ \/ /\ question.images = "address" /\ OcrAgain(call.tier)
          /\ Sends([call EXCEPT !.tier = "ocr_again", !.form = 1])
       \/ MemberFails
    /\ SearchKept /\ UNCHANGED <<question, queries>>

-----------------------------------------------------------------------------
(* _search: the cached results, or the engines that are not cooling down. *)

AfterSearch(hit) ==
    IF hit THEN {"evidence"} \cup (IF question.kind = "many" THEN {"answered"} ELSE {})
    ELSE IF question.search = "first" THEN {"answer"} ELSE {"answered"}

SearchEnds(hit) ==
    /\ \E s \in AfterSearch(hit) : Proceed(s)
    /\ cached' = IF hit THEN "found" ELSE "empty"
    /\ UNCHANGED <<question, queries, exhausted, ticks>>

SearchCached ==
    /\ stage = "search" /\ cached # "unknown"
    /\ SearchEnds(cached = "found")
    /\ UNCHANGED coolUntil

(* the engine at turn is skipped, fails, or answers with or without results *)
AskEngine ==
    /\ stage = "search" /\ cached = "unknown" /\ engine <= Engines
    /\ \E reply \in {"skipped", "error", "nothing", "results"} :
          /\ (reply = "skipped") <=> (coolUntil[engine] > ticks)
          /\ coolUntil' = IF reply = "error" THEN [coolUntil EXCEPT ![engine] = ticks + Cooldown] ELSE coolUntil
          /\ found' = (found \/ reply = "results")
    /\ engine' = engine + 1
    /\ UNCHANGED <<question, stage, attempt, round, call, cached, ticks, queries, raised, exhausted>>

EnginesAsked ==
    /\ stage = "search" /\ cached = "unknown" /\ engine > Engines
    /\ SearchEnds(found)
    /\ UNCHANGED coolUntil

-----------------------------------------------------------------------------
AttemptLeft == attempt <= RetryTimes

(* retry_model_answer: the whole pipeline again, then MODEL_ERROR *)
RetryAttempt ==
    /\ stage = "attempt_failed"
    /\ IF AttemptLeft
       THEN Enter(FirstStage) /\ attempt' = attempt + 1 /\ round' = 0
       ELSE Enter("failed") /\ UNCHANGED <<attempt, round>>
    /\ SearchKept /\ UNCHANGED <<question, queries, exhausted>>

(* the query is answered, with an answer or an error *)
FinishQuery ==
    /\ stage \in {"answered", "failed", "unreadable"}
    /\ Enter("idle")
    /\ SearchKept /\ UNCHANGED <<question, attempt, round, queries, exhausted>>

TickPipeline ==
    /\ ticks < MaxTicks
    /\ ticks' = ticks + 1
    /\ UNCHANGED <<question, stage, attempt, round, call, engine, found, cached,
                   coolUntil, queries, raised, exhausted>>

PipelineNext ==
    \/ AskModel
    \/ ModelReturns
    \/ ImagesUnreadable
    \/ FormRefused
    \/ ModelRaises
    \/ SearchCached
    \/ AskEngine
    \/ EnginesAsked
    \/ RetryAttempt
    \/ FinishQuery
    \/ TickPipeline

PipelineSpec == PipelineInit /\ [][PipelineNext]_pipelineVars

-----------------------------------------------------------------------------
PipelineTypeOK ==
    /\ question \in Questions
    /\ stage \in Answering \cup Checking \cup {"idle", "search", "attempt_failed", "answered", "failed", "unreadable"}
    /\ attempt \in 0..(RetryTimes + 1)
    /\ round \in 0..Repeats
    /\ call \in [member : 1..Members, tier : {"plain", "ocr", "ocr_again"}, form : 1..Forms]
    /\ engine \in 1..(Engines + 1)
    /\ cached \in {"unknown", "found", "empty"}
    /\ raised \subseteq 1..Members

(* A query ends with MODEL_ERROR only when in each of its attempts every active *)
(* model was asked for an answer and failed: no failure of a check, of a search *)
(* or of one model loses the answer of another.                                 *)
FailsWhenExhausted == stage = "failed" => exhausted = RetryTimes + 1
=============================================================================
