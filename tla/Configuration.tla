---------------------------- MODULE Configuration ----------------------------
(***************************************************************************)
(* Settings, language-model rows and the answer service that is rebuilt    *)
(* from them while it runs.                                                *)
(*                                                                         *)
(* Source: platform/settings/service.py, llm/config/service.py, bootstrap  *)
(* and the routers that change a setting and then refresh the service.     *)
(*                                                                         *)
(* Every read and every write of a setting is atomic (a lock around one    *)
(* transaction); a refresh takes no lock, reads the rows one after the     *)
(* other and assigns the fields of the running service one after the other.*)
(***************************************************************************)
EXTENDS Naturals

CONSTANTS
  Editors,   \* requests of administrators in progress
  Models,    \* identifiers of language models
  Outcomes,     \* kinds of answers that cost points
  MaxChanges, MaxFailedReads   \* bounds

ASSUME ConfigurationAssumption == MaxChanges \in Nat /\ MaxFailedReads \in Nat

Modes == {"unset", "optional", "required", "verified"}
\* system_config; "mail" is host, sender and user name of the mail server.
SystemType  == [mode : Modes, legacy_mode : {"yes", "no"}, mail : {"yes", "no"},
                password : {"yes", "no"}, retries : {"few", "many"}]
\* What a request changes; a blank password is left out of it.
SystemEdit  == [mode : {"keep", "optional", "required", "verified"},
                legacy_mode : {"keep", "yes", "no"}, mail : {"keep", "yes", "no"},
                password : {"keep", "yes"}, retries : {"keep", "few", "many"}]
RuntimeKeys == {"fallback", "cache", "no_bank", "search"}
ModelState  == {"absent", "active", "inactive", "disabled"}
ServedType  == [chain : SUBSET Models, search : BOOLEAN, fallback : BOOLEAN,
                no_bank : BOOLEAN, cache : BOOLEAN, retries : {"few", "many"}]

VARIABLES
  system, runtime, models, billing,  \* the rows
  legacy,    \* system_config still holds the model settings of old versions
  boot,      \* step of the start, "up" when requests are answered
  served,    \* the fields of the running AnswerService
  editor,    \* progress of each request
  changes, failedReads,
  asked,     \* history: the prices last asked for
  overlapped \* history: two requests were in progress at once since the start

configVars == <<system, runtime, models, billing, legacy, boot, served, editor,
                changes, failedReads, asked, overlapped>>
rows == <<system, runtime, models, billing, legacy>>
history == <<changes, asked, overlapped>>

Resting  == [stage |-> "rest"]
RuntimeType == [RuntimeKeys -> BOOLEAN]
\* The stages of a refresh, with what it has read so far.
EditorType ==
       {Resting}
  \cup [stage : {"saved", "stack", "flags", "retries", "assign", "rest_of_it"},
        first : RuntimeType, chain : SUBSET Models, flags : RuntimeType,
        retries : {"few", "many"}]
  \cup [stage : {"prices"}, copy : [Outcomes -> {0, 1}], item : Outcomes, price : {0, 1}]

ConfigTypeOK ==
  /\ system \in SystemType /\ runtime \in RuntimeType
  /\ models \in [Models -> ModelState] /\ billing \in [Outcomes -> {0, 1}]
  /\ legacy \in BOOLEAN /\ boot \in {"migrate", "model", "system", "build", "up"}
  /\ served \in ServedType /\ editor \in [Editors -> EditorType]
  /\ changes \in 0 .. MaxChanges /\ failedReads \in 0 .. MaxFailedReads
  /\ asked \in [Outcomes -> {0, 1}] /\ overlapped \in BOOLEAN

-----------------------------------------------------------------------------
DefaultRuntime == [k \in RuntimeKeys |-> k \in {"fallback", "cache"}]
DefaultSystem  == [mode |-> "unset", legacy_mode |-> "no", mail |-> "no",
                   password |-> "no", retries |-> "few"]

\* active_llm_models
Active == {m \in Models : models[m] = "active"}

\* build_provider_stack and the flags: search and cache need a model, and the
\* cache is not used when the answers are not to come from the local bank.
Built(first, chain, flags, retries) ==
  [chain    |-> chain,
   search   |-> chain /= {} /\ first["search"],
   fallback |-> chain /= {} /\ flags["fallback"],
   no_bank  |-> flags["no_bank"],
   cache    |-> chain /= {} /\ first["cache"] /\ ~first["no_bank"],
   retries  |-> retries]

\* A new installation, or one of a version that kept everything in system_config.
ConfigInit ==
  /\ \/ system = DefaultSystem /\ legacy = FALSE
     \/ /\ legacy = TRUE
        /\ system \in {[DefaultSystem EXCEPT !.legacy_mode = v, !.mail = v, !.password = v] :
                         v \in {"yes", "no"}}
  /\ runtime = DefaultRuntime
  /\ models = [m \in Models |-> "absent"]
  /\ billing = [i \in Outcomes |-> 1] /\ asked = billing
  /\ boot = "migrate"
  /\ served = Built(runtime, {}, runtime, "few")
  /\ editor = [e \in Editors |-> Resting]
  /\ changes = 0 /\ failedReads = 0 /\ overlapped = FALSE

-----------------------------------------------------------------------------
(* The start: migrate_legacy_llm_settings in three transactions, then       *)
(* build_answer_service.                                                    *)

Booting(stage, next) == boot = stage /\ boot' = next

\* Values set since are kept; the old ones say "search first" here.
MigrateRuntime ==
  /\ Booting("migrate", IF legacy THEN "model" ELSE "build")
  /\ runtime' = IF legacy /\ runtime = DefaultRuntime
                THEN [runtime EXCEPT !["search"] = TRUE] ELSE runtime
  /\ UNCHANGED <<system, models, billing, legacy, served, editor, failedReads, history>>

MigrateModel ==
  /\ Booting("model", "system")
  /\ \E m \in Models :
       models' = IF \A n \in Models : models[n] = "absent"
                 THEN [models EXCEPT ![m] = "active"] ELSE models
  /\ UNCHANGED <<system, runtime, billing, legacy, served, editor, failedReads, history>>

\* The rows are replaced by the defaults under what was stored: the mail mode
\* becomes the default, "optional", when only the old flag was stored.
MigrateSystem ==
  /\ Booting("system", "build")
  /\ system' = IF system.mode = "unset" THEN [system EXCEPT !.mode = "optional"] ELSE system
  /\ legacy' = FALSE
  /\ UNCHANGED <<runtime, models, billing, served, editor, failedReads, history>>

\* The models are read with every error caught: none is found then.
BuildService ==
  /\ Booting("build", "up")
  /\ \/ served' = Built(runtime, Active, runtime, system.retries) /\ UNCHANGED failedReads
     \/ /\ failedReads < MaxFailedReads /\ failedReads' = failedReads + 1
        /\ served' = Built(runtime, {}, runtime, system.retries)
  /\ UNCHANGED <<rows, editor, history>>

\* The process stops at any point and starts again.
Restart ==
  /\ boot' = "migrate"
  /\ boot /= "migrate"
  /\ editor' = [e \in Editors |-> Resting]
  /\ overlapped' = FALSE /\ asked' = billing
  /\ UNCHANGED <<rows, served, failedReads, changes>>

-----------------------------------------------------------------------------
(* The requests: each saves, then refreshes.                                *)

AllRest == \A e \in Editors : editor[e] = Resting
JustSaved == [stage |-> "saved", first |-> DefaultRuntime, chain |-> {},
          flags |-> DefaultRuntime, retries |-> "few"]

Begins(e, next) ==
  /\ boot = "up" /\ editor[e] = Resting
  /\ changes < MaxChanges /\ changes' = changes + 1
  /\ editor' = [editor EXCEPT ![e] = next]
  /\ overlapped' = (overlapped \/ ~AllRest)

\* get_registration_email_mode
EmailMode(s) ==
  IF s.mode /= "unset" THEN s.mode
  ELSE IF s.legacy_mode = "yes" THEN "verified" ELSE "optional"

\* What the rows would be must be able to send mail when mail is verified.
Complete(edit, s) ==
  EmailMode(s) = "verified" => s.mail = "yes" /\ s.password = "yes"

SetSystemConfig(e, edit) ==
  LET next == [k \in DOMAIN system |-> IF edit[k] = "keep" THEN system[k] ELSE edit[k]]
  IN /\ Begins(e, JustSaved)
     /\ Complete(edit, next) /\ next /= system
     /\ system' = next
     /\ UNCHANGED <<runtime, models, billing, legacy, boot, served, failedReads, asked>>

SetRuntimeConfig(e, k, v) ==
  /\ Begins(e, JustSaved)
  /\ runtime[k] /= v /\ runtime' = [runtime EXCEPT ![k] = v]
  /\ UNCHANGED <<system, models, billing, legacy, boot, served, failedReads, asked>>

\* create, update and delete
SaveModel(e, m, s) ==
  /\ Begins(e, JustSaved)
  /\ models[m] /= s /\ models' = [models EXCEPT ![m] = s]
  /\ UNCHANGED <<system, runtime, billing, legacy, boot, served, failedReads, asked>>

\* set_billing copies all prices under the lock and replaces all of them
\* under the lock it takes anew; no refresh follows.
ReadPrices(e, i, v) ==
  /\ Begins(e, [stage |-> "prices", copy |-> billing, item |-> i, price |-> v])
  /\ UNCHANGED <<rows, boot, served, failedReads, asked>>

WritePrices(e) ==
  /\ editor[e].stage = "prices"
  /\ billing' = [editor[e].copy EXCEPT ![editor[e].item] = editor[e].price]
  /\ asked' = [asked EXCEPT ![editor[e].item] = editor[e].price]
  /\ editor' = [editor EXCEPT ![e] = Resting]
  /\ UNCHANGED <<system, runtime, models, legacy, boot, served, changes, failedReads, overlapped>>

\* One stage of refresh_answer_service.
Goes(e, stage, next) ==
  /\ boot = "up" /\ editor[e].stage = stage
  /\ editor' = [editor EXCEPT ![e] = next]
  /\ UNCHANGED <<rows, boot, history>>

ReadForStack(e) ==
  /\ Goes(e, "saved", [editor[e] EXCEPT !.stage = "stack", !.first = runtime])
  /\ UNCHANGED <<served, failedReads>>

ReadModels(e) ==
  \/ /\ Goes(e, "stack", [editor[e] EXCEPT !.stage = "flags", !.chain = Active])
     /\ UNCHANGED <<served, failedReads>>
  \/ /\ Goes(e, "stack", [editor[e] EXCEPT !.stage = "flags", !.chain = {}])
     /\ failedReads < MaxFailedReads /\ failedReads' = failedReads + 1
     /\ UNCHANGED served

ReadFlags(e) ==
  /\ Goes(e, "flags", [editor[e] EXCEPT !.stage = "retries", !.flags = runtime])
  /\ UNCHANGED <<served, failedReads>>

ReadRetries(e) ==
  /\ Goes(e, "retries", [editor[e] EXCEPT !.stage = "assign", !.retries = system.retries])
  /\ UNCHANGED <<served, failedReads>>

Result(e) == Built(editor[e].first, editor[e].chain, editor[e].flags, editor[e].retries)

\* A query may run between the assignments.
AssignProvider(e) ==
  /\ Goes(e, "assign", [editor[e] EXCEPT !.stage = "rest_of_it"])
  /\ served' = [served EXCEPT !.chain = Result(e).chain, !.search = Result(e).search]
  /\ UNCHANGED failedReads

\* Faulty variant: the cache built before stays in use.
RestOfItOldCache(e) == [Result(e) EXCEPT !.cache = served.cache, !.chain = served.chain,
                                         !.search = served.search]
RestOfIt(e) == [Result(e) EXCEPT !.chain = served.chain, !.search = served.search]

AssignRest(e) ==
  /\ Goes(e, "rest_of_it", Resting)
  /\ served' = RestOfIt(e)
  /\ UNCHANGED failedReads

-----------------------------------------------------------------------------
ConfigNext ==
  \/ MigrateRuntime \/ MigrateModel \/ MigrateSystem \/ BuildService \/ Restart
  \/ \E e \in Editors :
       \/ \E edit \in SystemEdit : SetSystemConfig(e, edit)
       \/ \E k \in RuntimeKeys, v \in BOOLEAN : SetRuntimeConfig(e, k, v)
       \/ \E m \in Models, s \in ModelState : SaveModel(e, m, s)
       \/ \E i \in Outcomes, v \in {0, 1} : ReadPrices(e, i, v)
       \/ WritePrices(e)
       \/ ReadForStack(e) \/ ReadModels(e) \/ ReadFlags(e) \/ ReadRetries(e)
       \/ AssignProvider(e) \/ AssignRest(e)

ConfigSpec == ConfigInit /\ [][ConfigNext]_configVars

-----------------------------------------------------------------------------
Quiet  == boot = "up" /\ AllRest /\ failedReads = 0
Stored == Built(runtime, Active, runtime, system.retries)

\* Requests that do not overlap take effect: when none is in progress the
\* running service is the one the rows describe, cache and flags included, and
\* every price is the one last asked for (refresh_answer_service, set_billing).
AloneEditsTakeEffect ==
  Quiet /\ ~overlapped => served = Stored /\ billing = asked
=============================================================================
