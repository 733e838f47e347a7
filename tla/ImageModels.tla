----------------------------- MODULE ImageModels -----------------------------
(* The image models an administrator configures, the capability tests that    *)
(* open their editing modes to users, and the configuration a job is made     *)
(* with and rendered by (platform/image_generation/service.py, protocols.py). *)
(* Models, submissions and deletions are serialised by the platform lock; a   *)
(* test and the worker hold none while the provider works, so models change   *)
(* under them.  Balances, files and cancelled jobs are ImageJobs' matter.     *)
EXTENDS Naturals

CONSTANTS
    ImageModelIds,      \* ids of models
    Addresses,          \* base_url, model and timeout_seconds of a model
    Sizes,              \* image sizes
    DefaultSizes,       \* DEFAULT_OPENAI_PRESET_SIZES, or the defaults of Gemini
    Feasible,           \* the sizes within the constraints of custom sizes
    Proposals,          \* providers and configurations an administrator may send
    Tests,              \* requests testing a model
    Kinds,              \* the kinds of pictures tested and asked for
    ImageJobIds,        \* jobs
    MaxSaves            \* bound on the saves of models

VARIABLES
    imageModel,     \* the table of models
    passedChecks,   \* the capability checks with passed = 1
    testing,        \* testing[t]: the model and the operation t is testing
    imageJob,       \* the table of jobs
    saves,          \* the time of the last save of a model, its updated_at
    proven          \* history: what answered a test correctly, and which one

imageModelsVars == <<imageModel, passedChecks, testing, imageJob, saves, proven>>

None == [status |-> "none"]
Protocols == {"gemini", "openai", "compatible", "chat"}

(* MODE_TO_CAPABILITY: each mode of a job but text_to_image is a capability *)
Edits == {"whole", "masked", "multi"}
ASSUME KindsAssumption == Kinds \subseteq Edits \cup {"text"}

-----------------------------------------------------------------------------
(* Protocol configurations.  A draft holds the sizes offered, whether others *)
(* may be chosen, and, if it states input capabilities, the edits offered    *)
(* and how many images they take.                                            *)

Draft == [sizes : SUBSET Sizes, custom : BOOLEAN, stated : BOOLEAN,
          edits : SUBSET Edits, inputs : 0..4]
NoDraft == [sizes |-> {}, custom |-> FALSE, stated |-> FALSE, edits |-> {}, inputs |-> 0]

ASSUME ModelsAssumption ==
    /\ DefaultSizes \subseteq Sizes /\ Addresses # {} /\ MaxSaves \in Nat
    /\ \A o \in Proposals : o.provider \in Protocols /\ o.draft \in Draft

(* reject_unknown_keys and the checks of normalize_protocol_config: only     *)
(* openai-images knows allow_custom_size, and the protocol of the old chat   *)
(* models knows neither sizes nor input capabilities                         *)
Accepts(p, d) ==
    /\ d.custom => p = "openai"
    /\ p = "chat" => d.sizes = {} /\ ~ d.stated

(* normalize_input_capabilities: edits of two images need room for two *)
Offered(d) ==
    LET all == IF d.stated THEN d.edits ELSE Edits
    IN IF d.stated /\ d.inputs < 2 THEN all \cap {"whole"} ELSE all

(* what normalize_protocol_config returns, and what is stored: the input     *)
(* capabilities are always stated in it, and the sizes an Images model lists *)
(* as its capabilities stand in for those left out                           *)
Normal(p, d, listed) ==
    IF p = "chat" THEN [NoDraft EXCEPT !.stated = TRUE]
    ELSE [sizes  |-> IF d.sizes # {} THEN d.sizes
                     ELSE IF p # "gemini" /\ listed # {} THEN listed ELSE DefaultSizes,
          custom |-> d.custom,
          stated |-> TRUE,
          edits  |-> Offered(d),
          inputs |-> IF d.stated THEN d.inputs ELSE 4]

(* capabilities_for_protocol: the sizes among the capabilities of a model *)
Listed(p, c, listed) == IF p = "gemini" THEN {} ELSE IF p = "chat" THEN listed ELSE c.sizes

(* validate_custom_size *)
WithinConstraints(size) == size \in Feasible

(* normalize_output_options *)
Renders(p, c, size) ==
    \/ p = "chat"
    \/ size \in c.sizes
    \/ c.custom /\ WithinConstraints(size)

-----------------------------------------------------------------------------
(* What is called, and how.  updated_at is a part of the stamp, so that a *)
(* check counts for one save of the model only.                           *)

Setup == [provider : Protocols, address : Addresses, config : Draft]
SetupOf(r) == [provider |-> r.provider, address |-> r.address, config |-> r.config]

(* _model_protocol_config *)
ConfigOf(r) == Normal(r.provider, r.config, r.listed)

(* what a provider is built from, and what a job keeps *)
ModelSnapshot(r) == [SetupOf(r) EXCEPT !.config = ConfigOf(r)]

(* _configuration_stamp *)
Stamp(r) == [setup |-> SetupOf(r), at |-> r.at]

Existing == {m \in ImageModelIds : imageModel[m] # None}

(* get_active_model *)
Active == {m \in Existing : imageModel[m].status = "active" /\
             \A n \in Existing : imageModel[n].status = "active" => imageModel[n].at <= imageModel[m].at}

(* passed_capability_operations *)
Verified(m, r) == {op \in Edits : [model |-> m, stamp |-> Stamp(r), op |-> op] \in passedChecks}

ImageModelsInit ==
    /\ \* an old row, saved before there were protocol configurations
       imageModel \in [ImageModelIds -> {None} \cup
         [provider : {"openai", "chat"}, address : {CHOOSE a \in Addresses : TRUE},
          config : {NoDraft}, listed : {DefaultSizes}, status : {"active"}, at : {0}]]
    /\ \A m, n \in Existing : m = n
    /\ passedChecks = {}
    /\ testing = [t \in Tests |-> None]
    /\ imageJob = [j \in ImageJobIds |-> None]
    /\ saves = 0
    /\ proven = {}

-----------------------------------------------------------------------------
(* Administrators.                                                           *)

(* save_model: an active model makes the others inactive *)
Save(m, p, a, d, listed, status) ==
    /\ saves < MaxSaves
    /\ saves' = saves + 1
    /\ Accepts(p, d)
    /\ imageModel' = [n \in ImageModelIds |->
         IF n = m THEN [provider |-> p, address |-> a, config |-> Normal(p, d, listed),
                        listed |-> Listed(p, Normal(p, d, listed), listed),
                        status |-> status, at |-> saves']
         ELSE IF status = "active" /\ imageModel[n] # None /\ imageModel[n].status = "active"
         THEN [imageModel[n] EXCEPT !.status = "inactive", !.at = saves']
         ELSE imageModel[n]]
    /\ UNCHANGED <<passedChecks, testing, imageJob, proven>>

CreateModel(m, p, a, d, status) ==
    /\ imageModel[m] = None
    /\ Save(m, p, a, d, {}, status)

(* update_model: without a configuration in the request the stored one is    *)
(* checked again, or forgotten with the old provider.  A refused update      *)
(* changes nothing.                                                          *)
UpdateModel(m, p, a, d, keeps, status) ==
    /\ imageModel[m] # None
    /\ Save(m, p, a, IF ~ keeps THEN d
                     ELSE IF p = imageModel[m].provider THEN imageModel[m].config ELSE NoDraft,
            imageModel[m].listed, status)

InUse(m) ==
    \E j \in ImageJobIds :
        /\ imageJob[j] # None
        /\ imageJob[j].model = m
        /\ imageJob[j].status \in {"queued", "running", "calling"}

(* delete_model refuses a model with a queued or running job *)
DeleteModel(m) ==
    /\ imageModel[m] # None
    /\ ~ InUse(m)
    /\ imageModel' = [imageModel EXCEPT ![m] = None]
    /\ UNCHANGED <<passedChecks, testing, imageJob, saves, proven>>

(* _normalize_test_operation; the test of text_to_image opens nothing *)
Probes == Kinds \cap Edits

(* test_model reads the model, without the lock, and calls its provider ... *)
BeginTest(t, m, op) ==
    /\ testing[t] = None
    /\ imageModel[m] # None
    /\ LET r == imageModel[m] IN
         /\ Accepts(r.provider, r.config)
         /\ op \in ConfigOf(r).edits
         /\ testing' = [testing EXCEPT ![t] = [status |-> "testing", model |-> m, record |-> r, op |-> op]]
    /\ UNCHANGED <<imageModel, passedChecks, imageJob, saves, proven>>

(* Faulty variant: the check is filed for the model as it is by now *)
FiledNow(x) == IF imageModel[x.model] = None THEN x.record ELSE imageModel[x.model]

(* the model the check is filed for: the one that was tested *)
Filed(x) == x.record

(* ... and files the check for what it tested, unless the database fails, as *)
(* when another test of the same kind has filed one in the meantime          *)
EndTest(t, ok) ==
    /\ testing[t] # None
    /\ LET x == testing[t]
           check == [model |-> x.model, stamp |-> Stamp(Filed(x)), op |-> x.op]
       IN /\ \/ passedChecks' = IF ok THEN passedChecks \cup {check} ELSE passedChecks \ {check}
             \/ UNCHANGED passedChecks
          /\ proven' = IF ok THEN proven \cup {[setup |-> ModelSnapshot(x.record), op |-> x.op]} ELSE proven
    /\ testing' = [testing EXCEPT ![t] = None]
    /\ UNCHANGED <<imageModel, imageJob, saves>>

-----------------------------------------------------------------------------
(* Jobs.                                                                     *)

(* _normalize_input_references: the pictures each mode takes *)
Pictures(mode) ==
    CASE mode = "text" -> {0} [] mode = "whole" -> {1} [] mode = "masked" -> {2} [] mode = "multi" -> 2..4

(* _validate_mode_capability *)
MayEdit(m, r, mode, n) ==
    \/ mode = "text"
    \/ /\ mode \in ConfigOf(r).edits
       /\ n <= ConfigOf(r).inputs
       /\ mode \in Verified(m, r)

(* create_job takes the one active model, and keeps a snapshot of it *)
Submit(j, mode, size) ==
    /\ imageJob[j] = None
    /\ \E m \in Active, n \in Pictures(mode) :
         LET r == imageModel[m]
         IN /\ Accepts(r.provider, r.config)
            /\ MayEdit(m, r, mode, n)
            /\ Renders(r.provider, ConfigOf(r), size)
            /\ imageJob' = [imageJob EXCEPT ![j] =
                 [status |-> "queued", model |-> m, mode |-> mode, size |-> size,
                  setup |-> ModelSnapshot(r)]]
    /\ UNCHANGED <<imageModel, passedChecks, testing, saves, proven>>

(* delete_or_cancel_job of a queued job *)
CancelJob(j) ==
    /\ imageJob[j] # None
    /\ imageJob[j].status = "queued"
    /\ imageJob' = [imageJob EXCEPT ![j].status = "cancelled"]
    /\ UNCHANGED <<imageModel, passedChecks, testing, saves, proven>>

(* claim_next_job, by the single worker *)
ClaimJob(j) ==
    /\ imageJob[j] # None
    /\ imageJob[j].status = "queued"
    /\ ~ \E i \in ImageJobIds : imageJob[i] # None /\ imageJob[i].status \in {"running", "calling"}
    /\ imageJob' = [imageJob EXCEPT ![j].status = "running"]
    /\ UNCHANGED <<imageModel, passedChecks, testing, saves, proven>>

(* Faulty variant: the job is rendered by the model as it is by now *)
ExecutionOfCurrent(x) == SetupOf(imageModel[x.model])

(* _execution_model: the snapshot, and of the model no more than its API key *)
ExecutionOf(x) == x.setup

(* the snapshot is checked and made normal once more, and so is the output *)
ValidOptions(s, size) ==
    /\ Accepts(s.provider, s.config)
    /\ Renders(s.provider, Normal(s.provider, s.config, {}), size)

(* process_next_job up to the call of the provider *)
CallProvider(j) ==
    /\ imageJob[j] # None
    /\ imageJob[j].status = "running"
    /\ LET s == ExecutionOf(imageJob[j]) IN
         imageJob' = IF ValidOptions(s, imageJob[j].size)
                     THEN [imageJob EXCEPT ![j].status = "calling",
                             ![j].setup = [s EXCEPT !.config = Normal(s.provider, s.config, {})]]
                     ELSE [imageJob EXCEPT ![j].status = "invalid"]
    /\ UNCHANGED <<imageModel, passedChecks, testing, saves, proven>>

FinishJob(j) ==
    /\ imageJob[j] # None
    /\ imageJob[j].status = "calling"
    /\ \E s \in {"succeeded", "failed"} : imageJob' = [imageJob EXCEPT ![j].status = s]
    /\ UNCHANGED <<imageModel, passedChecks, testing, saves, proven>>

ImageModelsNext ==
    \/ \E m \in ImageModelIds, a \in Addresses, s \in {"active", "inactive"}, o \in Proposals :
          \/ CreateModel(m, o.provider, a, o.draft, s)
          \/ \E keeps \in BOOLEAN : UpdateModel(m, o.provider, a, o.draft, keeps, s)
    \/ \E m \in ImageModelIds :
          \/ DeleteModel(m)
          \/ \E t \in Tests, op \in Probes : BeginTest(t, m, op)
    \/ \E t \in Tests, ok \in BOOLEAN : EndTest(t, ok)
    \/ \E j \in ImageJobIds :
          \/ \E mode \in Kinds, size \in Sizes : Submit(j, mode, size)
          \/ CancelJob(j) \/ ClaimJob(j) \/ CallProvider(j) \/ FinishJob(j)

ImageModelsSpec == ImageModelsInit /\ [][ImageModelsNext]_imageModelsVars

-----------------------------------------------------------------------------
ModelType == [provider : Protocols, address : Addresses, config : Draft, listed : SUBSET Sizes,
              status : {"active", "inactive"}, at : 0..MaxSaves]

CheckType == [model : ImageModelIds, stamp : [setup : Setup, at : 0..MaxSaves], op : Edits]

(* types; besides, never two models are active *)
ImageModelsTypeOK ==
    /\ \A m \in Existing : imageModel[m] \in ModelType
    /\ \A m, n \in Existing : imageModel[m].status = "active" /\ imageModel[n].status = "active" => m = n
    /\ passedChecks \subseteq CheckType
    /\ \A j \in ImageJobIds : imageJob[j] # None => imageJob[j].setup \in Setup
    /\ saves \in 0..MaxSaves

(* No picture is ever edited by a setup that has not passed a test of that    *)
(* kind of edit: not by a model changed while its test ran, between the test  *)
(* and the submission, or while the job waited for the worker.                *)
EditsVerified ==
    \A j \in ImageJobIds :
        imageJob[j] # None /\ imageJob[j].status = "calling" /\ imageJob[j].mode # "text" =>
            [setup |-> imageJob[j].setup, op |-> imageJob[j].mode] \in proven

(* Whatever administrators change in the meantime, a job that was accepted is *)
(* not refused by the worker as one no model can render.  (The old chat       *)
(* protocol is the exception: see LegacyRuns.)                                *)
AcceptedRuns ==
    \A j \in ImageJobIds :
        imageJob[j] # None /\ imageJob[j].status = "invalid" => imageJob[j].setup.provider = "chat"

(* tests/test_image_generation_protocols.py:112: a configuration of the old *)
(* chat protocol can still be called; docs/services/image-generation.md:53: *)
(* it makes pictures from text.                                             *)
LegacyRuns ==
    \A j \in ImageJobIds :
        imageJob[j] # None /\ imageJob[j].status = "invalid" => imageJob[j].setup.provider # "chat"
==============================================================================
