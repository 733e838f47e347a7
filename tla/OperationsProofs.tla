--------------------------- MODULE OperationsProofs ---------------------------
(***************************************************************************)
(* Proofs about what keeps the service going and what it shows of its      *)
(* past: ImageModels, Releases, Schema, LogFiles and Reports, for every    *)
(* set of models, tests, jobs, configurations, administrators, versions,   *)
(* processes, threads, files, rows and readers, every list of what is to   *)
(* be dropped and added, and every size of a page.                         *)
(***************************************************************************)
EXTENDS ImageModels, Releases, Schema, LogFiles, Reports,
        FiniteSetTheorems, WellFoundedInduction, TLAPS

-----------------------------------------------------------------------------
(***************************************************************************)
(* ImageModels: what is tested is what runs.                               *)
(***************************************************************************)

TestType == [status : {"testing"}, model : ImageModelIds, record : ModelType, op : Edits]

JobType == [status : {"queued", "running", "calling", "invalid", "cancelled", "succeeded", "failed"},
            model : ImageModelIds, mode : Kinds, size : Sizes, setup : Setup]

\* What a configuration is after it was made normal.
Settled(s) == Normal(s.provider, s.config, {}) = s.config

\* A record under test is that of its model, or one from before its last save.
TestsDated ==
    \A t \in Tests : testing[t] # None =>
        /\ testing[t] \in TestType
        /\ testing[t].record.at <= saves
        /\ imageModel[testing[t].model] # None
           /\ imageModel[testing[t].model].at = testing[t].record.at
              => imageModel[testing[t].model] = testing[t].record

\* A check that counts for a model was passed by what a job of it would call.
ChecksProven ==
    \A c \in passedChecks :
        /\ c.stamp.at <= saves
        /\ imageModel[c.model] # None /\ imageModel[c.model].at = c.stamp.at
              => [setup |-> ModelSnapshot(imageModel[c.model]), op |-> c.op] \in proven

\* A job that waits or is called keeps what it was accepted for.
JobsAccepted ==
    \A j \in ImageJobIds : imageJob[j] # None =>
        /\ imageJob[j] \in JobType
        /\ Settled(imageJob[j].setup)
        /\ imageJob[j].status \in {"queued", "running", "calling"} =>
             /\ imageJob[j].mode # "text" => [setup |-> imageJob[j].setup, op |-> imageJob[j].mode] \in proven
             /\ imageJob[j].setup.provider # "chat" => ValidOptions(imageJob[j].setup, imageJob[j].size)
        /\ imageJob[j].status = "invalid" => imageJob[j].setup.provider = "chat"

Domains ==
    /\ DOMAIN imageModel = ImageModelIds /\ DOMAIN testing = Tests /\ DOMAIN imageJob = ImageJobIds

ModelsInv ==
    /\ ImageModelsTypeOK /\ Domains
    /\ \A m \in Existing : imageModel[m].at <= saves
    /\ TestsDated /\ ChecksProven /\ JobsAccepted

-----------------------------------------------------------------------------
LEMMA NoDraftType == NoDraft \in Draft /\ [NoDraft EXCEPT !.stated = TRUE] \in Draft
<1>1. PICK d : d = NoDraft
  OBVIOUS
<1>2. d = [sizes |-> {}, custom |-> FALSE, stated |-> FALSE, edits |-> {}, inputs |-> 0]
  BY <1>1 DEF NoDraft
<1>3. PICK e : e = [d EXCEPT !.stated = TRUE]
  OBVIOUS
<1>4. e = [sizes |-> {}, custom |-> FALSE, stated |-> TRUE, edits |-> {}, inputs |-> 0]
  BY <1>2, <1>3
<1>5. d \in Draft /\ e \in Draft
  BY <1>2, <1>4 DEF Draft
<1> QED BY Zenon, <1>1, <1>3, <1>5

LEMMA OfferedType == ASSUME NEW d \in Draft PROVE Offered(d) \subseteq Edits
  BY DEF Offered, Draft

\* A configuration that was made normal is a configuration,
LEMMA NormalType ==
    ASSUME NEW p, NEW d \in Draft, NEW listed \in SUBSET Sizes
    PROVE  Normal(p, d, listed) \in Draft
<1>1. CASE p = "chat"
  BY <1>1, NoDraftType DEF Normal
<1>2. CASE p # "chat"
  <2>1. PICK sizes \in SUBSET Sizes, inputs \in 0..4 :
          Normal(p, d, listed) = [sizes |-> sizes, custom |-> d.custom, stated |-> TRUE,
                                  edits |-> Offered(d), inputs |-> inputs]
    <3>1. (IF d.sizes # {} THEN d.sizes
           ELSE IF p # "gemini" /\ listed # {} THEN listed ELSE DefaultSizes) \in SUBSET Sizes
      BY ModelsAssumption DEF Draft
    <3>2. (IF d.stated THEN d.inputs ELSE 4) \in 0..4
      BY DEF Draft
    <3> QED BY Zenon, <1>2, <3>1, <3>2 DEF Normal
  <2>2. Offered(d) \in SUBSET Edits /\ d.custom \in BOOLEAN
    BY OfferedType DEF Draft
  <2> QED BY <2>1, <2>2 DEF Draft
<1> QED BY <1>1, <1>2

\* and to make it normal once more changes nothing: what the worker calls is
\* what the job was accepted with.
LEMMA NormalSettles ==
    ASSUME NEW p, NEW d \in Draft, NEW listed \in SUBSET Sizes
    PROVE  Normal(p, Normal(p, d, listed), {}) = Normal(p, d, listed)
<1>1. CASE p = "chat"
  BY <1>1 DEF Normal
<1>2. CASE p # "chat"
  <2> DEFINE sizes == IF d.sizes # {} THEN d.sizes
                      ELSE IF p # "gemini" /\ listed # {} THEN listed ELSE DefaultSizes
             inputs == IF d.stated THEN d.inputs ELSE 4
  <2>1. PICK c : c = Normal(p, d, listed)
    OBVIOUS
  <2>2. c = [sizes |-> sizes, custom |-> d.custom, stated |-> TRUE, edits |-> Offered(d), inputs |-> inputs]
    BY <1>2, <2>1 DEF Normal
  <2>3. /\ c.sizes = sizes /\ c.custom = d.custom /\ c.stated = TRUE
        /\ c.edits = Offered(d) /\ c.inputs = inputs
    BY <2>2
  <2>4. Normal(p, c, {}) = [sizes |-> IF c.sizes # {} THEN c.sizes ELSE DefaultSizes,
                            custom |-> c.custom, stated |-> TRUE, edits |-> Offered(c),
                            inputs |-> c.inputs]
    BY <1>2, <2>3 DEF Normal
  <2>5. (IF c.sizes # {} THEN c.sizes ELSE DefaultSizes) = sizes
    BY <2>3
  <2>6. Offered(c) = Offered(d)
    BY <2>3 DEF Offered
  <2> QED BY Zenon, <2>1, <2>2, <2>3, <2>4, <2>5, <2>6
<1> QED BY <1>1, <1>2

\* What a job keeps of a model.
LEMMA SnapshotFacts ==
    ASSUME NEW r \in ModelType
    PROVE  /\ ModelSnapshot(r) \in Setup /\ Settled(ModelSnapshot(r))
           /\ ModelSnapshot(r).provider = r.provider /\ ModelSnapshot(r).config = ConfigOf(r)
<1>1. ConfigOf(r) \in Draft
  BY NormalType DEF ConfigOf, ModelType
<1>2. ModelSnapshot(r) = [provider |-> r.provider, address |-> r.address, config |-> ConfigOf(r)]
  <2>1. PICK s : s = SetupOf(r)
    OBVIOUS
  <2>2. s = [provider |-> r.provider, address |-> r.address, config |-> r.config]
    BY <2>1 DEF SetupOf
  <2>3. [s EXCEPT !.config = ConfigOf(r)]
          = [provider |-> r.provider, address |-> r.address, config |-> ConfigOf(r)]
    BY <2>2
  <2> QED BY Zenon, <2>1, <2>3 DEF ModelSnapshot
<1>3. ModelSnapshot(r).provider = r.provider /\ ModelSnapshot(r).config = ConfigOf(r)
  BY <1>2
<1>4. Normal(r.provider, ConfigOf(r), {}) = ConfigOf(r)
  BY NormalSettles DEF ConfigOf, ModelType
<1>5. r.provider \in Protocols /\ r.address \in Addresses
  BY DEF ModelType
<1>6. ModelSnapshot(r) \in Setup
  BY <1>1, <1>2, <1>5 DEF Setup
<1>7. Settled(ModelSnapshot(r))
  BY Zenon, <1>3, <1>4 DEF Settled
<1> QED BY <1>3, <1>6, <1>7

\* A snapshot of a protocol that is still offered is accepted as it was.
LEMMA SnapshotAccepted ==
    ASSUME NEW r \in ModelType, r.provider # "chat", Accepts(r.provider, r.config)
    PROVE  Accepts(r.provider, ConfigOf(r))
<1>1. ConfigOf(r).custom = r.config.custom
  BY DEF ConfigOf, Normal
<1> QED BY <1>1 DEF Accepts

LEMMA SetupUnchanged ==
    ASSUME NEW s \in Setup, Settled(s)
    PROVE  [s EXCEPT !.config = Normal(s.provider, s.config, {})] = s
<1>1. [s EXCEPT !.config = s.config] = s
  BY DEF Setup
<1> QED BY Zenon, <1>1 DEF Settled

LEMMA JobIsNotNone == ASSUME NEW x \in JobType PROVE x # None
  BY DEF JobType, None

LEMMA ModelIsNotNone == ASSUME NEW x \in ModelType PROVE x # None
  BY DEF ModelType, None

-----------------------------------------------------------------------------
\* A step on the models alone: each stays, goes, or is saved at a new time.
LEMMA ModelsStep ==
    ASSUME ModelsInv, DOMAIN imageModel' = ImageModelIds,
           saves' \in {saves, saves + 1}, saves' \in 0..MaxSaves,
           UNCHANGED <<passedChecks, testing, imageJob, proven>>,
           \A n \in ImageModelIds :
               \/ imageModel'[n] = imageModel[n]
               \/ imageModel'[n] = None
               \/ saves' = saves + 1 /\ imageModel'[n] \in ModelType /\ imageModel'[n].at = saves',
           \A m, n \in ImageModelIds :
               imageModel'[m] # None /\ imageModel'[n] # None
               /\ imageModel'[m].status = "active" /\ imageModel'[n].status = "active" => m = n
    PROVE  ModelsInv'
<1>0. saves \in Nat /\ saves <= saves' /\ saves' \in Nat
  BY ModelsAssumption DEF ModelsInv, ImageModelsTypeOK
<1>1. \A m \in Existing' : imageModel'[m] \in ModelType /\ imageModel'[m].at <= saves'
  <2> SUFFICES ASSUME NEW m \in ImageModelIds, imageModel'[m] # None
               PROVE  imageModel'[m] \in ModelType /\ imageModel'[m].at <= saves'
    BY DEF Existing
  <2>1. CASE imageModel'[m] = imageModel[m]
    <3>1. imageModel[m] \in ModelType /\ imageModel[m].at <= saves /\ imageModel[m].at \in 0..MaxSaves
      BY <2>1 DEF ModelsInv, ImageModelsTypeOK, Existing, ModelType
    <3> QED BY <1>0, <2>1, <3>1
  <2>2. CASE imageModel'[m] \in ModelType /\ imageModel'[m].at = saves'
    BY <1>0, <2>2
  <2> QED BY <2>1, <2>2
<1>2. ImageModelsTypeOK'
  BY <1>1 DEF ModelsInv, ImageModelsTypeOK, Existing
<1>3. TestsDated'
  <2> SUFFICES ASSUME NEW t \in Tests, testing[t] # None
               PROVE  /\ testing[t] \in TestType
                      /\ testing[t].record.at <= saves'
                      /\ imageModel'[testing[t].model] # None
                         /\ imageModel'[testing[t].model].at = testing[t].record.at
                            => imageModel'[testing[t].model] = testing[t].record
    BY DEF TestsDated
  <2>1. /\ testing[t] \in TestType /\ testing[t].record.at <= saves
        /\ imageModel[testing[t].model] # None
           /\ imageModel[testing[t].model].at = testing[t].record.at
              => imageModel[testing[t].model] = testing[t].record
    BY DEF ModelsInv, TestsDated
  <2>2. testing[t].model \in ImageModelIds /\ testing[t].record.at \in Nat
    BY <2>1, ModelsAssumption DEF TestType, ModelType
  <2> QED BY <1>0, <2>1, <2>2
<1>4. ChecksProven'
  <2> SUFFICES ASSUME NEW c \in passedChecks
               PROVE  /\ c.stamp.at <= saves'
                      /\ imageModel'[c.model] # None /\ imageModel'[c.model].at = c.stamp.at
                            => [setup |-> ModelSnapshot(imageModel'[c.model]), op |-> c.op] \in proven
    BY DEF ChecksProven
  <2>1. /\ c.stamp.at <= saves /\ c.model \in ImageModelIds /\ c.stamp.at \in Nat
        /\ imageModel[c.model] # None /\ imageModel[c.model].at = c.stamp.at
              => [setup |-> ModelSnapshot(imageModel[c.model]), op |-> c.op] \in proven
    BY ModelsAssumption DEF ModelsInv, ChecksProven, ImageModelsTypeOK, CheckType
  <2>2. c.stamp.at <= saves'
    BY <1>0, <2>1
  <2>3. CASE imageModel'[c.model] = imageModel[c.model]
    BY Zenon, <2>1, <2>2, <2>3
  <2>4. CASE imageModel'[c.model] # imageModel[c.model]
    <3>1. ~ (imageModel'[c.model] # None /\ imageModel'[c.model].at = c.stamp.at)
      BY <1>0, <2>1, <2>4
    <3> QED BY Zenon, <2>2, <3>1
  <2> QED BY Zenon, <2>3, <2>4
<1>5. JobsAccepted'
  BY DEF ModelsInv, JobsAccepted
<1> QED BY <1>1, <1>2, <1>3, <1>4, <1>5 DEF ModelsInv, Domains

\* save_model, for a new or a changed model.
LEMMA SaveStep ==
    ASSUME ModelsInv, NEW m \in ImageModelIds, NEW p \in Protocols, NEW a \in Addresses,
           NEW d \in Draft, NEW listed \in SUBSET Sizes, NEW status \in {"active", "inactive"},
           Save(m, p, a, d, listed, status)
    PROVE  ModelsInv'
<1>0. /\ saves' = saves + 1 /\ saves < MaxSaves /\ saves \in 0..MaxSaves
      /\ UNCHANGED <<passedChecks, testing, imageJob, proven>>
      /\ DOMAIN imageModel = ImageModelIds
      /\ \A n \in ImageModelIds : imageModel[n] # None => imageModel[n] \in ModelType
      /\ \A n, k \in ImageModelIds : imageModel[n] # None /\ imageModel[k] # None
           /\ imageModel[n].status = "active" /\ imageModel[k].status = "active" => n = k
  BY DEF Save, ModelsInv, ImageModelsTypeOK, Domains, Existing
<1>1. saves' \in 0..MaxSaves
  BY <1>0, ModelsAssumption
<1>2. PICK c : c = Normal(p, d, listed)
  OBVIOUS
<1>3. PICK new : new = [provider |-> p, address |-> a, config |-> c, listed |-> Listed(p, c, listed),
                        status |-> status, at |-> saves']
  OBVIOUS
<1>4. c \in Draft
  BY <1>2, NormalType
<1>5. Listed(p, c, listed) \in SUBSET Sizes
  BY <1>4 DEF Listed, Draft
<1>6. new \in ModelType /\ new.at = saves' /\ new.status = status
  BY <1>1, <1>3, <1>4, <1>5 DEF ModelType
<1>7. imageModel' = [n \in ImageModelIds |->
         IF n = m THEN new
         ELSE IF status = "active" /\ imageModel[n] # None /\ imageModel[n].status = "active"
         THEN [imageModel[n] EXCEPT !.status = "inactive", !.at = saves']
         ELSE imageModel[n]]
  BY Zenon, <1>2, <1>3 DEF Save
<1>8. ASSUME NEW n \in ImageModelIds
      PROVE  \/ n = m /\ imageModel'[n] = new
             \/ n # m /\ imageModel'[n] = imageModel[n]
                /\ ~ (status = "active" /\ imageModel[n] # None /\ imageModel[n].status = "active")
             \/ n # m /\ imageModel'[n] \in ModelType /\ imageModel'[n].at = saves'
                /\ imageModel'[n].status = "inactive"
  <2>1. CASE n = m
    BY <1>7, <2>1
  <2>2. CASE n # m /\ status = "active" /\ imageModel[n] # None /\ imageModel[n].status = "active"
    <3>1. PICK x : x = imageModel[n]
      OBVIOUS
    <3>2. x \in ModelType
      BY <1>0, <2>2, <3>1
    <3>3. PICK y : y = [x EXCEPT !.status = "inactive", !.at = saves']
      OBVIOUS
    <3>4. y = [provider |-> x.provider, address |-> x.address, config |-> x.config,
               listed |-> x.listed, status |-> "inactive", at |-> saves']
      <4>1. PICK z : z = [x EXCEPT !.status = "inactive"]
        OBVIOUS
      <4>2. z = [provider |-> x.provider, address |-> x.address, config |-> x.config,
                 listed |-> x.listed, status |-> "inactive", at |-> x.at]
        BY <3>2, <4>1 DEF ModelType
      <4>3. [z EXCEPT !.at = saves'] = [provider |-> x.provider, address |-> x.address, config |-> x.config,
                 listed |-> x.listed, status |-> "inactive", at |-> saves']
        BY <4>2
      <4> QED BY Zenon, <3>3, <4>1, <4>3
    <3>5. y \in ModelType /\ y.at = saves' /\ y.status = "inactive"
      BY <1>1, <3>2, <3>4 DEF ModelType
    <3>6. imageModel'[n] = y
      BY Zenon, <1>7, <2>2, <3>1, <3>3
    <3> QED BY <2>2, <3>5, <3>6
  <2>3. CASE n # m /\ ~ (status = "active" /\ imageModel[n] # None /\ imageModel[n].status = "active")
    BY Zenon, <1>7, <2>3
  <2> QED BY <2>1, <2>2, <2>3
<1>9. ASSUME NEW n \in ImageModelIds, NEW k \in ImageModelIds,
             imageModel'[n] # None, imageModel'[k] # None,
             imageModel'[n].status = "active", imageModel'[k].status = "active"
      PROVE  n = k
  <2>1. /\ n = m => status = "active"
        /\ n # m => imageModel'[n] = imageModel[n]
                    /\ ~ (status = "active" /\ imageModel[n] # None /\ imageModel[n].status = "active")
    BY <1>6, <1>8, <1>9
  <2>2. /\ k = m => status = "active"
        /\ k # m => imageModel'[k] = imageModel[k]
                    /\ ~ (status = "active" /\ imageModel[k] # None /\ imageModel[k].status = "active")
    BY <1>6, <1>8, <1>9
  <2>3. CASE n = m \/ k = m
    BY <1>9, <2>1, <2>2, <2>3
  <2>4. CASE n # m /\ k # m
    BY <1>0, <1>9, <2>1, <2>2, <2>4
  <2> QED BY <2>3, <2>4
<1>10. \A n \in ImageModelIds :
         \/ imageModel'[n] = imageModel[n]
         \/ saves' = saves + 1 /\ imageModel'[n] \in ModelType /\ imageModel'[n].at = saves'
  BY <1>0, <1>6, <1>8
<1>11. DOMAIN imageModel' = ImageModelIds
  BY <1>7
<1> QED BY <1>0, <1>1, <1>9, <1>10, <1>11, ModelsStep

\* A step on one job alone.
LEMMA JobStep ==
    ASSUME ModelsInv, NEW j \in ImageJobIds, NEW x \in JobType, Settled(x.setup),
           imageJob' = [imageJob EXCEPT ![j] = x],
           UNCHANGED <<imageModel, passedChecks, testing, saves, proven>>,
           x.status \in {"queued", "running", "calling"} =>
             /\ x.mode # "text" => [setup |-> x.setup, op |-> x.mode] \in proven
             /\ x.setup.provider # "chat" => ValidOptions(x.setup, x.size),
           x.status = "invalid" => x.setup.provider = "chat"
    PROVE  ModelsInv'
<1>1. /\ imageJob'[j] = x /\ DOMAIN imageJob' = ImageJobIds
      /\ \A i \in ImageJobIds \ {j} : imageJob'[i] = imageJob[i]
  BY DEF ModelsInv, Domains
<1>2. x.setup \in Setup
  BY DEF JobType
<1>3. ImageModelsTypeOK'
  BY <1>1, <1>2 DEF ModelsInv, ImageModelsTypeOK, Existing
<1>4. JobsAccepted'
  <2> SUFFICES ASSUME NEW i \in ImageJobIds, imageJob'[i] # None
               PROVE  /\ imageJob'[i] \in JobType
                      /\ Settled(imageJob'[i].setup)
                      /\ imageJob'[i].status \in {"queued", "running", "calling"} =>
                           /\ imageJob'[i].mode # "text" => [setup |-> imageJob'[i].setup, op |-> imageJob'[i].mode] \in proven
                           /\ imageJob'[i].setup.provider # "chat" => ValidOptions(imageJob'[i].setup, imageJob'[i].size)
                      /\ imageJob'[i].status = "invalid" => imageJob'[i].setup.provider = "chat"
    BY DEF JobsAccepted
  <2>1. CASE i = j
    BY Zenon, <1>1, <2>1
  <2>2. CASE i # j
    <3>1. imageJob'[i] = imageJob[i]
      BY <1>1, <2>2
    <3> QED BY Zenon, <3>1 DEF ModelsInv, JobsAccepted
  <2> QED BY <2>1, <2>2
<1> QED BY <1>1, <1>3, <1>4 DEF ModelsInv, Existing, TestsDated, ChecksProven, Domains

\* A job that goes on from where it was accepted.
LEMMA JobGoesOn ==
    ASSUME ModelsInv, NEW j \in ImageJobIds, imageJob[j] # None,
           NEW status \in {"queued", "running", "calling", "cancelled", "succeeded", "failed"},
           imageJob[j].status \in {"queued", "running", "calling"},
           imageJob' = [imageJob EXCEPT ![j].status = status],
           UNCHANGED <<imageModel, passedChecks, testing, saves, proven>>
    PROVE  ModelsInv'
<1>1. PICK y : y = imageJob[j]
  OBVIOUS
<1>2. /\ y \in JobType /\ Settled(y.setup)
      /\ y.mode # "text" => [setup |-> y.setup, op |-> y.mode] \in proven
      /\ y.setup.provider # "chat" => ValidOptions(y.setup, y.size)
  BY Zenon, <1>1 DEF ModelsInv, JobsAccepted
<1>3. PICK x : x = [y EXCEPT !.status = status]
  OBVIOUS
<1>4. x = [status |-> status, model |-> y.model, mode |-> y.mode, size |-> y.size, setup |-> y.setup]
  BY <1>2, <1>3 DEF JobType
<1>5. /\ x \in JobType /\ x.setup = y.setup /\ x.mode = y.mode /\ x.size = y.size
      /\ x.status = status
  BY <1>2, <1>4 DEF JobType
<1>6. imageJob' = [imageJob EXCEPT ![j] = x]
  BY <1>1, <1>3
<1>7. x.status # "invalid"
  BY <1>5
<1>8. /\ Settled(x.setup)
      /\ x.mode # "text" => [setup |-> x.setup, op |-> x.mode] \in proven
      /\ x.setup.provider # "chat" => ValidOptions(x.setup, x.size)
  BY Zenon, <1>2, <1>5
<1> QED BY <1>5, <1>6, <1>7, <1>8, JobStep

-----------------------------------------------------------------------------
LEMMA BeginTestStep ==
    ASSUME ModelsInv, NEW t \in Tests, NEW m \in ImageModelIds, NEW op \in Edits, BeginTest(t, m, op)
    PROVE  ModelsInv'
<1>1. PICK x : x = [status |-> "testing", model |-> m, record |-> imageModel[m], op |-> op]
  OBVIOUS
<1>2. /\ imageModel[m] # None /\ testing' = [testing EXCEPT ![t] = x]
      /\ UNCHANGED <<imageModel, passedChecks, imageJob, saves, proven>>
  BY Zenon, <1>1 DEF BeginTest
<1>3. imageModel[m] \in ModelType /\ imageModel[m].at <= saves
  BY <1>2 DEF ModelsInv, ImageModelsTypeOK, Existing
<1>4. x \in TestType /\ x.record = imageModel[m] /\ x.model = m
  BY <1>1, <1>3 DEF TestType
<1>5. /\ DOMAIN testing' = Tests /\ testing'[t] = x
      /\ \A u \in Tests \ {t} : testing'[u] = testing[u]
  BY <1>2 DEF ModelsInv, Domains
<1>6. TestsDated'
  <2> SUFFICES ASSUME NEW u \in Tests, testing'[u] # None
               PROVE  /\ testing'[u] \in TestType
                      /\ testing'[u].record.at <= saves
                      /\ imageModel[testing'[u].model] # None
                         /\ imageModel[testing'[u].model].at = testing'[u].record.at
                            => imageModel[testing'[u].model] = testing'[u].record
    BY <1>2 DEF TestsDated
  <2>1. CASE u = t
    BY Zenon, <1>3, <1>4, <1>5, <2>1
  <2>2. CASE u # t
    <3>1. testing'[u] = testing[u]
      BY <1>5, <2>2
    <3> QED BY Zenon, <3>1 DEF ModelsInv, TestsDated
  <2> QED BY <2>1, <2>2
<1> QED BY <1>2, <1>5, <1>6 DEF ModelsInv, ImageModelsTypeOK, Existing, ChecksProven, JobsAccepted, Domains

\* A test files its check for the record it tested, which is that of the model
\* unless the model was saved meanwhile.
LEMMA EndTestStep ==
    ASSUME ModelsInv, NEW t \in Tests, NEW ok \in BOOLEAN, EndTest(t, ok)
    PROVE  ModelsInv'
<1>1. PICK x : x = testing[t]
  OBVIOUS
<1>2. PICK check : check = [model |-> x.model, stamp |-> Stamp(x.record), op |-> x.op]
  OBVIOUS
<1>3. /\ testing[t] # None /\ testing' = [testing EXCEPT ![t] = None]
      /\ UNCHANGED <<imageModel, imageJob, saves>>
      /\ \/ passedChecks' = IF ok THEN passedChecks \cup {check} ELSE passedChecks \ {check}
         \/ passedChecks' = passedChecks
      /\ proven' = IF ok THEN proven \cup {[setup |-> ModelSnapshot(x.record), op |-> x.op]} ELSE proven
  BY Zenon, <1>1, <1>2 DEF EndTest, Filed
<1>4. /\ x \in TestType /\ x.record.at <= saves
      /\ imageModel[x.model] # None /\ imageModel[x.model].at = x.record.at
            => imageModel[x.model] = x.record
  BY Zenon, <1>1, <1>3 DEF ModelsInv, TestsDated
<1>5. proven \subseteq proven' /\ (ok => [setup |-> ModelSnapshot(x.record), op |-> x.op] \in proven')
  BY Zenon, <1>3
<1>6. /\ check.model = x.model /\ check.op = x.op /\ check.stamp = Stamp(x.record)
      /\ Stamp(x.record).at = x.record.at
  BY <1>2 DEF Stamp
<1>7. check \in CheckType
  <2>1. x.record \in ModelType /\ x.model \in ImageModelIds /\ x.op \in Edits
    BY <1>4 DEF TestType
  <2>2. Stamp(x.record) \in [setup : Setup, at : 0..MaxSaves]
    BY <2>1 DEF Stamp, SetupOf, Setup, ModelType
  <2> QED BY <1>2, <2>1, <2>2 DEF CheckType
<1>8. ASSUME NEW c \in passedChecks'
      PROVE  /\ c \in CheckType /\ c.stamp.at <= saves
             /\ imageModel[c.model] # None /\ imageModel[c.model].at = c.stamp.at
                   => [setup |-> ModelSnapshot(imageModel[c.model]), op |-> c.op] \in proven'
  <2>1. CASE c \in passedChecks
    <3>1. c \in CheckType
      BY <2>1 DEF ModelsInv, ImageModelsTypeOK
    <3> QED BY Zenon, <1>5, <2>1, <3>1 DEF ModelsInv, ChecksProven
  <2>2. CASE c \notin passedChecks
    <3>1. ok /\ c = check
      BY <1>3, <1>8, <2>2
    <3> QED BY Zenon, <1>4, <1>5, <1>6, <1>7, <3>1
  <2> QED BY <2>1, <2>2
<1>9. ChecksProven' /\ passedChecks' \subseteq CheckType
  BY Zenon, <1>3, <1>8 DEF ChecksProven
<1>10. DOMAIN testing' = Tests /\ testing'[t] = None /\ \A u \in Tests \ {t} : testing'[u] = testing[u]
  BY <1>3 DEF ModelsInv, Domains
<1>11. TestsDated'
  <2> SUFFICES ASSUME NEW u \in Tests, testing'[u] # None
               PROVE  /\ testing'[u] \in TestType
                      /\ testing'[u].record.at <= saves
                      /\ imageModel[testing'[u].model] # None
                         /\ imageModel[testing'[u].model].at = testing'[u].record.at
                            => imageModel[testing'[u].model] = testing'[u].record
    BY <1>3 DEF TestsDated
  <2>1. testing'[u] = testing[u]
    BY <1>10
  <2> QED BY Zenon, <2>1 DEF ModelsInv, TestsDated
<1>12. JobsAccepted'
  <2> SUFFICES ASSUME NEW i \in ImageJobIds, imageJob[i] # None
               PROVE  /\ imageJob[i] \in JobType
                      /\ Settled(imageJob[i].setup)
                      /\ imageJob[i].status \in {"queued", "running", "calling"} =>
                           /\ imageJob[i].mode # "text" => [setup |-> imageJob[i].setup, op |-> imageJob[i].mode] \in proven'
                           /\ imageJob[i].setup.provider # "chat" => ValidOptions(imageJob[i].setup, imageJob[i].size)
                      /\ imageJob[i].status = "invalid" => imageJob[i].setup.provider = "chat"
    BY <1>3 DEF JobsAccepted
  <2> QED BY Zenon, <1>5 DEF ModelsInv, JobsAccepted
<1>13. ImageModelsTypeOK'
  BY <1>3, <1>9 DEF ModelsInv, ImageModelsTypeOK, Existing
<1> QED BY <1>3, <1>9, <1>10, <1>11, <1>12, <1>13 DEF ModelsInv, Domains, Existing

\* create_job: the check it saw was passed by what it keeps.
LEMMA SubmitStep ==
    ASSUME ModelsInv, NEW j \in ImageJobIds, NEW mode \in Kinds, NEW size \in Sizes, Submit(j, mode, size)
    PROVE  ModelsInv'
<1>1. PICK m \in Active, n \in Pictures(mode) :
         /\ Accepts(imageModel[m].provider, imageModel[m].config)
         /\ MayEdit(m, imageModel[m], mode, n)
         /\ Renders(imageModel[m].provider, ConfigOf(imageModel[m]), size)
         /\ imageJob' = [imageJob EXCEPT ![j] =
              [status |-> "queued", model |-> m, mode |-> mode, size |-> size,
               setup |-> ModelSnapshot(imageModel[m])]]
  BY Zenon DEF Submit
<1>2. UNCHANGED <<imageModel, passedChecks, testing, saves, proven>>
  BY DEF Submit
<1>3. PICK r : r = imageModel[m]
  OBVIOUS
<1>4. r \in ModelType /\ m \in ImageModelIds /\ r # None
  BY <1>3 DEF Active, Existing, ModelsInv, ImageModelsTypeOK
<1>5. PICK s : s = ModelSnapshot(r)
  OBVIOUS
<1>6. s \in Setup /\ Settled(s) /\ s.provider = r.provider /\ s.config = ConfigOf(r)
  BY Zenon, <1>4, <1>5, SnapshotFacts
<1>7. PICK x : x = [status |-> "queued", model |-> m, mode |-> mode, size |-> size, setup |-> s]
  OBVIOUS
<1>8. x \in JobType /\ x.status = "queued" /\ x.mode = mode /\ x.size = size /\ x.setup = s
  BY <1>4, <1>6, <1>7 DEF JobType
<1>9. mode # "text" => [setup |-> s, op |-> mode] \in proven
  <2> SUFFICES ASSUME mode # "text" PROVE [setup |-> s, op |-> mode] \in proven
    OBVIOUS
  <2>1. mode \in Verified(m, r)
    BY Zenon, <1>1, <1>3 DEF MayEdit
  <2>2. PICK c : c = [model |-> m, stamp |-> Stamp(r), op |-> mode]
    OBVIOUS
  <2>3. c \in passedChecks
    BY Zenon, <2>1, <2>2 DEF Verified
  <2>4. c.model = m /\ c.op = mode /\ c.stamp.at = r.at
    BY <2>2 DEF Stamp
  <2> QED BY Zenon, <1>3, <1>4, <1>5, <2>3, <2>4 DEF ModelsInv, ChecksProven
<1>10. s.provider # "chat" => ValidOptions(s, size)
  <2> SUFFICES ASSUME s.provider # "chat" PROVE ValidOptions(s, size)
    OBVIOUS
  <2>1. Accepts(s.provider, s.config)
    BY Zenon, <1>1, <1>3, <1>4, <1>6, SnapshotAccepted
  <2>2. Renders(s.provider, s.config, size)
    BY Zenon, <1>1, <1>3, <1>6
  <2> QED BY Zenon, <1>6, <2>1, <2>2 DEF ValidOptions, Settled
<1>11. imageJob' = [imageJob EXCEPT ![j] = x]
  BY Zenon, <1>1, <1>3, <1>5, <1>7
<1>12. x.status # "invalid" /\ Settled(x.setup)
  BY <1>6, <1>8
<1>13. /\ x.mode # "text" => [setup |-> x.setup, op |-> x.mode] \in proven
       /\ x.setup.provider # "chat" => ValidOptions(x.setup, x.size)
  BY Zenon, <1>8, <1>9, <1>10
<1> QED BY <1>2, <1>8, <1>11, <1>12, <1>13, JobStep

\* The worker calls what the job was accepted with.
LEMMA CallProviderStep ==
    ASSUME ModelsInv, NEW j \in ImageJobIds, CallProvider(j)
    PROVE  ModelsInv'
<1>1. PICK y : y = imageJob[j]
  OBVIOUS
<1>2. /\ imageJob[j] # None /\ y.status = "running" /\ DOMAIN imageJob = ImageJobIds
      /\ UNCHANGED <<imageModel, passedChecks, testing, saves, proven>>
  BY <1>1 DEF CallProvider, ModelsInv, Domains
<1>3. /\ y \in JobType /\ Settled(y.setup)
      /\ y.mode # "text" => [setup |-> y.setup, op |-> y.mode] \in proven
      /\ y.setup.provider # "chat" => ValidOptions(y.setup, y.size)
  <2>1. y.status \in {"queued", "running", "calling"}
    BY <1>2
  <2> QED BY Zenon, <1>1, <1>2, <2>1 DEF ModelsInv, JobsAccepted
<1>4. CASE ValidOptions(y.setup, y.size)
  <2>1. [y.setup EXCEPT !.config = Normal(y.setup.provider, y.setup.config, {})] = y.setup
    <3>1. y.setup \in Setup
      BY <1>3 DEF JobType
    <3> QED BY <1>3, <3>1, SetupUnchanged
  <2>2. imageJob' = [imageJob EXCEPT ![j].status = "calling", ![j].setup = y.setup]
    BY Zenon, <1>1, <1>4, <2>1 DEF CallProvider, ExecutionOf
  <2>3. PICK z : z = [y EXCEPT !.status = "calling"]
    OBVIOUS
  <2>4. z = [status |-> "calling", model |-> y.model, mode |-> y.mode, size |-> y.size, setup |-> y.setup]
    BY <1>3, <2>3 DEF JobType
  <2>5. [z EXCEPT !.setup = y.setup] = z
    BY <2>4
  <2>6. imageJob' = [imageJob EXCEPT ![j].status = "calling"]
    <3>1. PICK f : f = [imageJob EXCEPT ![j].status = "calling"]
      OBVIOUS
    <3>2. f = [imageJob EXCEPT ![j] = z]
      BY <1>1, <2>3, <3>1
    <3>3. imageJob' = [f EXCEPT ![j].setup = y.setup]
      BY Zenon, <2>2, <3>1
    <3>4. f[j] = z /\ DOMAIN f = ImageJobIds
      BY <1>2, <3>2
    <3>5. imageJob' = [f EXCEPT ![j] = z]
      BY Zenon, <2>5, <3>3, <3>4
    <3>6. [f EXCEPT ![j] = z] = f
      BY <1>2, <3>2
    <3> QED BY Zenon, <3>1, <3>5, <3>6
  <2> QED BY <1>1, <1>2, <2>6, JobGoesOn
<1>5. CASE ~ ValidOptions(y.setup, y.size)
  <2>1. imageJob' = [imageJob EXCEPT ![j].status = "invalid"]
    BY Zenon, <1>1, <1>5 DEF CallProvider, ExecutionOf
  <2>2. PICK x : x = [y EXCEPT !.status = "invalid"]
    OBVIOUS
  <2>3. x = [status |-> "invalid", model |-> y.model, mode |-> y.mode, size |-> y.size, setup |-> y.setup]
    BY <1>3, <2>2 DEF JobType
  <2>4. x \in JobType /\ x.status = "invalid" /\ x.setup = y.setup
    BY <1>3, <2>3 DEF JobType
  <2>5. x.setup.provider = "chat" /\ Settled(x.setup)
    BY Zenon, <1>3, <1>5, <2>4
  <2>6. imageJob' = [imageJob EXCEPT ![j] = x]
    BY <1>1, <2>1, <2>2
  <2>7. x.status \notin {"queued", "running", "calling"}
    BY <2>4
  <2> QED BY <1>2, <2>4, <2>5, <2>6, <2>7, JobStep
<1> QED BY <1>4, <1>5

LEMMA ModelsInvStep ==
    ASSUME ModelsInv, ImageModelsNext
    PROVE  ModelsInv'
<1>1. ASSUME NEW m \in ImageModelIds, NEW a \in Addresses, NEW s \in {"active", "inactive"},
             NEW o \in Proposals, CreateModel(m, o.provider, a, o.draft, s)
      PROVE  ModelsInv'
  <2>1. o.provider \in Protocols /\ o.draft \in Draft /\ {} \in SUBSET Sizes
    BY ModelsAssumption
  <2>2. Save(m, o.provider, a, o.draft, {}, s)
    BY Zenon, <1>1 DEF CreateModel
  <2> QED BY <2>1, <2>2, SaveStep
<1>2. ASSUME NEW m \in ImageModelIds, NEW a \in Addresses, NEW s \in {"active", "inactive"},
             NEW o \in Proposals, NEW keeps \in BOOLEAN, UpdateModel(m, o.provider, a, o.draft, keeps, s)
      PROVE  ModelsInv'
  <2>1. o.provider \in Protocols /\ o.draft \in Draft
    BY ModelsAssumption
  <2>2. PICK d : d = IF ~ keeps THEN o.draft
                     ELSE IF o.provider = imageModel[m].provider THEN imageModel[m].config ELSE NoDraft
    OBVIOUS
  <2>3. imageModel[m] # None /\ Save(m, o.provider, a, d, imageModel[m].listed, s)
    BY Zenon, <1>2, <2>2 DEF UpdateModel
  <2>4. imageModel[m] \in ModelType
    BY <2>3 DEF ModelsInv, ImageModelsTypeOK, Existing
  <2>5. imageModel[m].config \in Draft /\ imageModel[m].listed \in SUBSET Sizes
    BY <2>4 DEF ModelType
  <2>6. d \in Draft
    BY Zenon, <2>1, <2>2, <2>5, NoDraftType
  <2> QED BY <2>1, <2>3, <2>5, <2>6, SaveStep
<1>3. ASSUME NEW m \in ImageModelIds, DeleteModel(m) PROVE ModelsInv'
  <2>1. /\ imageModel' = [imageModel EXCEPT ![m] = None]
        /\ UNCHANGED <<passedChecks, testing, imageJob, saves, proven>>
    BY <1>3 DEF DeleteModel
  <2>2. /\ DOMAIN imageModel' = ImageModelIds /\ imageModel'[m] = None
        /\ \A n \in ImageModelIds \ {m} : imageModel'[n] = imageModel[n]
        /\ saves \in 0..MaxSaves
    BY <2>1 DEF ModelsInv, Domains, ImageModelsTypeOK
  <2>3. ASSUME NEW n \in ImageModelIds, NEW k \in ImageModelIds,
               imageModel'[n] # None /\ imageModel'[k] # None,
               imageModel'[n].status = "active" /\ imageModel'[k].status = "active"
        PROVE  n = k
    BY <2>2, <2>3 DEF ModelsInv, ImageModelsTypeOK, Existing
  <2>4. \A n \in ImageModelIds : imageModel'[n] = imageModel[n] \/ imageModel'[n] = None
    BY <2>2
  <2> QED BY <2>1, <2>2, <2>3, <2>4, ModelsStep
<1>4. ASSUME NEW m \in ImageModelIds, NEW t \in Tests, NEW op \in Probes, BeginTest(t, m, op)
      PROVE  ModelsInv'
  BY <1>4, BeginTestStep DEF Probes
<1>5. ASSUME NEW j \in ImageJobIds, CancelJob(j) \/ ClaimJob(j) \/ FinishJob(j) PROVE ModelsInv'
  <2>1. CASE CancelJob(j)
    BY <2>1, JobGoesOn DEF CancelJob
  <2>2. CASE ClaimJob(j)
    BY <2>2, JobGoesOn DEF ClaimJob
  <2>3. CASE FinishJob(j)
    <3>1. PICK s \in {"succeeded", "failed"} : imageJob' = [imageJob EXCEPT ![j].status = s]
      BY Zenon, <2>3 DEF FinishJob
    <3> QED BY <2>3, <3>1, JobGoesOn DEF FinishJob
  <2> QED BY <1>5, <2>1, <2>2, <2>3
<1> QED
  BY Zenon, <1>1, <1>2, <1>3, <1>4, <1>5, EndTestStep, SubmitStep, CallProviderStep DEF ImageModelsNext

LEMMA ModelsInvariant == ImageModelsSpec => []ModelsInv
<1>1. ImageModelsInit => ModelsInv
  <2> SUFFICES ASSUME ImageModelsInit PROVE ModelsInv
    OBVIOUS
  <2>1. \A t \in Tests : testing[t] = None
    BY DEF ImageModelsInit
  <2>2. \A j \in ImageJobIds : imageJob[j] = None
    BY DEF ImageModelsInit
  <2>3. Domains
    BY DEF ImageModelsInit, Domains
  <2>4. ASSUME NEW m \in Existing PROVE imageModel[m] \in ModelType /\ imageModel[m].at = 0
    <3>1. (CHOOSE a \in Addresses : TRUE) \in Addresses
      BY ModelsAssumption
    <3>2. imageModel[m] \in [provider : {"openai", "chat"}, address : {CHOOSE a \in Addresses : TRUE},
                  config : {NoDraft}, listed : {DefaultSizes}, status : {"active"}, at : {0}]
      BY DEF ImageModelsInit, Existing
    <3>3. NoDraft \in Draft /\ 0 \in 0..MaxSaves /\ DefaultSizes \in SUBSET Sizes
      BY NoDraftType, ModelsAssumption
    <3> QED BY <3>1, <3>2, <3>3 DEF ModelType, Protocols
  <2>5. saves = 0 /\ saves \in 0..MaxSaves /\ passedChecks = {} /\ \A m, n \in Existing : m = n
    BY ModelsAssumption DEF ImageModelsInit
  <2>6. ImageModelsTypeOK
    BY <2>2, <2>4, <2>5 DEF ImageModelsTypeOK
  <2>7. TestsDated /\ JobsAccepted /\ ChecksProven
    BY <2>1, <2>2, <2>5 DEF TestsDated, JobsAccepted, ChecksProven
  <2> QED BY <2>3, <2>4, <2>5, <2>6, <2>7 DEF ModelsInv
<1>2. ModelsInv /\ UNCHANGED imageModelsVars => ModelsInv'
  <2> SUFFICES ASSUME ModelsInv, UNCHANGED imageModelsVars PROVE ModelsInv'
    OBVIOUS
  <2>1. UNCHANGED <<imageModel, passedChecks, testing, imageJob, saves, proven>>
    BY DEF imageModelsVars
  <2>2. ImageModelsTypeOK' /\ Domains' /\ (\A m \in Existing : imageModel[m].at <= saves)'
    BY <2>1 DEF ModelsInv, ImageModelsTypeOK, Existing, Domains
  <2>3. TestsDated' /\ ChecksProven' /\ JobsAccepted'
    BY Zenon, <2>1 DEF ModelsInv, TestsDated, ChecksProven, JobsAccepted
  <2> QED BY <2>2, <2>3 DEF ModelsInv
<1> QED BY <1>1, <1>2, ModelsInvStep, PTL DEF ImageModelsSpec

(* No picture is edited by a setup that has not passed a test of that kind of  *)
(* edit, however models change while tests run and jobs wait                    *)
(* (platform/image_generation/service.py, create_job and process_next_job).     *)
THEOREM EditsAreVerified == ImageModelsSpec => []EditsVerified
<1>1. ModelsInv => EditsVerified
  BY Zenon DEF ModelsInv, JobsAccepted, EditsVerified
<1> QED BY <1>1, ModelsInvariant, PTL

(* A job that was accepted is not refused by the worker as one no model can    *)
(* render, but for the old chat protocol (_execution_model and                  *)
(* normalize_output_options).                                                   *)
THEOREM AcceptedJobsRun == ImageModelsSpec => []AcceptedRuns
<1>1. ModelsInv => AcceptedRuns
  BY Zenon DEF ModelsInv, JobsAccepted, AcceptedRuns
<1> QED BY <1>1, ModelsInvariant, PTL

(* The types of models, checks and jobs hold throughout, and never two models   *)
(* are active (save_model).                                                     *)
THEOREM ImageModelsTypes == ImageModelsSpec => []ImageModelsTypeOK
<1>1. ModelsInv => ImageModelsTypeOK
  BY DEF ModelsInv
<1> QED BY <1>1, ModelsInvariant, PTL

-----------------------------------------------------------------------------
(***************************************************************************)
(* Releases: what the page shows.                                          *)
(***************************************************************************)

AnyRelease == ReleaseType \cup {NoRelease}

\* A check that asks or has to store holds check_lock.
LockHeld ==
  \A a \in Administrators :
    checking[a].stage \in {"manifest", "verified", "failed"} => checkLock = a
\* A check goes on with the release it was told of.
AsksForRelease ==
  \A a \in Administrators :
    checking[a].stage \in {"manifest", "verified"} => checking[a].release \in ReleaseType
\* The release verified last is in the row, unless it is still to be stored or
\* the row it was stored in could not be read by a later check.
VerifiedIsStored ==
  /\ \A a \in Administrators :
       checking[a].stage = "verified" => checking[a].release = verified
  /\ ~Storing =>
       \/ lastCheck.release = verified
       \/ verified /= NoRelease /\ verified.oversized /\ lastCheck.release = NoRelease

ReleasesInv ==
  /\ ReleasesTypeOK /\ DOMAIN checking = Administrators
  /\ LockHeld /\ AsksForRelease /\ VerifiedIsStored

-----------------------------------------------------------------------------
LEMMA NoReleaseApart == NoRelease \notin ReleaseType
<1>1. SUFFICES ASSUME NoRelease \in ReleaseType PROVE FALSE
  OBVIOUS
<1>2. NoRelease.version \in Builds
  BY <1>1 DEF ReleaseType
<1>3. NoRelease.version = 0
  BY DEF NoRelease
<1> QED BY <1>2, <1>3, ReleasesAssumption

LEMMA NoRowType == EmptyRow \in [failed : BOOLEAN, release : AnyRelease]
  BY DEF EmptyRow, AnyRelease

\* A row that is too long is read as one without a release.
LEMMA LoadedRelease ==
  ASSUME ReleasesTypeOK
  PROVE  /\ Loaded.release \in AnyRelease
         /\ \/ Loaded.release = lastCheck.release
            \/ /\ Loaded.release = NoRelease
               /\ lastCheck.release /= NoRelease /\ lastCheck.release.oversized
<1>0. lastCheck \in [failed : BOOLEAN, release : AnyRelease]
  BY DEF ReleasesTypeOK, AnyRelease
<1>1. CASE lastCheck.release /= NoRelease /\ lastCheck.release.oversized
  <2>1. Loaded = EmptyRow
    BY Zenon, <1>1 DEF Loaded
  <2>2. EmptyRow.release = NoRelease
    BY DEF EmptyRow
  <2> QED BY <1>1, <2>1, <2>2, NoRowType
<1>2. CASE ~(lastCheck.release /= NoRelease /\ lastCheck.release.oversized)
  <2>1. Loaded = lastCheck
    BY Zenon, <1>2 DEF Loaded
  <2> QED BY <1>0, <1>2, <2>1
<1> QED BY <1>1, <1>2

-----------------------------------------------------------------------------
\* One check goes on: how the parts of the invariant follow for the others.
LEMMA OneCheckMoves ==
  ASSUME ReleasesInv, NEW a \in Administrators, NEW c,
         checking' = [checking EXCEPT ![a] = c],
         c.stage \in {"idle", "waiting", "manifest", "verified", "failed", "respond"},
         c.stage \in {"manifest", "verified"} => c.release \in ReleaseType,
         checkLock' \in Administrators \cup {Nobody},
         c.stage \in {"manifest", "verified", "failed"} => checkLock' = a,
         checkLock' = checkLock \/ checkLock \in {Nobody, a}
  PROVE  /\ DOMAIN checking' = Administrators /\ LockHeld' /\ AsksForRelease'
         /\ checking'[a] = c
         /\ \A b \in Administrators \ {a} : checking'[b] = checking[b]
         /\ \A b \in Administrators :
              checking'[b].stage \in {"idle", "waiting", "manifest", "verified", "failed", "respond"}
<1>1. /\ DOMAIN checking' = Administrators /\ checking'[a] = c
      /\ \A b \in Administrators \ {a} : checking'[b] = checking[b]
  BY DEF ReleasesInv
<1>2. LockHeld'
  <2> SUFFICES ASSUME NEW b \in Administrators,
                      checking'[b].stage \in {"manifest", "verified", "failed"}
               PROVE  checkLock' = b
    BY DEF LockHeld
  <2>1. CASE b = a
    BY <1>1, <2>1
  <2>2. CASE b /= a
    <3>1. checking'[b] = checking[b]
      BY <1>1, <2>2
    <3>2. checkLock = b
      BY <3>1 DEF ReleasesInv, LockHeld
    <3> QED BY <2>2, <3>2, ReleasesAssumption
  <2> QED BY <2>1, <2>2
<1>3. AsksForRelease'
  BY <1>1 DEF AsksForRelease, ReleasesInv
<1>4. \A b \in Administrators :
        checking'[b].stage \in {"idle", "waiting", "manifest", "verified", "failed", "respond"}
  BY <1>1 DEF ReleasesInv, ReleasesTypeOK
<1> QED BY <1>1, <1>2, <1>3, <1>4

\* A check that neither verifies nor stores leaves what is verified as it was.
LEMMA NothingVerified ==
  ASSUME ReleasesInv, NEW a \in Administrators,
         checking'[a].stage /= "verified", checking[a].stage /= "verified",
         \A b \in Administrators \ {a} : checking'[b] = checking[b],
         lastCheck' = lastCheck, verified' = verified
  PROVE  VerifiedIsStored'
<1>1. ASSUME NEW b \in Administrators, checking'[b].stage = "verified"
      PROVE  b /= a /\ checking[b].stage = "verified" /\ checking'[b].release = verified'
  BY <1>1 DEF ReleasesInv, VerifiedIsStored
<1>2. Storing => Storing'
  BY DEF Storing
<1> QED BY <1>1, <1>2 DEF ReleasesInv, VerifiedIsStored

LEMMA ReleasesStep ==
  ASSUME ReleasesInv, ReleasesNext
  PROVE  ReleasesInv'
<1>0. /\ latest \in AnyRelease /\ verified \in AnyRelease
      /\ lastCheck \in [failed : BOOLEAN, release : AnyRelease]
      /\ checkLock \in Administrators \cup {Nobody}
      /\ \A a \in Administrators :
           checking[a].stage \in {"idle", "waiting", "manifest", "verified", "failed", "respond"}
  BY DEF ReleasesInv, ReleasesTypeOK, AnyRelease
<1>1. ASSUME NEW r \in AnyRelease, Publish(r) PROVE ReleasesInv'
  BY <1>1 DEF Publish, ReleasesInv, ReleasesTypeOK, LockHeld, AsksForRelease, VerifiedIsStored, Storing, AnyRelease
<1>2. ASSUME NEW a \in Administrators, AskCheck(a) PROVE ReleasesInv'
  <2>1. PICK c : c = [stage |-> "waiting"]
    OBVIOUS
  <2>2. c.stage = "waiting"
    BY <2>1
  <2>3. /\ checking[a] = NoCheck /\ checking' = [checking EXCEPT ![a] = c]
        /\ latest' = latest /\ lastCheck' = lastCheck /\ checkLock' = checkLock /\ verified' = verified
    BY <1>2, <2>1 DEF AskCheck
  <2>4. checking[a].stage = "idle"
    BY <2>3 DEF NoCheck
  <2>5. /\ DOMAIN checking' = Administrators /\ LockHeld' /\ AsksForRelease' /\ checking'[a] = c
        /\ \A b \in Administrators \ {a} : checking'[b] = checking[b]
        /\ \A b \in Administrators :
              checking'[b].stage \in {"idle", "waiting", "manifest", "verified", "failed", "respond"}
    BY <1>0, <2>2, <2>3, OneCheckMoves
  <2>6. VerifiedIsStored'
    BY <2>2, <2>3, <2>4, <2>5, NothingVerified
  <2> QED BY <1>0, <2>3, <2>5, <2>6 DEF ReleasesInv, ReleasesTypeOK, AnyRelease
<1>3. ASSUME NEW a \in Administrators, AskRelease(a) PROVE ReleasesInv'
  <2>1. PICK c : c = IF Fetchable(latest) THEN [stage |-> "manifest", release |-> latest]
                     ELSE [stage |-> "failed"]
    OBVIOUS
  <2>2. c.stage \in {"manifest", "failed"} /\ (c.stage = "manifest" => c.release \in ReleaseType)
    <3>1. CASE Fetchable(latest)
      <4>1. latest \in ReleaseType
        BY <1>0, <3>1 DEF Fetchable, AnyRelease
      <4>2. c = [stage |-> "manifest", release |-> latest]
        BY <2>1, <3>1
      <4> QED BY <4>1, <4>2
    <3>2. CASE ~Fetchable(latest)
      BY <2>1, <3>2
    <3> QED BY <3>1, <3>2
  <2>3. /\ checkLock = Nobody /\ checking[a].stage = "waiting" /\ checkLock' = a
        /\ checking' = [checking EXCEPT ![a] = c]
        /\ latest' = latest /\ lastCheck' = lastCheck /\ verified' = verified
    BY <1>3, <2>1 DEF AskRelease, MayCheck
  <2>5. /\ DOMAIN checking' = Administrators /\ LockHeld' /\ AsksForRelease' /\ checking'[a] = c
        /\ \A b \in Administrators \ {a} : checking'[b] = checking[b]
        /\ \A b \in Administrators :
              checking'[b].stage \in {"idle", "waiting", "manifest", "verified", "failed", "respond"}
    BY <1>0, <2>2, <2>3, OneCheckMoves
  <2>6. VerifiedIsStored'
    BY <2>2, <2>3, <2>5, NothingVerified
  <2> QED BY <1>0, <2>3, <2>5, <2>6 DEF ReleasesInv, ReleasesTypeOK, AnyRelease
<1>4. ASSUME NEW a \in Administrators, AskManifest(a) PROVE ReleasesInv'
  <2>0. /\ checking[a].stage = "manifest" /\ checkLock = a /\ checking[a].release \in ReleaseType
        /\ latest' = latest /\ lastCheck' = lastCheck /\ checkLock' = checkLock
    BY <1>4 DEF AskManifest, ReleasesInv, LockHeld, AsksForRelease
  <2>1. CASE Sound(checking[a].release)
    <3>1. PICK c : c = [stage |-> "verified", release |-> checking[a].release]
      OBVIOUS
    <3>2. c.stage = "verified" /\ c.release = checking[a].release
      BY <3>1
    <3>3. checking' = [checking EXCEPT ![a] = c] /\ verified' = checking[a].release
      BY <1>4, <2>1, <3>1 DEF AskManifest
    <3>4. /\ DOMAIN checking' = Administrators /\ LockHeld' /\ AsksForRelease' /\ checking'[a] = c
          /\ \A b \in Administrators \ {a} : checking'[b] = checking[b]
          /\ \A b \in Administrators :
                checking'[b].stage \in {"idle", "waiting", "manifest", "verified", "failed", "respond"}
      BY <1>0, <2>0, <3>2, <3>3, OneCheckMoves
    <3>5. ASSUME NEW b \in Administrators, checking'[b].stage = "verified" PROVE b = a
      BY <2>0, <3>4, <3>5, ReleasesAssumption DEF LockHeld
    <3>6. Storing'
      BY <3>2, <3>4 DEF Storing
    <3>7. VerifiedIsStored'
      BY <3>2, <3>3, <3>4, <3>5, <3>6 DEF VerifiedIsStored
    <3> QED BY <1>0, <2>0, <3>3, <3>4, <3>7 DEF ReleasesInv, ReleasesTypeOK, AnyRelease
  <2>2. CASE ~Sound(checking[a].release)
    <3>1. PICK c : c = [stage |-> "failed"]
      OBVIOUS
    <3>2. c.stage = "failed"
      BY <3>1
    <3>3. checking' = [checking EXCEPT ![a] = c] /\ verified' = verified
      BY <1>4, <2>2, <3>1 DEF AskManifest
    <3>4. /\ DOMAIN checking' = Administrators /\ LockHeld' /\ AsksForRelease' /\ checking'[a] = c
          /\ \A b \in Administrators \ {a} : checking'[b] = checking[b]
          /\ \A b \in Administrators :
                checking'[b].stage \in {"idle", "waiting", "manifest", "verified", "failed", "respond"}
      BY <1>0, <2>0, <3>2, <3>3, OneCheckMoves
    <3>5. VerifiedIsStored'
      BY <2>0, <3>2, <3>3, <3>4, NothingVerified
    <3> QED BY <1>0, <2>0, <3>3, <3>4, <3>5 DEF ReleasesInv, ReleasesTypeOK, AnyRelease
  <2> QED BY <2>1, <2>2
<1>5. ASSUME NEW a \in Administrators, RequestFails(a) PROVE ReleasesInv'
  <2>1. PICK c : c = [stage |-> "failed"]
    OBVIOUS
  <2>2. c.stage = "failed"
    BY <2>1
  <2>3. /\ checkLock \in {Nobody, a} /\ checking[a].stage \in {"waiting", "manifest"} /\ checkLock' = a
        /\ checking' = [checking EXCEPT ![a] = c]
        /\ latest' = latest /\ lastCheck' = lastCheck /\ verified' = verified
    BY <1>5, <2>1 DEF RequestFails, MayCheck, ReleasesInv, LockHeld
  <2>5. /\ DOMAIN checking' = Administrators /\ LockHeld' /\ AsksForRelease' /\ checking'[a] = c
        /\ \A b \in Administrators \ {a} : checking'[b] = checking[b]
        /\ \A b \in Administrators :
              checking'[b].stage \in {"idle", "waiting", "manifest", "verified", "failed", "respond"}
    BY <1>0, <2>2, <2>3, OneCheckMoves
  <2>6. VerifiedIsStored'
    BY <2>2, <2>3, <2>5, NothingVerified
  <2> QED BY <1>0, <2>3, <2>5, <2>6 DEF ReleasesInv, ReleasesTypeOK, AnyRelease
<1>6. ASSUME NEW a \in Administrators, SaveCheck(a) PROVE ReleasesInv'
  <2>0. /\ checking[a].stage \in {"verified", "failed"} /\ checkLock = a /\ checkLock' = Nobody
        /\ latest' = latest /\ verified' = verified
    BY <1>6 DEF SaveCheck, ReleasesInv, LockHeld
  <2>1. PICK c : c = IF checking[a].stage = "verified" THEN [stage |-> "respond"] ELSE NoCheck
    OBVIOUS
  <2>2. c.stage \in {"respond", "idle"}
    BY <2>1 DEF NoCheck
  <2>3. checking' = [checking EXCEPT ![a] = c]
    BY <1>6, <2>1 DEF SaveCheck
  <2>4. /\ DOMAIN checking' = Administrators /\ LockHeld' /\ AsksForRelease' /\ checking'[a] = c
        /\ \A b \in Administrators \ {a} : checking'[b] = checking[b]
        /\ \A b \in Administrators :
              checking'[b].stage \in {"idle", "waiting", "manifest", "verified", "failed", "respond"}
    BY <1>0, <2>0, <2>2, <2>3, OneCheckMoves
  <2>5. \A b \in Administrators \ {a} : checking[b].stage /= "verified"
    BY <2>0, ReleasesAssumption DEF ReleasesInv, LockHeld
  <2>6. \A b \in Administrators : checking'[b].stage /= "verified"
    BY <2>2, <2>4, <2>5
  <2>7. /\ lastCheck' \in [failed : BOOLEAN, release : AnyRelease]
        /\ \/ lastCheck'.release = verified
           \/ verified /= NoRelease /\ verified.oversized /\ lastCheck'.release = NoRelease
    <3>1. CASE checking[a].stage = "verified"
      <4>1. lastCheck' = [failed |-> FALSE, release |-> checking[a].release]
        BY <1>6, <3>1 DEF SaveCheck
      <4>2. checking[a].release = verified
        BY <3>1 DEF ReleasesInv, VerifiedIsStored
      <4> QED BY <1>0, <4>1, <4>2
    <3>2. CASE checking[a].stage /= "verified"
      <4>1. lastCheck' = [failed |-> TRUE, release |-> Loaded.release]
        BY <1>6, <3>2 DEF SaveCheck
      <4>2. ~Storing
        BY <2>5, <3>2 DEF Storing
      <4>3. \/ lastCheck.release = verified
            \/ verified /= NoRelease /\ verified.oversized /\ lastCheck.release = NoRelease
        BY <4>2 DEF ReleasesInv, VerifiedIsStored
      <4>4. /\ Loaded.release \in AnyRelease
            /\ \/ Loaded.release = lastCheck.release
               \/ /\ Loaded.release = NoRelease
                  /\ lastCheck.release /= NoRelease /\ lastCheck.release.oversized
        BY Zenon, LoadedRelease DEF ReleasesInv
      <4>5. lastCheck'.release = Loaded.release /\ lastCheck' \in [failed : BOOLEAN, release : AnyRelease]
        BY <4>1, <4>4
      <4> QED BY Zenon, <4>3, <4>4, <4>5
    <3> QED BY <3>1, <3>2
  <2>8. VerifiedIsStored'
    BY <2>0, <2>6, <2>7 DEF VerifiedIsStored
  <2> QED BY <1>0, <2>0, <2>4, <2>7, <2>8 DEF ReleasesInv, ReleasesTypeOK, AnyRelease
<1>7. ASSUME NEW a \in Administrators, Respond(a) PROVE ReleasesInv'
  <2>2. NoCheck.stage = "idle"
    BY DEF NoCheck
  <2>3. /\ checking[a].stage = "respond" /\ checkLock' = checkLock
        /\ checking' = [checking EXCEPT ![a] = NoCheck]
        /\ latest' = latest /\ lastCheck' = lastCheck /\ verified' = verified
    BY <1>7 DEF Respond
  <2>5. /\ DOMAIN checking' = Administrators /\ LockHeld' /\ AsksForRelease' /\ checking'[a] = NoCheck
        /\ \A b \in Administrators \ {a} : checking'[b] = checking[b]
        /\ \A b \in Administrators :
              checking'[b].stage \in {"idle", "waiting", "manifest", "verified", "failed", "respond"}
    BY <1>0, <2>2, <2>3, OneCheckMoves
  <2>6. VerifiedIsStored'
    BY <2>2, <2>3, <2>5, NothingVerified
  <2> QED BY <1>0, <2>3, <2>5, <2>6 DEF ReleasesInv, ReleasesTypeOK, AnyRelease
<1>8. CASE StopAndStart
  <2>1. /\ checking' = [a \in Administrators |-> NoCheck] /\ checkLock' = Nobody
        /\ verified' = lastCheck.release /\ latest' = latest /\ lastCheck' = lastCheck
    BY <1>8 DEF StopAndStart
  <2>2. DOMAIN checking' = Administrators /\ \A a \in Administrators : checking'[a].stage = "idle"
    BY <2>1 DEF NoCheck
  <2> QED BY <1>0, <2>1, <2>2 DEF ReleasesInv, ReleasesTypeOK, LockHeld, AsksForRelease, VerifiedIsStored, AnyRelease
<1> QED BY <1>1, <1>2, <1>3, <1>4, <1>5, <1>6, <1>7, <1>8 DEF ReleasesNext, AnyRelease

LEMMA ReleasesInvariant == ReleasesSpec => []ReleasesInv
<1>1. ReleasesInit => ReleasesInv
  <2> SUFFICES ASSUME ReleasesInit PROVE ReleasesInv
    OBVIOUS
  <2>1. DOMAIN checking = Administrators /\ \A a \in Administrators : checking[a].stage = "idle"
    BY DEF ReleasesInit, NoCheck
  <2>2. lastCheck.release = NoRelease /\ verified = NoRelease
    BY DEF ReleasesInit, EmptyRow
  <2>3. ReleasesTypeOK
    BY <2>1, NoRowType DEF ReleasesInit, ReleasesTypeOK, AnyRelease
  <2> QED BY <2>1, <2>2, <2>3 DEF ReleasesInv, LockHeld, AsksForRelease, VerifiedIsStored
<1>2. ReleasesInv /\ UNCHANGED releasesVars => ReleasesInv'
  BY DEF releasesVars, ReleasesInv, ReleasesTypeOK, LockHeld, AsksForRelease, VerifiedIsStored, Storing
<1> QED BY <1>1, <1>2, ReleasesStep, PTL DEF ReleasesSpec

\* "behind" is shown of a newer release only, and of no release never.
LEMMA BehindIsNewer ==
  ASSUME NEW release \in AnyRelease
  PROVE  (Relation(release) = "behind") <=> (release.version > Own)
<1>1. CASE release = NoRelease
  BY <1>1, ReleasesAssumption DEF Relation, NoRelease
<1>2. CASE release \in ReleaseType
  <2>1. release /= NoRelease /\ release.version \in Nat
    BY <1>2, NoReleaseApart, ReleasesAssumption DEF ReleaseType
  <2> QED BY <2>1, ReleasesAssumption DEF Relation
<1> QED BY <1>1, <1>2 DEF AnyRelease

(* As soon as no verified release waits to be stored, the page shows the one    *)
(* verified last, whatever checks overlapped, failed or were cut off, unless    *)
(* its row is too long to be read again (ProjectUpdateService.check and         *)
(* status).                                                                     *)
THEOREM PageShowsLastVerified == ReleasesSpec => []ShowsLastVerified
<1>1. ReleasesInv => ShowsLastVerified
  <2> SUFFICES ASSUME ReleasesInv, ~Storing PROVE ShowsLastVerified
    BY DEF ShowsLastVerified
  <2>1. \/ lastCheck.release = verified
        \/ verified /= NoRelease /\ verified.oversized /\ lastCheck.release = NoRelease
    BY DEF ReleasesInv, VerifiedIsStored
  <2>2. /\ \/ Loaded.release = lastCheck.release
           \/ /\ Loaded.release = NoRelease
              /\ lastCheck.release /= NoRelease /\ lastCheck.release.oversized
        /\ Loaded.release \in AnyRelease
    BY Zenon, LoadedRelease DEF ReleasesInv
  <2>3. Status.release = Loaded.release /\ Status.relation = Relation(Loaded.release)
    BY DEF Status
  <2>4. CASE Loaded.release = verified
    BY Zenon, <2>2, <2>3, <2>4, BehindIsNewer DEF ShowsLastVerified
  <2>5. CASE Loaded.release /= verified
    BY Zenon, <2>1, <2>2, <2>3, <2>5 DEF ShowsLastVerified
  <2> QED BY <2>4, <2>5
<1> QED BY <1>1, ReleasesInvariant, PTL

(* The types of the release status hold throughout.                             *)
THEOREM ReleasesTypes == ReleasesSpec => []ReleasesTypeOK
<1>1. ReleasesInv => ReleasesTypeOK
  BY DEF ReleasesInv
<1> QED BY <1>1, ReleasesInvariant, PTL

-----------------------------------------------------------------------------
(***************************************************************************)
(* Schema: what an upgrade keeps.                                          *)
(***************************************************************************)

Shared == \E s \in DOMAIN backups : Cardinality(backups[s].by) > 1
Held == UNION {backups[s].holds : s \in DOMAIN backups}

\* What a start has brought about by the time it is where i says: of backend b,
\* with h obsolete, c the added columns and f whether the counters are copied.
StepOK(i, b, h, c, f) ==
  /\ i.at \in {"down", "look", "backup", "drop", "columns", "add", "inspect", "clean", "ready"}
  /\ i.at \in {"backup", "drop"} => b = "sqlite" /\ Len(Obsolete) \in Nat \ {0}
  /\ i.at = "drop" => i.next \in 1..Len(Obsolete) /\ \A n \in 1..(i.next - 1) : Obsolete[n] \notin h
  /\ i.at \in {"inspect", "clean"} => b = "sql"
  /\ i.at = "inspect" => h \cap Tables \subseteq i.tables
  /\ i.at = "clean" => h \subseteq i.saw
  /\ i.at \in {"columns", "add", "ready"} => h = {}
  /\ i.at = "add" => i.missing \subseteq ItemsOf(Added) /\ ItemsOf(Added) \ c \subseteq i.missing
  /\ i.at = "ready" => c = ItemsOf(Added) /\ f = TRUE

Progress == \A p \in Instances : StepOK(instance[p], backend, present, columns, filled)

\* A copy is of a second that has come; a process that may still copy has not
\* copied in the second of its start.
CopiesDated ==
  /\ \A s \in DOMAIN backups :
       s \in 0..second /\ backups[s].by /= {} /\ IsFiniteSet(backups[s].by)
  /\ \A p \in Instances : instance[p].at \in {"look", "backup"} =>
       \A s \in DOMAIN backups : p \in backups[s].by => s < second

\* Unless a copy was overwritten by another process, the copies hold what is
\* gone, and everything as soon as a process drops.
CopiesHold ==
  backend = "sqlite" /\ ~Shared =>
    /\ had \ present \subseteq Held
    /\ (\E p \in Instances : instance[p].at = "drop") => had \subseteq Held

SchemaInv ==
  SchemaTypeOK /\ DOMAIN instance = Instances /\ Progress /\ CopiesDated /\ CopiesHold

-----------------------------------------------------------------------------
\* What a start has brought about stays while others drop and add.
LEMMA OthersGoOn ==
  ASSUME NEW i, NEW b, NEW h, NEW h2, NEW c, NEW c2, NEW f, NEW f2,
         h2 \subseteq h, c \subseteq c2, c2 \subseteq ItemsOf(Added),
         c = ItemsOf(Added) /\ f = TRUE => f2 = TRUE,
         StepOK(i, b, h, c, f)
  PROVE  StepOK(i, b, h2, c2, f2)
  BY DEF StepOK

LEMMA ProgressGoesOn ==
  ASSUME Progress, DOMAIN instance = Instances, NEW p \in Instances, NEW i,
         instance' = [instance EXCEPT ![p] = i],
         backend' = backend, present' \subseteq present, columns \subseteq columns',
         columns' \subseteq ItemsOf(Added),
         columns = ItemsOf(Added) /\ filled = TRUE => filled' = TRUE,
         StepOK(i, backend', present', columns', filled')
  PROVE  /\ Progress' /\ DOMAIN instance' = Instances
         /\ \A q \in Instances :
              instance'[q].at \in {"down", "look", "backup", "drop", "columns", "add", "inspect", "clean", "ready"}
<1>1. ASSUME NEW q \in Instances
      PROVE  StepOK(instance'[q], backend', present', columns', filled')
  <2>1. CASE q = p
    <3>1. instance'[q] = i
      BY <2>1
    <3> QED BY Zenon, <3>1
  <2>2. CASE q /= p
    <3>1. instance'[q] = instance[q]
      BY <2>2
    <3>2. StepOK(instance[q], backend, present, columns, filled)
      BY DEF Progress
    <3>3. StepOK(instance[q], backend, present', columns', filled')
      BY <3>2, OthersGoOn
    <3> QED BY Zenon, <3>1, <3>3
  <2> QED BY <2>1, <2>2
<1>2. Progress'
  BY <1>1 DEF Progress, StepOK
<1>3. \A q \in Instances :
        instance'[q].at \in {"down", "look", "backup", "drop", "columns", "add", "inspect", "clean", "ready"}
  BY <1>1 DEF StepOK
<1> QED BY <1>2, <1>3

\* A step that copies nothing: what the copies hold is enough also after it.
LEMMA CopiesKept ==
  ASSUME SchemaInv, NEW p \in Instances, NEW i, instance' = [instance EXCEPT ![p] = i],
         UNCHANGED <<backend, had, backups>>, second' \in {second, second + 1},
         i.at \in {"look", "backup"} => second' = second + 1 \/ instance[p].at = "look",
         i.at = "drop" => instance[p].at = "drop",
         present' = present \/ backend /= "sqlite" \/ instance[p].at = "drop"
  PROVE  CopiesDated' /\ CopiesHold'
<1>0. second \in Nat /\ DOMAIN instance = Instances
  BY DEF SchemaInv, SchemaTypeOK
<1>1. /\ \A q \in Instances \ {p} : instance'[q] = instance[q]
      /\ instance'[p] = i
  BY <1>0
<1>2. Shared' = Shared /\ Held' = Held
  BY Zenon DEF Shared, Held
<1>3. CopiesDated'
  <2>1. \A s \in DOMAIN backups' :
          s \in 0..second' /\ backups'[s].by /= {} /\ IsFiniteSet(backups'[s].by)
    BY <1>0 DEF SchemaInv, CopiesDated
  <2>2. ASSUME NEW q \in Instances, instance'[q].at \in {"look", "backup"},
               NEW s \in DOMAIN backups, q \in backups[s].by
        PROVE  s < second'
    <3>1. s \in 0..second
      BY DEF SchemaInv, CopiesDated
    <3>2. CASE second' = second + 1
      BY <1>0, <3>1, <3>2
    <3>3. CASE second' = second
      <4>1. instance[q].at \in {"look", "backup"}
        <5>1. CASE q = p
          BY <1>0, <1>1, <2>2, <3>3, <5>1
        <5>2. CASE q /= p
          BY <1>1, <2>2, <5>2
        <5> QED BY <5>1, <5>2
      <4> QED BY <2>2, <3>3, <4>1 DEF SchemaInv, CopiesDated
    <3> QED BY <3>2, <3>3
  <2> QED BY <2>1, <2>2 DEF CopiesDated
<1>4. CopiesHold'
  <2> SUFFICES ASSUME backend = "sqlite", ~Shared
               PROVE  /\ had \ present' \subseteq Held
                      /\ (\E q \in Instances : instance'[q].at = "drop") => had \subseteq Held
    BY <1>2 DEF CopiesHold
  <2>1. /\ had \ present \subseteq Held
        /\ (\E q \in Instances : instance[q].at = "drop") => had \subseteq Held
    BY DEF SchemaInv, CopiesHold
  <2>2. (\E q \in Instances : instance'[q].at = "drop") => had \subseteq Held
    BY <1>1, <2>1
  <2> QED BY <2>1, <2>2
<1> QED BY <1>3, <1>4

\* One more writer of a copy.
LEMMA OneMoreWriter ==
  ASSUME NEW S, IsFiniteSet(S), NEW p
  PROVE  /\ IsFiniteSet({p} \cup S) /\ {p} \cup S /= {}
         /\ Cardinality(S) > 1 => Cardinality({p} \cup S) > 1
         /\ S /= {} /\ p \notin S => Cardinality({p} \cup S) > 1
<1>1. {p} \cup S = S \cup {p}
  OBVIOUS
<1>2. /\ IsFiniteSet(S \cup {p}) /\ Cardinality(S) \in Nat
      /\ Cardinality(S \cup {p}) = IF p \in S THEN Cardinality(S) ELSE Cardinality(S) + 1
  BY FS_AddElement, FS_CardinalityType
<1>3. S /= {} => Cardinality(S) /= 0
  BY FS_EmptySet
<1> QED BY <1>1, <1>2, <1>3

\* The copy a process makes before it drops anything.
LEMMA BackupStep ==
  ASSUME SchemaInv, NEW p \in Instances, Backup(p)
  PROVE  SchemaInv'
<1>0. /\ second \in Nat /\ DOMAIN instance = Instances /\ instance[p].at = "backup"
      /\ present \subseteq had
      /\ \A s \in DOMAIN backups : backups[s] \in [holds : SUBSET had, by : SUBSET Instances]
      /\ StepOK(instance[p], backend, present, columns, filled)
  BY DEF SchemaInv, SchemaTypeOK, Backup, Progress
<1>1. PICK i : i = [at |-> "drop", next |-> 1, saw |-> FALSE]
  OBVIOUS
<1>2. i.at = "drop" /\ i.next = 1
  BY <1>1
<1>3. /\ instance' = [instance EXCEPT ![p] = i]
      /\ UNCHANGED <<backend, had, present, columns, filled, second, starts>>
      /\ backups' = [s \in DOMAIN backups \cup {second} |->
                   IF s /= second THEN backups[s]
                   ELSE [holds |-> present,
                         by |-> {p} \cup (IF s \in DOMAIN backups THEN backups[s].by ELSE {})]]
  BY <1>1 DEF Backup, Steps, SameClock, NamedBySecond
<1>4. /\ DOMAIN backups' = DOMAIN backups \cup {second}
      /\ \A s \in DOMAIN backups \ {second} : backups'[s] = backups[s]
      /\ backups'[second].holds = present
      /\ second \in DOMAIN backups => backups'[second].by = {p} \cup backups[second].by
      /\ second \notin DOMAIN backups => backups'[second].by = {p} \cup {}
      /\ backups'[second] = [holds |-> backups'[second].holds, by |-> backups'[second].by]
  BY <1>3
<1>5. StepOK(i, backend', present', columns', filled')
  <2>1. backend = "sqlite" /\ Len(Obsolete) \in Nat \ {0}
    BY <1>0 DEF StepOK
  <2> QED BY <1>2, <1>3, <2>1 DEF StepOK
<1>6. /\ Progress' /\ DOMAIN instance' = Instances
      /\ \A q \in Instances :
           instance'[q].at \in {"down", "look", "backup", "drop", "columns", "add", "inspect", "clean", "ready"}
  <2>1. columns \subseteq ItemsOf(Added)
    BY DEF SchemaInv, SchemaTypeOK
  <2> QED BY <1>0, <1>3, <1>5, <2>1, ProgressGoesOn DEF SchemaInv
<1>7. \A s \in DOMAIN backups : s \in 0..second /\ backups[s].by /= {} /\ IsFiniteSet(backups[s].by)
  BY DEF SchemaInv, CopiesDated
<1>8. IsFiniteSet({})
  BY FS_EmptySet
<1>9. \A s \in DOMAIN backups' :
         /\ s \in 0..second' /\ backups'[s].by /= {} /\ IsFiniteSet(backups'[s].by)
         /\ backups'[s] \in [holds : SUBSET had, by : SUBSET Instances]
  <2> SUFFICES ASSUME NEW s \in DOMAIN backups'
               PROVE  /\ s \in 0..second /\ backups'[s].by /= {} /\ IsFiniteSet(backups'[s].by)
                      /\ backups'[s] \in [holds : SUBSET had, by : SUBSET Instances]
    BY <1>3
  <2>1. CASE s /= second
    BY <1>0, <1>4, <1>7, <2>1
  <2>2. CASE s = second /\ second \in DOMAIN backups
    <3>1. /\ backups'[s].by = {p} \cup backups[second].by /\ IsFiniteSet(backups[second].by)
          /\ backups[second].by \subseteq Instances
      BY <1>0, <1>4, <1>7, <2>2
    <3>2. IsFiniteSet(backups'[s].by) /\ backups'[s].by /= {}
      BY <3>1, OneMoreWriter
    <3> QED BY <1>0, <1>4, <2>2, <3>1, <3>2
  <2>3. CASE s = second /\ second \notin DOMAIN backups
    <3>1. backups'[s].by = {p} \cup {}
      BY <1>4, <2>3
    <3>2. IsFiniteSet(backups'[s].by) /\ backups'[s].by /= {}
      BY Zenon, <1>8, <3>1, OneMoreWriter
    <3> QED BY <1>0, <1>4, <2>3, <3>1, <3>2
  <2> QED BY <2>1, <2>2, <2>3
<1>10. CopiesDated'
  <2>1. ASSUME NEW q \in Instances, instance'[q].at \in {"look", "backup"},
               NEW s \in DOMAIN backups', q \in backups'[s].by
        PROVE  s < second'
    <3>1. q /= p /\ instance[q].at \in {"look", "backup"}
      BY <1>0, <1>2, <1>3, <2>1
    <3>2. s \in DOMAIN backups /\ q \in backups[s].by
      BY <1>3, <1>4, <2>1, <3>1
    <3> QED BY <1>3, <3>1, <3>2 DEF SchemaInv, CopiesDated
  <2> QED BY <1>9, <2>1 DEF CopiesDated
<1>11. CopiesHold'
  <2> SUFFICES ASSUME backend = "sqlite", ~Shared' PROVE had \subseteq Held'
    BY <1>3 DEF CopiesHold
  <2>1. second \notin DOMAIN backups
    <3> SUFFICES ASSUME second \in DOMAIN backups PROVE FALSE
      OBVIOUS
    <3>1. p \notin backups[second].by
      BY <1>0 DEF SchemaInv, CopiesDated
    <3>2. Cardinality({p} \cup backups[second].by) > 1
      BY <1>7, <3>1, OneMoreWriter
    <3> QED BY <1>4, <3>2 DEF Shared
  <2>2. ~Shared
    BY <1>4, <2>1 DEF Shared
  <2>3. had \ present \subseteq Held
    BY <2>2 DEF SchemaInv, CopiesHold
  <2>4. Held \subseteq Held'
    BY <1>4, <2>1 DEF Held
  <2>5. present \subseteq Held'
    BY <1>4 DEF Held
  <2> QED BY <2>3, <2>4, <2>5
<1> QED BY <1>3, <1>6, <1>9, <1>10, <1>11 DEF SchemaInv, SchemaTypeOK

-----------------------------------------------------------------------------
\* A step of one process that copies nothing keeps the invariant.
LEMMA OneStep ==
  ASSUME SchemaInv, NEW p \in Instances, NEW i, instance' = [instance EXCEPT ![p] = i],
         UNCHANGED <<backend, had, backups>>, second' \in {second, second + 1},
         i.at \in {"look", "backup"} => second' = second + 1 \/ instance[p].at = "look",
         i.at = "drop" => instance[p].at = "drop",
         present' = present \/ backend /= "sqlite" \/ instance[p].at = "drop",
         present' \subseteq present, columns \subseteq columns', columns' \subseteq ItemsOf(Added),
         columns = ItemsOf(Added) /\ filled = TRUE => filled' = TRUE, filled' \in BOOLEAN,
         StepOK(i, backend', present', columns', filled')
  PROVE  SchemaInv'
<1>1. CopiesDated' /\ CopiesHold'
  BY CopiesKept
<1>2. /\ Progress' /\ DOMAIN instance' = Instances
      /\ \A q \in Instances :
           instance'[q].at \in {"down", "look", "backup", "drop", "columns", "add", "inspect", "clean", "ready"}
  <2>1. Progress /\ DOMAIN instance = Instances /\ backend' = backend
    BY DEF SchemaInv
  <2> QED BY <2>1, ProgressGoesOn
<1>3. second' \in Nat
  BY DEF SchemaInv, SchemaTypeOK
<1> QED BY <1>1, <1>2, <1>3 DEF SchemaInv, SchemaTypeOK

\* The first of the missing columns is one of them, and there is one.
LEMMA NextIsMissing ==
  ASSUME NEW M, NEW c \in NextOf(M)
  PROVE  c \in M /\ c \in ItemsOf(Added)
  BY DEF NextOf, ItemsOf

LEMMA DropStep ==
  ASSUME SchemaInv, NEW p \in Instances, Drop(p)
  PROVE  SchemaInv'
<1> DEFINE n == instance[p].next
           item == Obsolete[n]
           after == IF n = Len(Obsolete) THEN [at |-> "columns"]
                    ELSE [at |-> "drop", next |-> n + 1, saw |-> FALSE]
<1>0. /\ instance[p].at = "drop" /\ DOMAIN instance = Instances
      /\ UNCHANGED <<backend, had, columns, filled, backups, second, starts>>
      /\ filled \in BOOLEAN /\ columns \subseteq ItemsOf(Added) /\ second \in Nat
      /\ present \subseteq had /\ had \subseteq ItemsOf(Obsolete)
  BY DEF Drop, SameClock, SchemaInv, SchemaTypeOK
<1>1. StepOK(instance[p], backend, present, columns, filled)
  BY DEF SchemaInv, Progress
<1>2. /\ n \in 1..Len(Obsolete) /\ Len(Obsolete) \in Nat \ {0} /\ backend = "sqlite"
      /\ \A m \in 1..(n - 1) : Obsolete[m] \notin present
  BY <1>0, <1>1 DEF StepOK
<1>3. ASSUME item \notin present', present' \subseteq present, instance' = [instance EXCEPT ![p] = after]
      PROVE  SchemaInv'
  <2>0. PICK i : i = after
    OBVIOUS
  <2>1. CASE n = Len(Obsolete)
    <3>1. i.at = "columns"
      BY <2>0, <2>1
    <3>2. present' = {}
      BY <1>0, <1>2, <1>3, <2>1 DEF ItemsOf
    <3>3. StepOK(i, backend', present', columns', filled')
      BY <3>1, <3>2 DEF StepOK
    <3> HIDE DEF after, item
    <3> QED BY <1>0, <1>3, <2>0, <3>1, <3>3, OneStep
  <2>2. CASE n /= Len(Obsolete)
    <3>1. i = [at |-> "drop", next |-> n + 1, saw |-> FALSE]
      BY <2>0, <2>2
    <3>2. i.at = "drop" /\ i.next = n + 1 /\ n + 1 \in 1..Len(Obsolete)
      BY <1>2, <2>2, <3>1
    <3>3. \A m \in 1..n : Obsolete[m] \notin present'
      BY <1>2, <1>3
    <3>4. StepOK(i, backend', present', columns', filled')
      BY <1>0, <1>2, <3>2, <3>3 DEF StepOK
    <3> HIDE DEF after, item
    <3> QED BY <1>0, <1>3, <2>0, <3>2, <3>4, OneStep
  <2> QED BY <2>1, <2>2
<1>4. ASSUME present' = present, item \in present, instance' = [instance EXCEPT ![p] = [instance[p] EXCEPT !.saw = TRUE]]
      PROVE  SchemaInv'
  <2>1. PICK i : i = [instance[p] EXCEPT !.saw = TRUE]
    OBVIOUS
  <2>2. i.at = instance[p].at /\ i.next = instance[p].next
    BY <2>1
  <2>3. StepOK(i, backend', present', columns', filled')
    BY <1>0, <1>2, <1>4, <2>2 DEF StepOK
  <2> HIDE DEF item, n
  <2> QED BY <1>0, <1>4, <2>1, <2>2, <2>3, OneStep
<1>5. ASSUME present' \subseteq present, instance' = [instance EXCEPT ![p] = AtRest]
      PROVE  SchemaInv'
  <2>1. AtRest.at = "down"
    BY DEF AtRest
  <2>2. StepOK(AtRest, backend', present', columns', filled')
    BY <2>1 DEF StepOK
  <2> QED BY <1>0, <1>5, <2>1, <2>2, OneStep
<1> QED BY <1>3, <1>4, <1>5 DEF Drop, Steps, Fails

LEMMA AddColumnStep ==
  ASSUME SchemaInv, NEW p \in Instances, AddColumn(p)
  PROVE  SchemaInv'
<1>0. /\ instance[p].at = "add" /\ DOMAIN instance = Instances
      /\ UNCHANGED <<backend, had, present, backups, second, starts>>
      /\ filled \in BOOLEAN /\ columns \subseteq ItemsOf(Added) /\ second \in Nat
  BY DEF AddColumn, SameClock, SchemaInv, SchemaTypeOK
<1>1. StepOK(instance[p], backend, present, columns, filled)
  BY DEF SchemaInv, Progress
<1>2. PICK c \in NextOf(instance[p].missing) :
        IF c \in columns
        THEN Fails(p) /\ UNCHANGED <<columns, filled>>
        ELSE /\ columns' = columns \cup {c}
             /\ filled' = (filled /\ c /= Copied)
             /\ Steps(p, [instance[p] EXCEPT !.missing = instance[p].missing \ {c}])
  BY DEF AddColumn
<1>3. c \in instance[p].missing /\ c \in ItemsOf(Added)
  BY NextIsMissing
<1>4. CASE c \in columns
  <2>1. AtRest.at = "down"
    BY DEF AtRest
  <2>2. instance' = [instance EXCEPT ![p] = AtRest] /\ columns' = columns /\ filled' = filled
    BY <1>2, <1>4 DEF Fails, Steps
  <2>3. StepOK(AtRest, backend', present', columns', filled')
    BY <2>1 DEF StepOK
  <2> QED BY <1>0, <2>1, <2>2, <2>3, OneStep
<1>5. CASE c \notin columns
  <2>1. PICK i : i = [instance[p] EXCEPT !.missing = instance[p].missing \ {c}]
    OBVIOUS
  <2>2. /\ instance' = [instance EXCEPT ![p] = i] /\ columns' = columns \cup {c}
        /\ filled' = (filled /\ c /= Copied)
    BY <1>2, <1>5, <2>1 DEF Steps
  <2>3. i.at = "add" /\ (i.missing = instance[p].missing \ {c} \/ i.missing = instance[p].missing)
    BY <1>0, <2>1
  <2>4. StepOK(i, backend', present', columns', filled')
    BY <1>0, <1>1, <1>3, <2>2, <2>3 DEF StepOK
  <2>5. /\ columns \subseteq columns' /\ columns' \subseteq ItemsOf(Added) /\ columns /= ItemsOf(Added)
    BY <1>0, <1>3, <1>5, <2>2
  <2>6. filled' \in BOOLEAN
    BY Zenon, <2>2
  <2> QED BY <1>0, <2>2, <2>3, <2>4, <2>5, <2>6, OneStep
<1> QED BY <1>4, <1>5

LEMMA SchemaStep ==
  ASSUME SchemaInv, SchemaNext
  PROVE  SchemaInv'
<1>0. /\ DOMAIN instance = Instances /\ backend \in {"sqlite", "sql"}
      /\ filled \in BOOLEAN /\ columns \subseteq ItemsOf(Added) /\ second \in Nat
      /\ present \subseteq had /\ had \subseteq ItemsOf(Obsolete)
      /\ \A p \in Instances : StepOK(instance[p], backend, present, columns, filled)
  BY DEF SchemaInv, SchemaTypeOK, Progress
<1>1. AtRest.at = "down"
  BY DEF AtRest
<1>2. ASSUME NEW p \in Instances, Start(p) PROVE SchemaInv'
  <2>1. PICK i : i = [at |-> "look"]
    OBVIOUS
  <2>2. i.at = "look"
    BY <2>1
  <2>3. /\ instance' = [instance EXCEPT ![p] = i] /\ second' = second + 1
        /\ UNCHANGED <<backend, had, present, columns, filled, backups>>
    BY <1>2, <2>1 DEF Start, Steps, Untouched
  <2>4. StepOK(i, backend', present', columns', filled')
    BY <2>2 DEF StepOK
  <2> QED BY <1>0, <2>2, <2>3, <2>4, OneStep
<1>3. ASSUME NEW p \in Instances, Crash(p) PROVE SchemaInv'
  <2>1. /\ instance' = [instance EXCEPT ![p] = AtRest]
        /\ UNCHANGED <<backend, had, present, columns, filled, backups, second, starts>>
    BY <1>3 DEF Crash, Steps, Untouched, SameClock
  <2>2. StepOK(AtRest, backend', present', columns', filled')
    BY <1>1 DEF StepOK
  <2> QED BY <1>0, <1>1, <2>1, <2>2, OneStep
<1>4. ASSUME NEW p \in Instances, LookForObsolete(p) PROVE SchemaInv'
  <2>1. PICK i : i = IF NeedsCleanup THEN [at |-> "backup"] ELSE [at |-> "columns"]
    OBVIOUS
  <2>2. /\ instance' = [instance EXCEPT ![p] = i] /\ instance[p].at = "look" /\ backend = "sqlite"
        /\ UNCHANGED <<backend, had, present, columns, filled, backups, second, starts>>
    BY <1>4, <2>1 DEF LookForObsolete, Steps, Untouched, SameClock
  <2>3. CASE present = {}
    <3>1. i.at = "columns"
      BY <2>1, <2>3 DEF NeedsCleanup
    <3>2. StepOK(i, backend', present', columns', filled')
      BY <2>2, <2>3, <3>1 DEF StepOK
    <3> QED BY <1>0, <2>2, <3>1, <3>2, OneStep
  <2>4. CASE present /= {}
    <3>1. i.at = "backup"
      BY <2>1, <2>4 DEF NeedsCleanup
    <3>2. PICK n \in DOMAIN Obsolete : TRUE
      BY <1>0, <2>4 DEF ItemsOf
    <3>3. Len(Obsolete) \in Nat \ {0}
      BY <3>2, ObsoleteAssumption
    <3>4. StepOK(i, backend', present', columns', filled')
      BY <2>2, <3>1, <3>3 DEF StepOK
    <3> QED BY <1>0, <2>2, <3>1, <3>4, OneStep
  <2> QED BY <2>3, <2>4
<1>5. ASSUME NEW p \in Instances, ReadColumns(p) \/ InspectMissing(p) PROVE SchemaInv'
  <2>1. PICK i : i = [at |-> "add", missing |-> ItemsOf(Added) \ columns]
    OBVIOUS
  <2>2. i.at = "add" /\ i.missing = ItemsOf(Added) \ columns
    BY <2>1
  <2>3. /\ instance' = [instance EXCEPT ![p] = i] /\ instance[p].at = "columns"
        /\ UNCHANGED <<backend, had, present, columns, filled, backups, second, starts>>
    BY <1>5, <2>1 DEF ReadColumns, InspectMissing, Steps, Untouched, SameClock
  <2>4. present = {}
    BY <1>0, <2>3 DEF StepOK
  <2>5. StepOK(i, backend', present', columns', filled')
    BY <2>2, <2>3, <2>4 DEF StepOK
  <2> QED BY <1>0, <2>2, <2>3, <2>5, OneStep
<1>6. ASSUME NEW p \in Instances, Fill(p) PROVE SchemaInv'
  <2>1. PICK i : i = [at |-> "ready"]
    OBVIOUS
  <2>2. i.at = "ready"
    BY <2>1
  <2>3. /\ instance' = [instance EXCEPT ![p] = i] /\ instance[p].at = "add" /\ instance[p].missing = {}
        /\ filled' = TRUE
        /\ UNCHANGED <<backend, had, present, columns, backups, second, starts>>
    BY <1>6, <2>1 DEF Fill, Steps, SameClock
  <2>4. present = {} /\ columns = ItemsOf(Added)
    BY <1>0, <2>3 DEF StepOK
  <2>5. StepOK(i, backend', present', columns', filled')
    BY <2>2, <2>3, <2>4 DEF StepOK
  <2> QED BY <1>0, <2>2, <2>3, <2>5, OneStep
<1>7. ASSUME NEW p \in Instances, InspectTables(p) PROVE SchemaInv'
  <2>1. PICK i : i = [at |-> "inspect", tables |-> present \cap Tables]
    OBVIOUS
  <2>2. i.at = "inspect" /\ i.tables = present \cap Tables
    BY <2>1
  <2>3. /\ instance' = [instance EXCEPT ![p] = i] /\ backend = "sql"
        /\ UNCHANGED <<backend, had, present, columns, filled, backups, second, starts>>
    BY <1>7, <2>1 DEF InspectTables, Steps, Untouched, SameClock
  <2>5. StepOK(i, backend', present', columns', filled')
    BY <2>2, <2>3 DEF StepOK
  <2> QED BY <1>0, <2>2, <2>3, <2>5, OneStep
<1>8. ASSUME NEW p \in Instances, InspectColumns(p) PROVE SchemaInv'
  <2>1. PICK i : i = [at |-> "clean", saw |-> instance[p].tables \cup (present \ Tables)]
    OBVIOUS
  <2>2. i.at = "clean" /\ i.saw = instance[p].tables \cup (present \ Tables)
    BY <2>1
  <2>3. /\ instance' = [instance EXCEPT ![p] = i] /\ instance[p].at = "inspect"
        /\ UNCHANGED <<backend, had, present, columns, filled, backups, second, starts>>
    BY <1>8, <2>1 DEF InspectColumns, Steps, Untouched, SameClock
  <2>4. backend = "sql" /\ present \cap Tables \subseteq instance[p].tables
    BY <1>0, <2>3 DEF StepOK
  <2>5. StepOK(i, backend', present', columns', filled')
    BY <2>2, <2>3, <2>4 DEF StepOK
  <2> QED BY <1>0, <2>2, <2>3, <2>5, OneStep
<1>9. ASSUME NEW p \in Instances, CleanUp(p) PROVE SchemaInv'
  <2>0. /\ instance[p].at = "clean" /\ UNCHANGED <<backend, had, columns, filled, backups, second, starts>>
    BY <1>9 DEF CleanUp, SameClock
  <2>1. backend = "sql" /\ present \subseteq instance[p].saw
    BY <1>0, <2>0 DEF StepOK
  <2>2. CASE instance[p].saw \subseteq present
    <3>1. PICK i : i = [at |-> "columns"]
      OBVIOUS
    <3>2. i.at = "columns"
      BY <3>1
    <3>3. instance' = [instance EXCEPT ![p] = i] /\ present' = present \ instance[p].saw
      BY <1>9, <2>2, <3>1 DEF CleanUp, Steps
    <3>4. present' = {}
      BY <2>1, <3>3
    <3>5. StepOK(i, backend', present', columns', filled')
      BY <3>2, <3>4 DEF StepOK
    <3> QED BY <1>0, <2>0, <2>1, <3>2, <3>3, <3>4, <3>5, OneStep
  <2>3. CASE ~(instance[p].saw \subseteq present)
    <3>1. instance' = [instance EXCEPT ![p] = AtRest] /\ present' = present
      BY <1>9, <2>3 DEF CleanUp, Fails, Steps
    <3>2. StepOK(AtRest, backend', present', columns', filled')
      BY <1>1 DEF StepOK
    <3> QED BY <1>0, <1>1, <2>0, <3>1, <3>2, OneStep
  <2> QED BY <2>2, <2>3
<1>10. ASSUME NEW p \in Instances, AddMissing(p) PROVE SchemaInv'
  <2>0. /\ instance[p].at = "add" /\ UNCHANGED <<backend, had, present, backups, second, starts>>
    BY <1>10 DEF AddMissing, SameClock
  <2>1. /\ present = {} /\ instance[p].missing \subseteq ItemsOf(Added)
        /\ ItemsOf(Added) \ columns \subseteq instance[p].missing
    BY <1>0, <2>0 DEF StepOK
  <2>2. CASE instance[p].missing \cap columns = {}
    <3>1. PICK i : i = [at |-> "ready"]
      OBVIOUS
    <3>2. i.at = "ready"
      BY <3>1
    <3>3. instance' = [instance EXCEPT ![p] = i] /\ columns' = columns \cup instance[p].missing /\ filled' = TRUE
      BY <1>10, <2>2, <3>1 DEF AddMissing, Steps
    <3>4. columns' = ItemsOf(Added)
      BY <1>0, <2>1, <3>3
    <3>5. StepOK(i, backend', present', columns', filled')
      BY <2>0, <2>1, <3>2, <3>3, <3>4 DEF StepOK
    <3> QED BY <1>0, <2>0, <3>2, <3>3, <3>4, <3>5, OneStep
  <2>3. CASE ~(instance[p].missing \cap columns = {})
    <3>1. instance' = [instance EXCEPT ![p] = AtRest] /\ columns' = columns /\ filled' = filled
      BY <1>10, <2>3 DEF AddMissing, Fails, Steps
    <3>2. StepOK(AtRest, backend', present', columns', filled')
      BY <1>1 DEF StepOK
    <3> QED BY <1>0, <1>1, <2>0, <3>1, <3>2, OneStep
  <2> QED BY <2>2, <2>3
<1> QED
  BY <1>2, <1>3, <1>4, <1>5, <1>6, <1>7, <1>8, <1>9, <1>10, BackupStep, DropStep, AddColumnStep DEF SchemaNext

LEMMA SchemaInvariant == SchemaSpec => []SchemaInv
<1>1. SchemaInit => SchemaInv
  <2> SUFFICES ASSUME SchemaInit PROVE SchemaInv
    OBVIOUS
  <2>1. /\ DOMAIN instance = Instances /\ \A p \in Instances : instance[p].at = "down"
    BY DEF SchemaInit, AtRest
  <2>2. DOMAIN backups = {}
    BY DEF SchemaInit
  <2>3. filled \in BOOLEAN
    BY DEF SchemaInit
  <2>4. SchemaTypeOK
    BY <2>1, <2>2, <2>3 DEF SchemaInit, SchemaTypeOK
  <2>5. Progress
    BY <2>1 DEF Progress, StepOK
  <2>6. CopiesDated
    BY <2>2 DEF CopiesDated
  <2>7. CopiesHold
    BY <2>1 DEF CopiesHold, SchemaInit
  <2> QED BY <2>1, <2>4, <2>5, <2>6, <2>7 DEF SchemaInv
<1>2. SchemaInv /\ UNCHANGED schemaVars => SchemaInv'
  BY DEF schemaVars, SchemaInv, SchemaTypeOK, Progress, StepOK, CopiesDated, CopiesHold, Shared, Held
<1> QED BY <1>1, <1>2, SchemaStep, PTL DEF SchemaSpec

(* However the starts of processes overlap, fail and crash, a process that      *)
(* serves has a complete database, and what is dropped from a SQLite file is in *)
(* one of the copies, unless two processes wrote the same copy (get_engine and  *)
(* ensure_sqlite_obsolete_platform_schema_cleanup).                             *)
THEOREM UpgradesKeepData == SchemaSpec => []UpgradesAreSafe
<1>1. SchemaInv => UpgradesAreSafe
  <2> SUFFICES ASSUME SchemaInv PROVE ReadyIsCurrent /\ BackupHoldsDropped
    BY DEF UpgradesAreSafe
  <2>1. ReadyIsCurrent
    BY DEF SchemaInv, Progress, StepOK, ReadyIsCurrent, Upgraded
  <2>2. BackupHoldsDropped
    BY DEF SchemaInv, CopiesHold, BackupHoldsDropped, Shared, Held
  <2> QED BY <2>1, <2>2
<1> QED BY <1>1, SchemaInvariant, PTL

(* The types of the schema and of the starts hold throughout: columns are only  *)
(* those of the lists, and nothing comes back that was dropped.                 *)
THEOREM SchemaTypes == SchemaSpec => []SchemaTypeOK
<1>1. SchemaInv => SchemaTypeOK
  BY DEF SchemaInv
<1> QED BY <1>1, SchemaInvariant, PTL

-----------------------------------------------------------------------------
(***************************************************************************)
(* LogFiles: what a clean-up deletes.                                      *)
(***************************************************************************)

\* The times an event can have, now and later.
Past == UNION {OldFiles[f] : f \in DOMAIN OldFiles}
Times == Past \cup 0 .. MaxTime
LogNames == DOMAIN OldFiles \cup {Current}

\* A file was changed when its last event was appended or later; all its events are over.
FilesRight(fs, moment) ==
    /\ DOMAIN fs \subseteq LogNames /\ Current \in DOMAIN fs
    /\ \A f \in DOMAIN fs : /\ fs[f].events \subseteq Times /\ fs[f].mtime \in Int
                            /\ \A t \in fs[f].events : t <= fs[f].mtime /\ t < moment

\* The pairs of a file and a time that Events counts.
LinesOf(fs, S) == UNION {{f} \X fs[f].events : f \in S}

\* What a pass has listed, found old or counted still covers what it will delete.
PassRight(p, fs, moment) ==
    /\ p.stage \in {"idle", "logged", "remove", "age", "expired", "trim"}
    /\ p.stage = "remove" =>
         /\ p = [stage |-> "remove", how |-> p.how, todo |-> p.todo]
         /\ p.how \in {"all", "files"}
         /\ p.how = "files" => /\ IsFiniteSet(p.todo)
                               /\ \A e \in p.todo : e.file # Current /\ e.mtime \in Int
    /\ p.stage \in {"age", "expired"} => p.threshold \in Int /\ p.policy \in BOOLEAN
    /\ p.stage = "expired" =>
         /\ p = [stage |-> "expired", policy |-> p.policy, threshold |-> p.threshold, listed |-> p.listed,
                 todo |-> p.todo, file |-> p.file, looked |-> p.looked]
         /\ p.looked \in Int /\ p.looked <= moment
         /\ p.file \in DOMAIN fs => \A t \in fs[p.file].events : t < p.threshold \/ t >= p.looked
    /\ p.stage = "trim" =>
         /\ p = [stage |-> "trim", todo |-> p.todo, alone |-> p.alone, total |-> p.total]
         /\ p.total \in Int /\ p.alone \in BOOLEAN

\* A pass by size that no other interfered with has counted no more than there is.
CountRight(p, fs) ==
    p.stage = "trim" /\ p.alone => p.total <= Cardinality(LinesOf(fs, DOMAIN fs))

PassesRight(cs, fs, moment) ==
    /\ cs = [c \in LogThreads |-> cs[c]]
    /\ \A c \in LogThreads : PassRight(cs[c], fs, moment) /\ CountRight(cs[c], fs)

\* The inductive invariant.
LogInv ==
    /\ clock \in Nat /\ clock <= MaxTime /\ FilesRight(files, clock)
    /\ PassesRight(cleaner, files, clock)
    /\ OnlyWhatMayGo

-----------------------------------------------------------------------------
(* The lines of the files.                                                 *)

LEMMA TimesFinite == IsFiniteSet(Times) /\ Times \subseteq Int /\ IsFiniteSet(LogNames)
<1>1. IsFiniteSet(Past) /\ Past \subseteq Int
  BY LogFilesAssumption DEF Past
<1>2. IsFiniteSet(0 .. MaxTime) /\ 0 .. MaxTime \subseteq Int
  BY LogFilesAssumption, FS_Interval
<1>3. IsFiniteSet(Times)
  BY <1>1, <1>2, FS_Union DEF Times
<1>4. IsFiniteSet(LogNames)
  BY LogFilesAssumption, FS_AddElement DEF LogNames
<1> QED BY <1>1, <1>2, <1>3, <1>4 DEF Times

LEMMA LinesAre ==
    ASSUME NEW fs, NEW S
    PROVE  \A x : x \in LinesOf(fs, S) <=> \E f \in S : \E t \in fs[f].events : x = <<f, t>>
BY DEF LinesOf

LEMMA LinesFinite ==
    ASSUME NEW fs, NEW S, S \subseteq LogNames, \A f \in S : fs[f].events \subseteq Times
    PROVE  IsFiniteSet(LinesOf(fs, S)) /\ Cardinality(LinesOf(fs, S)) \in Nat
<1>1. IsFiniteSet(LogNames \X Times)
  BY TimesFinite, FS_Product
<1>2. LinesOf(fs, S) \subseteq LogNames \X Times
  BY LinesAre
<1>3. IsFiniteSet(LinesOf(fs, S))
  BY <1>1, <1>2, FS_Subset
<1> QED BY <1>3, FS_CardinalityType

\* More events are more lines.
LEMMA LinesGrow ==
    ASSUME NEW fs, NEW gs, NEW S, NEW T, S \subseteq T, T \subseteq LogNames,
           \A f \in T : gs[f].events \subseteq Times,
           \A f \in S : fs[f].events \subseteq gs[f].events
    PROVE  /\ Cardinality(LinesOf(fs, S)) \in Nat /\ Cardinality(LinesOf(gs, T)) \in Nat
           /\ Cardinality(LinesOf(fs, S)) <= Cardinality(LinesOf(gs, T))
<1>1. IsFiniteSet(LinesOf(gs, T)) /\ Cardinality(LinesOf(gs, T)) \in Nat
  BY LinesFinite
<1>2. LinesOf(fs, S) \subseteq LinesOf(gs, T)
  BY LinesAre
<1>3. IsFiniteSet(LinesOf(fs, S)) /\ Cardinality(LinesOf(fs, S)) <= Cardinality(LinesOf(gs, T))
  BY <1>1, <1>2, FS_Subset
<1> QED BY <1>1, <1>3, FS_CardinalityType

\* Without a file there are its lines less.
LEMMA LinesShrink ==
    ASSUME NEW fs, NEW gs, NEW S, NEW f \in S, S \subseteq LogNames,
           \A g \in S : fs[g].events \subseteq Times,
           \A g \in S \ {f} : gs[g] = fs[g]
    PROVE  Cardinality(LinesOf(gs, S \ {f})) = Cardinality(LinesOf(fs, S)) - Cardinality(LinesOf(fs, {f}))
<1>1. IsFiniteSet(LinesOf(fs, S))
  BY LinesFinite
<1>2. LinesOf(gs, S \ {f}) = LinesOf(fs, S) \ LinesOf(fs, {f})
  <2>1. ASSUME NEW x PROVE x \in LinesOf(gs, S \ {f}) <=> x \in LinesOf(fs, S) /\ x \notin LinesOf(fs, {f})
    <3>1. x \in LinesOf(gs, S \ {f}) <=> \E g \in S \ {f} : \E t \in fs[g].events : x = <<g, t>>
      BY LinesAre
    <3>2. x \in LinesOf(fs, S) <=> \E g \in S : \E t \in fs[g].events : x = <<g, t>>
      BY LinesAre
    <3>3. x \in LinesOf(fs, {f}) <=> \E t \in fs[f].events : x = <<f, t>>
      BY LinesAre
    <3> QED BY <3>1, <3>2, <3>3
  <2> QED BY <2>1
<1>3. LinesOf(fs, S) \cap LinesOf(fs, {f}) = LinesOf(fs, {f})
  BY LinesAre
<1> QED BY <1>1, <1>2, <1>3, FS_Difference

LEMMA SizeIs == ASSUME NEW S PROVE Size(S) = Cardinality(LinesOf(files, S))
BY DEF Size, Events, LinesOf

LEMMA SizeIsPrimed == ASSUME NEW S PROVE Size(S)' = Cardinality(LinesOf(files', S'))
BY DEF Size, Events, LinesOf

LEMMA LatestIs ==
    ASSUME NEW f \in DOMAIN OldFiles
    PROVE  Latest(OldFiles[f]) \in Int /\ \A t \in OldFiles[f] : t <= Latest(OldFiles[f])
BY LogFilesAssumption DEF Latest

-----------------------------------------------------------------------------
(* The listings.                                                           *)

LEMMA SmallestCount ==
    ASSUME NEW S \in SUBSET Nat, S # {}
    PROVE  \E x \in S : \A y \in S : x <= y
<1>1. PICK R : R = OpToRel(<, Nat)
  OBVIOUS
<1>2. ASSUME NEW x \in Nat, NEW y \in Nat, x < y PROVE <<x, y>> \in R
  BY <1>1, <1>2 DEF OpToRel
<1>3. IsWellFoundedOn(R, Nat)
  BY <1>1, NatLessThanWellFounded
<1>4. PICK x \in S : \A y \in S : ~ (<<y, x>> \in R)
  BY <1>3, WFMin
<1>5. ASSUME NEW y \in S PROVE x <= y
  <2>1. x \in Nat /\ y \in Nat /\ ~ (<<y, x>> \in R)
    BY <1>4
  <2>2. ~ (y < x)
    BY <1>2, <2>1
  <2> QED BY <2>1, <2>2
<1> QED BY <1>5

\* A list of files with their times has a newest entry.
LEMMA NewestIs ==
    ASSUME NEW S, IsFiniteSet(S), S # {}, \A e \in S : e.mtime \in Int
    PROVE  Newest(S) \in S
<1> DEFINE Headless(T) == T # {} /\ ~ \E e \in T : \A d \in T : d.mtime <= e.mtime
           Counts == {n \in Nat : \E T \in SUBSET S : Headless(T) /\ Cardinality(T) = n}
<1>1. CASE Counts = {}
  <2>1. Cardinality(S) \in Nat
    BY FS_CardinalityType
  <2>2. ~ Headless(S)
    BY <1>1, <2>1
  <2>3. \E e \in S : \A d \in S : d.mtime <= e.mtime
    BY <2>2
  <2> QED BY <2>3 DEF Newest
<1>2. CASE Counts # {}
  <2>1. PICK n \in Counts : \A m \in Counts : n <= m
    BY <1>2, SmallestCount
  <2>2. PICK T \in SUBSET S : Headless(T) /\ Cardinality(T) = n
    OBVIOUS
  <2>3. PICK x \in T : TRUE
    BY <2>2
  <2>4. IsFiniteSet(T) /\ n \in Nat
    BY <2>2, FS_Subset
  <2>5. IsFiniteSet(T \ {x}) /\ Cardinality(T \ {x}) = n - 1 /\ Cardinality(T \ {x}) \in Nat
    BY <2>2, <2>3, <2>4, FS_RemoveElement, FS_CardinalityType
  <2>6. ~ Headless(T \ {x})
    <3>1. SUFFICES ASSUME Headless(T \ {x}) PROVE FALSE
      OBVIOUS
    <3>2. T \ {x} \in SUBSET S
      OBVIOUS
    <3>3. Cardinality(T \ {x}) \in Counts
      BY <2>5, <3>1, <3>2
    <3>4. n <= Cardinality(T \ {x})
      BY <2>1, <3>3
    <3> QED BY <2>4, <2>5, <3>4
  <2>7. CASE T \ {x} = {}
    <3>1. \A d \in T : d.mtime <= x.mtime
      BY <2>3, <2>7
    <3> QED BY <2>2, <2>3, <3>1
  <2>8. CASE T \ {x} # {}
    <3>1. PICK e \in T \ {x} : \A d \in T \ {x} : d.mtime <= e.mtime
      BY <2>6, <2>8
    <3>2. CASE x.mtime <= e.mtime
      BY <2>2, <3>1, <3>2
    <3>3. CASE ~ x.mtime <= e.mtime
      <4>1. ASSUME NEW d \in T PROVE d.mtime <= x.mtime
        <5>1. d.mtime \in Int /\ e.mtime \in Int /\ x.mtime \in Int
          BY <2>3
        <5> QED BY <3>1, <3>3, <5>1
      <4> QED BY <2>2, <2>3, <4>1
    <3> QED BY <3>2, <3>3
  <2> QED BY <2>7, <2>8
<1> QED BY <1>1, <1>2

LEMMA BeyondKeptIs ==
    ASSUME LogInv, NEW keep
    PROVE  IsFiniteSet(BeyondKept(keep)) /\ \A e \in BeyondKept(keep) : e.file # Current /\ e.mtime \in Int
<1>1. PICK B : B = BeyondKept(keep)
  OBVIOUS
<1>2. DOMAIN files \subseteq LogNames /\ \A f \in DOMAIN files : files[f].mtime \in Int
  BY DEF LogInv, FilesRight
<1>3. ASSUME NEW e \in B
      PROVE  \E f \in DOMAIN files : f # Current /\ e = [file |-> f, mtime |-> files[f].mtime]
  <2>1. e \in Listing(DOMAIN files \ {Current})
    BY <1>1 DEF BeyondKept
  <2> QED BY <2>1 DEF Listing
<1>4. ASSUME NEW e \in B PROVE e.file # Current /\ e.mtime \in Int /\ e.file \in LogNames
  BY <1>2, <1>3
<1>5. IsFiniteSet(B)
  <2>1. PICK h : h = [e \in B |-> e.file]
    OBVIOUS
  <2>2. h \in [B -> LogNames]
    BY <1>4, <2>1
  <2>3. ASSUME NEW d \in B, NEW e \in B, h[d] = h[e] PROVE d = e
    <3>1. d.file = e.file
      BY <2>1, <2>3
    <3> QED BY <1>3, <3>1
  <2>4. h \in Injection(B, LogNames)
    BY <2>1, <2>2, <2>3 DEF Injection, IsInjective
  <2> QED BY <2>4, FS_Injection, TimesFinite
<1> QED BY <1>1, <1>4, <1>5

-----------------------------------------------------------------------------
(* The passes.                                                             *)

\* Appending at the present time and deleting make nothing a pass found untrue.
LEMMA PassStays ==
    ASSUME NEW p, NEW fs, NEW gs, NEW moment \in Nat, NEW later \in Nat, moment <= later,
           DOMAIN gs \subseteq DOMAIN fs,
           \A f \in DOMAIN gs : \A t \in gs[f].events : t \in fs[f].events \/ t = moment,
           PassRight(p, fs, moment)
    PROVE  PassRight(p, gs, later)
<1>1. CASE p.stage # "expired"
  BY <1>1 DEF PassRight
<1>2. CASE p.stage = "expired"
  <2>1. p.looked \in Int /\ p.looked <= later
    BY <1>2 DEF PassRight
  <2>2. ASSUME p.file \in DOMAIN gs, NEW t \in gs[p.file].events
        PROVE  t < p.threshold \/ t >= p.looked
    <3>1. CASE t \in fs[p.file].events
      BY <1>2, <2>2, <3>1 DEF PassRight
    <3>2. CASE t = moment
      BY <1>2, <3>2 DEF PassRight
    <3> QED BY <2>2, <3>1, <3>2
  <2> QED BY <1>2, <2>1, <2>2 DEF PassRight
<1> QED BY <1>1, <1>2

\* One pass goes on, the others wait.
LEMMA OnePass ==
    ASSUME LogInv, NEW c \in LogThreads, NEW p, cleaner' = [cleaner EXCEPT ![c] = p],
           PassRight(p, files, clock), CountRight(p, files), UNCHANGED <<clock, files>>
    PROVE  PassesRight(cleaner', files', clock')
<1>1. PassesRight(cleaner, files, clock)
  BY DEF LogInv
<1>2. cleaner' = [d \in LogThreads |-> IF d = c THEN p ELSE cleaner[d]]
  BY <1>1 DEF PassesRight
<1>3. ASSUME NEW d \in LogThreads PROVE PassRight(cleaner'[d], files, clock) /\ CountRight(cleaner'[d], files)
  BY <1>1, <1>2 DEF PassesRight
<1>4. cleaner' = [d \in LogThreads |-> cleaner'[d]]
  BY <1>2
<1> QED BY <1>3, <1>4 DEF PassesRight

LEMMA GoneStays ==
    ASSUME LogInv, UNCHANGED gone
    PROVE  OnlyWhatMayGo'
BY DEF LogInv, OnlyWhatMayGo

LEMMA LogInitInv == LogFilesInit => LogInv
<1> SUFFICES ASSUME LogFilesInit PROVE LogInv
  OBVIOUS
<1>1. clock = 0 /\ cleaner = [c \in LogThreads |-> Idle] /\ gone = Nothing
  BY DEF LogFilesInit
<1>2. PICK K \in SUBSET DOMAIN OldFiles :
        files = [f \in K \cup {Current} |->
                   IF f = Current THEN [events |-> {}, mtime |-> 0] ELSE FileOf(OldFiles[f])]
  BY DEF LogFilesInit
<1>3. FilesRight(files, clock)
  <2>1. ASSUME NEW f \in DOMAIN files
        PROVE  /\ files[f].events \subseteq Times /\ files[f].mtime \in Int
               /\ \A t \in files[f].events : t <= files[f].mtime /\ t < 0
    <3>1. CASE f = Current
      BY <1>2, <3>1
    <3>2. CASE f # Current
      <4>1. f \in DOMAIN OldFiles /\ files[f] = [events |-> OldFiles[f], mtime |-> Latest(OldFiles[f])]
        BY <1>2, <3>2 DEF FileOf
      <4>2. OldFiles[f] \subseteq Times /\ \A t \in OldFiles[f] : t < 0
        BY <4>1, LogFilesAssumption DEF Times, Past
      <4> QED BY <4>1, <4>2, LatestIs
    <3> QED BY <3>1, <3>2
  <2> QED BY <1>1, <1>2, <2>1 DEF FilesRight, LogNames
<1>4. PassesRight(cleaner, files, clock)
  BY <1>1 DEF PassesRight, PassRight, CountRight, Idle
<1>5. OnlyWhatMayGo
  BY <1>1 DEF OnlyWhatMayGo, Nothing
<1> QED BY <1>1, <1>3, <1>4, <1>5, LogFilesAssumption DEF LogInv

LEMMA TimeKeeps ==
    ASSUME LogInv, TimePasses
    PROVE  LogInv'
<1>1. /\ clock \in Nat /\ clock' = clock + 1 /\ clock' <= MaxTime /\ clock' \in Nat /\ MaxTime \in Nat
      /\ UNCHANGED <<files, cleaner, gone>>
  BY LogFilesAssumption DEF LogInv, TimePasses
<1>2. FilesRight(files, clock) /\ PassesRight(cleaner, files, clock)
  BY DEF LogInv
<1>3. FilesRight(files', clock')
  <2>1. ASSUME NEW f \in DOMAIN files, NEW t \in files[f].events PROVE t < clock + 1
    <3>1. t < clock /\ t \in Int
      BY <1>2, TimesFinite DEF FilesRight
    <3> QED BY <1>1, <3>1
  <2> QED BY <1>1, <1>2, <2>1 DEF FilesRight
<1>4. ASSUME NEW c \in LogThreads PROVE PassRight(cleaner[c], files, clock + 1)
  <2>1. PassRight(cleaner[c], files, clock)
    BY <1>2 DEF PassesRight
  <2>2. clock + 1 \in Nat /\ clock <= clock + 1
    BY <1>1
  <2> QED BY <1>1, <2>1, <2>2, PassStays
<1>5. PassesRight(cleaner', files', clock')
  BY <1>1, <1>2, <1>4 DEF PassesRight
<1> QED BY <1>1, <1>3, <1>5, GoneStays DEF LogInv

LEMMA LogEventKeeps ==
    ASSUME LogInv, NEW c \in LogThreads, LogEvent(c)
    PROVE  LogInv'
<1>1. /\ clock \in Nat /\ clock' = clock + 1 /\ clock' <= MaxTime /\ clock' \in Nat /\ MaxTime \in Nat
      /\ clock \in 0 .. MaxTime /\ UNCHANGED gone
      /\ files' = [files EXCEPT ![Current] = [events |-> @.events \cup {clock}, mtime |-> clock]]
      /\ cleaner' = [cleaner EXCEPT ![c] = [stage |-> "logged"]]
  BY LogFilesAssumption DEF LogInv, LogEvent
<1>2. FilesRight(files, clock) /\ PassesRight(cleaner, files, clock)
  BY DEF LogInv
<1>3. /\ DOMAIN files' = DOMAIN files /\ Current \in DOMAIN files
      /\ files'[Current] = [events |-> files[Current].events \cup {clock}, mtime |-> clock]
      /\ \A f \in DOMAIN files : f # Current => files'[f] = files[f]
  BY <1>1, <1>2 DEF FilesRight
<1>4. ASSUME NEW f \in DOMAIN files
      PROVE  /\ files'[f].events \subseteq Times /\ files'[f].mtime \in Int
             /\ \A t \in files'[f].events : t <= files'[f].mtime /\ t < clock + 1
  <2>1. files[f].events \subseteq Times /\ files[f].mtime \in Int /\ \A t \in files[f].events : t <= files[f].mtime /\ t < clock
    BY <1>2 DEF FilesRight
  <2>2. \A t \in files[f].events : t \in Int /\ t < clock + 1 /\ t <= clock
    <3>1. ASSUME NEW t \in files[f].events PROVE t \in Int /\ t < clock + 1 /\ t <= clock
      <4>1. t \in Int /\ t < clock
        BY <2>1, TimesFinite
      <4> QED BY <1>1, <4>1
    <3> QED BY <3>1
  <2>3. CASE f = Current
    <3>1. files'[f].events = files[f].events \cup {clock} /\ files'[f].mtime = clock
      BY <1>3, <2>3
    <3>2. clock \in Times
      BY <1>1 DEF Times
    <3> QED BY <1>1, <2>1, <2>2, <3>1, <3>2
  <2>4. CASE f # Current
    BY <1>3, <2>1, <2>2, <2>4
  <2> QED BY <2>3, <2>4
<1>5. FilesRight(files', clock')
  BY <1>1, <1>2, <1>3, <1>4 DEF FilesRight
<1>6. Cardinality(LinesOf(files, DOMAIN files)) <= Cardinality(LinesOf(files', DOMAIN files'))
      /\ Cardinality(LinesOf(files, DOMAIN files)) \in Nat /\ Cardinality(LinesOf(files', DOMAIN files')) \in Nat
  <2>1. \A f \in DOMAIN files : files[f].events \subseteq files'[f].events
    BY <1>3
  <2>2. DOMAIN files \subseteq LogNames
    BY <1>2 DEF FilesRight
  <2> QED BY <1>3, <1>4, <2>1, <2>2, LinesGrow
<1>7. cleaner' = [d \in LogThreads |-> IF d = c THEN [stage |-> "logged"] ELSE cleaner[d]]
  BY <1>1, <1>2 DEF PassesRight
<1>8. ASSUME NEW d \in LogThreads PROVE PassRight(cleaner'[d], files', clock') /\ CountRight(cleaner'[d], files')
  <2>1. CASE d = c
    BY <1>7, <2>1 DEF PassRight, CountRight
  <2>2. CASE d # c
    <3>1. cleaner'[d] = cleaner[d] /\ PassRight(cleaner[d], files, clock) /\ CountRight(cleaner[d], files)
      BY <1>2, <1>7, <2>2 DEF PassesRight
    <3>2. \A f \in DOMAIN files : \A t \in files'[f].events : t \in files[f].events \/ t = clock
      BY <1>3
    <3>3. clock <= clock'
      BY <1>1
    <3>4. PassRight(cleaner[d], files', clock')
      BY <1>1, <1>3, <3>1, <3>2, <3>3, PassStays
    <3>5. CountRight(cleaner[d], files')
      BY <1>6, <3>1 DEF CountRight, PassRight
    <3> QED BY <3>1, <3>4, <3>5
  <2> QED BY <2>1, <2>2
<1>9. PassesRight(cleaner', files', clock')
  BY <1>7, <1>8 DEF PassesRight
<1> QED BY <1>1, <1>5, <1>9, GoneStays DEF LogInv

\* A pass by size that another pass interferes with learns nothing of it.
Disturbed(p) == IF p.stage = "trim" THEN [p EXCEPT !.alone = FALSE] ELSE p

LEMMA DisturbedIs ==
    ASSUME NEW p, NEW fs, NEW gs, NEW moment, PassRight(p, fs, moment)
    PROVE  PassRight(Disturbed(p), fs, moment) /\ CountRight(Disturbed(p), gs)
<1>1. CASE p.stage = "trim"
  <2>1. p = [stage |-> "trim", todo |-> p.todo, alone |-> p.alone, total |-> p.total] /\ p.total \in Int
    BY <1>1 DEF PassRight
  <2>2. PICK q : q = [stage |-> "trim", todo |-> p.todo, alone |-> FALSE, total |-> p.total]
    OBVIOUS
  <2>3. Disturbed(p) = q
    <3>1. PICK no : no = FALSE
      OBVIOUS
    <3>2. [p EXCEPT !.alone = no] = [stage |-> "trim", todo |-> p.todo, alone |-> no, total |-> p.total]
      BY <2>1
    <3>3. [p EXCEPT !.alone = FALSE] = q
      BY <2>2, <3>1, <3>2
    <3> QED BY <1>1, <3>3 DEF Disturbed
  <2>4. PassRight(q, fs, moment) /\ CountRight(q, gs)
    BY <2>1, <2>2 DEF PassRight, CountRight
  <2> QED BY <2>3, <2>4
<1>2. CASE p.stage # "trim"
  BY <1>2 DEF Disturbed, CountRight
<1> QED BY <1>1, <1>2

\* What is left after a deletion.
LEMMA DeletedFiles ==
    ASSUME LogInv, NEW c, NEW f, NEW how, NEW after, Delete(c, f, how, after), UNCHANGED clock
    PROVE  /\ FilesRight(files', clock')
           /\ DOMAIN files' \subseteq DOMAIN files
           /\ \A g \in DOMAIN files' : \A t \in files'[g].events : t \in files[g].events \/ t = clock
<1>1. /\ files' = IF f = Current THEN [files EXCEPT ![f] = [events |-> {}, mtime |-> clock]]
                  ELSE [g \in DOMAIN files \ {f} |-> files[g]]
      /\ clock \in Nat /\ FilesRight(files, clock)
  BY DEF Delete, LogInv
<1>2. CASE f = Current
  <2>1. /\ DOMAIN files' = DOMAIN files /\ Current \in DOMAIN files
        /\ files'[Current] = [events |-> {}, mtime |-> clock]
        /\ \A g \in DOMAIN files : g # Current => files'[g] = files[g]
    BY <1>1, <1>2 DEF FilesRight
  <2>2. ASSUME NEW g \in DOMAIN files
        PROVE  /\ files'[g].events \subseteq Times /\ files'[g].mtime \in Int
               /\ \A t \in files'[g].events : t <= files'[g].mtime /\ t < clock
               /\ \A t \in files'[g].events : t \in files[g].events
    <3>1. CASE g = Current
      BY <1>1, <2>1, <3>1
    <3>2. CASE g # Current
      BY <1>1, <2>1, <3>2 DEF FilesRight
    <3> QED BY <3>1, <3>2
  <2> QED BY <1>1, <2>1, <2>2 DEF FilesRight
<1>3. CASE f # Current
  <2>1. DOMAIN files' = DOMAIN files \ {f} /\ \A g \in DOMAIN files \ {f} : files'[g] = files[g]
    BY <1>1, <1>3
  <2> QED BY <1>1, <1>3, <2>1 DEF FilesRight
<1> QED BY <1>2, <1>3

LEMMA DeleteKeeps ==
    ASSUME LogInv, NEW c \in LogThreads, NEW f, NEW how, NEW after, Delete(c, f, how, after),
           UNCHANGED clock, PassRight(after, files', clock), CountRight(after, files'),
           OnlyWhatMayGo'
    PROVE  LogInv'
<1>1. /\ FilesRight(files', clock') /\ DOMAIN files' \subseteq DOMAIN files
      /\ \A g \in DOMAIN files' : \A t \in files'[g].events : t \in files[g].events \/ t = clock
  BY DeletedFiles
<1>2. /\ clock \in Nat /\ PassesRight(cleaner, files, clock) /\ clock <= MaxTime
  BY DEF LogInv
<1>3. cleaner' = [d \in LogThreads |-> IF d = c THEN after ELSE Disturbed(cleaner[d])]
  BY DEF Delete, Disturbed
<1>4. ASSUME NEW d \in LogThreads PROVE PassRight(cleaner'[d], files', clock) /\ CountRight(cleaner'[d], files')
  <2>1. CASE d = c
    BY <1>3, <2>1
  <2>2. CASE d # c
    <3>1. PassRight(cleaner[d], files, clock) /\ cleaner'[d] = Disturbed(cleaner[d])
      BY <1>2, <1>3, <2>2 DEF PassesRight
    <3>2. clock <= clock
      BY <1>2
    <3>3. PassRight(cleaner[d], files', clock)
      BY <1>1, <1>2, <3>1, <3>2, PassStays
    <3> QED BY <3>1, <3>3, DisturbedIs
  <2> QED BY <2>1, <2>2
<1>5. PassesRight(cleaner', files', clock')
  BY <1>3, <1>4 DEF PassesRight
<1> QED BY <1>1, <1>2, <1>5 DEF LogInv

\* A step that changes nothing but one pass.
LEMMA PassKeeps ==
    ASSUME LogInv, NEW c \in LogThreads, NEW p, cleaner' = [cleaner EXCEPT ![c] = p],
           PassRight(p, files, clock), CountRight(p, files), UNCHANGED <<clock, files, gone>>
    PROVE  LogInv'
<1>1. PassesRight(cleaner', files', clock')
  BY OnePass
<1> QED BY <1>1, GoneStays DEF LogInv

-----------------------------------------------------------------------------
(* The steps of the passes.                                                *)

LEMMA ByAgeIs ==
    ASSUME LogInv, NEW age \in Nat, NEW policy \in BOOLEAN
    PROVE  PassRight(ByAge(age, policy), files, clock) /\ CountRight(ByAge(age, policy), files)
BY DEF LogInv, ByAge, PassRight, CountRight

LEMMA MaybeEnforceKeeps ==
    ASSUME LogInv, NEW c \in LogThreads, MaybeEnforce(c)
    PROVE  LogInv'
<1>1. PICK p : cleaner' = [cleaner EXCEPT ![c] = p] /\ p \in {ByAge(Retention, TRUE), Idle}
  BY DEF MaybeEnforce
<1>2. UNCHANGED <<clock, files, gone>>
  BY DEF MaybeEnforce
<1>3. PassRight(Idle, files, clock) /\ CountRight(Idle, files)
  BY DEF PassRight, CountRight, Idle
<1>4. PassRight(p, files, clock) /\ CountRight(p, files)
  BY <1>1, <1>3, ByAgeIs, LogFilesAssumption
<1> QED BY <1>1, <1>2, <1>4, PassKeeps

LEMMA AskCleanupKeeps ==
    ASSUME LogInv, NEW c \in LogThreads, NEW pass, AskCleanup(c, pass),
           PassRight(pass, files, clock), CountRight(pass, files)
    PROVE  LogInv'
BY PassKeeps DEF AskCleanup

LEMMA AsksKeep ==
    ASSUME LogInv, NEW c \in LogThreads,
           \/ AskCleanup(c, CleanAll)
           \/ \E keep \in FilesKept : AskCleanup(c, CleanFiles(keep))
           \/ \E age \in MaxAges : AskCleanup(c, ByAge(age, FALSE))
    PROVE  LogInv'
<1>1. CASE AskCleanup(c, CleanAll)
  <2>1. PassRight(CleanAll, files, clock) /\ CountRight(CleanAll, files)
    BY DEF CleanAll, PassRight, CountRight
  <2> QED BY <1>1, <2>1, AskCleanupKeeps
<1>2. CASE \E keep \in FilesKept : AskCleanup(c, CleanFiles(keep))
  <2>1. PICK keep \in FilesKept : AskCleanup(c, CleanFiles(keep))
    BY <1>2
  <2>2. PassRight(CleanFiles(keep), files, clock) /\ CountRight(CleanFiles(keep), files)
    BY BeyondKeptIs DEF CleanFiles, PassRight, CountRight
  <2> QED BY <2>1, <2>2, AskCleanupKeeps
<1>3. CASE \E age \in MaxAges : AskCleanup(c, ByAge(age, FALSE))
  <2>1. PICK age \in MaxAges : AskCleanup(c, ByAge(age, FALSE))
    BY <1>3
  <2>2. age \in Nat
    BY LogFilesAssumption
  <2> QED BY <2>1, <2>2, ByAgeIs, AskCleanupKeeps
<1> QED BY <1>1, <1>2, <1>3

LEMMA RemoveNextKeeps ==
    ASSUME LogInv, NEW c \in LogThreads, RemoveNext(c)
    PROVE  LogInv'
<1>1. UNCHANGED clock /\ cleaner[c].stage = "remove"
  BY DEF RemoveNext
<1>2. PICK p : p = cleaner[c]
  OBVIOUS
<1>3. /\ p = [stage |-> "remove", how |-> p.how, todo |-> p.todo] /\ p.how \in {"all", "files"}
      /\ p.how = "files" => IsFiniteSet(p.todo) /\ \A e \in p.todo : e.file # Current /\ e.mtime \in Int
  BY <1>1, <1>2 DEF LogInv, PassesRight, PassRight
<1>4. CASE p.todo = {}
  <2>1. cleaner' = [cleaner EXCEPT ![c] = Idle] /\ UNCHANGED <<clock, files, gone>>
    BY <1>2, <1>4 DEF RemoveNext
  <2>2. PassRight(Idle, files, clock) /\ CountRight(Idle, files)
    BY DEF PassRight, CountRight, Idle
  <2> QED BY <2>1, <2>2, PassKeeps
<1>5. CASE p.todo # {}
  <2>1. PICK e : e = Newest(p.todo)
    OBVIOUS
  <2>2. PICK after : after = [p EXCEPT !.todo = @ \ {e}]
    OBVIOUS
  <2>3. after = [stage |-> "remove", how |-> p.how, todo |-> p.todo \ {e}]
    BY <1>3, <2>2
  <2>4. IsFiniteSet(p.todo) => IsFiniteSet(p.todo \ {e})
    BY FS_RemoveElement
  <2>5. \A fs, gs : PassRight(after, fs, clock) /\ CountRight(after, gs)
    BY <1>3, <2>3, <2>4 DEF PassRight, CountRight
  <2>6. CASE e.file \in DOMAIN files
    <3>1. Delete(c, e.file, [mode |-> p.how], after)
      BY <1>1, <1>2, <1>5, <2>1, <2>2, <2>6 DEF RemoveNext
    <3>2. gone'.how = [mode |-> p.how] /\ gone'.file = e.file
      BY <3>1 DEF Delete
    <3>3. p.how = "files" => e.file # Current
      BY <1>3, <1>5, <2>1, NewestIs
    <3>4. OnlyWhatMayGo'
      <4>1. gone'.how.mode = p.how
        BY <3>2
      <4>2. CASE p.how = "all"
        BY <4>1, <4>2 DEF OnlyWhatMayGo
      <4>3. CASE p.how = "files"
        BY <3>2, <3>3, <4>1, <4>3 DEF OnlyWhatMayGo
      <4> QED BY <1>3, <4>2, <4>3
    <3> QED BY <1>1, <2>5, <3>1, <3>4, DeleteKeeps
  <2>7. CASE e.file \notin DOMAIN files
    <3>1. cleaner' = [cleaner EXCEPT ![c] = after] /\ UNCHANGED <<clock, files, gone>>
      BY <1>1, <1>2, <1>5, <2>1, <2>2, <2>7 DEF RemoveNext
    <3> QED BY <2>5, <3>1, PassKeeps
  <2> QED BY <2>6, <2>7
<1> QED BY <1>4, <1>5

LEMMA LookAtAgeKeeps ==
    ASSUME LogInv, NEW c \in LogThreads, LookAtAge(c)
    PROVE  LogInv'
<1>1. PICK p : p = cleaner[c]
  OBVIOUS
<1>2. PICK e : e = Newest(p.todo)
  OBVIOUS
<1>3. PICK q : q = [stage |-> IF Expired(c, e) THEN "expired" ELSE "age",
                    policy |-> p.policy, threshold |-> p.threshold, listed |-> p.listed, todo |-> p.todo \ {e},
                    file |-> e.file, looked |-> clock]
  OBVIOUS
<1>4. /\ cleaner[c].stage = "age" /\ UNCHANGED <<clock, files, gone>>
      /\ cleaner' = [cleaner EXCEPT ![c] =
           [stage |-> IF Expired(c, e) THEN "expired" ELSE "age",
            policy |-> @.policy, threshold |-> @.threshold, listed |-> @.listed, todo |-> p.todo \ {e},
            file |-> e.file, looked |-> clock]]
  BY <1>1, <1>2 DEF LookAtAge
<1>5. cleaner' = [cleaner EXCEPT ![c] = q]
  BY <1>1, <1>3, <1>4 DEF LogInv, PassesRight
<1>6. p.threshold \in Int /\ p.policy \in BOOLEAN
  BY <1>1, <1>4 DEF LogInv, PassesRight, PassRight
<1>7. /\ clock \in Nat /\ clock <= clock
      /\ \A f \in DOMAIN files : /\ files[f].events \subseteq Times /\ files[f].mtime \in Int
                                 /\ \A t \in files[f].events : t <= files[f].mtime
  BY DEF LogInv, FilesRight
<1>8. PassRight(q, files, clock)
  <2>1. CASE Expired(c, e)
    <3>1. e.file \in DOMAIN files /\ files[e.file].mtime < p.threshold
      BY <1>1, <2>1 DEF Expired
    <3>2. ASSUME NEW t \in files[e.file].events PROVE t < p.threshold
      <4>1. t \in Int /\ t <= files[e.file].mtime /\ files[e.file].mtime \in Int
        BY <1>7, <3>1, TimesFinite
      <4> QED BY <1>6, <3>1, <4>1
    <3>3. /\ q.stage = "expired" /\ q.file = e.file /\ q.threshold = p.threshold /\ q.policy = p.policy
          /\ q.looked = clock
          /\ q = [stage |-> "expired", policy |-> q.policy, threshold |-> q.threshold, listed |-> q.listed,
                  todo |-> q.todo, file |-> q.file, looked |-> q.looked]
      BY <1>3, <2>1
    <3> QED BY <1>6, <1>7, <3>2, <3>3 DEF PassRight
  <2>2. CASE ~ Expired(c, e)
    BY <1>3, <1>6, <2>2 DEF PassRight
  <2> QED BY <2>1, <2>2
<1>9. CountRight(q, files)
  BY <1>3 DEF CountRight
<1> QED BY <1>4, <1>5, <1>8, <1>9, PassKeeps

LEMMA DeleteExpiredKeeps ==
    ASSUME LogInv, NEW c \in LogThreads, DeleteExpired(c)
    PROVE  LogInv'
<1>1. PICK p : p = cleaner[c]
  OBVIOUS
<1>2. PICK after : after = [p EXCEPT !.stage = "age"]
  OBVIOUS
<1>3. PICK how : how = [mode |-> "age", threshold |-> p.threshold, looked |-> p.looked]
  OBVIOUS
<1>4. Delete(c, p.file, how, after) /\ UNCHANGED clock /\ p.stage = "expired"
  BY <1>1, <1>2, <1>3 DEF DeleteExpired
<1>5. /\ p = [stage |-> "expired", policy |-> p.policy, threshold |-> p.threshold, listed |-> p.listed,
              todo |-> p.todo, file |-> p.file, looked |-> p.looked]
      /\ p.threshold \in Int /\ p.policy \in BOOLEAN
      /\ p.file \in DOMAIN files => \A t \in files[p.file].events : t < p.threshold \/ t >= p.looked
  BY <1>1, <1>4 DEF LogInv, PassesRight, PassRight
<1>6. after = [stage |-> "age", policy |-> p.policy, threshold |-> p.threshold, listed |-> p.listed,
               todo |-> p.todo, file |-> p.file, looked |-> p.looked]
  BY <1>2, <1>5
<1>7. PassRight(after, files', clock) /\ CountRight(after, files')
  BY <1>5, <1>6 DEF PassRight, CountRight
<1>8. OnlyWhatMayGo'
  <2>1. gone' = [file |-> p.file, events |-> IF p.file \in DOMAIN files THEN files[p.file].events ELSE {}, how |-> how]
    BY <1>4 DEF Delete
  <2>2. ASSUME NEW t \in gone'.events PROVE t < gone'.how.threshold \/ t >= gone'.how.looked
    <3>1. p.file \in DOMAIN files /\ t \in files[p.file].events
      BY <2>1
    <3> QED BY <1>3, <1>5, <2>1, <3>1
  <2>3. gone'.how.mode = "age"
    BY <1>3, <2>1
  <2> QED BY <2>2, <2>3 DEF OnlyWhatMayGo
<1> QED BY <1>4, <1>7, <1>8, DeleteKeeps

LEMMA MeasureKeeps ==
    ASSUME LogInv, NEW c \in LogThreads, Measure(c)
    PROVE  LogInv'
<1>1. PICK p : p = cleaner[c]
  OBVIOUS
<1>2. PICK left : left = p.listed \cap DOMAIN files
  OBVIOUS
<1>3. PICK q : q = IF p.policy THEN [stage |-> "trim", todo |-> Listing(left), alone |-> TRUE, total |-> Size(left)]
                   ELSE Idle
  OBVIOUS
<1>4. /\ cleaner[c].stage = "age" /\ UNCHANGED <<clock, files, gone>>
      /\ cleaner' = [cleaner EXCEPT ![c] =
           IF @.policy THEN [stage |-> "trim", todo |-> Listing(left), alone |-> TRUE, total |-> Size(left)]
           ELSE Idle]
  BY <1>1, <1>2 DEF Measure
<1>5. cleaner' = [cleaner EXCEPT ![c] = q]
  BY <1>1, <1>3, <1>4 DEF LogInv, PassesRight
<1>6. Size(left) \in Int /\ Size(left) <= Cardinality(LinesOf(files, DOMAIN files))
  <2>1. left \subseteq DOMAIN files /\ DOMAIN files \subseteq LogNames /\ \A f \in DOMAIN files : files[f].events \subseteq Times
    BY <1>2 DEF LogInv, FilesRight
  <2>2. /\ Cardinality(LinesOf(files, left)) \in Nat
        /\ Cardinality(LinesOf(files, left)) <= Cardinality(LinesOf(files, DOMAIN files))
    BY <2>1, LinesGrow
  <2> QED BY <2>2, SizeIs
<1>7. PassRight(q, files, clock) /\ CountRight(q, files)
  BY <1>3, <1>6 DEF PassRight, CountRight, Idle
<1> QED BY <1>4, <1>5, <1>7, PassKeeps

LEMMA TrimKeeps ==
    ASSUME LogInv, NEW c \in LogThreads, Trim(c)
    PROVE  LogInv'
<1>1. PICK p : p = cleaner[c]
  OBVIOUS
<1>2. UNCHANGED clock /\ p.stage = "trim"
  BY <1>1 DEF Trim
<1>3. /\ p = [stage |-> "trim", todo |-> p.todo, alone |-> p.alone, total |-> p.total]
      /\ p.total \in Int /\ p.alone \in BOOLEAN /\ CountRight(p, files)
  BY <1>1, <1>2 DEF LogInv, PassesRight, PassRight
<1>4. CASE p.total <= MaxSize \/ p.todo = {}
  <2>1. cleaner' = [cleaner EXCEPT ![c] = Idle] /\ UNCHANGED <<clock, files, gone>>
    BY <1>1, <1>4 DEF Trim
  <2>2. PassRight(Idle, files, clock) /\ CountRight(Idle, files)
    BY DEF PassRight, CountRight, Idle
  <2> QED BY <2>1, <2>2, PassKeeps
<1>5. CASE ~ (p.total <= MaxSize \/ p.todo = {})
  <2>1. PICK e : e = Oldest(p.todo)
    OBVIOUS
  <2>2. PICK after : after = [p EXCEPT !.todo = @ \ {e}]
    OBVIOUS
  <2>3. after = [stage |-> "trim", todo |-> p.todo \ {e}, alone |-> p.alone, total |-> p.total]
    BY <1>3, <2>2
  <2>4. CASE Spared(e.file)
    <3>1. cleaner' = [cleaner EXCEPT ![c] = after] /\ UNCHANGED <<clock, files, gone>>
      BY <1>1, <1>2, <1>5, <2>1, <2>2, <2>4 DEF Trim
    <3>2. PassRight(after, files, clock) /\ CountRight(after, files)
      BY <1>2, <1>3, <2>3 DEF PassRight, CountRight
    <3> QED BY <3>1, <3>2, PassKeeps
  <2>5. CASE ~ Spared(e.file)
    <3>1. PICK f : f = e.file
      OBVIOUS
    <3>2. PICK less : less = [after EXCEPT !.total = @ - Size({f})]
      OBVIOUS
    <3>3. PICK how : how = [mode |-> "size", alone |-> p.alone, total |-> Size(DOMAIN files)]
      OBVIOUS
    <3>4. Delete(c, f, how, less)
      BY <1>1, <1>2, <1>5, <2>1, <2>2, <2>5, <3>1, <3>2, <3>3 DEF Trim
    <3>5. f # Current /\ f \in DOMAIN files
      BY <2>5, <3>1 DEF Spared
    <3>6. DOMAIN files \subseteq LogNames /\ \A g \in DOMAIN files : files[g].events \subseteq Times
      BY DEF LogInv, FilesRight
    <3>7. /\ Size({f}) = Cardinality(LinesOf(files, {f})) /\ Size({f}) \in Nat
          /\ Size(DOMAIN files) = Cardinality(LinesOf(files, DOMAIN files)) /\ Size(DOMAIN files) \in Nat
      BY <3>5, <3>6, SizeIs, LinesFinite
    <3>8. DOMAIN files' = DOMAIN files \ {f} /\ \A g \in DOMAIN files \ {f} : files'[g] = files[g]
      BY <3>4, <3>5 DEF Delete
    <3>9. Cardinality(LinesOf(files', DOMAIN files')) = Size(DOMAIN files) - Size({f})
      BY <3>5, <3>6, <3>7, <3>8, LinesShrink
    <3>10. less = [stage |-> "trim", todo |-> p.todo \ {e}, alone |-> p.alone, total |-> p.total - Size({f})]
      BY <2>3, <3>2
    <3>11. p.total - Size({f}) \in Int
      BY <1>3, <3>7
    <3>12. PassRight(less, files', clock)
      BY <1>3, <3>10, <3>11 DEF PassRight
    <3>13. p.alone => p.total <= Size(DOMAIN files)
      BY <1>2, <1>3, <3>7 DEF CountRight
    <3>14. CountRight(less, files')
      <4>1. p.alone => p.total - Size({f}) <= Size(DOMAIN files) - Size({f})
        BY <1>3, <3>7, <3>13
      <4> QED BY <3>9, <3>10, <4>1 DEF CountRight
    <3>15. OnlyWhatMayGo'
      <4>1. gone'.how = how /\ gone'.file = f
        BY <3>4 DEF Delete
      <4>2. p.alone => Size(DOMAIN files) > MaxSize
        BY <1>3, <1>5, <3>7, <3>13, LogFilesAssumption
      <4>3. how.mode = "size" /\ how.alone = p.alone /\ how.total = Size(DOMAIN files)
        BY <3>3
      <4> QED BY <3>5, <4>1, <4>2, <4>3 DEF OnlyWhatMayGo
    <3> QED BY <1>2, <3>4, <3>12, <3>14, <3>15, DeleteKeeps
  <2> QED BY <2>4, <2>5
<1> QED BY <1>4, <1>5

\* A clean-up of the log deletes only what its mode may delete: for any files, ages,
\* sizes and number of threads, a pass by age takes no event younger than that but
\* such as were appended after it looked, and a pass by size takes nothing while the
\* files together are small enough, unless another pass interfered.
THEOREM DeletionsAreDue == LogFilesSpec => []OnlyWhatMayGo
<1>1. ASSUME LogInv, [LogFilesNext]_logFilesVars PROVE LogInv'
  <2>1. CASE UNCHANGED logFilesVars
    <3>1. UNCHANGED <<clock, files, cleaner, gone>>
      BY <2>1 DEF logFilesVars
    <3>2. PassesRight(cleaner', files', clock') /\ FilesRight(files', clock')
      BY <1>1, <3>1 DEF LogInv
    <3> QED BY <1>1, <3>1, <3>2, GoneStays DEF LogInv
  <2>2. CASE TimePasses
    BY <1>1, <2>2, TimeKeeps
  <2>3. ASSUME NEW c \in LogThreads,
               \/ LogEvent(c) \/ MaybeEnforce(c)
               \/ AskCleanup(c, CleanAll)
               \/ \E keep \in FilesKept : AskCleanup(c, CleanFiles(keep))
               \/ \E age \in MaxAges : AskCleanup(c, ByAge(age, FALSE))
               \/ RemoveNext(c) \/ LookAtAge(c) \/ DeleteExpired(c) \/ Measure(c) \/ Trim(c)
        PROVE  LogInv'
    BY <1>1, <2>3, LogEventKeeps, MaybeEnforceKeeps, AsksKeep, RemoveNextKeeps, LookAtAgeKeeps,
       DeleteExpiredKeeps, MeasureKeeps, TrimKeeps
  <2> QED BY <1>1, <2>1, <2>2, <2>3 DEF LogFilesNext
<1>2. LogInv => OnlyWhatMayGo
  BY DEF LogInv
<1> QED BY <1>1, <1>2, LogInitInv, PTL DEF LogFilesSpec

-----------------------------------------------------------------------------
(***************************************************************************)
(* Reports: what the lists and the figures show of the past.               *)
(***************************************************************************)

\* What the rows of a list are, with the state as parameters.
MatchingOf(user, days, ls, n) ==
  {l \in ls : (user = Everyone \/ l.user = user) /\ (days = 0 \/ Day(l.at) > Day(n) - days)}
EntriesOf(q, ls, fs, n) ==
  CASE q.list = "records"  -> {[key |-> l.at, at |-> l.at] : l \in MatchingOf(q.user, q.days, ls, n)}
    [] q.list = "groups"   -> {[key |-> GroupOf(l), at |-> l.at] : l \in MatchingOf(q.user, q.days, ls, n)}
    [] q.list = "feedback" ->
         {[key |-> f.at, at |-> f.at] : f \in {g \in fs : q.user \in {Everyone, g.user}}}

LEMMA EntriesIs == ASSUME NEW q PROVE Entries(q) = EntriesOf(q, logs, feedbacks, now)
BY DEF Entries, EntriesOf, Matching, MatchingOf, InWindow

Rank(es, k) == Cardinality(Ahead(es, k))

-----------------------------------------------------------------------------
(* Times.                                                                  *)

LEMMA DayIs == ASSUME NEW t \in Nat PROVE Day(t) \in Nat
BY ReportsAssumption DEF Day

LEMMA DayGrows == ASSUME NEW s \in Nat, NEW t \in Nat, s <= t PROVE Day(s) <= Day(t)
BY ReportsAssumption DEF Day

LEMMA NextDay == ASSUME NEW t \in Nat PROVE (Day(t) + 1) * DayLength \in Nat /\ t < (Day(t) + 1) * DayLength
<1>1. DayLength \in Nat \ {0}
  BY ReportsAssumption
<1>2. t < DayLength * (t \div DayLength) + DayLength
  BY <1>1
<1>3. PICK d \in Nat : d = t \div DayLength
  BY DayIs DEF Day
<1>4. (d + 1) * DayLength = DayLength * d + DayLength /\ (d + 1) * DayLength \in Nat
  BY <1>1
<1> QED BY <1>2, <1>3, <1>4 DEF Day

LEMMA DayOfMidnight ==
  ASSUME NEW t \in Nat PROVE Day((Day(t) + 1) * DayLength) = Day(t) + 1
<1>1. DayLength \in Nat \ {0}
  BY ReportsAssumption
<1>2. PICK d \in Nat : d = Day(t)
  BY DayIs
<1>3. ((d + 1) * DayLength) \div DayLength = d + 1
  BY <1>1
<1> QED BY <1>2, <1>3 DEF Day

-----------------------------------------------------------------------------
(* Places.                                                                 *)

\* A finite set of entries makes finitely many rows.
LEMMA RowsFinite ==
  ASSUME NEW es, IsFiniteSet(es)
  PROVE  IsFiniteSet(RowsOf(es)) /\ Cardinality(RowsOf(es)) \in Nat
<1> DEFINE f == [e \in es |-> e.key]
<1>1. f \in Surjection(es, RowsOf(es))
  BY DEF Surjection, RowsOf
<1>2. IsFiniteSet(RowsOf(es))
  <2> HIDE DEF f
  <2> QED BY <1>1, FS_Surjection
<1> QED BY <1>2, FS_CardinalityType

LEMMA AheadIs ==
  ASSUME NEW es, NEW k, \A e \in es : e.at \in Nat
  PROVE  /\ Ahead(es, k) \subseteq RowsOf(es) \ {k}
         /\ \A r : r \in Ahead(es, k) <=>
                     \E e \in es : e.key = r /\ \A f \in es : f.key = k => f.at < e.at
<1>1. ASSUME NEW r
      PROVE  r \in Ahead(es, k) <=>
               \E e \in es : e.key = r /\ \A f \in es : f.key = k => f.at < e.at
  BY DEF Ahead, RowsOf
<1>2. ASSUME NEW r \in Ahead(es, k) PROVE r \in RowsOf(es) \ {k}
  <2>1. PICK e \in es : e.key = r /\ \A f \in es : f.key = k => f.at < e.at
    BY <1>1
  <2>2. r # k
    BY <2>1
  <2> QED BY <2>1, <2>2 DEF RowsOf
<1> QED BY <1>1, <1>2

LEMMA RankIs ==
  ASSUME NEW es, IsFiniteSet(es), NEW k, \A e \in es : e.at \in Nat
  PROVE  /\ IsFiniteSet(Ahead(es, k)) /\ Rank(es, k) \in Nat
         /\ k \in RowsOf(es) => Rank(es, k) < Cardinality(RowsOf(es))
<1>1. IsFiniteSet(RowsOf(es)) /\ Cardinality(RowsOf(es)) \in Nat
  BY RowsFinite
<1>2. Ahead(es, k) \subseteq RowsOf(es) \ {k}
  BY AheadIs
<1>3. IsFiniteSet(Ahead(es, k))
  BY <1>1, <1>2, FS_Subset
<1>4. Rank(es, k) \in Nat
  BY <1>3, FS_CardinalityType DEF Rank
<1>5. ASSUME k \in RowsOf(es) PROVE Rank(es, k) < Cardinality(RowsOf(es))
  <2>1. Ahead(es, k) \subseteq RowsOf(es) /\ Ahead(es, k) # RowsOf(es)
    BY <1>2, <1>5
  <2>2. Rank(es, k) <= Cardinality(RowsOf(es)) /\ Rank(es, k) # Cardinality(RowsOf(es))
    BY <1>1, <2>1, FS_Subset DEF Rank
  <2> QED BY <1>1, <1>4, <2>2
<1> QED BY <1>3, <1>4, <1>5

\* A row moves back, or stays, when what was before it stays before it.
LEMMA RankGrows ==
  ASSUME NEW es, NEW es2, IsFiniteSet(es), IsFiniteSet(es2), NEW k,
         \A e \in es : e.at \in Nat, \A e \in es2 : e.at \in Nat,
         \A f \in es2 : f.key = k => f \in es,
         \A d \in es : (\A f \in es : f.key = k => f.at < d.at) => d \in es2
  PROVE  Rank(es, k) <= Rank(es2, k)
<1>1. ASSUME NEW r \in Ahead(es, k) PROVE r \in Ahead(es2, k)
  <2>1. PICK d \in es : d.key = r /\ \A f \in es : f.key = k => f.at < d.at
    BY AheadIs
  <2>2. d \in es2 /\ \A f \in es2 : f.key = k => f.at < d.at
    BY <2>1
  <2> QED BY <2>1, <2>2, AheadIs
<1>2. Ahead(es, k) \subseteq Ahead(es2, k)
  BY <1>1
<1>3. IsFiniteSet(Ahead(es2, k))
  BY RankIs
<1> QED BY <1>2, <1>3, FS_Subset DEF Rank

\* What is before a row that is before another is before that one too.
LEMMA AheadChains ==
  ASSUME NEW es, IsFiniteSet(es), NEW k, \A e \in es : e.at \in Nat,
         NEW d \in es, \A f \in es : f.key = k => f.at < d.at, k \in RowsOf(es)
  PROVE  Rank(es, d.key) <= Rank(es, k)
<1>1. ASSUME NEW r \in Ahead(es, d.key) PROVE r \in Ahead(es, k)
  <2>1. PICK e \in es : e.key = r /\ \A f \in es : f.key = d.key => f.at < e.at
    BY AheadIs
  <2>2. d.at < e.at
    BY <2>1
  <2>3. ASSUME NEW f \in es, f.key = k PROVE f.at < e.at
    BY <2>2, <2>3
  <2> QED BY <2>1, <2>3, AheadIs
<1>2. Ahead(es, d.key) \subseteq Ahead(es, k)
  BY <1>1
<1>3. IsFiniteSet(Ahead(es, k))
  BY RankIs
<1> QED BY <1>2, <1>3, FS_Subset DEF Rank

\* The first rows stand among themselves as they do among all.
LEMMA RankAmongFirst ==
  ASSUME NEW es, IsFiniteSet(es), NEW k \in RowsOf(es), \A e \in es : e.at \in Nat,
         NEW m \in Nat, Rank(es, k) < m
  PROVE  /\ k \in RowsOf(Slice(es, 0, m)) /\ IsFiniteSet(Slice(es, 0, m))
         /\ \A e \in Slice(es, 0, m) : e.at \in Nat
         /\ Rank(Slice(es, 0, m), k) = Rank(es, k)
<1> DEFINE F == Slice(es, 0, m)
<1>1. F \subseteq es /\ \A e \in es : e \in F <=> Rank(es, e.key) < m
  <2>1. \A e \in es : Rank(es, e.key) \in Nat
    BY RankIs
  <2>2. \A e \in es : e \in F <=> 0 <= Rank(es, e.key) /\ Rank(es, e.key) < m
    BY DEF Slice, Rank
  <2>3. F \subseteq es
    BY DEF Slice
  <2> QED BY <2>1, <2>2, <2>3
<1> HIDE DEF F
<1>2. \A f \in es : f.key = k => f \in F
  BY <1>1
<1>3. k \in RowsOf(F)
  BY <1>2 DEF RowsOf
<1>4. IsFiniteSet(F) /\ \A e \in F : e.at \in Nat
  BY <1>1, FS_Subset
<1>5. ASSUME NEW r PROVE r \in Ahead(F, k) <=> r \in Ahead(es, k)
  <2>1. ASSUME r \in Ahead(F, k) PROVE r \in Ahead(es, k)
    <3>1. PICK d \in F : d.key = r /\ \A f \in F : f.key = k => f.at < d.at
      BY <1>4, <2>1, AheadIs
    <3>2. d \in es /\ \A f \in es : f.key = k => f.at < d.at
      BY <1>1, <1>2, <3>1
    <3> QED BY <3>1, <3>2, AheadIs
  <2>2. ASSUME r \in Ahead(es, k) PROVE r \in Ahead(F, k)
    <3>1. PICK d \in es : d.key = r /\ \A f \in es : f.key = k => f.at < d.at
      BY <2>2, AheadIs
    <3>2. Rank(es, d.key) <= Rank(es, k)
      BY <3>1, AheadChains
    <3>3. Rank(es, d.key) \in Nat /\ Rank(es, k) \in Nat
      BY RankIs
    <3>4. d \in F
      BY <1>1, <3>1, <3>2, <3>3
    <3>5. \A f \in F : f.key = k => f.at < d.at
      BY <1>1, <3>1
    <3> QED BY <1>4, <3>1, <3>4, <3>5, AheadIs
  <2> QED BY <2>1, <2>2
<1>6. Ahead(F, k) = Ahead(es, k)
  BY <1>5
<1> QED BY <1>3, <1>4, <1>6 DEF Rank, F

-----------------------------------------------------------------------------
(* The entries of a list.                                                  *)

LEMMA EntriesAre ==
  ASSUME NEW q, NEW ls, NEW fs, NEW n
  PROVE  /\ q.list = "records" => \A e : e \in EntriesOf(q, ls, fs, n) <=>
              \E l \in MatchingOf(q.user, q.days, ls, n) : e = [key |-> l.at, at |-> l.at]
         /\ q.list = "groups" => \A e : e \in EntriesOf(q, ls, fs, n) <=>
              \E l \in MatchingOf(q.user, q.days, ls, n) : e = [key |-> GroupOf(l), at |-> l.at]
         /\ q.list = "feedback" => \A e : e \in EntriesOf(q, ls, fs, n) <=>
              \E f \in fs : q.user \in {Everyone, f.user} /\ e = [key |-> f.at, at |-> f.at]
<1>1. CASE q.list = "records"
  BY <1>1 DEF EntriesOf
<1>2. CASE q.list = "groups"
  BY <1>2 DEF EntriesOf
<1>3. CASE q.list = "feedback"
  BY <1>3 DEF EntriesOf
<1> QED BY <1>1, <1>2, <1>3

LEMMA EntriesFinite ==
  ASSUME NEW q, q.list \in Lists, NEW ls, NEW fs, NEW n, IsFiniteSet(ls), IsFiniteSet(fs),
         ls \subseteq LogType, fs \subseteq FeedbackRowType
  PROVE  /\ IsFiniteSet(EntriesOf(q, ls, fs, n))
         /\ \A e \in EntriesOf(q, ls, fs, n) : e.at \in Nat
<1> DEFINE es == EntriesOf(q, ls, fs, n)
           M == MatchingOf(q.user, q.days, ls, n)
<1>1. IsFiniteSet(M) /\ M \subseteq ls
  BY FS_Subset DEF MatchingOf
<1>2. CASE q.list = "records"
  <2> DEFINE f == [l \in M |-> [key |-> l.at, at |-> l.at]]
  <2>1. ASSUME NEW e PROVE e \in es <=> \E l \in M : e = [key |-> l.at, at |-> l.at]
    BY <1>2, EntriesAre
  <2>2. \A e \in es : e.at \in Nat
    BY <1>1, <2>1 DEF LogType
  <2> HIDE DEF M, es
  <2>3. f \in Surjection(M, es)
    <3>1. f \in [M -> es]
      BY <2>1
    <3>2. ASSUME NEW e \in es PROVE \E l \in M : f[l] = e
      BY <2>1
    <3> QED BY <3>1, <3>2 DEF Surjection
  <2>4. IsFiniteSet(es)
    <3> HIDE DEF f
    <3> QED BY <1>1, <2>3, FS_Surjection
  <2> QED BY <2>2, <2>4 DEF es
<1>3. CASE q.list = "groups"
  <2> DEFINE f == [l \in M |-> [key |-> GroupOf(l), at |-> l.at]]
  <2>1. ASSUME NEW e PROVE e \in es <=> \E l \in M : e = [key |-> GroupOf(l), at |-> l.at]
    BY <1>3, EntriesAre
  <2>2. \A e \in es : e.at \in Nat
    BY <1>1, <2>1 DEF LogType
  <2> HIDE DEF M, es
  <2>3. f \in Surjection(M, es)
    <3>1. f \in [M -> es]
      BY <2>1
    <3>2. ASSUME NEW e \in es PROVE \E l \in M : f[l] = e
      BY <2>1
    <3> QED BY <3>1, <3>2 DEF Surjection
  <2>4. IsFiniteSet(es)
    <3> HIDE DEF f
    <3> QED BY <1>1, <2>3, FS_Surjection
  <2> QED BY <2>2, <2>4 DEF es
<1>4. CASE q.list = "feedback"
  <2> DEFINE G == {g \in fs : q.user \in {Everyone, g.user}}
             f == [g \in G |-> [key |-> g.at, at |-> g.at]]
  <2>1. f \in Surjection(G, es)
    BY <1>4, EntriesAre DEF Surjection
  <2>2. IsFiniteSet(es)
    <3>1. IsFiniteSet(G)
      BY FS_Subset
    <3> HIDE DEF f, es, G
    <3> QED BY <2>1, <3>1, FS_Surjection
  <2>3. \A e \in es : e.at \in Nat
    BY <1>4, EntriesAre DEF FeedbackRowType
  <2> QED BY <2>2, <2>3
<1> QED BY <1>2, <1>3, <1>4 DEF Lists

\* The lists look at the day only.
LEMMA SameDayEntries ==
  ASSUME NEW q, NEW ls, NEW fs, NEW m, NEW n, Day(m) = Day(n)
  PROVE  EntriesOf(q, ls, fs, m) = EntriesOf(q, ls, fs, n)
BY DEF EntriesOf, MatchingOf

\* A record more is an entry more of its row.
LEMMA LogAddsEntry ==
  ASSUME NEW q, q.list \in Lists, NEW ls, NEW fs, NEW n, NEW l, NEW ls2,
         ls \subseteq ls2, \A x \in ls2 : x \in ls \/ x = l
  PROVE  /\ EntriesOf(q, ls, fs, n) \subseteq EntriesOf(q, ls2, fs, n)
         /\ \A e \in EntriesOf(q, ls2, fs, n) :
              \/ e \in EntriesOf(q, ls, fs, n)
              \/ q.list = "records" /\ e.key = l.at
              \/ q.list = "groups" /\ e.key = GroupOf(l)
<1> DEFINE M == MatchingOf(q.user, q.days, ls, n)
           N == MatchingOf(q.user, q.days, ls2, n)
           es == EntriesOf(q, ls, fs, n)
           es2 == EntriesOf(q, ls2, fs, n)
<1>1. \A x : x \in N => x \in M \/ x = l
  BY DEF MatchingOf
<1>2. \A x : x \in M => x \in N
  BY DEF MatchingOf
<1>3. CASE q.list = "records"
  <2>1. \A e : e \in es <=> \E x \in M : e = [key |-> x.at, at |-> x.at]
    BY <1>3, EntriesAre
  <2>2. \A e : e \in es2 <=> \E x \in N : e = [key |-> x.at, at |-> x.at]
    BY <1>3, EntriesAre
  <2> HIDE DEF M, N, es, es2
  <2>3. es \subseteq es2
    BY <1>2, <2>1, <2>2
  <2>4. ASSUME NEW e \in es2 PROVE e \in es \/ e.key = l.at
    BY <1>1, <2>1, <2>2
  <2> QED BY <1>3, <2>3, <2>4 DEF es, es2
<1>4. CASE q.list = "groups"
  <2>1. \A e : e \in es <=> \E x \in M : e = [key |-> GroupOf(x), at |-> x.at]
    BY <1>4, EntriesAre
  <2>2. \A e : e \in es2 <=> \E x \in N : e = [key |-> GroupOf(x), at |-> x.at]
    BY <1>4, EntriesAre
  <2> HIDE DEF M, N, es, es2
  <2>3. es \subseteq es2
    BY <1>2, <2>1, <2>2
  <2>4. ASSUME NEW e \in es2 PROVE e \in es \/ e.key = GroupOf(l)
    BY <1>1, <2>1, <2>2
  <2> QED BY <1>4, <2>3, <2>4 DEF es, es2
<1>5. CASE q.list = "feedback"
  BY <1>5, EntriesAre
<1> QED BY <1>3, <1>4, <1>5 DEF Lists

LEMMA FeedbackAddsEntry ==
  ASSUME NEW q, q.list \in Lists, NEW ls, NEW fs, NEW n, NEW f, NEW fs2,
         fs \subseteq fs2, \A x \in fs2 : x \in fs \/ x = f
  PROVE  /\ EntriesOf(q, ls, fs, n) \subseteq EntriesOf(q, ls, fs2, n)
         /\ \A e \in EntriesOf(q, ls, fs2, n) :
              e \in EntriesOf(q, ls, fs, n) \/ (q.list = "feedback" /\ e.key = f.at)
<1>1. CASE q.list = "records"
  BY <1>1, EntriesAre
<1>2. CASE q.list = "groups"
  BY <1>2, EntriesAre
<1>3. CASE q.list = "feedback"
  BY <1>3, EntriesAre
<1> QED BY <1>1, <1>2, <1>3 DEF Lists

\* A list shows when a feedback was written and by whom, not its status.
LEMMA HandledEntries ==
  ASSUME NEW q, q.list \in Lists, NEW ls, NEW fs, NEW n, NEW f \in fs, NEW g,
         g.at = f.at, g.user = f.user
  PROVE  EntriesOf(q, ls, (fs \ {f}) \cup {g}, n) = EntriesOf(q, ls, fs, n)
<1>1. CASE q.list = "records"
  BY <1>1 DEF EntriesOf
<1>2. CASE q.list = "groups"
  BY <1>2 DEF EntriesOf
<1>3. CASE q.list = "feedback"
  <2>1. ASSUME NEW e PROVE e \in EntriesOf(q, ls, (fs \ {f}) \cup {g}, n) <=> e \in EntriesOf(q, ls, fs, n)
    BY <1>3, EntriesAre
  <2> QED BY <2>1
<1> QED BY <1>1, <1>2, <1>3 DEF Lists

\* When days pass, the oldest entries leave.
LEMMA LaterEntries ==
  ASSUME NEW q, q.list \in Lists, NEW ls, ls \subseteq LogType, NEW fs, NEW m \in Nat, NEW n \in Nat,
         m <= n, q.days \in Nat
  PROVE  /\ EntriesOf(q, ls, fs, n) \subseteq EntriesOf(q, ls, fs, m)
         /\ \A e \in EntriesOf(q, ls, fs, n) : \A d \in EntriesOf(q, ls, fs, m) :
              e.at < d.at => d \in EntriesOf(q, ls, fs, n)
<1>1. Day(m) \in Nat /\ Day(n) \in Nat /\ Day(m) <= Day(n)
  BY DayIs, DayGrows
<1>2. \A l \in ls : l.at \in Nat /\ Day(l.at) \in Nat
  BY DayIs DEF LogType
<1>3. MatchingOf(q.user, q.days, ls, n) \subseteq MatchingOf(q.user, q.days, ls, m)
  BY <1>1, <1>2 DEF MatchingOf
<1>4. ASSUME NEW l \in MatchingOf(q.user, q.days, ls, n), NEW k \in MatchingOf(q.user, q.days, ls, m), l.at < k.at
      PROVE  k \in MatchingOf(q.user, q.days, ls, n)
  <2>1. l \in ls /\ k \in ls
    BY DEF MatchingOf
  <2>2. Day(l.at) <= Day(k.at)
    BY <1>2, <1>4, <2>1, DayGrows
  <2> QED BY <1>1, <1>2, <2>1, <2>2 DEF MatchingOf
<1>5. CASE q.list = "records"
  BY <1>3, <1>4, <1>5, EntriesAre
<1>6. CASE q.list = "groups"
  BY <1>3, <1>4, <1>6, EntriesAre
<1>7. CASE q.list = "feedback"
  BY <1>7, EntriesAre
<1> QED BY <1>5, <1>6, <1>7 DEF Lists

-----------------------------------------------------------------------------
(* How far a walk got.                                                     *)

\* The two kinds of rows that may be missed.
Excused(q, moved, k) ==
  (q.list = "groups" /\ k \in moved) \/ (q.list = "feedback" /\ q.status /= AnyStatus)

\* A row that was there at the start was shown, is excused, or is still ahead.
Passed(q, due, seen, moved, page, es) ==
  \A k \in due \cap RowsOf(es) :
    \/ k \in seen
    \/ Excused(q, moved, k)
    \/ page * PageSize <= Rank(es, k)
    \/ q.list = "feedback" /\ FeedbackCap <= Rank(es, k)

LEMMA PassedStays ==
  ASSUME NEW q, NEW due, NEW seen, NEW moved, NEW moved2, moved \subseteq moved2, NEW page \in Nat,
         NEW es, NEW es2, IsFiniteSet(es), IsFiniteSet(es2),
         \A e \in es : e.at \in Nat, \A e \in es2 : e.at \in Nat,
         Passed(q, due, seen, moved, page, es),
         \A k \in due \cap RowsOf(es2) :
           Excused(q, moved2, k) \/ (k \in RowsOf(es) /\ Rank(es, k) <= Rank(es2, k))
  PROVE  Passed(q, due, seen, moved2, page, es2)
<1> SUFFICES ASSUME NEW k \in due \cap RowsOf(es2), ~ Excused(q, moved2, k), k \notin seen
             PROVE  \/ page * PageSize <= Rank(es2, k)
                    \/ q.list = "feedback" /\ FeedbackCap <= Rank(es2, k)
  BY DEF Passed
<1>1. k \in due \cap RowsOf(es) /\ Rank(es, k) <= Rank(es2, k)
  OBVIOUS
<1>2. ~ Excused(q, moved, k)
  BY DEF Excused
<1>3. \/ page * PageSize <= Rank(es, k)
      \/ q.list = "feedback" /\ FeedbackCap <= Rank(es, k)
  BY <1>1, <1>2 DEF Passed
<1>4. Rank(es, k) \in Nat /\ Rank(es2, k) \in Nat
  BY RankIs
<1>5. FeedbackCap \in Nat /\ PageSize \in Nat
  BY ReportsAssumption
<1>6. page * PageSize \in Nat
  BY <1>5
<1>7. CASE page * PageSize <= Rank(es, k)
  <2>1. page * PageSize <= Rank(es2, k)
    BY <1>1, <1>4, <1>6, <1>7
  <2> QED BY <2>1
<1>8. CASE q.list = "feedback" /\ FeedbackCap <= Rank(es, k)
  <2>1. FeedbackCap <= Rank(es2, k)
    BY <1>1, <1>4, <1>5, <1>8
  <2> QED BY <1>8, <2>1
<1> QED BY <1>3, <1>7, <1>8

\* An entry more moves the other rows back at most.
LEMMA PassedGrows ==
  ASSUME NEW q, NEW due, NEW seen, NEW moved, NEW moved2, moved \subseteq moved2, NEW page \in Nat,
         NEW es, NEW es2, IsFiniteSet(es), IsFiniteSet(es2),
         \A e \in es : e.at \in Nat, \A e \in es2 : e.at \in Nat,
         Passed(q, due, seen, moved, page, es),
         es \subseteq es2,
         \A e \in es2 : e \in es \/ e.key \notin due \/ Excused(q, moved2, e.key)
  PROVE  Passed(q, due, seen, moved2, page, es2)
<1>1. ASSUME NEW k \in due \cap RowsOf(es2), ~ Excused(q, moved2, k)
      PROVE  k \in RowsOf(es) /\ Rank(es, k) <= Rank(es2, k)
  <2>1. \A f \in es2 : f.key = k => f \in es
    BY <1>1
  <2>2. k \in RowsOf(es)
    BY <1>1, <2>1 DEF RowsOf
  <2>3. \A d \in es : (\A f \in es : f.key = k => f.at < d.at) => d \in es2
    OBVIOUS
  <2> QED BY <2>1, <2>2, <2>3, RankGrows
<1> QED BY <1>1, PassedStays

\* Entries that leave from the end move no row.
LEMMA PassedLater ==
  ASSUME NEW q, NEW due, NEW seen, NEW moved, NEW page \in Nat,
         NEW es, NEW es2, IsFiniteSet(es), IsFiniteSet(es2),
         \A e \in es : e.at \in Nat, \A e \in es2 : e.at \in Nat,
         Passed(q, due, seen, moved, page, es),
         es2 \subseteq es,
         \A e \in es2 : \A d \in es : e.at < d.at => d \in es2
  PROVE  Passed(q, due, seen, moved, page, es2)
<1>1. ASSUME NEW k \in due \cap RowsOf(es2)
      PROVE  k \in RowsOf(es) /\ Rank(es, k) <= Rank(es2, k)
  <2>1. PICK e \in es2 : e.key = k
    BY DEF RowsOf
  <2>2. k \in RowsOf(es)
    BY <2>1 DEF RowsOf
  <2>3. \A f \in es2 : f.key = k => f \in es
    OBVIOUS
  <2>4. \A d \in es : (\A f \in es : f.key = k => f.at < d.at) => d \in es2
    BY <2>1
  <2> QED BY <2>2, <2>3, <2>4, RankGrows
<1> QED BY <1>1, PassedStays

\* The rows of a page.
LEMMA SliceShows ==
  ASSUME NEW es, NEW k \in RowsOf(es), NEW from, NEW to,
         from <= Rank(es, k), Rank(es, k) < to
  PROVE  k \in RowsOf(Slice(es, from, to))
BY DEF RowsOf, Slice, Rank

LEMMA AllStatuses == ASSUME NEW es PROVE OfStatus(es, AnyStatus) = es
BY DEF OfStatus

LEMMA PageTurned ==
  ASSUME NEW q, q.list \in Lists, NEW due, NEW seen, NEW moved, NEW page \in Nat,
         IsFiniteSet(Entries(q)), \A e \in Entries(q) : e.at \in Nat,
         Passed(q, due, seen, moved, page, Entries(q))
  PROVE  Passed(q, due, seen \cup RowsOf(PageOf(q, page + 1)), moved, page + 1, Entries(q))
<1> DEFINE es == Entries(q)
           shown == RowsOf(PageOf(q, page + 1))
           from == page * PageSize
           to == (page + 1) * PageSize
<1> SUFFICES ASSUME NEW k \in due \cap RowsOf(es), ~ Excused(q, moved, k), k \notin seen,
                    ~ (to <= Rank(es, k)), ~ (q.list = "feedback" /\ FeedbackCap <= Rank(es, k))
             PROVE  k \in shown
  BY DEF Passed
<1>1. Rank(es, k) \in Nat
  BY RankIs
<1>2. PageSize \in Nat /\ FeedbackCap \in Nat
  BY ReportsAssumption
<1>3. from \in Nat /\ to \in Nat /\ ((page + 1) - 1) * PageSize = from
  BY <1>2
<1>4. from <= Rank(es, k) /\ Rank(es, k) < to
  <2>1. from <= Rank(es, k)
    BY DEF Passed
  <2> QED BY <1>1, <1>3, <2>1
<1>5. CASE q.list # "feedback"
  <2>1. shown = RowsOf(Slice(es, from, to))
    BY <1>3, <1>5 DEF PageOf
  <2>2. k \in RowsOf(Slice(es, from, to))
    <3> HIDE DEF from, to, es
    <3> QED BY <1>4, SliceShows
  <2> QED BY <2>1, <2>2
<1>6. CASE q.list = "feedback"
  <2> DEFINE fetched == IF to < FeedbackCap THEN to ELSE FeedbackCap
             F == Slice(es, 0, fetched)
  <2>1. q.status = AnyStatus
    BY <1>6 DEF Excused
  <2>2. shown = RowsOf(Slice(OfStatus(F, q.status), from, to))
    BY <1>3, <1>6 DEF PageOf
  <2>3. OfStatus(F, q.status) = F
    BY <2>1, AllStatuses
  <2>4. fetched \in Nat /\ Rank(es, k) < fetched
    BY <1>1, <1>2, <1>3, <1>4, <1>6
  <2> HIDE DEF fetched, from, to, es, shown
  <2>5. k \in RowsOf(F) /\ Rank(F, k) = Rank(es, k)
    <3>1. IsFiniteSet(es) /\ k \in RowsOf(es) /\ \A e \in es : e.at \in Nat
      BY DEF es
    <3> QED BY <2>4, <3>1, RankAmongFirst
  <2> HIDE DEF F
  <2>6. k \in RowsOf(Slice(F, from, to))
    BY <1>4, <2>5, SliceShows
  <2> QED BY <2>2, <2>3, <2>6
<1> QED BY <1>5, <1>6

\* A page that reaches the total is the last one.
LEMMA LastPage ==
  ASSUME NEW q, q.list \in Lists, NEW due, NEW seen, NEW moved, NEW page \in Nat,
         IsFiniteSet(Entries(q)), \A e \in Entries(q) : e.at \in Nat,
         Passed(q, due, seen, moved, page, Entries(q)),
         Cardinality(Counted(q)) <= page * PageSize
  PROVE  \A k \in (due \cap Counted(q)) \ seen : Excused(q, moved, k)
<1> DEFINE es == Entries(q)
<1> SUFFICES ASSUME NEW k \in due \cap Counted(q), k \notin seen, ~ Excused(q, moved, k)
             PROVE  FALSE
  OBVIOUS
<1>1. PageSize \in Nat /\ FeedbackCap \in Nat
  BY ReportsAssumption
<1>2. page * PageSize \in Nat
  BY <1>1
<1>3. CASE q.list # "feedback"
  <2>1. Counted(q) = RowsOf(es)
    BY <1>3 DEF Counted
  <2>2. Rank(es, k) < Cardinality(RowsOf(es)) /\ Rank(es, k) \in Nat
    BY <2>1, RankIs
  <2>3. Cardinality(RowsOf(es)) \in Nat
    BY RowsFinite
  <2>4. page * PageSize <= Rank(es, k)
    BY <1>3, <2>1 DEF Passed
  <2> QED BY <1>2, <2>1, <2>2, <2>3, <2>4
<1>4. CASE q.list = "feedback"
  <2> DEFINE F == Slice(es, 0, FeedbackCap)
  <2>1. q.status = AnyStatus
    BY <1>4 DEF Excused
  <2>2. Counted(q) = RowsOf(F)
    BY <1>4, <2>1, AllStatuses DEF Counted
  <2>3. k \in RowsOf(es) /\ Rank(es, k) < FeedbackCap
    <3>1. PICK e \in F : e.key = k
      BY <2>2 DEF RowsOf
    <3> QED BY <3>1 DEF Slice, RowsOf, Rank
  <2>4. IsFiniteSet(F) /\ (\A e \in F : e.at \in Nat) /\ Rank(F, k) = Rank(es, k) /\ k \in RowsOf(F)
    <3> HIDE DEF es
    <3>1. IsFiniteSet(es) /\ \A e \in es : e.at \in Nat
      BY DEF es
    <3> QED BY <1>1, <2>3, <3>1, RankAmongFirst
  <2>5. Rank(es, k) \in Nat
    BY RankIs
  <2> HIDE DEF F
  <2>6. Rank(F, k) < Cardinality(RowsOf(F))
    BY <2>4, RankIs
  <2>7. Cardinality(RowsOf(F)) \in Nat
    BY <2>4, RowsFinite
  <2>8. page * PageSize <= Rank(es, k)
    BY <1>1, <1>4, <2>3, <2>5 DEF Passed
  <2> QED BY <1>2, <2>2, <2>4, <2>5, <2>6, <2>7, <2>8
<1> QED BY <1>3, <1>4

-----------------------------------------------------------------------------
(* The shapes of the states.                                               *)

QueryType ==
  [list : Lists, user : Readers \cup {Everyone}, days : Nat, status : FeedbackStatuses \cup {AnyStatus}]

WalkOf(stage, q, page, seen, moved, due) ==
  [stage |-> stage, q |-> q, page |-> page, seen |-> seen, moved |-> moved, due |-> due]

TablesTyped(ls, fs, us, n) ==
  /\ n \in Nat
  /\ ls \subseteq LogType /\ IsFiniteSet(ls)
  /\ fs \subseteq FeedbackRowType /\ IsFiniteSet(fs)
  /\ \A u \in us : \/ u.kind = "log" /\ u.row \in LogType
                   \/ u.kind = "feedback" /\ u.row \in FeedbackRowType

\* A row has a time of the past, and no two rows have the same.
RowTimes(ls, fs, us, n) ==
  /\ \A r \in ls \cup fs : r.at < n
  /\ \A u \in us : u.row.at < n
  /\ \A u \in us : \A r \in ls \cup fs : r.at # u.row.at
  /\ \A u, v \in us : u # v => u.row.at # v.row.at

\* A row a walk waits for is stored, not to be stored.
DueStored(q, due, us, n) ==
  q.list # "groups" =>
    /\ \A k \in due : k \in Nat /\ k < n
    /\ \A u \in us : u.row.at \notin due

WalkRight(w, ls, fs, us, n) ==
  \/ w = NoWalk
  \/ \E stage \in {"turn", "count", "done"}, q \in QueryType, page \in Nat : \E seen, moved, due :
       /\ w = WalkOf(stage, q, page, seen, moved, due)
       /\ stage # "done" =>
            /\ DueStored(q, due, us, n)
            /\ Passed(q, due, seen, moved, page, EntriesOf(q, ls, fs, n))

ListsInv ==
  /\ TablesTyped(logs, feedbacks, unsaved, now)
  /\ RowTimes(logs, feedbacks, unsaved, now)
  /\ WalkRight(walk, logs, feedbacks, unsaved, now)
  /\ RowsListed

\* The tables change or time passes, and the walk only notes which groups moved.
LEMMA WalkStays ==
  ASSUME ListsInv, ~ ReadingOver,
         NEW ls, NEW fs, NEW us, NEW n, NEW w, TablesTyped(ls, fs, us, n),
         NEW changed,
         w = (IF walk.stage = "idle" THEN walk ELSE [walk EXCEPT !.moved = @ \cup changed]),
         ASSUME NEW q \in QueryType, NEW page \in Nat, NEW seen, NEW moved, NEW due,
                DueStored(q, due, unsaved, now),
                Passed(q, due, seen, moved, page, EntriesOf(q, logs, feedbacks, now))
         PROVE  /\ DueStored(q, due, us, n)
                /\ Passed(q, due, seen, moved \cup changed, page, EntriesOf(q, ls, fs, n))
  PROVE  WalkRight(w, ls, fs, us, n) /\ w.stage # "done"
<1>1. WalkRight(walk, logs, feedbacks, unsaved, now)
  BY DEF ListsInv
<1>2. CASE walk = NoWalk
  <2>1. w = NoWalk /\ w.stage # "done"
    BY <1>2 DEF NoWalk
  <2> QED BY <2>1 DEF WalkRight
<1>3. CASE walk # NoWalk
  <2>1. PICK stage \in {"turn", "count", "done"}, q \in QueryType, page \in Nat :
          \E seen, moved, due :
            /\ walk = WalkOf(stage, q, page, seen, moved, due)
            /\ stage # "done" =>
                 /\ DueStored(q, due, unsaved, now)
                 /\ Passed(q, due, seen, moved, page, EntriesOf(q, logs, feedbacks, now))
    BY <1>1, <1>3 DEF WalkRight
  <2>2. PICK seen, moved, due :
          /\ walk = WalkOf(stage, q, page, seen, moved, due)
          /\ stage # "done" =>
               /\ DueStored(q, due, unsaved, now)
               /\ Passed(q, due, seen, moved, page, EntriesOf(q, logs, feedbacks, now))
    BY <2>1
  <2>3. walk.stage = stage /\ stage \in {"turn", "count"}
    BY <2>2 DEF WalkOf, ReadingOver
  <2>4. w = WalkOf(stage, q, page, seen, moved \cup changed, due)
    BY <2>2, <2>3 DEF WalkOf
  <2>5. /\ DueStored(q, due, us, n)
        /\ Passed(q, due, seen, moved \cup changed, page, EntriesOf(q, ls, fs, n))
    BY <2>2, <2>3
  <2>6. w.stage = stage
    BY <2>4 DEF WalkOf
  <2> QED BY <2>3, <2>4, <2>5, <2>6 DEF WalkRight
<1> QED BY <1>2, <1>3

LEMMA WalkUnmoved ==
  ASSUME ListsInv
  PROVE  walk = (IF walk.stage = "idle" THEN walk ELSE [walk EXCEPT !.moved = @ \cup {}])
<1>1. WalkRight(walk, logs, feedbacks, unsaved, now)
  BY DEF ListsInv
<1> QED BY <1>1 DEF WalkRight, WalkOf, NoWalk

LEMMA EntriesOfTables ==
  ASSUME NEW q \in QueryType, NEW ls, NEW fs, NEW us, NEW n, TablesTyped(ls, fs, us, n)
  PROVE  /\ q.list \in Lists /\ q.days \in Nat
         /\ IsFiniteSet(EntriesOf(q, ls, fs, n))
         /\ \A e \in EntriesOf(q, ls, fs, n) : e.at \in Nat
<1>1. q.list \in Lists /\ q.days \in Nat
  BY DEF QueryType
<1>2. IsFiniteSet(ls) /\ IsFiniteSet(fs) /\ ls \subseteq LogType /\ fs \subseteq FeedbackRowType
  BY DEF TablesTyped
<1> QED BY <1>1, <1>2, EntriesFinite

-----------------------------------------------------------------------------
(* What the steps do to the lists.                                         *)

LEMMA ListsInitially == ASSUME ReportsInit PROVE ListsInv
<1>1. TablesTyped(logs, feedbacks, unsaved, now)
  <2>1. IsFiniteSet({})
    BY FS_EmptySet
  <2> QED BY <2>1 DEF TablesTyped, ReportsInit
<1>2. RowTimes(logs, feedbacks, unsaved, now)
  BY DEF RowTimes, ReportsInit
<1>3. WalkRight(walk, logs, feedbacks, unsaved, now)
  BY DEF WalkRight, ReportsInit
<1>4. RowsListed
  BY DEF RowsListed, ReportsInit, NoWalk
<1> QED BY <1>1, <1>2, <1>3, <1>4 DEF ListsInv

\* A row of its own time is built.
LEMMA BuildKeepsLists ==
  ASSUME ListsInv, ~ ReadingOver, NEW u, Stamped, u.row.at = now,
         \/ u.kind = "log" /\ u.row \in LogType
         \/ u.kind = "feedback" /\ u.row \in FeedbackRowType,
         unsaved' = unsaved \cup {u}, UNCHANGED <<logs, feedbacks, walk>>
  PROVE  ListsInv'
<1>1. now \in Nat /\ now' = now + 1 /\ Day(now') = Day(now)
  BY DEF ListsInv, TablesTyped, Stamped
<1>2. TablesTyped(logs, feedbacks, unsaved, now) /\ RowTimes(logs, feedbacks, unsaved, now)
  BY DEF ListsInv
<1>3. TablesTyped(logs', feedbacks', unsaved', now')
  BY <1>1, <1>2 DEF TablesTyped
<1>4. /\ \A r \in logs \cup feedbacks : r.at \in Nat /\ r.at < now
      /\ \A v \in unsaved : v.row.at \in Nat /\ v.row.at < now
  BY <1>2 DEF TablesTyped, RowTimes, LogType, FeedbackRowType
<1>5. RowTimes(logs', feedbacks', unsaved', now')
  <2>1. \A r \in logs \cup feedbacks : r.at < now' /\ r.at # now
    BY <1>1, <1>4
  <2>2. \A v \in unsaved : v.row.at < now' /\ v.row.at # now
    BY <1>1, <1>4
  <2>3. u.row.at < now'
    BY <1>1
  <2> QED BY <1>2, <2>1, <2>2, <2>3 DEF RowTimes
<1>6. ASSUME NEW q \in QueryType, NEW page \in Nat, NEW seen, NEW moved, NEW due,
             DueStored(q, due, unsaved, now),
             Passed(q, due, seen, moved, page, EntriesOf(q, logs, feedbacks, now))
      PROVE  /\ DueStored(q, due, unsaved', now')
             /\ Passed(q, due, seen, moved \cup {}, page, EntriesOf(q, logs', feedbacks', now'))
  <2>1. DueStored(q, due, unsaved', now')
    BY <1>1, <1>6 DEF DueStored
  <2>2. EntriesOf(q, logs', feedbacks', now') = EntriesOf(q, logs, feedbacks, now)
    <3>1. EntriesOf(q, logs, feedbacks, now') = EntriesOf(q, logs, feedbacks, now)
      BY <1>1, SameDayEntries
    <3> QED BY <3>1
  <2>3. moved \cup {} = moved
    OBVIOUS
  <2> QED BY <1>6, <2>1, <2>2, <2>3
<1>7. walk' = (IF walk.stage = "idle" THEN walk ELSE [walk EXCEPT !.moved = @ \cup {}])
  BY WalkUnmoved
<1>8. WalkRight(walk', logs', feedbacks', unsaved', now') /\ walk'.stage # "done"
  BY <1>3, <1>6, <1>7, WalkStays
<1>9. RowsListed'
  BY <1>8 DEF RowsListed
<1> QED BY <1>3, <1>5, <1>8, <1>9 DEF ListsInv

LEMMA StoreLogKeepsLists ==
  ASSUME ListsInv, ~ ReadingOver, NEW u \in unsaved, StoreLog(u)
  PROVE  ListsInv'
<1>1. TablesTyped(logs, feedbacks, unsaved, now) /\ RowTimes(logs, feedbacks, unsaved, now)
  BY DEF ListsInv
<1>2. /\ u.kind = "log" /\ logs' = logs \cup {u.row} /\ unsaved' = unsaved \ {u}
      /\ now' = now /\ feedbacks' = feedbacks
      /\ walk' = (IF walk.stage = "idle" THEN walk ELSE [walk EXCEPT !.moved = @ \cup {GroupOf(u.row)}])
  BY DEF StoreLog, Touch
<1>3. TablesTyped(logs', feedbacks', unsaved', now')
  <2>1. IsFiniteSet(logs \cup {u.row})
    BY <1>1, FS_AddElement DEF TablesTyped
  <2> QED BY <1>1, <1>2, <2>1 DEF TablesTyped
<1>4. RowTimes(logs', feedbacks', unsaved', now')
  <2>1. \A v \in unsaved' : v \in unsaved /\ v # u
    BY <1>2
  <2>2. \A r \in logs' \cup feedbacks' : r = u.row \/ r \in logs \cup feedbacks
    BY <1>2
  <2> QED BY <1>1, <1>2, <2>1, <2>2 DEF RowTimes
<1>5. ASSUME NEW q \in QueryType, NEW page \in Nat, NEW seen, NEW moved, NEW due,
             DueStored(q, due, unsaved, now),
             Passed(q, due, seen, moved, page, EntriesOf(q, logs, feedbacks, now))
      PROVE  /\ DueStored(q, due, unsaved', now')
             /\ Passed(q, due, seen, moved \cup {GroupOf(u.row)}, page, EntriesOf(q, logs', feedbacks', now'))
  <2> DEFINE es == EntriesOf(q, logs, feedbacks, now)
             es2 == EntriesOf(q, logs', feedbacks', now')
  <2>1. DueStored(q, due, unsaved', now')
    BY <1>2, <1>5 DEF DueStored
  <2>2. q.list \in Lists /\ IsFiniteSet(es) /\ \A e \in es : e.at \in Nat
    BY <1>1, EntriesOfTables
  <2>3. IsFiniteSet(es2) /\ \A e \in es2 : e.at \in Nat
    BY <1>3, EntriesOfTables
  <2>4. /\ es \subseteq es2
        /\ \A e \in es2 : \/ e \in es
                          \/ q.list = "records" /\ e.key = u.row.at
                          \/ q.list = "groups" /\ e.key = GroupOf(u.row)
    <3>1. q.list \in Lists /\ logs \subseteq logs' /\ \A x \in logs' : x \in logs \/ x = u.row
      BY <1>2, <2>2
    <3>2. es2 = EntriesOf(q, logs', feedbacks, now)
      BY <1>2
    <3> HIDE DEF es2
    <3> QED BY <3>1, <3>2, LogAddsEntry
  <2>5. ASSUME NEW e \in es2
        PROVE  e \in es \/ e.key \notin due \/ Excused(q, moved \cup {GroupOf(u.row)}, e.key)
    BY <1>5, <2>4 DEF DueStored, Excused
  <2>6. moved \subseteq moved \cup {GroupOf(u.row)} /\ Passed(q, due, seen, moved, page, es)
    BY <1>5
  <2>7. Passed(q, due, seen, moved \cup {GroupOf(u.row)}, page, es2)
    <3> HIDE DEF es, es2
    <3> QED BY <2>2, <2>3, <2>4, <2>5, <2>6, PassedGrows
  <2> QED BY <2>1, <2>7
<1>6. WalkRight(walk', logs', feedbacks', unsaved', now') /\ walk'.stage # "done"
  BY <1>2, <1>3, <1>5, WalkStays
<1>7. RowsListed'
  BY <1>6 DEF RowsListed
<1> QED BY <1>3, <1>4, <1>6, <1>7 DEF ListsInv

LEMMA StoreFeedbackKeepsLists ==
  ASSUME ListsInv, ~ ReadingOver, NEW u \in unsaved, StoreFeedback(u)
  PROVE  ListsInv'
<1>1. TablesTyped(logs, feedbacks, unsaved, now) /\ RowTimes(logs, feedbacks, unsaved, now)
  BY DEF ListsInv
<1>2. /\ u.kind = "feedback" /\ feedbacks' = feedbacks \cup {u.row} /\ unsaved' = unsaved \ {u}
      /\ now' = now /\ logs' = logs /\ walk' = walk
  BY DEF StoreFeedback
<1>3. TablesTyped(logs', feedbacks', unsaved', now')
  <2>1. IsFiniteSet(feedbacks \cup {u.row})
    BY <1>1, FS_AddElement DEF TablesTyped
  <2> QED BY <1>1, <1>2, <2>1 DEF TablesTyped
<1>4. RowTimes(logs', feedbacks', unsaved', now')
  <2>1. \A v \in unsaved' : v \in unsaved /\ v # u
    BY <1>2
  <2>2. \A r \in logs' \cup feedbacks' : r = u.row \/ r \in logs \cup feedbacks
    BY <1>2
  <2> QED BY <1>1, <1>2, <2>1, <2>2 DEF RowTimes
<1>5. ASSUME NEW q \in QueryType, NEW page \in Nat, NEW seen, NEW moved, NEW due,
             DueStored(q, due, unsaved, now),
             Passed(q, due, seen, moved, page, EntriesOf(q, logs, feedbacks, now))
      PROVE  /\ DueStored(q, due, unsaved', now')
             /\ Passed(q, due, seen, moved \cup {}, page, EntriesOf(q, logs', feedbacks', now'))
  <2> DEFINE es == EntriesOf(q, logs, feedbacks, now)
             es2 == EntriesOf(q, logs', feedbacks', now')
  <2>1. DueStored(q, due, unsaved', now')
    BY <1>2, <1>5 DEF DueStored
  <2>2. q.list \in Lists /\ IsFiniteSet(es) /\ \A e \in es : e.at \in Nat
    BY <1>1, EntriesOfTables
  <2>3. IsFiniteSet(es2) /\ \A e \in es2 : e.at \in Nat
    BY <1>3, EntriesOfTables
  <2>4. /\ es \subseteq es2
        /\ \A e \in es2 : e \in es \/ (q.list = "feedback" /\ e.key = u.row.at)
    <3>1. q.list \in Lists /\ feedbacks \subseteq feedbacks' /\ \A x \in feedbacks' : x \in feedbacks \/ x = u.row
      BY <1>2, <2>2
    <3>2. es2 = EntriesOf(q, logs, feedbacks', now)
      BY <1>2
    <3> HIDE DEF es2
    <3> QED BY <3>1, <3>2, FeedbackAddsEntry
  <2>5. ASSUME NEW e \in es2
        PROVE  e \in es \/ e.key \notin due \/ Excused(q, moved \cup {}, e.key)
    BY <1>5, <2>4 DEF DueStored
  <2>6. moved \subseteq moved \cup {} /\ Passed(q, due, seen, moved, page, es)
    BY <1>5
  <2>7. Passed(q, due, seen, moved \cup {}, page, es2)
    <3> HIDE DEF es, es2
    <3> QED BY <2>2, <2>3, <2>4, <2>5, <2>6, PassedGrows
  <2> QED BY <2>1, <2>7
<1>6. walk' = (IF walk.stage = "idle" THEN walk ELSE [walk EXCEPT !.moved = @ \cup {}])
  BY <1>2, WalkUnmoved
<1>7. WalkRight(walk', logs', feedbacks', unsaved', now') /\ walk'.stage # "done"
  BY <1>3, <1>5, <1>6, WalkStays
<1>8. RowsListed'
  BY <1>7 DEF RowsListed
<1> QED BY <1>3, <1>4, <1>7, <1>8 DEF ListsInv

LEMMA HandleKeepsLists ==
  ASSUME ListsInv, ~ ReadingOver, NEW f \in feedbacks, NEW status \in FeedbackStatuses, Handle(f, status)
  PROVE  ListsInv'
<1>1. TablesTyped(logs, feedbacks, unsaved, now) /\ RowTimes(logs, feedbacks, unsaved, now)
  BY DEF ListsInv
<1>2. PICK g : g = [f EXCEPT !.status = status]
  OBVIOUS
<1>3. /\ feedbacks' = (feedbacks \ {f}) \cup {g}
      /\ now' = now /\ logs' = logs /\ walk' = walk /\ unsaved' = unsaved
  BY <1>2 DEF Handle
<1>4. g \in FeedbackRowType /\ g.at = f.at /\ g.user = f.user
  <2>1. f \in FeedbackRowType
    BY <1>1 DEF TablesTyped
  <2> QED BY <1>2, <2>1 DEF FeedbackRowType
<1>5. TablesTyped(logs', feedbacks', unsaved', now')
  <2>1. IsFiniteSet((feedbacks \ {f}) \cup {g})
    <3>1. IsFiniteSet(feedbacks)
      BY <1>1 DEF TablesTyped
    <3>2. IsFiniteSet(feedbacks \ {f})
      BY <3>1, FS_RemoveElement
    <3> QED BY <3>2, FS_AddElement
  <2> QED BY <1>1, <1>3, <1>4, <2>1 DEF TablesTyped
<1>6. RowTimes(logs', feedbacks', unsaved', now')
  <2>1. \A r \in logs' \cup feedbacks' : \E o \in logs \cup feedbacks : r.at = o.at
    BY <1>3, <1>4
  <2> QED BY <1>1, <1>3, <2>1 DEF RowTimes
<1>7. ASSUME NEW q \in QueryType, NEW page \in Nat, NEW seen, NEW moved, NEW due,
             DueStored(q, due, unsaved, now),
             Passed(q, due, seen, moved, page, EntriesOf(q, logs, feedbacks, now))
      PROVE  /\ DueStored(q, due, unsaved', now')
             /\ Passed(q, due, seen, moved \cup {}, page, EntriesOf(q, logs', feedbacks', now'))
  <2>1. EntriesOf(q, logs, (feedbacks \ {f}) \cup {g}, now) = EntriesOf(q, logs, feedbacks, now)
    <3>1. q.list \in Lists
      BY DEF QueryType
    <3> QED BY <1>4, <3>1, HandledEntries
  <2>2. EntriesOf(q, logs', feedbacks', now') = EntriesOf(q, logs, feedbacks, now)
    BY <1>3, <2>1
  <2>3. moved \cup {} = moved
    OBVIOUS
  <2> QED BY <1>3, <1>7, <2>2, <2>3
<1>8. walk' = (IF walk.stage = "idle" THEN walk ELSE [walk EXCEPT !.moved = @ \cup {}])
  BY <1>3, WalkUnmoved
<1>9. WalkRight(walk', logs', feedbacks', unsaved', now') /\ walk'.stage # "done"
  BY <1>5, <1>7, <1>8, WalkStays
<1>10. RowsListed'
  BY <1>9 DEF RowsListed
<1> QED BY <1>5, <1>6, <1>9, <1>10 DEF ListsInv

LEMMA MidnightKeepsLists ==
  ASSUME ListsInv, ~ ReadingOver, Midnight
  PROVE  ListsInv'
<1>1. TablesTyped(logs, feedbacks, unsaved, now) /\ RowTimes(logs, feedbacks, unsaved, now)
  BY DEF ListsInv
<1>2. logs' = logs /\ feedbacks' = feedbacks /\ unsaved' = unsaved /\ walk' = walk
  BY DEF Midnight
<1>3. now \in Nat /\ now' \in Nat /\ now < now'
  BY <1>1, NextDay DEF Midnight, TablesTyped
<1>4. TablesTyped(logs', feedbacks', unsaved', now')
  BY <1>1, <1>2, <1>3 DEF TablesTyped
<1>5. RowTimes(logs', feedbacks', unsaved', now')
  <2>1. \A r \in logs \cup feedbacks : r.at \in Nat
    BY <1>1 DEF TablesTyped, LogType, FeedbackRowType
  <2>2. \A u \in unsaved : u.row.at \in Nat
    BY <1>1 DEF TablesTyped, LogType, FeedbackRowType
  <2> QED BY <1>1, <1>2, <1>3, <2>1, <2>2 DEF RowTimes
<1>6. ASSUME NEW q \in QueryType, NEW page \in Nat, NEW seen, NEW moved, NEW due,
             DueStored(q, due, unsaved, now),
             Passed(q, due, seen, moved, page, EntriesOf(q, logs, feedbacks, now))
      PROVE  /\ DueStored(q, due, unsaved', now')
             /\ Passed(q, due, seen, moved \cup {}, page, EntriesOf(q, logs', feedbacks', now'))
  <2> DEFINE es == EntriesOf(q, logs, feedbacks, now)
             es2 == EntriesOf(q, logs, feedbacks, now')
  <2>1. DueStored(q, due, unsaved', now')
    BY <1>2, <1>3, <1>6 DEF DueStored
  <2>2. q.list \in Lists /\ q.days \in Nat /\ IsFiniteSet(es) /\ \A e \in es : e.at \in Nat
    BY <1>1, EntriesOfTables
  <2>3. IsFiniteSet(es2) /\ \A e \in es2 : e.at \in Nat
    BY <1>2, <1>4, EntriesOfTables
  <2>4. /\ es2 \subseteq es
        /\ \A e \in es2 : \A d \in es : e.at < d.at => d \in es2
    <3>1. logs \subseteq LogType /\ now <= now'
      BY <1>1, <1>3 DEF TablesTyped
    <3> QED BY <1>3, <2>2, <3>1, LaterEntries
  <2>5. Passed(q, due, seen, moved, page, es)
    BY <1>6
  <2>6. Passed(q, due, seen, moved, page, es2)
    <3> HIDE DEF es, es2
    <3> QED BY <2>2, <2>3, <2>4, <2>5, PassedLater
  <2>7. moved \cup {} = moved
    OBVIOUS
  <2> QED BY <1>2, <2>1, <2>6, <2>7
<1>7. walk' = (IF walk.stage = "idle" THEN walk ELSE [walk EXCEPT !.moved = @ \cup {}])
  BY <1>2, WalkUnmoved
<1>8. WalkRight(walk', logs', feedbacks', unsaved', now') /\ walk'.stage # "done"
  BY <1>4, <1>6, <1>7, WalkStays
<1>9. RowsListed'
  BY <1>8 DEF RowsListed
<1> QED BY <1>4, <1>5, <1>8, <1>9 DEF ListsInv

LEMMA RowsAreTimes ==
  ASSUME NEW q \in QueryType, q.list # "groups", NEW ls, NEW fs, NEW n,
         NEW k \in RowsOf(EntriesOf(q, ls, fs, n))
  PROVE  \E r \in ls \cup fs : k = r.at
<1>1. PICK e \in EntriesOf(q, ls, fs, n) : e.key = k
  BY DEF RowsOf
<1>2. CASE q.list = "records"
  <2>1. PICK l \in MatchingOf(q.user, q.days, ls, n) : e = [key |-> l.at, at |-> l.at]
    BY <1>2, EntriesAre
  <2> QED BY <1>1, <2>1 DEF MatchingOf
<1>3. CASE q.list = "feedback"
  <2>1. PICK f \in fs : e = [key |-> f.at, at |-> f.at]
    BY <1>3, EntriesAre
  <2> QED BY <1>1, <2>1
<1> QED BY <1>2, <1>3 DEF QueryType, Lists

LEMMA CountedAreRows == ASSUME NEW q PROVE Counted(q) \subseteq RowsOf(Entries(q))
<1>1. CASE q.list = "feedback"
  BY <1>1 DEF Counted, OfStatus, Slice, RowsOf
<1>2. CASE q.list # "feedback"
  BY <1>2 DEF Counted
<1> QED BY <1>1, <1>2

LEMMA BeginWalkKeepsLists ==
  ASSUME ListsInv, NEW q \in QueryType, BeginWalk(q)
  PROVE  ListsInv'
<1>1. TablesTyped(logs, feedbacks, unsaved, now) /\ RowTimes(logs, feedbacks, unsaved, now)
  BY DEF ListsInv
<1>2. /\ logs' = logs /\ feedbacks' = feedbacks /\ unsaved' = unsaved /\ now' = now
      /\ walk' = WalkOf("turn", q, 0, {}, {}, Counted(q))
  BY DEF BeginWalk, WalkOf
<1>3. TablesTyped(logs', feedbacks', unsaved', now') /\ RowTimes(logs', feedbacks', unsaved', now')
  BY <1>1, <1>2
<1>4. DueStored(q, Counted(q), unsaved, now)
  <2>1. ASSUME q.list # "groups", NEW k \in Counted(q) PROVE \E r \in logs \cup feedbacks : k = r.at
    BY <2>1, CountedAreRows, EntriesIs, RowsAreTimes
  <2>2. \A r \in logs \cup feedbacks : r.at \in Nat
    BY <1>1 DEF TablesTyped, LogType, FeedbackRowType
  <2> QED BY <1>1, <2>1, <2>2 DEF DueStored, RowTimes
<1>5. Passed(q, Counted(q), {}, {}, 0, EntriesOf(q, logs, feedbacks, now))
  <2> DEFINE es == EntriesOf(q, logs, feedbacks, now)
  <2>1. IsFiniteSet(es) /\ \A e \in es : e.at \in Nat
    BY <1>1, EntriesOfTables
  <2>2. ASSUME NEW k PROVE 0 * PageSize <= Rank(es, k)
    <3>1. Rank(es, k) \in Nat
      <4> HIDE DEF es
      <4> QED BY <2>1, RankIs
    <3>2. PageSize \in Nat
      BY ReportsAssumption
    <3> QED BY <3>1, <3>2
  <2> QED BY <2>2 DEF Passed
<1>6. WalkRight(walk', logs', feedbacks', unsaved', now')
  <2>1. WalkRight(WalkOf("turn", q, 0, {}, {}, Counted(q)), logs, feedbacks, unsaved, now)
    BY <1>4, <1>5, Zenon DEF WalkRight
  <2> QED BY <1>2, <2>1
<1>7. RowsListed'
  <2>1. walk'.stage = "turn"
    BY <1>2 DEF WalkOf
  <2> QED BY <2>1 DEF RowsListed
<1> QED BY <1>3, <1>6, <1>7 DEF ListsInv

LEMMA SameCounted ==
  ASSUME NEW q, UNCHANGED <<logs, feedbacks, now>> PROVE Counted(q)' = Counted(q)
<1>1. Entries(q)' = Entries(q)
  BY DEF Entries, Matching, InWindow
<1> QED BY <1>1 DEF Counted, OfStatus

\* A page was shown or its total read.
LEMMA WalkGoesOn ==
  ASSUME ListsInv, UNCHANGED <<logs, feedbacks, unsaved, now>>,
         NEW stage \in {"turn", "count", "done"}, NEW q \in QueryType, NEW page \in Nat, NEW seen, NEW moved, NEW due,
         walk' = WalkOf(stage, q, page, seen, moved, due),
         stage = "done" => Cardinality(Counted(q)) <= page * PageSize,
         DueStored(q, due, unsaved, now),
         Passed(q, due, seen, moved, page, Entries(q))
  PROVE  ListsInv'
<1>1. TablesTyped(logs, feedbacks, unsaved, now) /\ RowTimes(logs, feedbacks, unsaved, now)
  BY DEF ListsInv
<1>2. TablesTyped(logs', feedbacks', unsaved', now') /\ RowTimes(logs', feedbacks', unsaved', now')
  BY <1>1
<1>3. WalkRight(walk', logs', feedbacks', unsaved', now')
  <2>1. Passed(q, due, seen, moved, page, EntriesOf(q, logs, feedbacks, now))
    BY EntriesIs
  <2>2. WalkRight(WalkOf(stage, q, page, seen, moved, due), logs, feedbacks, unsaved, now)
    BY <2>1, Zenon DEF WalkRight
  <2> QED BY <2>2
<1>4. RowsListed'
  <2>1. walk'.stage = stage /\ walk'.q = q /\ walk'.due = due /\ walk'.seen = seen /\ walk'.moved = moved
    BY DEF WalkOf
  <2>2. SUFFICES ASSUME stage = "done"
                 PROVE  \A k \in (due \cap Counted(q)') \ seen : Excused(q, moved, k)
    BY <2>1 DEF RowsListed, Excused
  <2>3. Counted(q)' = Counted(q)
    BY SameCounted
  <2>4. q.list \in Lists /\ IsFiniteSet(Entries(q)) /\ \A e \in Entries(q) : e.at \in Nat
    BY <1>1, EntriesOfTables, EntriesIs
  <2>5. Cardinality(Counted(q)) <= page * PageSize
    BY <2>2
  <2>6. \A k \in (due \cap Counted(q)) \ seen : Excused(q, moved, k)
    BY <2>4, <2>5, LastPage
  <2> QED BY <2>3, <2>6
<1> QED BY <1>2, <1>3, <1>4 DEF ListsInv

\* A walk that goes on.
LEMMA WalkIs ==
  ASSUME ListsInv, walk.stage \in {"turn", "count"}
  PROVE  \E q \in QueryType, page \in Nat : \E seen, moved, due :
           /\ walk = WalkOf(walk.stage, q, page, seen, moved, due)
           /\ DueStored(q, due, unsaved, now)
           /\ Passed(q, due, seen, moved, page, EntriesOf(q, logs, feedbacks, now))
<1>1. WalkRight(walk, logs, feedbacks, unsaved, now)
  BY DEF ListsInv
<1>2. walk # NoWalk
  BY DEF NoWalk
<1>3. PICK stage \in {"turn", "count", "done"}, q \in QueryType, page \in Nat :
        \E seen, moved, due :
          /\ walk = WalkOf(stage, q, page, seen, moved, due)
          /\ stage # "done" =>
               /\ DueStored(q, due, unsaved, now)
               /\ Passed(q, due, seen, moved, page, EntriesOf(q, logs, feedbacks, now))
  BY <1>1, <1>2 DEF WalkRight
<1>4. PICK seen, moved, due :
        /\ walk = WalkOf(stage, q, page, seen, moved, due)
        /\ stage # "done" =>
             /\ DueStored(q, due, unsaved, now)
             /\ Passed(q, due, seen, moved, page, EntriesOf(q, logs, feedbacks, now))
  BY <1>3
<1>5. walk.stage = stage /\ stage # "done"
  BY <1>4 DEF WalkOf
<1> QED BY <1>4, <1>5

LEMMA TurnPageKeepsLists == ASSUME ListsInv, TurnPage PROVE ListsInv'
<1>1. PICK q \in QueryType, page \in Nat : \E seen, moved, due :
        /\ walk = WalkOf(walk.stage, q, page, seen, moved, due)
        /\ DueStored(q, due, unsaved, now)
        /\ Passed(q, due, seen, moved, page, EntriesOf(q, logs, feedbacks, now))
  BY WalkIs DEF TurnPage
<1>2. PICK seen, moved, due :
        /\ walk = WalkOf(walk.stage, q, page, seen, moved, due)
        /\ DueStored(q, due, unsaved, now)
        /\ Passed(q, due, seen, moved, page, EntriesOf(q, logs, feedbacks, now))
  BY <1>1
<1>3. walk.q = q /\ walk.page = page /\ walk.seen = seen
  BY <1>2 DEF WalkOf
<1> DEFINE seen2 == seen \cup RowsOf(PageOf(q, page + 1))
           stage2 == IF q.list = "groups" THEN AfterPage(page + 1) ELSE "count"
<1>4. walk' = WalkOf(stage2, q, page + 1, seen2, moved, due)
  <2>1. walk' = [walk EXCEPT !.page = page + 1, !.seen = @ \cup RowsOf(PageOf(q, page + 1)), !.stage = stage2]
    BY <1>3 DEF TurnPage
  <2>2. PICK shown, st : shown = RowsOf(PageOf(q, page + 1)) /\ st = stage2
    OBVIOUS
  <2> HIDE DEF stage2
  <2>3. walk' = [walk EXCEPT !.page = page + 1, !.seen = @ \cup shown, !.stage = st]
    BY <2>1, <2>2
  <2>4. PICK s : walk = [stage |-> s, q |-> q, page |-> page, seen |-> seen, moved |-> moved, due |-> due]
    BY <1>2 DEF WalkOf
  <2>5. walk' = WalkOf(st, q, page + 1, seen \cup shown, moved, due)
    BY <2>3, <2>4 DEF WalkOf
  <2> QED BY <2>2, <2>5
<1>5. /\ stage2 \in {"turn", "count", "done"}
      /\ stage2 = "done" => (page + 1) * PageSize >= Cardinality(Counted(q))
  BY <1>3 DEF AfterPage
<1>6. q.list \in Lists /\ IsFiniteSet(Entries(q)) /\ \A e \in Entries(q) : e.at \in Nat
  BY EntriesOfTables, EntriesIs DEF ListsInv
<1>7. Passed(q, due, seen2, moved, page + 1, Entries(q))
  <2>1. Passed(q, due, seen, moved, page, Entries(q))
    BY <1>2, EntriesIs
  <2> QED BY <1>6, <2>1, PageTurned
<1>8. UNCHANGED <<logs, feedbacks, unsaved, now>>
  BY DEF TurnPage
<1>9. page + 1 \in Nat /\ (stage2 = "done" => Cardinality(Counted(q)) <= (page + 1) * PageSize)
  BY <1>5
<1> HIDE DEF seen2, stage2
<1> QED BY <1>2, <1>4, <1>5, <1>7, <1>8, <1>9, WalkGoesOn

LEMMA CountRowsKeepsLists == ASSUME ListsInv, CountRows PROVE ListsInv'
<1>1. PICK q \in QueryType, page \in Nat : \E seen, moved, due :
        /\ walk = WalkOf(walk.stage, q, page, seen, moved, due)
        /\ DueStored(q, due, unsaved, now)
        /\ Passed(q, due, seen, moved, page, EntriesOf(q, logs, feedbacks, now))
  BY WalkIs DEF CountRows
<1>2. PICK seen, moved, due :
        /\ walk = WalkOf(walk.stage, q, page, seen, moved, due)
        /\ DueStored(q, due, unsaved, now)
        /\ Passed(q, due, seen, moved, page, EntriesOf(q, logs, feedbacks, now))
  BY <1>1
<1>3. walk.q = q /\ walk.page = page
  BY <1>2 DEF WalkOf
<1> DEFINE stage2 == AfterPage(page)
<1>4. walk' = WalkOf(stage2, q, page, seen, moved, due)
  BY <1>2, <1>3 DEF CountRows, WalkOf
<1>5. /\ stage2 \in {"turn", "count", "done"}
      /\ stage2 = "done" => page * PageSize >= Cardinality(Counted(q))
  BY <1>3 DEF AfterPage
<1>6. Passed(q, due, seen, moved, page, Entries(q))
  BY <1>2, EntriesIs
<1>7. UNCHANGED <<logs, feedbacks, unsaved, now>>
  BY DEF CountRows
<1>8. stage2 = "done" => Cardinality(Counted(q)) <= page * PageSize
  BY <1>5
<1> HIDE DEF stage2
<1> QED BY <1>2, <1>4, <1>5, <1>6, <1>7, <1>8, WalkGoesOn

\* Steps that change neither rows nor the walk.
LEMMA OtherKeepsLists ==
  ASSUME ListsInv, UNCHANGED <<logs, feedbacks, unsaved, now, walk>> PROVE ListsInv'
<1>1. ASSUME NEW q PROVE Counted(q)' = Counted(q)
  BY SameCounted
<1>2. RowsListed'
  BY <1>1 DEF ListsInv, RowsListed
<1> QED BY <1>2 DEF ListsInv

-----------------------------------------------------------------------------
(* Sums of figures.                                                        *)

OnDay(L, d) == {l \in L : Day(l.at) = d}

TotalsOf(figure, W) == {{d} \X (1..figure[d]) : d \in W}

LEMMA TotalFinite ==
  ASSUME NEW W, IsFiniteSet(W), NEW figure, \A d \in W : figure[d] \in Nat
  PROVE  IsFiniteSet(UNION TotalsOf(figure, W))
<1> DEFINE T == TotalsOf(figure, W)
           f == [d \in W |-> {d} \X (1..figure[d])]
<1>1. f \in Surjection(W, T)
  BY DEF Surjection, TotalsOf
<1>2. IsFiniteSet(T)
  <2> HIDE DEF T, f
  <2> QED BY <1>1, FS_Surjection
<1>3. ASSUME NEW d \in W PROVE IsFiniteSet({d} \X (1..figure[d]))
  <2>1. figure[d] \in Int
    OBVIOUS
  <2>2. IsFiniteSet(1..figure[d])
    BY <2>1, FS_Interval
  <2>3. IsFiniteSet({d})
    BY FS_Singleton
  <2> QED BY <2>2, <2>3, FS_Product
<1>4. \A t \in T : IsFiniteSet(t)
  BY <1>3 DEF TotalsOf
<1> HIDE DEF T
<1>5. IsFiniteSet(UNION T)
  BY <1>2, <1>4, FS_UNION
<1> QED BY <1>5 DEF T

\* Calls counted day by day are at least as many as the calls.
LEMMA CountedByDay ==
  ASSUME NEW L, IsFiniteSet(L), NEW W, IsFiniteSet(W), NEW figure, DOMAIN figure = W,
         \A d \in W : figure[d] \in Nat /\ Cardinality(OnDay(L, d)) <= figure[d],
         \A l \in L : Day(l.at) \in W
  PROVE  Cardinality(L) <= TotalOf(figure)
<1> DEFINE T == UNION TotalsOf(figure, W)
<1>1. IsFiniteSet(T)
  BY TotalFinite
<1>2. ASSUME NEW d \in W
      PROVE  \E g : g \in Injection(OnDay(L, d), 1..figure[d])
  <2>1. IsFiniteSet(OnDay(L, d))
    <3>1. OnDay(L, d) \subseteq L
      BY DEF OnDay
    <3> QED BY <3>1, FS_Subset
  <2>2. PICK c \in Nat : c = Cardinality(OnDay(L, d))
    BY <2>1, FS_CardinalityType
  <2>3. IsFiniteSet(1..c) /\ Cardinality(1..c) = c
    <3>1. Cardinality(1..c) = IF 1 > c THEN 0 ELSE c - 1 + 1
      BY FS_Interval
    <3> QED BY <3>1, FS_Interval
  <2>4. ExistsBijection(OnDay(L, d), 1..c)
    BY <2>1, <2>2, <2>3, FS_SameCardinalityBij
  <2>5. PICK g : g \in Bijection(OnDay(L, d), 1..c)
    BY <2>4 DEF ExistsBijection
  <2>6. 1..c \subseteq 1..figure[d]
    BY <2>2
  <2>7. g \in Injection(OnDay(L, d), 1..figure[d])
    BY <2>5, <2>6 DEF Bijection, Injection, IsInjective
  <2> QED BY <2>7
<1> DEFINE b == [d \in W |-> CHOOSE g : g \in Injection(OnDay(L, d), 1..figure[d])]
           h == [l \in L |-> <<Day(l.at), b[Day(l.at)][l]>>]
<1>3. ASSUME NEW d \in W PROVE b[d] \in Injection(OnDay(L, d), 1..figure[d])
  BY <1>2
<1>4. ASSUME NEW l \in L
      PROVE  Day(l.at) \in W /\ l \in OnDay(L, Day(l.at)) /\ b[Day(l.at)][l] \in 1..figure[Day(l.at)]
  <2>1. Day(l.at) \in W /\ l \in OnDay(L, Day(l.at))
    BY DEF OnDay
  <2> HIDE DEF b
  <2> QED BY <1>3, <2>1 DEF Injection
<1> HIDE DEF b
<1>5. ASSUME NEW l \in L PROVE h[l] \in T
  <2>1. h[l] \in {Day(l.at)} \X (1..figure[Day(l.at)])
    BY <1>4
  <2> QED BY <1>4, <2>1 DEF TotalsOf
<1>6. ASSUME NEW k \in L, NEW l \in L, h[k] = h[l] PROVE k = l
  <2>1. PICK d \in W : d = Day(k.at) /\ d = Day(l.at)
    BY <1>4, <1>6
  <2>2. b[d][k] = b[d][l] /\ k \in OnDay(L, d) /\ l \in OnDay(L, d)
    BY <1>4, <1>6, <2>1
  <2>3. b[d] \in Injection(OnDay(L, d), 1..figure[d])
    BY <1>3
  <2> QED BY <2>2, <2>3 DEF Injection, IsInjective
<1>7. h \in Injection(L, T)
  BY <1>5, <1>6 DEF Injection, IsInjective
<1>8. Cardinality(L) <= Cardinality(T)
  <2> HIDE DEF h, T
  <2> QED BY <1>1, <1>7, FS_Injection
<1>9. TotalOf(figure) = Cardinality(T)
  BY DEF TotalOf, TotalsOf
<1> QED BY <1>8, <1>9

-----------------------------------------------------------------------------
(* The figures of a report.                                                *)

PaidOf(L) == {l \in L : l.outcome.paid}

\* Figures that count no call and no point less than these.
Reaches(figures, L) ==
  /\ Cardinality(L) <= figures.total
  /\ Cardinality({l \in L : l.outcome.ok}) <= figures.success

\* Days computed on the day the report began cover it.
TrendRight(L, first, today, left, days) ==
  /\ first..today \subseteq left \cup DOMAIN days
  /\ left \subseteq Int /\ DOMAIN days \subseteq Int /\ IsFiniteSet(DOMAIN days)
  /\ \A d \in DOMAIN days :
       /\ days[d].total \in Nat /\ Cardinality(OnDay(L, d)) <= days[d].total
       /\ days[d].points \in Nat /\ Cardinality(OnDay(PaidOf(L), d)) <= days[d].points

ModesOf(user, first, today, trend, overview) ==
  [stage |-> "modes", user |-> user, first |-> first, today |-> today, trend |-> trend, overview |-> overview]
WindowsOf(user, first, today, trend, overview, modes) ==
  [stage |-> "windows", user |-> user, first |-> first, today |-> today,
   trend |-> trend, overview |-> overview, modes |-> modes]
TrendOf(user, first, today, overview, modes, dated, left, days) ==
  [stage |-> "trend", user |-> user, first |-> first, today |-> today, overview |-> overview, modes |-> modes,
   dated |-> dated, left |-> left, days |-> days]

\* What the overview counted.
Found(L, ls, user, first, today) ==
  /\ L \subseteq ls
  /\ \A l \in L : (user = Everyone \/ l.user = user) /\ first <= Day(l.at) /\ Day(l.at) <= today

Modes(r, L, user, first, today) ==
  \E trend \in Nat : today - trend < first /\ r = ModesOf(user, first, today, trend, Overview(L))
Windowed(r, L, user, first, today) ==
  \E trend \in Nat : \E modes :
    today - trend < first /\ Reaches(modes, L) /\ r = WindowsOf(user, first, today, trend, Overview(L), modes)
Trended(r, L, user, first, today) ==
  \E modes, dated, left, days :
    /\ Reaches(modes, L) /\ (dated = today => TrendRight(L, first, today, left, days))
    /\ r = TrendOf(user, first, today, Overview(L), modes, dated, left, days)

ReportRight(r, ls) ==
  \/ r = NoReport
  \/ \E user, L : \E first \in Int, today \in Int :
       /\ Found(L, ls, user, first, today)
       /\ \/ Modes(r, L, user, first, today)
          \/ Windowed(r, L, user, first, today)
          \/ Trended(r, L, user, first, today)

\* The days of a trend add up to the overview.
LEMMA TrendAddsUp ==
  ASSUME NEW L, IsFiniteSet(L), NEW first \in Int, NEW today \in Int, NEW days,
         \A l \in L : Day(l.at) \in Int /\ first <= Day(l.at) /\ Day(l.at) <= today,
         TrendRight(L, first, today, {}, days), NEW W, W = {d \in DOMAIN days : first <= d}
  PROVE  /\ Cardinality(L) <= TotalOf([d \in W |-> days[d].total])
         /\ Cardinality(PaidOf(L)) <= TotalOf([d \in W |-> days[d].points])
<1>1. W \subseteq DOMAIN days /\ IsFiniteSet(W)
  <2>1. IsFiniteSet(DOMAIN days)
    BY DEF TrendRight
  <2> QED BY <2>1, FS_Subset
<1>2. ASSUME NEW l \in L PROVE Day(l.at) \in W
  <2>1. Day(l.at) \in first..today
    OBVIOUS
  <2> QED BY <2>1 DEF TrendRight
<1>3. Cardinality(L) <= TotalOf([d \in W |-> days[d].total])
  <2> DEFINE figure == [d \in W |-> days[d].total]
  <2>1. \A d \in W : figure[d] \in Nat /\ Cardinality(OnDay(L, d)) <= figure[d]
    BY <1>1 DEF TrendRight
  <2>2. DOMAIN figure = W
    OBVIOUS
  <2> HIDE DEF figure
  <2>3. Cardinality(L) <= TotalOf(figure)
    BY <1>1, <1>2, <2>1, <2>2, CountedByDay
  <2> QED BY <2>3 DEF figure
<1>4. Cardinality(PaidOf(L)) <= TotalOf([d \in W |-> days[d].points])
  <2> DEFINE figure == [d \in W |-> days[d].points]
             P == PaidOf(L)
  <2>1. \A d \in W : figure[d] \in Nat /\ Cardinality(OnDay(P, d)) <= figure[d]
    BY <1>1 DEF TrendRight
  <2>2. DOMAIN figure = W
    OBVIOUS
  <2>3. P \subseteq L /\ IsFiniteSet(P)
    <3>1. P \subseteq L
      BY DEF PaidOf
    <3> QED BY <3>1, FS_Subset
  <2> HIDE DEF figure, P
  <2>4. \A l \in P : Day(l.at) \in W
    BY <1>2, <2>3
  <2>5. Cardinality(P) <= TotalOf(figure)
    BY <1>1, <2>1, <2>2, <2>3, <2>4, CountedByDay
  <2> QED BY <2>5 DEF figure, P
<1> QED BY <1>3, <1>4

LEMMA FoundFinite ==
  ASSUME NEW ls, IsFiniteSet(ls), ls \subseteq LogType, NEW L, NEW user, NEW first, NEW today,
         Found(L, ls, user, first, today)
  PROVE  IsFiniteSet(L) /\ \A l \in L : Day(l.at) \in Int /\ first <= Day(l.at) /\ Day(l.at) <= today
<1>1. L \subseteq ls
  BY DEF Found
<1>2. IsFiniteSet(L)
  BY <1>1, FS_Subset
<1>3. \A l \in L : Day(l.at) \in Int
  <2>1. \A l \in L : l.at \in Nat
    BY <1>1 DEF LogType
  <2> QED BY <2>1, DayIs
<1> QED BY <1>2, <1>3 DEF Found

\* A report that is put together right adds up.
LEMMA RightAddsUp ==
  ASSUME IsFiniteSet(logs), logs \subseteq LogType, ReportRight(report, logs)
  PROVE  ReportAddsUp
<1> SUFFICES ASSUME report.stage = "trend", report.left = {}
             PROVE  /\ report.overview.total <= report.modes.total
                    /\ report.overview.success <= report.modes.success
                    /\ report.dated = report.today =>
                         LET within == {d \in DOMAIN report.days : report.first <= d}
                         IN /\ report.overview.total <= TotalOf([d \in within |-> report.days[d].total])
                            /\ report.overview.points <= TotalOf([d \in within |-> report.days[d].points])
  BY DEF ReportAddsUp
<1>1. report # NoReport
  BY DEF NoReport
<1>2. PICK user, L :
        \E first \in Int, today \in Int :
          /\ Found(L, logs, user, first, today)
          /\ \/ Modes(report, L, user, first, today)
             \/ Windowed(report, L, user, first, today)
             \/ Trended(report, L, user, first, today)
  BY <1>1 DEF ReportRight
<1>3. PICK first \in Int, today \in Int :
        /\ Found(L, logs, user, first, today)
        /\ \/ Modes(report, L, user, first, today)
           \/ Windowed(report, L, user, first, today)
           \/ Trended(report, L, user, first, today)
  BY <1>2
<1>4. Trended(report, L, user, first, today)
  BY <1>3 DEF Modes, Windowed, ModesOf, WindowsOf
<1>5. PICK modes, dated, left, days :
        /\ Reaches(modes, L) /\ (dated = today => TrendRight(L, first, today, left, days))
        /\ report = TrendOf(user, first, today, Overview(L), modes, dated, left, days)
  BY <1>4 DEF Trended
<1>6. /\ report.first = first /\ report.today = today /\ report.overview = Overview(L)
      /\ report.modes = modes /\ report.dated = dated /\ report.left = left /\ report.days = days
  BY <1>5 DEF TrendOf
<1>7. report.overview.total <= report.modes.total /\ report.overview.success <= report.modes.success
  BY <1>5, <1>6 DEF Reaches, Overview
<1>8. ASSUME report.dated = report.today
      PROVE  LET within == {d \in DOMAIN report.days : report.first <= d}
             IN /\ report.overview.total <= TotalOf([d \in within |-> report.days[d].total])
                /\ report.overview.points <= TotalOf([d \in within |-> report.days[d].points])
  <2>1. TrendRight(L, first, today, {}, days)
    BY <1>5, <1>6, <1>8
  <2>2. IsFiniteSet(L) /\ \A l \in L : Day(l.at) \in Int /\ first <= Day(l.at) /\ Day(l.at) <= today
    BY <1>3, FoundFinite
  <2>3. PICK W : W = {d \in DOMAIN days : first <= d}
    OBVIOUS
  <2>4. /\ Cardinality(L) <= TotalOf([d \in W |-> days[d].total])
        /\ Cardinality(PaidOf(L)) <= TotalOf([d \in W |-> days[d].points])
    BY <2>1, <2>2, <2>3, TrendAddsUp
  <2>5. report.overview.total = Cardinality(L) /\ report.overview.points = Cardinality(PaidOf(L))
    BY <1>6 DEF Overview, PaidOf
  <2> QED BY <1>6, <2>3, <2>4, <2>5
<1> QED BY <1>7, <1>8

\* Rows that are stored later change nothing of what was counted.
LEMMA ReportStays ==
  ASSUME NEW r, NEW ls, NEW ls2, ls \subseteq ls2, ReportRight(r, ls)
  PROVE  ReportRight(r, ls2)
<1>1. CASE r = NoReport
  BY <1>1 DEF ReportRight
<1>2. CASE r # NoReport
  <2>1. PICK user, L :
          \E first \in Int, today \in Int :
            /\ Found(L, ls, user, first, today)
            /\ \/ Modes(r, L, user, first, today)
               \/ Windowed(r, L, user, first, today)
               \/ Trended(r, L, user, first, today)
    BY <1>2 DEF ReportRight
  <2>2. PICK first \in Int, today \in Int :
          /\ Found(L, ls, user, first, today)
          /\ \/ Modes(r, L, user, first, today)
             \/ Windowed(r, L, user, first, today)
             \/ Trended(r, L, user, first, today)
    BY <2>1
  <2>3. Found(L, ls2, user, first, today)
    BY <2>2 DEF Found
  <2> QED BY <2>2, <2>3, Zenon DEF ReportRight
<1> QED BY <1>1, <1>2

\* What a report counts it counts again, and more.
LEMMA BetweenFinds ==
  ASSUME IsFiniteSet(logs), NEW user, NEW first, NEW today
  PROVE  /\ IsFiniteSet(Between(user, first, today))
         /\ Found(Between(user, first, today), logs, user, first, today)
         /\ \A L : Found(L, logs, user, first, today) => L \subseteq Between(user, first, today)
<1>1. Between(user, first, today) \subseteq logs
  BY DEF Between, Matching
<1>2. IsFiniteSet(Between(user, first, today))
  BY <1>1, FS_Subset
<1>3. Found(Between(user, first, today), logs, user, first, today)
  BY <1>1 DEF Found, Between, Matching
<1>4. ASSUME NEW L, Found(L, logs, user, first, today) PROVE L \subseteq Between(user, first, today)
  BY <1>4 DEF Found, Between, Matching, InWindow
<1> QED BY <1>2, <1>3, <1>4

LEMMA BeginReportIsRight ==
  ASSUME IsFiniteSet(logs), now \in Nat, NEW user, NEW trend \in ReportDays, NEW over \in {1, trend},
         BeginReport(user, over, trend)
  PROVE  ReportRight(report', logs)
<1> DEFINE first == Day(now) - over + 1
           today == Day(now)
           L == Between(user, first, today)
<1>1. trend \in Nat /\ over \in Nat /\ over <= trend
  BY ReportsAssumption
<1>2. first \in Int /\ today \in Int /\ today - trend < first
  <2>1. Day(now) \in Nat
    BY DayIs
  <2> QED BY <1>1, <2>1
<1>3. Found(L, logs, user, first, today)
  BY BetweenFinds
<1>4. report' = ModesOf(user, first, today, trend, Overview(L))
  BY DEF BeginReport, ModesOf
<1> HIDE DEF first, today, L
<1>5. Modes(report', L, user, first, today)
  BY <1>1, <1>2, <1>4 DEF Modes
<1> QED BY <1>2, <1>3, <1>5, Zenon DEF ReportRight

LEMMA ReadModesIsRight ==
  ASSUME IsFiniteSet(logs), ReportRight(report, logs), ReadModes
  PROVE  ReportRight(report', logs)
<1>1. report.stage = "modes" /\ report # NoReport
  BY DEF ReadModes, NoReport
<1>2. PICK user, L :
        \E first \in Int, today \in Int :
          /\ Found(L, logs, user, first, today)
          /\ \/ Modes(report, L, user, first, today)
             \/ Windowed(report, L, user, first, today)
             \/ Trended(report, L, user, first, today)
  BY <1>1 DEF ReportRight
<1>3. PICK first \in Int, today \in Int :
        /\ Found(L, logs, user, first, today)
        /\ \/ Modes(report, L, user, first, today)
           \/ Windowed(report, L, user, first, today)
           \/ Trended(report, L, user, first, today)
  BY <1>2
<1>4. Modes(report, L, user, first, today)
  BY <1>1, <1>3 DEF Trended, Windowed, TrendOf, WindowsOf
<1>5. PICK trend \in Nat : today - trend < first /\ report = ModesOf(user, first, today, trend, Overview(L))
  BY <1>4 DEF Modes
<1> DEFINE F == Between(user, first, today)
<1>6. report' = WindowsOf(user, first, today, trend, Overview(L), Overview(F))
  BY <1>5 DEF ReadModes, ModesOf, WindowsOf
<1>7. L \subseteq F /\ IsFiniteSet(F)
  BY <1>3, BetweenFinds
<1> HIDE DEF F
<1>8. Reaches(Overview(F), L)
  <2>1. Cardinality(L) <= Cardinality(F)
    BY <1>7, FS_Subset
  <2>2. {l \in L : l.outcome.ok} \subseteq {l \in F : l.outcome.ok}
    BY <1>7
  <2>3. IsFiniteSet({l \in F : l.outcome.ok})
    BY <1>7, FS_Subset
  <2>4. Cardinality({l \in L : l.outcome.ok}) <= Cardinality({l \in F : l.outcome.ok})
    BY <2>2, <2>3, FS_Subset
  <2> QED BY <2>1, <2>4 DEF Reaches, Overview
<1>9. PICK modes : modes = Overview(F)
  OBVIOUS
<1>10. Windowed(report', L, user, first, today)
  <2>1. today - trend < first /\ Reaches(modes, L) /\ report' = WindowsOf(user, first, today, trend, Overview(L), modes)
    BY <1>5, <1>6, <1>8, <1>9
  <2> QED BY <2>1, Zenon DEF Windowed
<1> QED BY <1>3, <1>10, Zenon DEF ReportRight

LEMMA BeginTrendIsRight ==
  ASSUME now \in Nat, ReportRight(report, logs), BeginTrend
  PROVE  ReportRight(report', logs)
<1>1. report.stage = "windows" /\ report # NoReport
  BY DEF BeginTrend, NoReport
<1>2. PICK user, L :
        \E first \in Int, today \in Int :
          /\ Found(L, logs, user, first, today)
          /\ \/ Modes(report, L, user, first, today)
             \/ Windowed(report, L, user, first, today)
             \/ Trended(report, L, user, first, today)
  BY <1>1 DEF ReportRight
<1>3. PICK first \in Int, today \in Int :
        /\ Found(L, logs, user, first, today)
        /\ \/ Modes(report, L, user, first, today)
           \/ Windowed(report, L, user, first, today)
           \/ Trended(report, L, user, first, today)
  BY <1>2
<1>4. Windowed(report, L, user, first, today)
  BY <1>1, <1>3 DEF Trended, Modes, TrendOf, ModesOf
<1>5. PICK trend \in Nat :
        \E modes : /\ today - trend < first /\ Reaches(modes, L)
                   /\ report = WindowsOf(user, first, today, trend, Overview(L), modes)
  BY <1>4 DEF Windowed
<1>6. PICK modes :
        today - trend < first /\ Reaches(modes, L) /\ report = WindowsOf(user, first, today, trend, Overview(L), modes)
  BY <1>5
<1> DEFINE left == DayWindows(trend)
           days == [d \in {} |-> 0]
<1>7. report' = TrendOf(user, first, today, Overview(L), modes, Day(now), left, days)
  BY <1>6 DEF BeginTrend, WindowsOf, TrendOf
<1>8. ASSUME Day(now) = today PROVE TrendRight(L, first, today, left, days)
  <2>1. left = (today - trend + 1) .. today
    BY <1>8 DEF DayWindows
  <2>2. first..today \subseteq left /\ left \subseteq Int
    BY <1>6, <2>1
  <2>3. DOMAIN days = {} /\ IsFiniteSet({})
    BY FS_EmptySet
  <2> HIDE DEF left, days
  <2> QED BY <2>2, <2>3 DEF TrendRight
<1> HIDE DEF left, days
<1>9. Trended(report', L, user, first, today)
  <2>1. PICK dated : dated = Day(now)
    OBVIOUS
  <2>2. /\ Reaches(modes, L) /\ (dated = today => TrendRight(L, first, today, left, days))
        /\ report' = TrendOf(user, first, today, Overview(L), modes, dated, left, days)
    BY <1>6, <1>7, <1>8, <2>1
  <2> QED BY <2>2, Zenon DEF Trended
<1> QED BY <1>3, <1>9, Zenon DEF ReportRight

LEMMA ReadDayIsRight ==
  ASSUME IsFiniteSet(logs), ReportRight(report, logs), ReadDay
  PROVE  ReportRight(report', logs)
<1>1. report.stage = "trend" /\ report # NoReport
  BY DEF ReadDay, NoReport
<1>2. PICK user, L :
        \E first \in Int, today \in Int :
          /\ Found(L, logs, user, first, today)
          /\ \/ Modes(report, L, user, first, today)
             \/ Windowed(report, L, user, first, today)
             \/ Trended(report, L, user, first, today)
  BY <1>1 DEF ReportRight
<1>3. PICK first \in Int, today \in Int :
        /\ Found(L, logs, user, first, today)
        /\ \/ Modes(report, L, user, first, today)
           \/ Windowed(report, L, user, first, today)
           \/ Trended(report, L, user, first, today)
  BY <1>2
<1>4. Trended(report, L, user, first, today)
  BY <1>1, <1>3 DEF Windowed, Modes, WindowsOf, ModesOf
<1>5. PICK modes, dated, left, days :
        /\ Reaches(modes, L) /\ (dated = today => TrendRight(L, first, today, left, days))
        /\ report = TrendOf(user, first, today, Overview(L), modes, dated, left, days)
  BY <1>4 DEF Trended
<1>6. report.user = user /\ report.left = left /\ report.days = days
  BY <1>5 DEF TrendOf
<1>7. PICK d \in left :
        report' = [report EXCEPT
          !.left = @ \ {d},
          !.days = [e \in DOMAIN @ \cup {d} |-> IF e = d THEN Overview(Between(report.user, d, d)) ELSE @[e]]]
  BY <1>6 DEF ReadDay
<1>8. PICK F : F = Between(user, d, d)
  OBVIOUS
<1>9. PICK after : after = [e \in DOMAIN days \cup {d} |-> IF e = d THEN Overview(F) ELSE days[e]]
  OBVIOUS
<1>10. report' = [report EXCEPT !.left = left \ {d}, !.days = after]
  BY <1>6, <1>7, <1>8, <1>9
<1>11. report' = TrendOf(user, first, today, Overview(L), modes, dated, left \ {d}, after)
  BY <1>5, <1>10 DEF TrendOf
<1>12. ASSUME dated = today PROVE TrendRight(L, first, today, left \ {d}, after)
  <2>1. TrendRight(L, first, today, left, days)
    BY <1>5, <1>12
  <2>2. DOMAIN after = DOMAIN days \cup {d}
    BY <1>9
  <2>3. IsFiniteSet(DOMAIN after)
    <3>1. IsFiniteSet(DOMAIN days)
      BY <2>1 DEF TrendRight
    <3> QED BY <2>2, <3>1, FS_AddElement
  <2>4. first..today \subseteq (left \ {d}) \cup DOMAIN after /\ left \ {d} \subseteq Int /\ DOMAIN after \subseteq Int
    BY <2>1, <2>2 DEF TrendRight
  <2>5. ASSUME NEW e \in DOMAIN days, e # d
        PROVE  /\ after[e].total \in Nat /\ Cardinality(OnDay(L, e)) <= after[e].total
               /\ after[e].points \in Nat /\ Cardinality(OnDay(PaidOf(L), e)) <= after[e].points
    <3>1. after[e] = days[e]
      BY <1>9, <2>5
    <3> QED BY <2>1, <3>1 DEF TrendRight
  <2>6. /\ after[d].total \in Nat /\ Cardinality(OnDay(L, d)) <= after[d].total
        /\ after[d].points \in Nat /\ Cardinality(OnDay(PaidOf(L), d)) <= after[d].points
    <3>1. after[d] = Overview(F)
      BY <1>9
    <3>2. after[d].total = Cardinality(F) /\ after[d].points = Cardinality(PaidOf(F))
      BY <3>1 DEF Overview, PaidOf
    <3>3. IsFiniteSet(F) /\ OnDay(L, d) \subseteq F
      <4>1. Found(OnDay(L, d), logs, user, d, d)
        <5>1. d \in Int
          BY <2>1 DEF TrendRight
        <5> QED BY <1>3, <5>1 DEF Found, OnDay
      <4> QED BY <1>8, <4>1, BetweenFinds
    <3>4. PaidOf(F) \subseteq F /\ OnDay(PaidOf(L), d) \subseteq PaidOf(F)
      BY <3>3 DEF PaidOf, OnDay
    <3>5. IsFiniteSet(PaidOf(F))
      BY <3>3, <3>4, FS_Subset
    <3>6. Cardinality(F) \in Nat /\ Cardinality(PaidOf(F)) \in Nat
      BY <3>3, <3>5, FS_CardinalityType
    <3>7. Cardinality(OnDay(L, d)) <= Cardinality(F)
      BY <3>3, FS_Subset
    <3>8. Cardinality(OnDay(PaidOf(L), d)) <= Cardinality(PaidOf(F))
      BY <3>4, <3>5, FS_Subset
    <3> QED BY <3>2, <3>6, <3>7, <3>8
  <2>7. ASSUME NEW e \in DOMAIN after
        PROVE  /\ after[e].total \in Nat /\ Cardinality(OnDay(L, e)) <= after[e].total
               /\ after[e].points \in Nat /\ Cardinality(OnDay(PaidOf(L), e)) <= after[e].points
    BY <2>2, <2>5, <2>6
  <2> QED BY <2>3, <2>4, <2>7 DEF TrendRight
<1>13. Trended(report', L, user, first, today)
  <2>1. PICK rest : rest = left \ {d}
    OBVIOUS
  <2>2. /\ Reaches(modes, L) /\ (dated = today => TrendRight(L, first, today, rest, after))
        /\ report' = TrendOf(user, first, today, Overview(L), modes, dated, rest, after)
    BY <1>5, <1>11, <1>12, <2>1
  <2> QED BY <2>2, Zenon DEF Trended
<1> QED BY <1>3, <1>13, Zenon DEF ReportRight

-----------------------------------------------------------------------------
\* The inductive invariant.
ReportsIndInv == ListsInv /\ ReportRight(report, logs) /\ Day(now) <= MaxDays

LEMMA ReportsIndInvInitially == ASSUME ReportsInit PROVE ReportsIndInv
<1>1. ListsInv
  BY ListsInitially
<1>2. ReportRight(report, logs)
  BY DEF ReportsInit, ReportRight
<1>3. Day(now) <= MaxDays
  <2>1. now = 0
    BY DEF ReportsInit
  <2>2. Day(0) = 0
    BY ReportsAssumption DEF Day
  <2> QED BY <2>1, <2>2, ReportsAssumption
<1> QED BY <1>1, <1>2, <1>3 DEF ReportsIndInv

\* Steps that leave the report alone and the day.
LEMMA RestOfStep ==
  ASSUME ReportsIndInv, ListsInv', logs \subseteq logs', report' = report, Day(now)' <= MaxDays
  PROVE  ReportsIndInv'
<1>1. ReportRight(report, logs')
  BY ReportStays DEF ReportsIndInv
<1>2. ReportRight(report, logs)'
  BY <1>1
<1> QED BY <1>2 DEF ReportsIndInv

LEMMA ReportsIndInvPreserved ==
  ASSUME ReportsIndInv, [ReportsNext]_reportsVars PROVE ReportsIndInv'
<1>1. /\ ListsInv /\ IsFiniteSet(logs) /\ logs \subseteq LogType /\ now \in Nat
      /\ ReportRight(report, logs) /\ Day(now) <= MaxDays
  BY DEF ReportsIndInv, ListsInv, TablesTyped
<1>2. CASE UNCHANGED reportsVars
  <2>1. UNCHANGED <<logs, feedbacks, unsaved, now, walk, report>>
    BY <1>2 DEF reportsVars
  <2>2. ListsInv'
    BY <1>1, <2>1, OtherKeepsLists
  <2> QED BY <1>1, <2>1, <2>2, RestOfStep
<1>3. CASE ReportsNext
  <2>1. ~ ReadingOver
    BY <1>3 DEF ReportsNext
  <2>2. ASSUME NEW u \in Readers, NEW s \in Subjects \cup {Unlinked}, NEW o \in Outcomes, BuildLog(u, s, o)
        PROVE  ReportsIndInv'
    <3>1. PICK r : r = [user |-> u, subject |-> s, outcome |-> o, at |-> now]
      OBVIOUS
    <3>2. PICK v : v = [kind |-> "log", row |-> r]
      OBVIOUS
    <3>3. r \in LogType /\ r.at = now
      BY <1>1, <3>1 DEF LogType
    <3>4. v.kind = "log" /\ v.row = r
      BY <3>2
    <3>5. Stamped /\ unsaved' = unsaved \cup {v} /\ UNCHANGED <<logs, feedbacks, walk>>
      BY <2>2, <3>1, <3>2 DEF BuildLog
    <3>6. ListsInv'
      BY <1>1, <2>1, <3>3, <3>4, <3>5, BuildKeepsLists
    <3>7. Day(now)' <= MaxDays /\ report' = report
      BY <1>1, <2>2 DEF BuildLog, Stamped
    <3> QED BY <1>1, <3>5, <3>6, <3>7, RestOfStep
  <2>3. ASSUME NEW u \in Readers, BuildFeedback(u)
        PROVE  ReportsIndInv'
    <3>1. PICK r : r = [user |-> u, status |-> "open", at |-> now]
      OBVIOUS
    <3>2. PICK v : v = [kind |-> "feedback", row |-> r]
      OBVIOUS
    <3>3. r \in FeedbackRowType /\ r.at = now
      BY <1>1, <3>1 DEF FeedbackRowType, FeedbackStatuses
    <3>4. v.kind = "feedback" /\ v.row = r
      BY <3>2
    <3>5. Stamped /\ unsaved' = unsaved \cup {v} /\ UNCHANGED <<logs, feedbacks, walk>>
      BY <2>3, <3>1, <3>2 DEF BuildFeedback
    <3>6. ListsInv'
      BY <1>1, <2>1, <3>3, <3>4, <3>5, BuildKeepsLists
    <3>7. Day(now)' <= MaxDays /\ report' = report
      BY <1>1, <2>3 DEF BuildFeedback, Stamped
    <3> QED BY <1>1, <3>5, <3>6, <3>7, RestOfStep
  <2>4. ASSUME NEW u \in unsaved, StoreLog(u) PROVE ReportsIndInv'
    <3>1. ListsInv'
      BY <1>1, <2>1, <2>4, StoreLogKeepsLists
    <3>2. logs \subseteq logs' /\ report' = report /\ now' = now
      BY <2>4 DEF StoreLog
    <3> QED BY <1>1, <3>1, <3>2, RestOfStep
  <2>5. ASSUME NEW u \in unsaved, StoreFeedback(u) PROVE ReportsIndInv'
    <3>1. ListsInv'
      BY <1>1, <2>1, <2>5, StoreFeedbackKeepsLists
    <3>2. logs' = logs /\ report' = report /\ now' = now
      BY <2>5 DEF StoreFeedback
    <3> QED BY <1>1, <3>1, <3>2, RestOfStep
  <2>6. ASSUME NEW f \in feedbacks, NEW status \in FeedbackStatuses, Handle(f, status) PROVE ReportsIndInv'
    <3>1. ListsInv'
      BY <1>1, <2>1, <2>6, HandleKeepsLists
    <3>2. logs' = logs /\ report' = report /\ now' = now
      BY <2>6 DEF Handle
    <3> QED BY <1>1, <3>1, <3>2, RestOfStep
  <2>7. ASSUME Midnight PROVE ReportsIndInv'
    <3>1. ListsInv'
      BY <1>1, <2>1, <2>7, MidnightKeepsLists
    <3>2. logs' = logs /\ report' = report
      BY <2>7 DEF Midnight
    <3>3. Day(now)' <= MaxDays
      <4>1. now' = (Day(now) + 1) * DayLength /\ Day(now) < MaxDays
        BY <2>7 DEF Midnight
      <4>2. Day(now)' = Day((Day(now) + 1) * DayLength)
        BY <4>1 DEF Day
      <4>3. Day(now)' = Day(now) + 1
        BY <1>1, <4>2, DayOfMidnight
      <4>4. Day(now) \in Nat
        BY <1>1, DayIs
      <4> QED BY <4>1, <4>3, <4>4, ReportsAssumption
    <3> QED BY <1>1, <3>1, <3>2, <3>3, RestOfStep
  <2>8. ASSUME NEW list \in Lists, NEW u \in Readers \cup {Everyone}, NEW days \in Windows,
               NEW status \in StatusesOf(list), BeginWalk(Query(list, u, days, status))
        PROVE  ReportsIndInv'
    <3>1. Query(list, u, days, status) \in QueryType
      <4>1. days \in Nat
        BY ReportsAssumption
      <4>2. status \in FeedbackStatuses \cup {AnyStatus}
        BY DEF StatusesOf
      <4> QED BY <4>1, <4>2 DEF Query, QueryType
    <3>2. ListsInv'
      BY <1>1, <2>8, <3>1, BeginWalkKeepsLists
    <3>3. logs' = logs /\ report' = report /\ now' = now
      BY <2>8 DEF BeginWalk
    <3> QED BY <1>1, <3>2, <3>3, RestOfStep
  <2>9. ASSUME TurnPage PROVE ReportsIndInv'
    <3>1. ListsInv'
      BY <1>1, <2>9, TurnPageKeepsLists
    <3>2. logs' = logs /\ report' = report /\ now' = now
      BY <2>9 DEF TurnPage
    <3> QED BY <1>1, <3>1, <3>2, RestOfStep
  <2>10. ASSUME CountRows PROVE ReportsIndInv'
    <3>1. ListsInv'
      BY <1>1, <2>10, CountRowsKeepsLists
    <3>2. logs' = logs /\ report' = report /\ now' = now
      BY <2>10 DEF CountRows
    <3> QED BY <1>1, <3>1, <3>2, RestOfStep
  <2>11. ASSUME UNCHANGED <<logs, feedbacks, unsaved, now, walk>>, ReportRight(report', logs)
         PROVE  ReportsIndInv'
    <3>1. ListsInv'
      BY <1>1, <2>11, OtherKeepsLists
    <3>2. ReportRight(report, logs)'
      BY <2>11 DEF ReportRight, Found, Modes, Windowed, Trended
    <3> QED BY <1>1, <2>11, <3>1, <3>2 DEF ReportsIndInv
  <2>12. ASSUME NEW user, NEW trend \in ReportDays, NEW over \in {1, trend}, BeginReport(user, over, trend)
         PROVE  ReportsIndInv'
    <3>1. ReportRight(report', logs)
      BY <1>1, <2>12, BeginReportIsRight
    <3>2. UNCHANGED <<logs, feedbacks, unsaved, now, walk>>
      BY <2>12 DEF BeginReport
    <3> QED BY <2>11, <3>1, <3>2
  <2>13. ASSUME ReadModes PROVE ReportsIndInv'
    <3>1. ReportRight(report', logs)
      BY <1>1, <2>13, ReadModesIsRight
    <3>2. UNCHANGED <<logs, feedbacks, unsaved, now, walk>>
      BY <2>13 DEF ReadModes
    <3> QED BY <2>11, <3>1, <3>2
  <2>14. ASSUME BeginTrend PROVE ReportsIndInv'
    <3>1. ReportRight(report', logs)
      BY <1>1, <2>14, BeginTrendIsRight
    <3>2. UNCHANGED <<logs, feedbacks, unsaved, now, walk>>
      BY <2>14 DEF BeginTrend
    <3> QED BY <2>11, <3>1, <3>2
  <2>15. ASSUME ReadDay PROVE ReportsIndInv'
    <3>1. ReportRight(report', logs)
      BY <1>1, <2>15, ReadDayIsRight
    <3>2. UNCHANGED <<logs, feedbacks, unsaved, now, walk>>
      BY <2>15 DEF ReadDay
    <3> QED BY <2>11, <3>1, <3>2
  <2> QED BY <1>3, <2>2, <2>3, <2>4, <2>5, <2>6, <2>7, <2>8, <2>9, <2>10, <2>12, <2>13, <2>14, <2>15 DEF ReportsNext
<1> QED BY <1>2, <1>3

\* It holds of every reachable state.
THEOREM ReportsInvariant == ReportsSpec => []ReportsIndInv
<1>1. ReportsInit => ReportsIndInv
  BY ReportsIndInvInitially
<1>2. ReportsIndInv /\ [ReportsNext]_reportsVars => ReportsIndInv'
  BY ReportsIndInvPreserved
<1> QED BY <1>1, <1>2, PTL DEF ReportsSpec

LEMMA ReportsTyped == ASSUME ReportsIndInv PROVE ReportsTypeOK
<1>1. now \in Nat /\ Day(now) <= MaxDays /\ logs \subseteq LogType /\ feedbacks \subseteq FeedbackRowType
  BY DEF ReportsIndInv, ListsInv, TablesTyped
<1>2. \A u \in unsaved : u.row \in IF u.kind = "log" THEN LogType ELSE FeedbackRowType
  BY DEF ReportsIndInv, ListsInv, TablesTyped
<1>3. walk.stage \in {"idle", "turn", "count", "done"}
  BY DEF ReportsIndInv, ListsInv, WalkRight, WalkOf, NoWalk
<1>4. report.stage \in {"idle", "modes", "windows", "trend"}
  <2>1. CASE report = NoReport
    BY <2>1 DEF NoReport
  <2>2. CASE report # NoReport
    <3>1. PICK user, L :
            \E first \in Int, today \in Int :
              /\ Found(L, logs, user, first, today)
              /\ \/ Modes(report, L, user, first, today)
                 \/ Windowed(report, L, user, first, today)
                 \/ Trended(report, L, user, first, today)
      BY <2>2 DEF ReportsIndInv, ReportRight
    <3>2. PICK first, today :
            \/ Modes(report, L, user, first, today)
            \/ Windowed(report, L, user, first, today)
            \/ Trended(report, L, user, first, today)
      BY <3>1
    <3> QED BY <3>2 DEF Modes, Windowed, Trended, ModesOf, WindowsOf, TrendOf
  <2> QED BY <2>1, <2>2
<1> QED BY <1>1, <1>2, <1>3, <1>4 DEF ReportsTypeOK

\* Rows, walks and reports have their shapes.
THEOREM ReportsTypes == ReportsSpec => []ReportsTypeOK
<1>1. ReportsIndInv => ReportsTypeOK
  BY ReportsTyped
<1> QED BY <1>1, ReportsInvariant, PTL

\* Who turns all the pages of a list misses no row that was in it, but the two
\* kinds the code cannot help missing, with any page size and any number of rows.
THEOREM PagesMissNoRow == ReportsSpec => []RowsListed
<1>1. ReportsIndInv => RowsListed
  BY DEF ReportsIndInv, ListsInv
<1> QED BY <1>1, ReportsInvariant, PTL

\* The figures of a report fit together although each is read by itself.
THEOREM ReportsFit == ReportsSpec => []ReportAddsUp
<1>1. ReportsIndInv => ReportAddsUp
  BY RightAddsUp DEF ReportsIndInv, ListsInv, TablesTyped
<1> QED BY <1>1, ReportsInvariant, PTL
==============================================================================
