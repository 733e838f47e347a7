----------------------------- MODULE MCKnowledge -----------------------------
(* Small instances, for TLC, of the components that find an answer and of *)
(* those that keep the service going.  Each behaviour exercises one of    *)
(* them and leaves the others as they start: they share no state, and one *)
(* run checks them all.                                                   *)
EXTENDS AnswerPipeline, AnswerCache, QuestionBank, MatchIndex,
        ImageModels, Reports, Releases, Schema, LogFiles, TLC

VARIABLE part   \* the component of this behaviour

Parts == {"pipeline", "cache", "bank", "match", "images", "reports",
          "releases", "schema", "logs"}

KnowledgeInit ==
  /\ part \in Parts
  /\ PipelineInit /\ CacheInit /\ BankInit /\ MatchInit /\ ImageModelsInit /\ ReportsInit
  /\ ReleasesInit /\ SchemaInit /\ LogFilesInit
  /\ part = "pipeline" \/ question = CHOOSE q \in Questions : TRUE
  /\ part = "cache" \/ serving = CHOOSE o \in Objects : TRUE
  /\ part = "images" \/ Existing = {}
  /\ part = "reports" \/ table = "usage"
  /\ part = "releases" \/ latest = NoRelease
  /\ part = "schema" \/ (backend = "sqlite" /\ had = {} /\ columns = {})
  /\ part = "logs" \/ DOMAIN files = {Current}

PipelinePart ==
  /\ part = "pipeline" /\ PipelineNext
  /\ UNCHANGED <<part, cacheVars, bankVars, matchVars, imageModelsVars,
                 reportsVars, releasesVars, schemaVars, logFilesVars>>
CachePart ==
  /\ part = "cache" /\ CacheNext
  /\ UNCHANGED <<part, pipelineVars, bankVars, matchVars, imageModelsVars,
                 reportsVars, releasesVars, schemaVars, logFilesVars>>
BankPart ==
  /\ part = "bank" /\ BankNext
  /\ UNCHANGED <<part, pipelineVars, cacheVars, matchVars, imageModelsVars,
                 reportsVars, releasesVars, schemaVars, logFilesVars>>
MatchPart ==
  /\ part = "match" /\ MatchNext
  /\ UNCHANGED <<part, pipelineVars, cacheVars, bankVars, imageModelsVars,
                 reportsVars, releasesVars, schemaVars, logFilesVars>>
ImagesPart ==
  /\ part = "images" /\ ImageModelsNext
  /\ UNCHANGED <<part, pipelineVars, cacheVars, bankVars, matchVars,
                 reportsVars, releasesVars, schemaVars, logFilesVars>>
ReportsPart ==
  /\ part = "reports" /\ ReportsNext
  /\ UNCHANGED <<part, pipelineVars, cacheVars, bankVars, matchVars,
                 imageModelsVars, releasesVars, schemaVars, logFilesVars>>
ReleasesPart ==
  /\ part = "releases" /\ ReleasesNext
  /\ UNCHANGED <<part, pipelineVars, cacheVars, bankVars, matchVars,
                 imageModelsVars, reportsVars, schemaVars, logFilesVars>>
SchemaPart ==
  /\ part = "schema" /\ SchemaNext
  /\ UNCHANGED <<part, pipelineVars, cacheVars, bankVars, matchVars,
                 imageModelsVars, reportsVars, releasesVars, logFilesVars>>
LogsPart ==
  /\ part = "logs" /\ LogFilesNext
  /\ UNCHANGED <<part, pipelineVars, cacheVars, bankVars, matchVars,
                 imageModelsVars, reportsVars, releasesVars, schemaVars>>

KnowledgeNext ==
  \/ PipelinePart \/ CachePart \/ BankPart \/ MatchPart \/ ImagesPart
  \/ ReportsPart \/ ReleasesPart \/ SchemaPart \/ LogsPart

knowledgeVars ==
  <<part, pipelineVars, cacheVars, bankVars, matchVars, imageModelsVars,
    reportsVars, releasesVars, schemaVars, logFilesVars>>

KnowledgeSpec == KnowledgeInit /\ [][KnowledgeNext]_knowledgeVars

\* The keys of the cache and the requests of the bank share model values; the
\* answers are only compared with each other.
KnowledgeSymmetry == Permutations(Keys) \cup Permutations(Answers)


CONSTANTS g1, g2   \* the two n-grams

\* Records of choices and blanks, learned or from a collection, one under review.
Saying(title, options, kind, ai, by_hand) ==
  [title |-> title, options |-> options, kind |-> kind, ai |-> ai,
   reviewed |-> by_hand, matchable |-> ai \/ by_hand \/ kind = "choice"]
MCContents ==
  LET both == {g1, g2} IN
       {Saying({g1}, o, "choice", FALSE, FALSE) : o \in Signatures}
  \cup {Saying(both, o, "blank", TRUE, FALSE) : o \in Signatures}
  \cup {Saying(both, NoOptions, "blank", FALSE, r) : r \in BOOLEAN}

\* Titles with the same n-grams are alike, those that share one a little.
MCSimilarity(t, u) == IF t = u THEN "strong" ELSE IF t \cap u /= {} THEN "weak" ELSE "none"

CONSTANTS s1, s2   \* two sizes

\* Custom sizes, edits of one picture only, and the old protocol.
MCProposals == {
  [provider |-> "openai", draft |-> [NoDraft EXCEPT !.sizes = {s1}, !.custom = TRUE]],
  [provider |-> "gemini", draft |->
     [sizes |-> {s1, s2}, custom |-> FALSE, stated |-> TRUE, edits |-> {"whole", "multi"}, inputs |-> 1]],
  [provider |-> "chat", draft |-> NoDraft]}

\* An answer of a model that cost points, and one that failed.
MCOutcomes == {[ok |-> TRUE, paid |-> TRUE], [ok |-> FALSE, paid |-> FALSE]}

\* Old files of two events and of one.
MCOldFiles == [f \in {"old", "older"} |-> IF f = "old" THEN {-2, -1} ELSE {-3}]

\* A table and a column of another one that are to go, and two columns to come.
MCObsolete == <<"integrations", "subscription_days">>
MCAdded == <<"color", "quota_used">>
==============================================================================
