------------------------------ MODULE Releases ------------------------------
(* What the service knows of newer releases (ProjectUpdateService).  An        *)
(* administrator's check asks GitHub for the latest release and then for its   *)
(* manifest, verifies that they belong together and stores what it found, all  *)
(* under check_lock; the page that shows the result reads without it.  In the  *)
(* meantime releases are published, edited and withdrawn, requests fail, and   *)
(* the process may stop and start again.                                       *)
EXTENDS Integers, FiniteSets

CONSTANTS
  Administrators,   \* each has a check of his own in progress at most
  Builds,           \* versions of releases, in their order
  Own,              \* the version of this build
  Nobody,           \* holds no lock
  MaxChecks,        \* checks begun (bound)
  MaxReleases       \* changes of what is published (bound)

\* Versions are counted from 1 and a build has one; 0 is that of no release.
ASSUME ReleasesAssumption ==
  /\ Builds \subseteq Nat \ {0} /\ Own \in Nat
  /\ Nobody \notin Administrators

VARIABLES
  latest,           \* what GitHub calls the latest release
  lastCheck,        \* the row LAST_CHECK_KEY
  checkLock,        \* who holds check_lock
  checking,         \* [Administrators -> where his check is]
  verified,         \* the release verified last, of checks not cut off
  checks, changes   \* counters of the bounds

releasesVars == <<latest, lastCheck, checkLock, checking, verified, checks, changes>>

NoRelease == [version |-> 0]

\* A release has a version, a state in which a manifest names it, and notes
\* that may make the row longer than what load_json accepts (32000 characters).
ReleaseType == [version : Builds, draft : BOOLEAN, manifest : {"agrees", "other", "missing"},
                oversized : BOOLEAN]

EmptyRow == [failed |-> FALSE, release |-> NoRelease]

\* load_json: a row that is too long is read as an empty one.
Loaded ==
  IF lastCheck.release /= NoRelease /\ lastCheck.release.oversized THEN EmptyRow ELSE lastCheck

\* resolve_version_relation, with the version of a release build
Relation(release) ==
  CASE release = NoRelease    -> "unknown"
    [] release.version > Own  -> "behind"
    [] release.version < Own  -> "ahead"
    [] OTHER                  -> "current"

\* ProjectUpdateService.status
Status ==
  [release  |-> Loaded.release,
   relation |-> Relation(Loaded.release),
   state    |-> IF Loaded.failed THEN "failed" ELSE "idle"]

\* latest_release: the answer to the first request goes on to the manifest.
Fetchable(release) ==
  release /= NoRelease /\ ~release.draft /\ release.manifest /= "missing"

\* project_release_from_payload
Sound(release) == release.manifest = "agrees"

-----------------------------------------------------------------------------
NoCheck == [stage |-> "idle"]

ReleasesInit ==
  /\ latest \in {NoRelease} \cup {r \in ReleaseType : ~r.draft /\ r.manifest = "agrees"}
  /\ lastCheck = EmptyRow /\ verified = NoRelease
  /\ checkLock = Nobody
  /\ checking = [a \in Administrators |-> NoCheck]
  /\ checks = 0 /\ changes = 0

\* A release is published, edited or withdrawn.
Publish(release) ==
  /\ changes < MaxReleases /\ release /= latest
  /\ latest' = release /\ changes' = changes + 1
  /\ UNCHANGED <<lastCheck, checkLock, checking, verified, checks>>

\* project_update_check
AskCheck(a) ==
  /\ checking[a] = NoCheck /\ checks < MaxChecks
  /\ checking' = [checking EXCEPT ![a] = [stage |-> "waiting"]]
  /\ checks' = checks + 1
  /\ UNCHANGED <<latest, lastCheck, checkLock, verified, changes>>

\* Faulty variant: checks do not wait for each other.
MayCheckAtOnce(a) == checking[a].stage = "waiting"

MayCheck(a) == checkLock = Nobody /\ checking[a].stage = "waiting"

\* The first request: it fails, finds nothing usable, or names a manifest.
AskRelease(a) ==
  /\ MayCheck(a)
  /\ checkLock' = a
  /\ checking' = [checking EXCEPT ![a] =
       IF Fetchable(latest) THEN [stage |-> "manifest", release |-> latest]
       ELSE [stage |-> "failed"]]
  /\ UNCHANGED <<latest, lastCheck, verified, checks, changes>>

\* The second one: the manifest belongs to the release, also if another one has
\* become the latest; one that is gone or replaced is a request that fails.
AskManifest(a) ==
  /\ checking[a].stage = "manifest"
  /\ LET release == checking[a].release
         found   == Sound(release)
     IN /\ checking' = [checking EXCEPT ![a] =
             IF found THEN [stage |-> "verified", release |-> release] ELSE [stage |-> "failed"]]
        /\ verified' = IF found THEN release ELSE verified
  /\ UNCHANGED <<latest, lastCheck, checkLock, checks, changes>>

\* httpx.HTTPError and refusals: any request may fail.
RequestFails(a) ==
  /\ checking[a].stage = "manifest" \/ MayCheck(a)
  /\ checkLock' = a
  /\ checking' = [checking EXCEPT ![a] = [stage |-> "failed"]]
  /\ UNCHANGED <<latest, lastCheck, verified, checks, changes>>

\* save_check: a failure keeps the release of the row before.
SaveCheck(a) ==
  /\ checking[a].stage \in {"verified", "failed"}
  /\ lastCheck' = IF checking[a].stage = "verified"
                  THEN [failed |-> FALSE, release |-> checking[a].release]
                  ELSE [failed |-> TRUE, release |-> Loaded.release]
  /\ checkLock' = Nobody
  /\ checking' = [checking EXCEPT ![a] =
       IF checking[a].stage = "verified" THEN [stage |-> "respond"] ELSE NoCheck]
  /\ UNCHANGED <<latest, verified, checks, changes>>

\* check answers with the status of the moment, read without the lock.
Respond(a) ==
  /\ checking[a].stage = "respond"
  /\ checking' = [checking EXCEPT ![a] = NoCheck]
  /\ UNCHANGED <<latest, lastCheck, checkLock, verified, checks, changes>>

\* The process stops: what was verified and not stored is gone.
StopAndStart ==
  /\ \E a \in Administrators : checking[a] /= NoCheck
  /\ checking' = [a \in Administrators |-> NoCheck]
  /\ checkLock' = Nobody
  /\ verified' = lastCheck.release
  /\ UNCHANGED <<latest, lastCheck, checks, changes>>

ReleasesNext ==
  \/ \E r \in ReleaseType \cup {NoRelease} : Publish(r)
  \/ \E a \in Administrators :
       \/ AskCheck(a) \/ AskRelease(a) \/ AskManifest(a)
       \/ RequestFails(a) \/ SaveCheck(a) \/ Respond(a)
  \/ StopAndStart

ReleasesSpec == ReleasesInit /\ [][ReleasesNext]_releasesVars

-----------------------------------------------------------------------------
ReleasesTypeOK ==
  /\ latest \in ReleaseType \cup {NoRelease} /\ verified \in ReleaseType \cup {NoRelease}
  /\ lastCheck \in [failed : BOOLEAN, release : ReleaseType \cup {NoRelease}]
  /\ checkLock \in Administrators \cup {Nobody}
  /\ \A a \in Administrators :
       checking[a].stage \in {"idle", "waiting", "manifest", "verified", "failed", "respond"}

Storing == \E a \in Administrators : checking[a].stage = "verified"

\* Whatever checks overlap, fail or are cut off: as soon as no verified release
\* waits to be stored, the page shows the one verified last (ProjectUpdateService,
\* check and status), also after a failed check, and offers an update exactly if
\* that one is newer; unless its row is too long to be read again
\* (platform/updates/service.py:185), which hides it and every release before.
ShowsLastVerified ==
  ~Storing =>
    \/ /\ Status.release = verified
       /\ Status.relation = "behind" <=> verified.version > Own
    \/ /\ verified /= NoRelease /\ verified.oversized
       /\ Status.release = NoRelease
=============================================================================
