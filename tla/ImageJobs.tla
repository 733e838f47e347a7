----------------------------- MODULE ImageJobs -----------------------------
(***************************************************************************)
(* Image generation: jobs, the points reserved for them, their files, the *)
(* background worker and the HTTP clients that cancel, delete and upload.  *)
(*                                                                         *)
(* Source: platform/image_generation/{service,worker}.py and               *)
(* storage/repositories/image_generation.py.                               *)
(*                                                                         *)
(* A database transaction that holds a write lock for all its reads is one *)
(* step.  The settling transactions (complete_job, fail_job_and_refund)    *)
(* read first and write at the flush, so each is a Read step, which fills  *)
(* tx, and a Write step.  RowLocks says whether SELECT ... FOR UPDATE      *)
(* locks the job row in between: TRUE is PostgreSQL; on SQLite the clause  *)
(* compiles to nothing and the SELECTs run before the transaction begins,  *)
(* which is FALSE.                                                         *)
(***************************************************************************)
EXTENDS Integers, FiniteSets

CONSTANTS
  Jobs,           \* job ids; a job exists once its status is not "absent"
  Users,
  Keys,           \* idempotency keys
  Uploads,        \* ids of uploaded reference images and masks
  Clients,        \* HTTP requests that may be in progress at once
  Worker,         \* the single background consumer
  None,
  Costs,          \* prices an administrator may set (policy "points")
  InitialPoints,
  ActiveLimit,    \* policy "max_active_jobs"
  DailyLimit,     \* policy "daily_limit", 0 when unlimited
  MaxInputs,      \* bound: input images of one job
  RowLocks,       \* does FOR UPDATE lock the row (PostgreSQL) or not (SQLite)
  PromptRestart,  \* may the process restart before 300 s have passed
  MaxCrashes,     \* bound: crashes of the process
  MaxFaults       \* bound: database errors met by the worker

ASSUME ImageJobsAssumption ==
  /\ Worker \notin Clients
  /\ None \notin Jobs \cup Users \cup Keys \cup Uploads
  /\ Costs \subseteq Nat
  /\ InitialPoints \in Nat
  /\ ActiveLimit \in Nat \ {0}
  /\ DailyLimit \in Nat /\ MaxInputs \in Nat
  /\ RowLocks \in BOOLEAN /\ PromptRestart \in BOOLEAN
  /\ MaxCrashes \in Nat /\ MaxFaults \in Nat
  /\ Jobs \cap Uploads = {} /\ IsFiniteSet(Jobs)

VARIABLES
  status,    \* status column of each job row
  owner, key, cost, inputs,   \* the columns fixed when the row is inserted
  born,      \* created_at, as the rank of the insertion
  today,     \* jobs created since UTC midnight (kept when DailyLimit > 0)
  old,       \* running jobs whose started_at is 300 s in the past
  points,    \* users.points
  order,     \* reservation order of each job
  refunds,   \* refund orders written for each job
  asset,     \* output asset row of each job
  upload,    \* owner and liveness of each uploaded image
  files,     \* private image files on disk, named by job or upload
  calls,     \* requests sent to the provider for each job
  pc, wjob, verdict,          \* the worker: step, job, status to fail with
  tx,        \* settling transaction open in each process
  closing,   \* upload whose deletion a client has checked, not yet committed
  doomed,    \* files each process must still remove
  crashes, faults

jobVars    == <<owner, key, cost, inputs, born, today>>
moneyVars  == <<points, order, refunds>>
workerVars == <<pc, wjob, verdict>>
boundVars  == <<crashes, faults>>
vars == <<status, jobVars, old, moneyVars, asset, upload, files, calls,
          workerVars, tx, closing, doomed, boundVars>>

Procs    == Clients \cup {Worker}
Active   == {"queued", "running"}
Refused  == {"failed", "rejected", "cancelled"}
Terminal == Refused \cup {"succeeded", "deleted"}
Statuses == Active \cup Terminal \cup {"absent"}
Orders   == {"none", "reserved", "completed", "refunded"}
Phases   == {"down", "recovering", "idle", "claimed", "loaded", "calling",
             "stored", "failing"}
TxRecord == [job: Jobs, to: Refused \cup {"succeeded"}, balance: Nat, reserved: BOOLEAN]

Exists(j)     == status[j] # "absent"
\* Faulty variant: a queued job does not count against the limit.
ActiveJobsRunningOnly(u) == {j \in Jobs : status[j] = "running" /\ owner[j] = u}
ActiveJobs(u) == {j \in Jobs : status[j] \in Active /\ owner[j] = u}
Affordable(u, c) == points[u] >= c
Serving       == pc \notin {"down", "recovering"}
Free(c)       == tx[c] = None /\ closing[c] = None /\ doomed[c] = {}
\* Faulty variant: FOR UPDATE is forgotten.
LockedNever(j) == j \notin Jobs
\* Another transaction holds the row lock of job j.
Locked(j)     == RowLocks /\ \E p \in Procs : tx[p] # None /\ tx[p].job = j

Init ==
  /\ status = [j \in Jobs |-> "absent"]
  /\ owner  = [j \in Jobs |-> None] /\ key = [j \in Jobs |-> None]
  /\ cost   = [j \in Jobs |-> 0]    /\ inputs = [j \in Jobs |-> {}]
  /\ born   = [j \in Jobs |-> 0]    /\ today = {} /\ old = {}
  /\ points = [u \in Users |-> InitialPoints]
  /\ order  = [j \in Jobs |-> "none"] /\ refunds = [j \in Jobs |-> 0]
  /\ asset  = [j \in Jobs |-> "none"]
  /\ upload = [i \in Uploads |-> [owner |-> None, live |-> FALSE]]
  /\ files  = {} /\ calls = [j \in Jobs |-> 0]
  /\ pc = "down" /\ wjob = None /\ verdict = "failed"
  /\ tx = [p \in Procs |-> None]
  /\ closing = [c \in Clients |-> None]
  /\ doomed = [p \in Procs |-> {}]
  /\ crashes = 0 /\ faults = 0

-----------------------------------------------------------------------------
(* HTTP clients.                                                           *)

\* _resolve_job_inputs: an own live upload, or the live output of an own job.
Resolvable(u, s) ==
  \/ s \in Uploads /\ upload[s] = [owner |-> u, live |-> TRUE]
  \/ s \in Jobs /\ asset[s] = "live" /\ owner[s] = u /\ status[s] = "succeeded"

\* The no-op UPDATE of the user row serialises the submissions of one user.
\* A repeated idempotency key returns the old job and changes nothing.
CreateJob(u, j, k, c, S) ==
  /\ Serving /\ ~Exists(j)
  /\ ~\E i \in Jobs : Exists(i) /\ owner[i] = u /\ key[i] = k
  /\ Cardinality(ActiveJobs(u)) < ActiveLimit
  /\ DailyLimit > 0 => Cardinality({i \in today : owner[i] = u}) < DailyLimit
  /\ Affordable(u, c)
  /\ \A s \in S : Resolvable(u, s)
  /\ points' = [points EXCEPT ![u] = @ - c]
  /\ order'  = [order EXCEPT ![j] = IF c > 0 THEN "reserved" ELSE "none"]
  /\ status' = [status EXCEPT ![j] = "queued"]
  /\ owner' = [owner EXCEPT ![j] = u] /\ key' = [key EXCEPT ![j] = k]
  /\ cost'  = [cost EXCEPT ![j] = c]  /\ inputs' = [inputs EXCEPT ![j] = S]
  /\ born'  = [born EXCEPT ![j] = Cardinality({i \in Jobs : Exists(i)})]
  /\ today' = IF DailyLimit > 0 THEN today \cup {j} ELSE today
  /\ UNCHANGED <<old, refunds, asset, upload, files, calls, workerVars, tx,
                 closing, doomed, boundVars>>

\* UTC midnight: datetime.now(UTC).replace(hour=0, ...) moves on.
NewDay == /\ today # {} /\ today' = {}
          /\ UNCHANGED <<status, owner, key, cost, inputs, born, old, moneyVars,
               asset, upload, files, calls, workerVars, tx, closing, doomed,
               boundVars>>

\* fail_job_and_refund up to the flush.
OpenTx(p, j, to) ==
  /\ ~Locked(j)
  /\ tx' = [tx EXCEPT ![p] = [job |-> j, to |-> to,
                              balance |-> points[owner[j]],
                              reserved |-> order[j] = "reserved"]]

\* delete_or_cancel_job on a queued job.
CancelRead(c, j) ==
  /\ Serving /\ Free(c)
  /\ status[j] = "queued"
  /\ OpenTx(c, j, "cancelled")
  /\ UNCHANGED <<status, jobVars, old, moneyVars, asset, upload, files, calls,
                 workerVars, closing, doomed, boundVars>>

\* The flush: rows are updated by primary key with the values computed from
\* the snapshot; the user row is not locked before it is written.
Refund(t) ==
  /\ IF t.reserved
       THEN /\ points'  = [points EXCEPT ![owner[t.job]] = t.balance + cost[t.job]]
            /\ order'   = [order EXCEPT ![t.job] = "refunded"]
            /\ refunds' = [refunds EXCEPT ![t.job] = @ + 1]
       ELSE UNCHANGED moneyVars
  /\ status' = [status EXCEPT ![t.job] = t.to]
  /\ old' = old \ {t.job}

\* The refund order id is "refund_" + job id, under a unique constraint.
RefundExists(t) == t.reserved /\ refunds[t.job] > 0

CloseTx(p) == tx' = [tx EXCEPT ![p] = None]

CancelWrite(c) ==
  /\ tx[c] # None /\ ~RefundExists(tx[c])
  /\ Refund(tx[c]) /\ CloseTx(c)
  /\ UNCHANGED <<jobVars, asset, upload, files, calls, workerVars, closing,
                 doomed, boundVars>>

\* The insert violates the unique constraint: rollback, the request fails.
CancelConflict(c) ==
  /\ tx[c] # None /\ RefundExists(tx[c]) /\ CloseTx(c)
  /\ UNCHANGED <<status, jobVars, old, moneyVars, asset, upload, files, calls,
                 workerVars, closing, doomed, boundVars>>

\* Access to the live outputs of the jobs in S is withdrawn and their files
\* are left to process p to unlink; the faulty variant forgets deleted_at.
RevokeFilesOnly(p, S) ==
  /\ doomed' = [doomed EXCEPT ![p] = {j \in S : asset[j] = "live"}]
  /\ UNCHANGED asset
Revoke(p, S) ==
  /\ doomed' = [doomed EXCEPT ![p] = {j \in S : asset[j] = "live"}]
  /\ asset'  = [j \in Jobs |-> IF j \in S /\ asset[j] = "live"
                                 THEN "deleted" ELSE asset[j]]

\* delete_or_cancel_job on a settled job: delete_job, then its file.
DeleteJob(c, j) ==
  /\ Serving /\ Free(c)
  /\ status[j] \in Terminal /\ ~Locked(j)
  /\ status' = [status EXCEPT ![j] = "deleted"]
  /\ Revoke(c, {j})
  /\ UNCHANGED <<jobVars, old, moneyVars, upload, files, calls, workerVars, tx,
                 closing, boundVars>>

\* create_input_asset: the file is stored, then the row; ids are fresh.
UploadImage(u, i) ==
  /\ Serving /\ upload[i].owner = None
  /\ files'  = files \cup {i}
  /\ upload' = [upload EXCEPT ![i] = [owner |-> u, live |-> TRUE]]
  /\ UNCHANGED <<status, jobVars, old, moneyVars, asset, calls, workerVars, tx,
                 closing, doomed, boundVars>>

\* Active jobs that use image s as an input.
UsedBy(s) == {j \in Jobs : status[j] \in Active /\ s \in inputs[j]}

\* delete_input_asset: the reference check, the commit, then the file.  The
\* row lock is one that create_job_with_reservation does not ask for.
DeleteInputCheck(c, i) ==
  /\ Serving /\ Free(c)
  /\ upload[i].live /\ UsedBy(i) = {}
  /\ RowLocks => \A d \in Clients : closing[d] # i
  /\ closing' = [closing EXCEPT ![c] = i]
  /\ UNCHANGED <<status, jobVars, old, moneyVars, asset, upload, files, calls,
                 workerVars, tx, doomed, boundVars>>

DeleteInputCommit(c) ==
  /\ closing[c] # None
  /\ upload'  = [upload EXCEPT ![closing[c]] = [owner |-> @.owner, live |-> FALSE]]
  /\ doomed'  = [doomed EXCEPT ![c] = {closing[c]}]
  /\ closing' = [closing EXCEPT ![c] = None]
  /\ UNCHANGED <<status, jobVars, old, moneyVars, asset, files, calls,
                 workerVars, tx, boundVars>>

\* The files whose rows a committed transaction has revoked are unlinked.
RemoveFile(p, f) ==
  /\ f \in doomed[p]
  /\ files'  = files \ {f}
  /\ doomed' = [doomed EXCEPT ![p] = @ \ {f}]
  /\ UNCHANGED <<status, jobVars, old, moneyVars, asset, upload, calls,
                 workerVars, tx, closing, boundVars>>

-----------------------------------------------------------------------------
(* The background worker: process_next_job, one step per transaction, file *)
(* operation or provider call.                                             *)

\* Faulty variant: an interrupted job is taken up again.
QueuedOrRunning == {j \in Jobs : status[j] \in Active}
Queued == {j \in Jobs : status[j] = "queued"}

\* The worker moves to another step of the same job.
Goto(next) == pc' = next /\ UNCHANGED <<wjob, verdict>>
Fail(how)  == pc' = "failing" /\ verdict' = how /\ wjob' = wjob
Rest       == pc' = "idle" /\ wjob' = None /\ verdict' = "failed"

\* claim_next_job: oldest queued job, conditional UPDATE.
Claim(j) ==
  /\ pc = "idle" /\ doomed[Worker] = {}
  /\ j \in Queued /\ \A i \in Queued : born[j] <= born[i]
  /\ ~Locked(j)
  /\ status' = [status EXCEPT ![j] = "running"]
  /\ pc' = "claimed" /\ wjob' = j /\ UNCHANGED verdict
  /\ UNCHANGED <<jobVars, old, moneyVars, asset, upload, files, calls, tx,
                 closing, doomed, boundVars>>

\* The model row is gone, its key is empty, or its snapshot or the requested
\* output is invalid: the job fails before anything is sent.
PrepareFails ==
  /\ pc \in {"claimed", "loaded"} /\ Fail("failed")
  /\ UNCHANGED <<status, jobVars, old, moneyVars, asset, upload, files, calls,
                 tx, closing, doomed, boundVars>>

\* _load_job_input_assets reads every referenced file.
LoadInputs ==
  /\ pc = "claimed"
  /\ IF inputs[wjob] \subseteq files THEN Goto("loaded") ELSE Fail("failed")
  /\ UNCHANGED <<status, jobVars, old, moneyVars, asset, upload, files, calls,
                 tx, closing, doomed, boundVars>>

\* mark_provider_dispatched, then the HTTP request leaves.
Dispatch ==
  /\ pc = "loaded" /\ ~Locked(wjob)
  /\ IF status[wjob] = "running"
       THEN Goto("calling") /\ calls' = [calls EXCEPT ![wjob] = @ + 1]
       ELSE Fail("failed") /\ UNCHANGED calls
  /\ UNCHANGED <<status, jobVars, old, moneyVars, asset, upload, files, tx,
                 closing, doomed, boundVars>>

\* The provider answers with a valid image, which is stored.
StoreImage ==
  /\ pc = "calling" /\ Goto("stored")
  /\ files' = files \cup {wjob}
  /\ UNCHANGED <<status, jobVars, old, moneyVars, asset, upload, calls, tx,
                 closing, doomed, boundVars>>

\* Timeout, refusal, unusable image or failed write.
ProviderFails ==
  /\ pc = "calling" /\ \E how \in {"failed", "rejected"} : Fail(how)
  /\ UNCHANGED <<status, jobVars, old, moneyVars, asset, upload, files, calls,
                 tx, closing, doomed, boundVars>>

\* complete_job up to the flush; it refuses a job that is not running, and
\* the handler then removes the stored file and fails the job.
CompleteRead ==
  /\ pc = "stored" /\ tx[Worker] = None
  /\ IF status[wjob] = "running"
       THEN OpenTx(Worker, wjob, "succeeded") /\ UNCHANGED <<files, workerVars>>
       ELSE /\ ~Locked(wjob) /\ Fail("failed")
            /\ files' = files \ {wjob} /\ UNCHANGED tx
  /\ UNCHANGED <<status, jobVars, old, moneyVars, asset, upload, calls,
                 closing, doomed, boundVars>>

CompleteWrite ==
  /\ pc = "stored" /\ tx[Worker] # None
  /\ order'  = [order EXCEPT ![wjob] = IF tx[Worker].reserved THEN "completed" ELSE @]
  /\ asset'  = [asset EXCEPT ![wjob] = "live"]
  /\ status' = [status EXCEPT ![wjob] = "succeeded"]
  /\ old' = old \ {wjob}
  /\ Rest /\ CloseTx(Worker)
  /\ UNCHANGED <<jobVars, points, refunds, upload, files, calls, closing,
                 doomed, boundVars>>

\* _finish_failure: nothing happens to a job settled meanwhile.
FailRead ==
  /\ pc = "failing" /\ tx[Worker] = None
  /\ IF status[wjob] \in Terminal
       THEN ~Locked(wjob) /\ Rest /\ UNCHANGED tx
       ELSE OpenTx(Worker, wjob, verdict) /\ UNCHANGED workerVars
  /\ UNCHANGED <<status, jobVars, old, moneyVars, asset, upload, files, calls,
                 closing, doomed, boundVars>>

FailWrite ==
  /\ pc = "failing" /\ tx[Worker] # None
  /\ IF RefundExists(tx[Worker])
       THEN UNCHANGED <<status, old, moneyVars>>
       ELSE Refund(tx[Worker])
  /\ Rest /\ CloseTx(Worker)
  /\ UNCHANGED <<jobVars, asset, upload, files, calls, closing, doomed,
                 boundVars>>

\* cleanup_expired_assets: expired successes are marked, then unlinked.
Cleanup(S) ==
  /\ pc = "idle" /\ doomed[Worker] = {}
  /\ S # {} /\ \A j \in S : status[j] = "succeeded" /\ ~Locked(j)
  /\ status' = [j \in Jobs |-> IF j \in S THEN "deleted" ELSE status[j]]
  /\ Revoke(Worker, S)
  /\ UNCHANGED <<jobVars, old, moneyVars, upload, files, calls, workerVars, tx,
                 closing, boundVars>>

\* A database error of the worker: inside the try block it fails the job;
\* before it, or while the failure is recorded, it ends the iteration.
DbError ==
  /\ faults < MaxFaults /\ faults' = faults + 1
  /\ CASE pc \in {"loaded", "stored"} -> Fail("failed")
       [] pc \in {"claimed", "failing"} -> Rest
       [] pc = "recovering" -> pc' = "down" /\ UNCHANGED <<wjob, verdict>>
       [] OTHER -> FALSE
  /\ files' = IF pc = "stored" THEN files \ {wjob} ELSE files
  /\ CloseTx(Worker)
  /\ UNCHANGED <<status, jobVars, old, moneyVars, asset, upload, calls,
                 closing, doomed, crashes>>

-----------------------------------------------------------------------------
(* The life of the process.                                                *)

\* 300 s have passed since job j was claimed.
Age(j) ==
  /\ status[j] = "running" /\ j \notin old /\ pc # "recovering"
  /\ old' = old \cup {j}
  /\ UNCHANGED <<status, jobVars, moneyVars, asset, upload, files, calls,
                 workerVars, tx, closing, doomed, boundVars>>

Crash ==
  /\ pc # "down" /\ crashes < MaxCrashes
  /\ crashes' = crashes + 1
  /\ pc' = "down" /\ wjob' = None /\ verdict' = "failed"
  /\ tx' = [p \in Procs |-> None]
  /\ closing' = [c \in Clients |-> None]
  /\ doomed' = [p \in Procs |-> {}]
  /\ UNCHANGED <<status, jobVars, old, moneyVars, asset, upload, files, calls,
                 faults>>

Running == {j \in Jobs : status[j] = "running"}

\* stale_running_job_ids; the faulty variant finds none.
AbandonedNone == Running \ Jobs
Abandoned == Running \cap old

Start ==
  /\ pc = "down" /\ Goto("recovering")
  /\ PromptRestart \/ Running \subseteq old
  /\ UNCHANGED <<status, jobVars, old, moneyVars, asset, upload, files, calls,
                 tx, closing, doomed, boundVars>>

\* recover_abandoned_jobs, before the first request is served.
RecoverJob(j) ==
  /\ pc = "recovering" /\ j \in Abandoned
  /\ Refund([job |-> j, to |-> "failed", balance |-> points[owner[j]],
             reserved |-> order[j] = "reserved"])
  /\ UNCHANGED <<jobVars, asset, upload, files, calls, workerVars, tx, closing,
                 doomed, boundVars>>

RecoveryDone ==
  /\ pc = "recovering" /\ Abandoned = {} /\ Goto("idle")
  /\ UNCHANGED <<status, jobVars, old, moneyVars, asset, upload, files, calls,
                 tx, closing, doomed, boundVars>>

-----------------------------------------------------------------------------
InputSets == {S \in SUBSET (Uploads \cup Jobs) : Cardinality(S) <= MaxInputs}

ClientStep(c) ==
  \/ \E j \in Jobs : CancelRead(c, j) \/ DeleteJob(c, j)
  \/ CancelWrite(c) \/ CancelConflict(c)
  \/ \E i \in Uploads : DeleteInputCheck(c, i)
  \/ DeleteInputCommit(c)

Submit ==
  \/ \E u \in Users, j \in Jobs, k \in Keys, c \in Costs, S \in InputSets :
       CreateJob(u, j, k, c, S)
  \/ \E u \in Users, i \in Uploads : UploadImage(u, i)

WorkerStep ==
  \/ \E j \in Jobs : Claim(j)
  \/ PrepareFails \/ LoadInputs \/ Dispatch
  \/ StoreImage \/ ProviderFails
  \/ CompleteRead \/ CompleteWrite
  \/ FailRead \/ FailWrite

Boot == Start \/ (\E j \in Jobs : RecoverJob(j)) \/ RecoveryDone

Remove(p) == \E f \in Jobs \cup Uploads : RemoveFile(p, f)

Next ==
  \/ Submit
  \/ \E c \in Clients : ClientStep(c)
  \/ \E p \in Procs : Remove(p)
  \/ WorkerStep \/ \E S \in SUBSET Jobs : Cleanup(S)
  \/ Boot \/ DbError \/ Crash \/ NewDay
  \/ \E j \in Jobs : Age(j)

Spec == Init /\ [][Next]_vars

\* The worker loop keeps polling and the provider call has a timeout of at
\* most 300 s; a transaction once flushed ends; the container runtime restarts
\* the process; time passes.  Nothing makes clients, faults or crashes occur.
Fairness ==
  /\ WF_vars(WorkerStep) /\ WF_vars(Boot)
  /\ \A p \in Procs : WF_vars(Remove(p))
  /\ \A c \in Clients : WF_vars(CancelWrite(c) \/ CancelConflict(c))
  /\ \A j \in Jobs : WF_vars(Age(j))

FairSpec == Spec /\ Fairness

-----------------------------------------------------------------------------
(* Properties.                                                             *)

\* Types of the rows, the disk and the processes; in particular no sequence
\* of reservations makes a balance negative.
TypeOK ==
  /\ status \in [Jobs -> Statuses]
  /\ owner \in [Jobs -> Users \cup {None}] /\ key \in [Jobs -> Keys \cup {None}]
  /\ cost \in [Jobs -> Nat] /\ inputs \in [Jobs -> SUBSET (Uploads \cup Jobs)]
  /\ born \in [Jobs -> Nat] /\ today \subseteq Jobs /\ old \subseteq Jobs
  /\ points \in [Users -> Nat]
  /\ order \in [Jobs -> Orders] /\ refunds \in [Jobs -> Nat]
  /\ asset \in [Jobs -> {"none", "live", "deleted"}]
  /\ upload \in [Uploads -> [owner: Users \cup {None}, live: BOOLEAN]]
  /\ files \subseteq Jobs \cup Uploads /\ calls \in [Jobs -> Nat]
  /\ pc \in Phases /\ wjob \in Jobs \cup {None}
  /\ verdict \in {"failed", "rejected"}
  /\ tx \in [Procs -> TxRecord \cup {None}]
  /\ closing \in [Clients -> Uploads \cup {None}]
  /\ doomed \in [Procs -> SUBSET (Jobs \cup Uploads)]
  /\ crashes \in Nat /\ faults \in Nat

\* What the books say of job j: its points are held, kept or returned.
Held(j)     == /\ order[j] = (IF cost[j] > 0 THEN "reserved" ELSE "none")
               /\ refunds[j] = 0 /\ asset[j] = "none"
Kept(j)     == /\ order[j] = (IF cost[j] > 0 THEN "completed" ELSE "none")
               /\ refunds[j] = 0 /\ asset[j] # "none"
Returned(j) == /\ order[j] = (IF cost[j] > 0 THEN "refunded" ELSE "none")
               /\ refunds[j] = (IF cost[j] > 0 THEN 1 ELSE 0)
               /\ asset[j] = "none"

\* Whatever cancels, worker failures, recoveries and deletions overlap, a job
\* holds its points while it is active, keeps them exactly when an image was
\* delivered, and returns them exactly once otherwise.
Settlement ==
  \A j \in Jobs :
    /\ status[j] = "absent" => order[j] = "none" /\ refunds[j] = 0 /\ asset[j] = "none"
    /\ status[j] \in Active => Held(j)
    /\ status[j] = "succeeded" => Kept(j) /\ asset[j] = "live"
    /\ status[j] \in Refused => Returned(j)
    /\ status[j] = "deleted" => (Kept(j) \/ Returned(j)) /\ asset[j] # "live"

\* No user has more active jobs than the policy allows.
ActiveWithinLimit ==
  \A u \in Users :
    Cardinality({j \in Jobs : owner[j] = u /\ status[j] \in {"queued", "running"}})
      <= ActiveLimit

\* The points of user u that jobs hold or have kept, counted one by one.
Paying(u) == {j \in Jobs : owner[j] = u /\ (status[j] \in Active \/ asset[j] # "none")}
Spent(u)  == Cardinality(UNION {{j} \X (1..cost[j]) : j \in Paying(u)})

\* The balance of a user and the points held or kept by the jobs of that user
\* always add up to what the user started with: no refund is lost.
PointsConserved == \A u \in Users : points[u] + Spent(u) = InitialPoints

\* The provider is asked at most once for a job, across crashes, restarts,
\* database errors and recoveries.
AtMostOneCall == \A j \in Jobs : calls[j] <= 1

\* An output that can still be opened has its file on disk, whatever deletes
\* and clean-ups are under way.
LiveOutputHasFile == \A j \in Jobs : asset[j] = "live" => j \in files

\* A running job is not cancelled, and a settled job is only ever deleted.
StatusOrder ==
  [][\A j \in Jobs :
       /\ status[j] = "running" => status'[j] # "cancelled"
       /\ status[j] \in Terminal => status'[j] \in {status[j], "deleted"}]_vars

\* A running job is never cancelled.
RunningNotCancelled ==
  [][\A j \in Jobs : status[j] = "running" => status'[j] # "cancelled"]_vars

\* The job as its owner sees it: an image once delivered stays delivered,
\* even when it is deleted later.
Outcome == [j \in Jobs |->
  IF asset[j] # "none" THEN "delivered"
  ELSE IF status[j] = "absent" THEN "none"
  ELSE IF status[j] \in Active THEN "open" ELSE "abandoned"]

Contract == INSTANCE ImageJobContract WITH outcome <- Outcome, money <- order

\* Jobs keep the contract with their owners: one settlement, and the money
\* moves in the step that decides about the image.
KeepsContract == Contract!Spec

\* Every job that is submitted is settled.
EveryJobSettles ==
  \A j \in Jobs : status[j] \in Active ~> status[j] \in Terminal
=============================================================================
