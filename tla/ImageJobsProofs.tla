-------------------------- MODULE ImageJobsProofs --------------------------
(***************************************************************************)
(* Proofs about ImageJobs, for every number of jobs, users and clients.    *)
(***************************************************************************)
EXTENDS ImageJobs, FiniteSetTheorems, TLAPS

\* A job row has an owner, the worker is busy with an existing job, and no
\* transaction is open before requests are served.
OwnedJobs == \A j \in Jobs : status[j] # "absent" => owner[j] \in Users
WorkPhases == {"claimed", "loaded", "calling", "stored", "failing"}
BusyWorker ==
  /\ pc \in WorkPhases => wjob \in Jobs /\ status[wjob] # "absent"
  /\ tx[Worker] # None => pc \in {"stored", "failing"}
  /\ pc \in {"down", "recovering"} => \A p \in Procs : tx[p] = None
\* A settling transaction is about an existing job.
OpenTxs == \A p \in Procs : tx[p] # None => status[tx[p].job] # "absent"
Typed == TypeOK /\ OwnedJobs /\ BusyWorker /\ OpenTxs

LEMMA TypedInit == Init => Typed
  BY ImageJobsAssumption
  DEF Init, Typed, TypeOK, OwnedJobs, BusyWorker, OpenTxs, WorkPhases, Procs, Statuses, Active,
      Terminal, Refused, Orders, Phases

USE DEF Statuses, Active, Terminal, Refused, Orders, Phases, Procs, WorkPhases,
        jobVars, moneyVars, workerVars, boundVars

LEMMA TypedCreate ==
  ASSUME Typed, NEW u \in Users, NEW j \in Jobs, NEW k \in Keys,
         NEW c \in Costs, NEW S \in InputSets, CreateJob(u, j, k, c, S)
  PROVE  Typed'
<1>1. Cardinality({i \in Jobs : Exists(i)}) \in Nat
  <2>1. IsFiniteSet({i \in Jobs : Exists(i)})
    BY FS_Subset, ImageJobsAssumption
  <2> QED BY <2>1, FS_CardinalityType
<1>2. c \in Nat /\ points[u] \in Nat /\ points[u] - c \in Nat
  BY ImageJobsAssumption DEF CreateJob, Affordable, Typed, TypeOK
<1>3. TypeOK'
  BY <1>1, <1>2 DEF CreateJob, Typed, TypeOK, InputSets
<1>4. OwnedJobs'
  BY DEF CreateJob, Typed, TypeOK, OwnedJobs
<1>5. BusyWorker'
  BY DEF CreateJob, Typed, TypeOK, BusyWorker
<1>6. OpenTxs'
  BY DEF CreateJob, Typed, TypeOK, OpenTxs
<1> QED BY <1>3, <1>4, <1>5, <1>6 DEF Typed

LEMMA TypedOpenTx ==
  ASSUME Typed, NEW p \in Procs, NEW j \in Jobs, status[j] # "absent",
         NEW to \in Refused \cup {"succeeded"}, OpenTx(p, j, to)
  PROVE  /\ tx' \in [Procs -> TxRecord \cup {None}]
         /\ \A q \in Procs : tx'[q] # None => status[tx'[q].job] # "absent"
         /\ \A q \in Procs \ {p} : tx'[q] = tx[q]
<1>1. owner[j] \in Users /\ points[owner[j]] \in Nat
  BY DEF Typed, TypeOK, OwnedJobs
<1>2. [job |-> j, to |-> to, balance |-> points[owner[j]],
       reserved |-> order[j] = "reserved"] \in TxRecord
  BY <1>1 DEF TxRecord
<1> QED BY <1>2 DEF OpenTx, Typed, TypeOK, OpenTxs

LEMMA TypedRefund ==
  ASSUME Typed, NEW t \in TxRecord, Refund(t), UNCHANGED owner
  PROVE  /\ status' \in [Jobs -> Statuses] /\ old' \subseteq Jobs
         /\ points' \in [Users -> Nat] /\ order' \in [Jobs -> Orders]
         /\ refunds' \in [Jobs -> Nat]
         /\ \A i \in Jobs : status'[i] # "absent" <=> status[i] # "absent" \/ i = t.job
<1>1. /\ t.job \in Jobs /\ t.to \in Statuses /\ t.to # "absent"
      /\ t.balance \in Nat
  BY DEF TxRecord
<1>2. /\ status' \in [Jobs -> Statuses] /\ old' \subseteq Jobs
      /\ \A i \in Jobs : status'[i] # "absent" <=> status[i] # "absent" \/ i = t.job
  BY <1>1 DEF Refund, Typed, TypeOK
<1>3. cost[t.job] \in Nat /\ refunds[t.job] \in Nat
  BY <1>1 DEF Typed, TypeOK
<1>4. /\ points' \in [Users -> Nat] /\ order' \in [Jobs -> Orders]
      /\ refunds' \in [Jobs -> Nat]
  <2>1. CASE t.reserved
    <3>1. t.balance + cost[t.job] \in Nat /\ refunds[t.job] + 1 \in Nat
      BY <1>1, <1>3
    <3>2. points' \in [Users -> Nat]
      BY <2>1, <3>1 DEF Refund, Typed, TypeOK
    <3>3. order' \in [Jobs -> Orders] /\ refunds' \in [Jobs -> Nat]
      BY <2>1, <3>1 DEF Refund, Typed, TypeOK
    <3> QED BY <3>2, <3>3
  <2>2. CASE ~t.reserved
    BY <2>2 DEF Refund, Typed, TypeOK
  <2> QED BY <2>1, <2>2
<1> QED BY <1>2, <1>4

\* Steps of the clients.
LEMMA TypedClient ==
  ASSUME Typed, NEW c \in Clients, ClientStep(c)
  PROVE  Typed'
<1>1. Worker \notin Clients /\ c # Worker
  BY ImageJobsAssumption
<1>2. ASSUME NEW j \in Jobs, CancelRead(c, j) PROVE Typed'
  <2>1. /\ tx' \in [Procs -> TxRecord \cup {None}] /\ tx'[Worker] = tx[Worker]
        /\ \A q \in Procs : tx'[q] # None => status[tx'[q].job] # "absent"
    BY <1>1, <1>2, TypedOpenTx DEF CancelRead
  <2> QED BY <1>2, <2>1 DEF CancelRead, Serving, Typed, TypeOK, OwnedJobs, BusyWorker, OpenTxs
<1>3. ASSUME NEW j \in Jobs, DeleteJob(c, j) PROVE Typed'
  BY <1>3 DEF DeleteJob, Revoke, Typed, TypeOK, OwnedJobs, BusyWorker, OpenTxs
<1>4. CASE CancelWrite(c)
  <2>1. tx[c] \in TxRecord
    BY <1>4 DEF CancelWrite, Typed, TypeOK
  <2>2. /\ status' \in [Jobs -> Statuses] /\ old' \subseteq Jobs
        /\ points' \in [Users -> Nat] /\ order' \in [Jobs -> Orders]
        /\ refunds' \in [Jobs -> Nat]
        /\ \A i \in Jobs : status'[i] # "absent" <=> status[i] # "absent" \/ i = tx[c].job
    BY <1>4, <2>1, TypedRefund DEF CancelWrite
  <2>3. TypeOK'
    BY <1>4, <2>2 DEF CancelWrite, CloseTx, Typed, TypeOK
  <2>4. OwnedJobs'
    BY <1>4, <2>1, <2>2 DEF CancelWrite, Typed, OwnedJobs, OpenTxs
  <2>5. BusyWorker'
    BY <1>1, <1>4, <2>2 DEF CancelWrite, CloseTx, Typed, TypeOK, BusyWorker
  <2>6. OpenTxs'
    BY <1>4, <2>2 DEF CancelWrite, CloseTx, Typed, TypeOK, OpenTxs, TxRecord
  <2> QED BY <2>3, <2>4, <2>5, <2>6 DEF Typed
<1>5. CASE CancelConflict(c)
  BY <1>1, <1>5 DEF CancelConflict, CloseTx, Typed, TypeOK, OwnedJobs, BusyWorker, OpenTxs
<1>6. ASSUME NEW i \in Uploads, DeleteInputCheck(c, i) PROVE Typed'
  BY <1>6 DEF DeleteInputCheck, Typed, TypeOK, OwnedJobs, BusyWorker, OpenTxs
<1>7. CASE DeleteInputCommit(c)
  <2>1. closing[c] \in Uploads /\ upload[closing[c]] \in [owner: Users \cup {None}, live: BOOLEAN]
    BY <1>7 DEF DeleteInputCommit, Typed, TypeOK
  <2>3. upload' \in [Uploads -> [owner: Users \cup {None}, live: BOOLEAN]]
    BY <1>7, <2>1 DEF DeleteInputCommit, Typed, TypeOK
  <2> QED BY <1>7, <2>1, <2>3 DEF DeleteInputCommit, Typed, TypeOK, OwnedJobs, BusyWorker, OpenTxs
<1> QED BY <1>2, <1>3, <1>4, <1>5, <1>6, <1>7 DEF ClientStep

\* Steps of the worker.
LEMMA TypedWorker ==
  ASSUME Typed, WorkerStep
  PROVE  Typed'
<1>1. ASSUME NEW j \in Jobs, Claim(j) PROVE Typed'
  BY <1>1 DEF Claim, Queued, Typed, TypeOK, OwnedJobs, BusyWorker, OpenTxs
<1>2. CASE PrepareFails
  BY <1>2 DEF PrepareFails, Fail, Typed, TypeOK, OwnedJobs, BusyWorker, OpenTxs
<1>3. CASE LoadInputs
  BY <1>3 DEF LoadInputs, Goto, Fail, Typed, TypeOK, OwnedJobs, BusyWorker, OpenTxs
<1>4. CASE Dispatch
  BY <1>4 DEF Dispatch, Goto, Fail, Typed, TypeOK, OwnedJobs, BusyWorker, OpenTxs
<1>5. CASE StoreImage
  BY <1>5 DEF StoreImage, Goto, Typed, TypeOK, OwnedJobs, BusyWorker, OpenTxs
<1>6. CASE ProviderFails
  BY <1>6 DEF ProviderFails, Fail, Typed, TypeOK, OwnedJobs, BusyWorker, OpenTxs
<1>7. CASE CompleteRead
  <2>1. wjob \in Jobs /\ status[wjob] # "absent"
    BY <1>7 DEF CompleteRead, Typed, BusyWorker
  <2>2. CASE status[wjob] = "running"
    <3>1. /\ tx' \in [Procs -> TxRecord \cup {None}]
          /\ \A q \in Procs : tx'[q] # None => status[tx'[q].job] # "absent"
      BY <1>7, <2>1, <2>2, TypedOpenTx DEF CompleteRead
    <3> QED BY <1>7, <2>2, <3>1
            DEF CompleteRead, Typed, TypeOK, OwnedJobs, BusyWorker, OpenTxs
  <2>3. CASE status[wjob] # "running"
    BY <1>7, <2>1, <2>3
    DEF CompleteRead, Fail, Typed, TypeOK, OwnedJobs, BusyWorker, OpenTxs
  <2> QED BY <2>2, <2>3
<1>8. CASE CompleteWrite
  BY <1>8 DEF CompleteWrite, Rest, CloseTx, Typed, TypeOK, OwnedJobs, BusyWorker, OpenTxs
<1>9. CASE FailRead
  <2>1. wjob \in Jobs /\ status[wjob] # "absent"
    BY <1>9 DEF FailRead, Typed, BusyWorker
  <2>2. CASE status[wjob] \in Terminal
    BY <1>9, <2>2 DEF FailRead, Rest, Typed, TypeOK, OwnedJobs, BusyWorker, OpenTxs
  <2>3. CASE status[wjob] \notin Terminal
    <3>1. verdict \in Refused
      BY DEF Typed, TypeOK
    <3>2. /\ tx' \in [Procs -> TxRecord \cup {None}]
          /\ \A q \in Procs : tx'[q] # None => status[tx'[q].job] # "absent"
      BY <1>9, <2>1, <2>3, <3>1, TypedOpenTx DEF FailRead
    <3> QED BY <1>9, <2>3, <3>2
            DEF FailRead, Typed, TypeOK, OwnedJobs, BusyWorker, OpenTxs
  <2> QED BY <2>2, <2>3
<1>10. CASE FailWrite
  <2>1. tx[Worker] \in TxRecord /\ status[tx[Worker].job] # "absent"
    BY <1>10 DEF FailWrite, Typed, TypeOK, OpenTxs
  <2>2. /\ status' \in [Jobs -> Statuses] /\ old' \subseteq Jobs
        /\ points' \in [Users -> Nat] /\ order' \in [Jobs -> Orders]
        /\ refunds' \in [Jobs -> Nat]
        /\ \A i \in Jobs : status'[i] # "absent" <=> status[i] # "absent"
    <3>1. CASE RefundExists(tx[Worker])
      BY <1>10, <3>1 DEF FailWrite, Typed, TypeOK
    <3>2. CASE ~RefundExists(tx[Worker])
      BY <1>10, <2>1, <3>2, TypedRefund DEF FailWrite
    <3> QED BY <3>1, <3>2
  <2>3. TypeOK'
    BY <1>10, <2>2 DEF FailWrite, Rest, CloseTx, Typed, TypeOK
  <2>4. OwnedJobs' /\ BusyWorker'
    BY <1>10, <2>2 DEF FailWrite, Rest, CloseTx, Typed, TypeOK, OwnedJobs, BusyWorker
  <2>5. OpenTxs'
    BY <1>10, <2>2 DEF FailWrite, CloseTx, Typed, TypeOK, OpenTxs, TxRecord
  <2> QED BY <2>3, <2>4, <2>5 DEF Typed
<1> QED BY <1>1, <1>2, <1>3, <1>4, <1>5, <1>6, <1>7, <1>8, <1>9, <1>10 DEF WorkerStep

\* Restart, recovery, crash, clean-up, clock and file removal.
LEMMA TypedOther ==
  ASSUME Typed,
         \/ \E u \in Users, i \in Uploads : UploadImage(u, i)
         \/ \E p \in Procs : Remove(p)
         \/ \E S \in SUBSET Jobs : Cleanup(S)
         \/ Boot \/ DbError \/ Crash \/ NewDay
         \/ \E j \in Jobs : Age(j)
  PROVE  Typed'
<1>1. ASSUME NEW u \in Users, NEW i \in Uploads, UploadImage(u, i) PROVE Typed'
  BY <1>1 DEF UploadImage, Typed, TypeOK, OwnedJobs, BusyWorker, OpenTxs
<1>2. ASSUME NEW p \in Procs, NEW f \in Jobs \cup Uploads, RemoveFile(p, f)
      PROVE Typed'
  BY <1>2 DEF RemoveFile, Typed, TypeOK, OwnedJobs, BusyWorker, OpenTxs
<1>3. ASSUME NEW S \in SUBSET Jobs, Cleanup(S) PROVE Typed'
  <2>1. /\ status' \in [Jobs -> Statuses]
        /\ \A j \in Jobs : status'[j] = "absent" <=> status[j] = "absent"
    BY <1>3 DEF Cleanup, Typed, TypeOK
  <2>2. /\ asset' \in [Jobs -> {"none", "live", "deleted"}]
        /\ doomed' \in [Procs -> SUBSET (Jobs \cup Uploads)]
    BY <1>3 DEF Cleanup, Revoke, Typed, TypeOK
  <2>3. TypeOK'
    BY <1>3, <2>1, <2>2 DEF Cleanup, Typed, TypeOK
  <2>4. OwnedJobs' /\ BusyWorker' /\ OpenTxs'
    BY <1>3, <2>1 DEF Cleanup, Typed, TypeOK, OwnedJobs, BusyWorker, OpenTxs, TxRecord
  <2> QED BY <2>3, <2>4 DEF Typed
<1>4. CASE Start
  BY <1>4 DEF Start, Goto, Typed, TypeOK, OwnedJobs, BusyWorker, OpenTxs
<1>5. ASSUME NEW j \in Jobs, RecoverJob(j) PROVE Typed'
  <2> DEFINE t == [job |-> j, to |-> "failed", balance |-> points[owner[j]],
                   reserved |-> order[j] = "reserved"]
  <2>1. status[j] = "running" /\ owner[j] \in Users
    BY <1>5 DEF RecoverJob, Abandoned, Running, Typed, OwnedJobs
  <2>2. t \in TxRecord /\ t.job = j
    BY <2>1 DEF TxRecord, Typed, TypeOK
  <2>3. Refund(t) /\ UNCHANGED owner
    BY <1>5 DEF RecoverJob
  <2> HIDE DEF t
  <2>4. /\ status' \in [Jobs -> Statuses] /\ old' \subseteq Jobs
        /\ points' \in [Users -> Nat] /\ order' \in [Jobs -> Orders]
        /\ refunds' \in [Jobs -> Nat]
        /\ \A i \in Jobs : status'[i] # "absent" <=> status[i] # "absent"
    BY <2>1, <2>2, <2>3, TypedRefund
  <2>5. TypeOK'
    BY <1>5, <2>4 DEF RecoverJob, Typed, TypeOK
  <2>6. OwnedJobs' /\ BusyWorker' /\ OpenTxs'
    BY <1>5, <2>4 DEF RecoverJob, Typed, TypeOK, OwnedJobs, BusyWorker, OpenTxs, TxRecord
  <2> QED BY <2>5, <2>6 DEF Typed
<1>6. CASE RecoveryDone
  BY <1>6 DEF RecoveryDone, Goto, Typed, TypeOK, OwnedJobs, BusyWorker, OpenTxs
<1>7. CASE DbError
  <2>1. pc \in Phases /\ pc # "down" /\ pc # "idle" /\ pc # "calling"
    BY <1>7 DEF DbError, Typed, TypeOK
  <2>2. \/ pc \in {"loaded", "stored"} /\ Fail("failed")
        \/ pc \in {"claimed", "failing"} /\ Rest
        \/ pc = "recovering" /\ pc' = "down" /\ UNCHANGED <<wjob, verdict>>
    BY <1>7 DEF DbError
  <2>3. tx' \in [Procs -> TxRecord \cup {None}] /\ tx'[Worker] = None
        /\ \A p \in Procs : tx'[p] # None => tx'[p] = tx[p]
    BY <1>7 DEF DbError, CloseTx, Typed, TypeOK
  <2>4. TypeOK'
    BY <1>7, <2>2, <2>3 DEF DbError, Fail, Rest, Typed, TypeOK
  <2>5. OwnedJobs' /\ OpenTxs'
    BY <1>7, <2>3 DEF DbError, Typed, OwnedJobs, OpenTxs
  <2>6. BusyWorker'
    BY <1>7, <2>2, <2>3 DEF DbError, Fail, Rest, Typed, BusyWorker
  <2> QED BY <2>4, <2>5, <2>6 DEF Typed
<1>8. CASE Crash
  BY <1>8 DEF Crash, Typed, TypeOK, OwnedJobs, BusyWorker, OpenTxs
<1>9. CASE NewDay
  BY <1>9 DEF NewDay, Typed, TypeOK, OwnedJobs, BusyWorker, OpenTxs
<1>10. ASSUME NEW j \in Jobs, Age(j) PROVE Typed'
  BY <1>10 DEF Age, Typed, TypeOK, OwnedJobs, BusyWorker, OpenTxs
<1> QED BY <1>1, <1>2, <1>3, <1>4, <1>5, <1>6, <1>7, <1>8, <1>9, <1>10
        DEF Remove, Boot

LEMMA TypedNext == Typed /\ [Next]_vars => Typed'
<1> SUFFICES ASSUME Typed, [Next]_vars PROVE Typed'
  OBVIOUS
<1>1. CASE Next
  BY <1>1, TypedCreate, TypedClient, TypedWorker, TypedOther DEF Next, Submit
<1>2. CASE UNCHANGED vars
  BY <1>2 DEF vars, Typed, TypeOK, OwnedJobs, BusyWorker, OpenTxs
<1> QED BY <1>1, <1>2

LEMMA AlwaysTyped == Spec => []Typed
  BY TypedInit, TypedNext, PTL DEF Spec

\* The rows, the disk and the processes always have their types; balances in
\* particular never become negative, whatever reservations and refunds overlap.
THEOREM TypeCorrect == Spec => []TypeOK
<1>1. Typed => TypeOK
  BY DEF Typed
<1> QED BY <1>1, AlwaysTyped, PTL

-----------------------------------------------------------------------------
(* Settlement, where FOR UPDATE locks the row.  The strengthening says what *)
(* an open settling transaction knows: the lock keeps its snapshot current. *)

SnapshotCurrent ==
  \A p \in Procs : tx[p] # None =>
    /\ status[tx[p].job] \in Active
    /\ tx[p].reserved <=> cost[tx[p].job] > 0
WorkerTx ==
  tx[Worker] # None =>
    /\ tx[Worker].job = wjob
    /\ pc = "stored" => tx[Worker].to = "succeeded"
    /\ pc = "failing" => tx[Worker].to \in {"failed", "rejected"}
ClientTx ==
  \A c \in Clients : tx[c] # None =>
    tx[c].to = "cancelled" /\ status[tx[c].job] = "queued"
OneTxPerJob ==
  \A p, q \in Procs :
    tx[p] # None /\ tx[q] # None /\ tx[p].job = tx[q].job => p = q
WorkingIsRunning == pc \in WorkPhases => status[wjob] = "running"

SettleInv ==
  /\ Typed /\ Settlement /\ SnapshotCurrent /\ WorkerTx /\ ClientTx
  /\ OneTxPerJob /\ WorkingIsRunning

LEMMA SettleInit == Init => SettleInv
<1> SUFFICES ASSUME Init PROVE SettleInv
  OBVIOUS
<1>1. Typed
  BY TypedInit
<1>2. Settlement
  BY DEF Init, Settlement, Held, Kept, Returned
<1>3. SnapshotCurrent /\ WorkerTx /\ ClientTx /\ OneTxPerJob /\ WorkingIsRunning
  BY DEF Init, SnapshotCurrent, WorkerTx, ClientTx, OneTxPerJob, WorkingIsRunning
<1> QED BY <1>1, <1>2, <1>3 DEF SettleInv

\* Steps that touch neither the books nor the open transactions.
LEMMA SettleFrame ==
  ASSUME SettleInv, Typed', UNCHANGED <<status, cost, order, refunds, asset, tx>>,
         WorkerTx', WorkingIsRunning'
  PROVE  SettleInv'
<1>1. Settlement'
  BY DEF SettleInv, Settlement, Held, Kept, Returned
<1>2. SnapshotCurrent' /\ ClientTx' /\ OneTxPerJob'
  BY DEF SettleInv, SnapshotCurrent, ClientTx, OneTxPerJob
<1> QED BY <1>1, <1>2 DEF SettleInv

\* A refund settles exactly the active job it is about.
LEMMA RefundSettles ==
  ASSUME SettleInv, NEW t \in TxRecord, Refund(t), t.to \in Refused,
         status[t.job] \in Active, t.reserved <=> cost[t.job] > 0,
         UNCHANGED <<cost, asset>>
  PROVE  /\ Settlement'
         /\ \A i \in Jobs \ {t.job} : status'[i] = status[i]
<1>1. t.job \in Jobs /\ Held(t.job)
  BY DEF TxRecord, SettleInv, Settlement
<1>2. /\ status'[t.job] = t.to
      /\ \A i \in Jobs \ {t.job} : /\ status'[i] = status[i]
                                   /\ order'[i] = order[i]
                                   /\ refunds'[i] = refunds[i]
  BY <1>1 DEF Refund, SettleInv, Typed, TypeOK
<1>3. Returned(t.job)'
  <2>1. order[t.job] \in Orders /\ refunds[t.job] \in Nat /\ cost[t.job] \in Nat
    BY <1>1 DEF SettleInv, Typed, TypeOK
  <2>2. CASE t.reserved
    <3>1. order'[t.job] = "refunded" /\ refunds'[t.job] = refunds[t.job] + 1
      BY <1>1, <2>2 DEF Refund, SettleInv, Typed, TypeOK
    <3> QED BY <1>1, <2>1, <2>2, <3>1 DEF Returned, Held
  <2>3. CASE ~t.reserved
    BY <1>1, <2>1, <2>3 DEF Refund, Returned, Held
  <2> QED BY <2>2, <2>3
<1>4. Settlement'
  BY <1>1, <1>2, <1>3 DEF SettleInv, Settlement, Held, Kept, Returned
<1> QED BY <1>2, <1>4

\* Opening a transaction on an active job nobody else settles.
LEMMA OpenTxFacts ==
  ASSUME SettleInv, RowLocks, NEW p \in Procs, NEW j \in Jobs, NEW to,
         status[j] \in Active, OpenTx(p, j, to), UNCHANGED <<status, cost>>
  PROVE  /\ tx'[p].job = j /\ tx'[p].to = to
         /\ \A q \in Procs \ {p} : tx'[q] = tx[q]
         /\ SnapshotCurrent' /\ OneTxPerJob'
<1>1. \A q \in Procs : tx[q] # None => tx[q].job # j
  BY DEF OpenTx, Locked
<1>2. /\ tx'[p] = [job |-> j, to |-> to, balance |-> points[owner[j]],
                   reserved |-> order[j] = "reserved"]
      /\ \A q \in Procs \ {p} : tx'[q] = tx[q]
  BY DEF OpenTx, SettleInv, Typed, TypeOK
<1>3. order[j] = "reserved" <=> cost[j] > 0
  BY DEF SettleInv, Settlement, Held
<1>4. SnapshotCurrent'
  <2>1. tx'[p].job = j /\ tx'[p].reserved = (order[j] = "reserved")
    BY <1>2
  <2>2. tx'[p].reserved <=> cost'[j] > 0
    BY <2>1, <1>3, Zenon
  <2>3. ASSUME NEW q \in Procs, tx'[q] # None
        PROVE  /\ status'[tx'[q].job] \in Active
               /\ tx'[q].reserved <=> cost'[tx'[q].job] > 0
    <3>1. CASE q = p
      BY <2>1, <2>2, <3>1, Zenon
    <3>2. CASE q # p
      BY <1>2, <2>3, <3>2, Zenon DEF SettleInv, SnapshotCurrent
    <3> QED BY <3>1, <3>2
  <2> QED BY <2>3, Zenon DEF SnapshotCurrent
<1>5. OneTxPerJob'
  BY <1>1, <1>2 DEF SettleInv, OneTxPerJob
<1> QED BY <1>2, <1>4, <1>5

\* Ending transactions never hurts what the others know.
LEMMA CloseTxFacts ==
  ASSUME SettleInv, NEW p \in Procs, CloseTx(p)
  PROVE  /\ tx'[p] = None
         /\ \A q \in Procs \ {p} : tx'[q] = tx[q]
         /\ OneTxPerJob'
  BY DEF CloseTx, SettleInv, Typed, TypeOK, OneTxPerJob

LEMMA SettleSubmit ==
  ASSUME SettleInv, Typed', Submit
  PROVE  SettleInv'
<1>1. ASSUME NEW u \in Users, NEW j \in Jobs, NEW k \in Keys, NEW c \in Costs,
             NEW S \in InputSets, CreateJob(u, j, k, c, S)
      PROVE  SettleInv'
  <2>1. /\ status[j] = "absent" /\ status'[j] = "queued"
        /\ c \in Nat /\ cost'[j] = c
        /\ order'[j] = (IF c > 0 THEN "reserved" ELSE "none")
        /\ UNCHANGED <<refunds, asset, tx, pc, wjob>>
        /\ \A i \in Jobs \ {j} : status'[i] = status[i] /\ cost'[i] = cost[i]
                                 /\ order'[i] = order[i]
    BY <1>1, ImageJobsAssumption DEF CreateJob, Exists, SettleInv, Typed, TypeOK
  <2>2. Held(j)'
    BY <2>1 DEF SettleInv, Settlement, Held
  <2>3. Settlement'
    BY <2>1, <2>2 DEF SettleInv, Settlement, Held, Kept, Returned
  <2>4. \A p \in Procs : tx[p] # None => tx[p].job # j /\ tx[p].job \in Jobs
    BY <2>1 DEF SettleInv, Typed, TypeOK, OpenTxs, TxRecord
  <2>5. SnapshotCurrent' /\ WorkerTx' /\ ClientTx' /\ OneTxPerJob'
    BY <2>1, <2>4 DEF SettleInv, SnapshotCurrent, WorkerTx, ClientTx, OneTxPerJob
  <2>6. WorkingIsRunning'
    BY <2>1 DEF SettleInv, Typed, BusyWorker, WorkingIsRunning
  <2> QED BY <2>3, <2>5, <2>6 DEF SettleInv
<1>2. ASSUME NEW u \in Users, NEW i \in Uploads, UploadImage(u, i)
      PROVE  SettleInv'
  BY <1>2, SettleFrame DEF UploadImage, SettleInv, WorkerTx, WorkingIsRunning
<1> QED BY <1>1, <1>2 DEF Submit

LEMMA SettleClient ==
  ASSUME SettleInv, Typed', RowLocks, NEW c \in Clients, ClientStep(c)
  PROVE  SettleInv'
<1>1. Worker \notin Clients /\ c \in Procs
  BY ImageJobsAssumption
<1>2. ASSUME NEW j \in Jobs, CancelRead(c, j) PROVE SettleInv'
  <2>1. /\ status[j] = "queued" /\ OpenTx(c, j, "cancelled")
        /\ UNCHANGED <<status, cost, order, refunds, asset, pc, wjob>>
    BY <1>2 DEF CancelRead
  <2>2. /\ tx'[c].job = j /\ tx'[c].to = "cancelled"
        /\ \A q \in Procs \ {c} : tx'[q] = tx[q]
        /\ SnapshotCurrent' /\ OneTxPerJob'
    BY <1>1, <2>1, OpenTxFacts
  <2>3. Settlement'
    BY <2>1 DEF SettleInv, Settlement, Held, Kept, Returned
  <2>4. WorkerTx' /\ ClientTx' /\ WorkingIsRunning'
    BY <1>1, <2>1, <2>2 DEF SettleInv, WorkerTx, ClientTx, WorkingIsRunning
  <2> QED BY <2>2, <2>3, <2>4 DEF SettleInv
<1>3. ASSUME NEW j \in Jobs, DeleteJob(c, j) PROVE SettleInv'
  <2>1. /\ status[j] \in Terminal /\ status'[j] = "deleted"
        /\ asset'[j] = (IF asset[j] = "live" THEN "deleted" ELSE asset[j])
        /\ UNCHANGED <<cost, order, refunds, tx, pc, wjob>>
        /\ \A i \in Jobs \ {j} : status'[i] = status[i] /\ asset'[i] = asset[i]
    BY <1>3 DEF DeleteJob, Revoke, SettleInv, Typed, TypeOK
  <2>2. Settlement'
    BY <2>1 DEF SettleInv, Settlement, Held, Kept, Returned
  <2>3. \A p \in Procs : tx[p] # None => tx[p].job # j /\ tx[p].job \in Jobs
    BY <2>1 DEF SettleInv, SnapshotCurrent, Typed, TypeOK, TxRecord
  <2>4. SnapshotCurrent' /\ WorkerTx' /\ ClientTx' /\ OneTxPerJob'
    BY <2>1, <2>3 DEF SettleInv, SnapshotCurrent, WorkerTx, ClientTx, OneTxPerJob
  <2>5. WorkingIsRunning'
    BY <2>1 DEF SettleInv, Typed, BusyWorker, WorkingIsRunning
  <2> QED BY <2>2, <2>4, <2>5 DEF SettleInv
<1>4. CASE CancelWrite(c)
  <2> DEFINE t == tx[c]
  <2>1. /\ t \in TxRecord /\ t.job \in Jobs /\ t.to = "cancelled"
        /\ status[t.job] = "queued"
        /\ t.reserved <=> cost[t.job] > 0
    BY <1>1, <1>4 DEF CancelWrite, SettleInv, Typed, TypeOK, TxRecord, ClientTx,
                      SnapshotCurrent
  <2>2. /\ Refund(t) /\ CloseTx(c) /\ UNCHANGED <<cost, asset, pc, wjob>>
    BY <1>4 DEF CancelWrite
  <2>3. Settlement' /\ \A i \in Jobs \ {t.job} : status'[i] = status[i]
    BY <2>1, <2>2, RefundSettles
  <2>4. /\ tx'[c] = None /\ \A q \in Procs \ {c} : tx'[q] = tx[q]
        /\ OneTxPerJob'
    BY <1>1, <2>2, CloseTxFacts
  <2>5. \A q \in Procs : tx'[q] # None =>
          tx'[q] = tx[q] /\ q # c /\ tx[q].job \in Jobs \ {t.job}
    BY <1>1, <1>4, <2>4 DEF CancelWrite, SettleInv, OneTxPerJob, Typed, TypeOK, TxRecord
  <2>6. SnapshotCurrent' /\ WorkerTx' /\ ClientTx'
    BY <2>2, <2>3, <2>5 DEF SettleInv, SnapshotCurrent, WorkerTx, ClientTx
  <2>7. WorkingIsRunning'
    BY <2>1, <2>2, <2>3 DEF SettleInv, Typed, BusyWorker, WorkingIsRunning
  <2> QED BY <2>3, <2>4, <2>6, <2>7 DEF SettleInv
<1>5. CASE CancelConflict(c)
  <2>1. tx[c] # None /\ RefundExists(tx[c])
    BY <1>5 DEF CancelConflict
  <2>2. tx[c].job \in Jobs /\ Held(tx[c].job)
    BY <1>1, <2>1 DEF SettleInv, Typed, TypeOK, TxRecord, SnapshotCurrent, Settlement
  <2> QED BY <2>1, <2>2 DEF RefundExists, Held
<1>6. ASSUME NEW i \in Uploads, DeleteInputCheck(c, i) PROVE SettleInv'
  BY <1>6, SettleFrame DEF DeleteInputCheck, SettleInv, WorkerTx, WorkingIsRunning
<1>7. CASE DeleteInputCommit(c)
  BY <1>7, SettleFrame DEF DeleteInputCommit, SettleInv, WorkerTx, WorkingIsRunning
<1> QED BY <1>2, <1>3, <1>4, <1>5, <1>6, <1>7 DEF ClientStep

LEMMA SettleWorker ==
  ASSUME SettleInv, Typed', RowLocks, WorkerStep
  PROVE  SettleInv'
<1>1. ASSUME NEW j \in Jobs, Claim(j) PROVE SettleInv'
  <2>1. /\ status[j] = "queued" /\ status'[j] = "running"
        /\ pc = "idle" /\ pc' = "claimed" /\ wjob' = j /\ ~Locked(j)
        /\ UNCHANGED <<cost, order, refunds, asset, tx>>
        /\ \A i \in Jobs \ {j} : status'[i] = status[i]
    BY <1>1 DEF Claim, Queued, SettleInv, Typed, TypeOK
  <2>2. \A p \in Procs : tx[p] # None => tx[p].job # j /\ tx[p].job \in Jobs
    BY <2>1 DEF Locked, SettleInv, Typed, TypeOK, TxRecord
  <2>3. Settlement'
    BY <2>1 DEF SettleInv, Settlement, Held, Kept, Returned
  <2>4. SnapshotCurrent' /\ ClientTx' /\ OneTxPerJob' /\ WorkingIsRunning'
    BY <2>1, <2>2 DEF SettleInv, SnapshotCurrent, ClientTx, OneTxPerJob, WorkingIsRunning
  <2>5. WorkerTx'
    BY <2>1 DEF SettleInv, Typed, BusyWorker, WorkerTx
  <2> QED BY <2>3, <2>4, <2>5 DEF SettleInv
<1>2. CASE PrepareFails \/ LoadInputs \/ Dispatch \/ StoreImage \/ ProviderFails
  <2>1. /\ pc \in {"claimed", "loaded", "calling"} /\ wjob' = wjob
        /\ UNCHANGED <<status, cost, order, refunds, asset, tx>>
    BY <1>2 DEF PrepareFails, LoadInputs, Dispatch, StoreImage, ProviderFails, Goto, Fail
  <2>2. WorkerTx' /\ WorkingIsRunning'
    BY <2>1 DEF SettleInv, Typed, BusyWorker, WorkerTx, WorkingIsRunning
  <2> QED BY <2>1, <2>2, SettleFrame
<1>3. CASE CompleteRead
  <2>1. /\ pc = "stored" /\ status[wjob] = "running" /\ wjob \in Jobs
        /\ OpenTx(Worker, wjob, "succeeded")
        /\ UNCHANGED <<status, cost, order, refunds, asset, pc, wjob>>
    BY <1>3 DEF CompleteRead, SettleInv, WorkingIsRunning, Typed, BusyWorker
  <2>2. /\ tx'[Worker].job = wjob /\ tx'[Worker].to = "succeeded"
        /\ \A q \in Procs \ {Worker} : tx'[q] = tx[q]
        /\ SnapshotCurrent' /\ OneTxPerJob'
    BY <2>1, OpenTxFacts
  <2>3. Settlement'
    BY <2>1 DEF SettleInv, Settlement, Held, Kept, Returned
  <2>4. WorkerTx' /\ ClientTx' /\ WorkingIsRunning'
    BY <2>1, <2>2, ImageJobsAssumption DEF SettleInv, WorkerTx, ClientTx, WorkingIsRunning
  <2> QED BY <2>2, <2>3, <2>4 DEF SettleInv
<1>4. CASE CompleteWrite
  <2>1. /\ tx[Worker] # None /\ tx[Worker].job = wjob /\ wjob \in Jobs
        /\ status[wjob] = "running" /\ (tx[Worker].reserved <=> cost[wjob] > 0)
        /\ cost[wjob] \in Nat
    BY <1>4 DEF CompleteWrite, SettleInv, WorkerTx, WorkingIsRunning, Typed,
                BusyWorker, SnapshotCurrent, TypeOK
  <2>2. /\ status'[wjob] = "succeeded" /\ asset'[wjob] = "live"
        /\ order'[wjob] = (IF cost[wjob] > 0 THEN "completed" ELSE order[wjob])
        /\ pc' = "idle" /\ CloseTx(Worker)
        /\ UNCHANGED <<cost, refunds>>
        /\ \A i \in Jobs \ {wjob} : /\ status'[i] = status[i] /\ asset'[i] = asset[i]
                                    /\ order'[i] = order[i]
    BY <1>4, <2>1 DEF CompleteWrite, Rest, SettleInv, Typed, TypeOK
  <2>3. PICK j \in Jobs : j = wjob
    BY <2>1
  <2>4. Settlement'
    <3>1. Held(j)
      BY <2>1, <2>3 DEF SettleInv, Settlement
    <3>2. Kept(j)'
      BY <2>1, <2>2, <2>3, <3>1 DEF Held, Kept
    <3> QED BY <2>1, <2>2, <2>3, <3>2 DEF SettleInv, Settlement, Held, Kept, Returned
  <2>5. /\ tx'[Worker] = None /\ \A q \in Procs \ {Worker} : tx'[q] = tx[q]
        /\ OneTxPerJob'
    BY <2>2, CloseTxFacts
  <2>6. \A q \in Procs : tx'[q] # None =>
          tx'[q] = tx[q] /\ tx[q].job \in Jobs \ {wjob}
    BY <2>1, <2>5 DEF SettleInv, OneTxPerJob, Typed, TypeOK, TxRecord
  <2>7. SnapshotCurrent' /\ WorkerTx' /\ ClientTx' /\ WorkingIsRunning'
    BY <2>2, <2>5, <2>6 DEF SettleInv, SnapshotCurrent, WorkerTx, ClientTx, WorkingIsRunning
  <2> QED BY <2>4, <2>5, <2>7 DEF SettleInv
<1>5. CASE FailRead
  <2>1. /\ pc = "failing" /\ status[wjob] = "running" /\ wjob \in Jobs
        /\ OpenTx(Worker, wjob, verdict) /\ verdict \in {"failed", "rejected"}
        /\ UNCHANGED <<status, cost, order, refunds, asset, pc, wjob>>
    BY <1>5 DEF FailRead, SettleInv, WorkingIsRunning, Typed, TypeOK, BusyWorker
  <2>2. /\ tx'[Worker].job = wjob /\ tx'[Worker].to = verdict
        /\ \A q \in Procs \ {Worker} : tx'[q] = tx[q]
        /\ SnapshotCurrent' /\ OneTxPerJob'
    BY <2>1, OpenTxFacts
  <2>3. Settlement'
    BY <2>1 DEF SettleInv, Settlement, Held, Kept, Returned
  <2>4. WorkerTx' /\ ClientTx' /\ WorkingIsRunning'
    BY <2>1, <2>2, ImageJobsAssumption DEF SettleInv, WorkerTx, ClientTx, WorkingIsRunning
  <2> QED BY <2>2, <2>3, <2>4 DEF SettleInv
<1>6. CASE FailWrite
  <2> DEFINE t == tx[Worker]
  <2>1. /\ t \in TxRecord /\ t.job = wjob /\ t.to \in Refused /\ wjob \in Jobs
        /\ status[t.job] = "running" /\ (t.reserved <=> cost[t.job] > 0)
        /\ Held(wjob)
    BY <1>6 DEF FailWrite, SettleInv, WorkerTx, WorkingIsRunning, Typed, TypeOK,
                BusyWorker, SnapshotCurrent, Settlement
  <2>2. ~RefundExists(t)
    BY <2>1 DEF RefundExists, Held
  <2>3. Refund(t) /\ CloseTx(Worker) /\ pc' = "idle" /\ UNCHANGED <<cost, asset>>
    BY <1>6, <2>2 DEF FailWrite, Rest
  <2>4. Settlement' /\ \A i \in Jobs \ {wjob} : status'[i] = status[i]
    BY <2>1, <2>3, RefundSettles
  <2>5. /\ tx'[Worker] = None /\ \A q \in Procs \ {Worker} : tx'[q] = tx[q]
        /\ OneTxPerJob'
    BY <2>3, CloseTxFacts
  <2>6. \A q \in Procs : tx'[q] # None =>
          tx'[q] = tx[q] /\ tx[q].job \in Jobs \ {wjob}
    BY <1>6, <2>1, <2>5 DEF FailWrite, SettleInv, OneTxPerJob, Typed, TypeOK, TxRecord
  <2>7. SnapshotCurrent' /\ WorkerTx' /\ ClientTx' /\ WorkingIsRunning'
    BY <2>3, <2>4, <2>5, <2>6
    DEF SettleInv, SnapshotCurrent, WorkerTx, ClientTx, WorkingIsRunning
  <2> QED BY <2>4, <2>5, <2>7 DEF SettleInv
<1> QED BY <1>1, <1>2, <1>3, <1>4, <1>5, <1>6 DEF WorkerStep

LEMMA SettleOther ==
  ASSUME SettleInv, Typed', RowLocks,
         \/ \E p \in Procs : Remove(p)
         \/ \E S \in SUBSET Jobs : Cleanup(S)
         \/ Boot \/ DbError \/ Crash \/ NewDay
         \/ \E j \in Jobs : Age(j)
  PROVE  SettleInv'
<1>1. CASE (\E p \in Procs : Remove(p)) \/ NewDay \/ \E j \in Jobs : Age(j)
  BY <1>1, SettleFrame
  DEF Remove, RemoveFile, NewDay, Age, SettleInv, WorkerTx, WorkingIsRunning
<1>2. ASSUME NEW S \in SUBSET Jobs, Cleanup(S) PROVE SettleInv'
  <2>1. /\ \A j \in S : status[j] = "succeeded"
        /\ \A j \in Jobs : status'[j] = IF j \in S THEN "deleted" ELSE status[j]
        /\ \A j \in Jobs : asset'[j] =
             IF j \in S /\ asset[j] = "live" THEN "deleted" ELSE asset[j]
        /\ pc = "idle" /\ UNCHANGED <<cost, order, refunds, tx, pc, wjob>>
    BY <1>2 DEF Cleanup, Revoke
  <2>2. Settlement'
    BY <2>1 DEF SettleInv, Settlement, Held, Kept, Returned
  <2>3. \A p \in Procs : tx[p] # None => tx[p].job \in Jobs \ S
    <3>1. ASSUME NEW p \in Procs, tx[p] # None
          PROVE  tx[p].job \in Jobs /\ status[tx[p].job] # "succeeded"
      BY <3>1 DEF SettleInv, SnapshotCurrent, Typed, TypeOK, TxRecord
    <3> QED BY <2>1, <3>1
  <2>4. SnapshotCurrent' /\ WorkerTx' /\ ClientTx' /\ OneTxPerJob' /\ WorkingIsRunning'
    BY <2>1, <2>3 DEF SettleInv, SnapshotCurrent, WorkerTx, ClientTx, OneTxPerJob,
                      WorkingIsRunning
  <2> QED BY <2>2, <2>4 DEF SettleInv
<1>3. CASE Start \/ RecoveryDone
  <2>1. /\ pc \notin WorkPhases /\ pc' \notin WorkPhases
        /\ UNCHANGED <<status, cost, order, refunds, asset, tx>>
    BY <1>3 DEF Start, RecoveryDone, Goto
  <2>2. WorkerTx' /\ WorkingIsRunning'
    BY <2>1 DEF SettleInv, Typed, BusyWorker, WorkerTx, WorkingIsRunning
  <2> QED BY <2>1, <2>2, SettleFrame
<1>4. ASSUME NEW j \in Jobs, RecoverJob(j) PROVE SettleInv'
  <2> DEFINE t == [job |-> j, to |-> "failed", balance |-> points[owner[j]],
                   reserved |-> order[j] = "reserved"]
  <2>1. /\ status[j] = "running" /\ pc = "recovering" /\ Refund(t)
        /\ UNCHANGED <<cost, asset, tx, pc, wjob>>
    BY <1>4 DEF RecoverJob, Abandoned, Running
  <2>2. t \in TxRecord /\ t.job = j /\ t.to = "failed"
    BY <2>1 DEF TxRecord, SettleInv, Typed, TypeOK, OwnedJobs
  <2>3. t.reserved = (order[j] = "reserved")
    OBVIOUS
  <2>4. order[j] = "reserved" <=> cost[j] > 0
    BY <2>1 DEF SettleInv, Settlement, Held
  <2>5. t.reserved <=> cost[t.job] > 0
    BY <2>2, <2>3, <2>4, Zenon
  <2> HIDE DEF t
  <2>6. Settlement' /\ \A i \in Jobs \ {j} : status'[i] = status[i]
    BY <2>1, <2>2, <2>5, RefundSettles
  <2>7. status'[j] = "failed"
    BY <2>1, <2>2 DEF Refund, SettleInv, Typed, TypeOK
  <2>8. \A p \in Procs : tx'[p] = None
    BY <2>1 DEF SettleInv, Typed, BusyWorker
  <2>9. SnapshotCurrent' /\ WorkerTx' /\ ClientTx' /\ OneTxPerJob' /\ WorkingIsRunning'
    BY <2>1, <2>8 DEF SnapshotCurrent, WorkerTx, ClientTx, OneTxPerJob, WorkingIsRunning
  <2> QED BY <2>6, <2>9 DEF SettleInv
<1>5. CASE DbError
  <2>1. UNCHANGED <<status, cost, order, refunds, asset>> /\ CloseTx(Worker)
    BY <1>5 DEF DbError
  <2>2. \/ pc \in WorkPhases /\ pc' = "failing" /\ wjob' = wjob
        \/ pc' \in {"idle", "down"}
    BY <1>5 DEF DbError, Fail, Rest
  <2>3. /\ tx'[Worker] = None /\ \A q \in Procs \ {Worker} : tx'[q] = tx[q]
        /\ OneTxPerJob'
    BY <2>1, CloseTxFacts
  <2>4. Settlement'
    BY <2>1 DEF SettleInv, Settlement, Held, Kept, Returned
  <2>5. SnapshotCurrent' /\ WorkerTx' /\ ClientTx' /\ WorkingIsRunning'
    BY <2>1, <2>2, <2>3
    DEF SettleInv, SnapshotCurrent, WorkerTx, ClientTx, WorkingIsRunning
  <2> QED BY <2>3, <2>4, <2>5 DEF SettleInv
<1>6. CASE Crash
  <2>1. /\ UNCHANGED <<status, cost, order, refunds, asset>> /\ pc' = "down"
        /\ \A p \in Procs : tx'[p] = None
    BY <1>6 DEF Crash
  <2>2. Settlement'
    BY <2>1 DEF SettleInv, Settlement, Held, Kept, Returned
  <2>3. SnapshotCurrent' /\ WorkerTx' /\ ClientTx' /\ OneTxPerJob' /\ WorkingIsRunning'
    BY <2>1 DEF SnapshotCurrent, WorkerTx, ClientTx, OneTxPerJob, WorkingIsRunning
  <2> QED BY <2>2, <2>3 DEF SettleInv
<1> QED BY <1>1, <1>2, <1>3, <1>4, <1>5, <1>6 DEF Boot

LEMMA SettleNext == RowLocks /\ SettleInv /\ [Next]_vars => SettleInv'
<1> SUFFICES ASSUME RowLocks, SettleInv, [Next]_vars PROVE SettleInv'
  OBVIOUS
<1>1. Typed'
  BY TypedNext DEF SettleInv
<1>2. CASE Next
  BY <1>1, <1>2, SettleSubmit, SettleClient, SettleWorker, SettleOther DEF Next
<1>3. CASE UNCHANGED vars
  <2>1. UNCHANGED <<status, cost, order, refunds, asset, tx, pc, wjob>>
    BY <1>3 DEF vars
  <2>2. WorkerTx' /\ WorkingIsRunning'
    BY <2>1 DEF SettleInv, WorkerTx, WorkingIsRunning
  <2> QED BY <1>1, <2>1, <2>2, SettleFrame
<1> QED BY <1>2, <1>3

LEMMA AlwaysSettled == ASSUME RowLocks PROVE Spec => []SettleInv
<1>1. SettleInv /\ [Next]_vars => SettleInv'
  BY SettleNext
<1> QED BY <1>1, SettleInit, PTL DEF Spec

\* With row locks, a job holds its points while it is active, keeps them only
\* for an image and returns them once otherwise, whatever overlaps.
THEOREM SettlementHolds == ASSUME RowLocks PROVE Spec => []Settlement
<1>1. SettleInv => Settlement
  BY DEF SettleInv
<1> QED BY <1>1, AlwaysSettled, PTL

-----------------------------------------------------------------------------
(* What one step may do to the status, and the contract it implements.     *)

StatusStep ==
  \A j \in Jobs :
    /\ status[j] = "running" => status'[j] # "cancelled"
    /\ status[j] \in Terminal => status'[j] \in {status[j], "deleted"}
ContractStep == [Contract!Next]_(Contract!contractVars)

LEMMA FrameKeepsContract ==
  ASSUME UNCHANGED <<status, order, asset>>
  PROVE  StatusStep /\ ContractStep
  BY DEF StatusStep, ContractStep, Contract!contractVars, Outcome

\* An active job that is refunded is abandoned.
LEMMA RefundKeepsContract ==
  ASSUME SettleInv, NEW t \in TxRecord, Refund(t), UNCHANGED asset,
         status[t.job] \in Active, t.to \in Refused,
         t.to = "cancelled" => status[t.job] # "running",
         t.reserved <=> cost[t.job] > 0
  PROVE  StatusStep /\ ContractStep
<1>1. /\ t.job \in Jobs /\ Held(t.job) /\ cost[t.job] \in Nat
      /\ status \in [Jobs -> Statuses] /\ order \in [Jobs -> Orders]
  BY DEF TxRecord, SettleInv, Settlement, Typed, TypeOK
<1>2. status' = [status EXCEPT ![t.job] = t.to]
  BY DEF Refund
<1>3. order' = [order EXCEPT ![t.job] = IF @ = "reserved" THEN "refunded" ELSE @]
  <2>1. CASE t.reserved
    BY <1>1, <2>1 DEF Refund, Held
  <2>2. CASE ~t.reserved
    <3>1. order' = order /\ order[t.job] = "none"
      BY <1>1, <2>2 DEF Refund, Held
    <3> QED BY <1>1, <3>1
  <2> QED BY <2>1, <2>2
<1>4. StatusStep
  BY <1>1, <1>2 DEF StatusStep
<1>5. /\ Outcome[t.job] = "open"
      /\ Outcome' = [Outcome EXCEPT ![t.job] = "abandoned"]
  BY <1>1, <1>2 DEF Outcome, Held
<1>6. Contract!Abandon(t.job)
  BY <1>3, <1>5 DEF Contract!Abandon, Contract!Book
<1> QED BY <1>1, <1>4, <1>6 DEF ContractStep, Contract!Next

LEMMA StepKeepsContract ==
  ASSUME RowLocks, SettleInv, [Next]_vars
  PROVE  StatusStep /\ ContractStep
<1>t. /\ status \in [Jobs -> Statuses] /\ order \in [Jobs -> Orders]
      /\ asset \in [Jobs -> {"none", "live", "deleted"}]
  BY DEF SettleInv, Typed, TypeOK
<1>1. ASSUME NEW u \in Users, NEW j \in Jobs, NEW k \in Keys, NEW c \in Costs,
             NEW S \in InputSets, CreateJob(u, j, k, c, S)
      PROVE  StatusStep /\ ContractStep
  <2>1. /\ status[j] = "absent" /\ asset[j] = "none" /\ UNCHANGED asset
        /\ status' = [status EXCEPT ![j] = "queued"]
        /\ order' = [order EXCEPT ![j] = IF c > 0 THEN "reserved" ELSE "none"]
    BY <1>1 DEF CreateJob, Exists, SettleInv, Settlement
  <2>2. Outcome[j] = "none" /\ Outcome' = [Outcome EXCEPT ![j] = "open"]
    BY <1>t, <2>1 DEF Outcome
  <2>3. Contract!Submit(j)
    BY <2>1, <2>2 DEF Contract!Submit
  <2>4. StatusStep
    BY <1>t, <2>1 DEF StatusStep
  <2> QED BY <2>3, <2>4 DEF ContractStep, Contract!Next
<1>2. ASSUME NEW c \in Clients, ClientStep(c) PROVE StatusStep /\ ContractStep
  <2>1. CASE CancelWrite(c)
    <3>1. /\ tx[c] \in TxRecord /\ tx[c].to = "cancelled"
          /\ status[tx[c].job] = "queued"
          /\ tx[c].reserved <=> cost[tx[c].job] > 0
          /\ Refund(tx[c]) /\ UNCHANGED asset
      BY <2>1 DEF CancelWrite, SettleInv, Typed, TypeOK, ClientTx, SnapshotCurrent
    <3> QED BY <3>1, RefundKeepsContract
  <2>2. ASSUME NEW j \in Jobs, DeleteJob(c, j) PROVE StatusStep /\ ContractStep
    <3>1. /\ status[j] \in Terminal /\ UNCHANGED order
          /\ status' = [status EXCEPT ![j] = "deleted"]
          /\ asset' = [i \in Jobs |-> IF i \in {j} /\ asset[i] = "live"
                                        THEN "deleted" ELSE asset[i]]
      BY <2>2 DEF DeleteJob, Revoke
    <3>2. Outcome' = Outcome
      BY <1>t, <3>1 DEF Outcome
    <3>3. StatusStep
      BY <1>t, <3>1 DEF StatusStep
    <3> QED BY <3>1, <3>2, <3>3 DEF ContractStep, Contract!contractVars
  <2>3. CASE CancelConflict(c) \/ DeleteInputCommit(c)
    BY <2>3, FrameKeepsContract DEF CancelConflict, DeleteInputCommit
  <2>4. ASSUME NEW j \in Jobs, CancelRead(c, j) PROVE StatusStep /\ ContractStep
    BY <2>4, FrameKeepsContract DEF CancelRead
  <2>5. ASSUME NEW i \in Uploads, DeleteInputCheck(c, i) PROVE StatusStep /\ ContractStep
    BY <2>5, FrameKeepsContract DEF DeleteInputCheck
  <2> QED BY <1>2, <2>1, <2>2, <2>3, <2>4, <2>5 DEF ClientStep
<1>3. ASSUME NEW j \in Jobs, Claim(j) PROVE StatusStep /\ ContractStep
  <2>1. /\ status[j] = "queued" /\ UNCHANGED <<order, asset>>
        /\ status' = [status EXCEPT ![j] = "running"]
    BY <1>3 DEF Claim, Queued
  <2>2. Outcome' = Outcome
    BY <1>t, <2>1 DEF Outcome
  <2>3. StatusStep
    BY <1>t, <2>1 DEF StatusStep
  <2> QED BY <2>1, <2>2, <2>3 DEF ContractStep, Contract!contractVars
<1>4. CASE CompleteWrite
  <2>1. /\ wjob \in Jobs /\ status[wjob] = "running" /\ cost[wjob] \in Nat
        /\ (tx[Worker].reserved <=> cost[wjob] > 0)
    BY <1>4 DEF CompleteWrite, SettleInv, WorkingIsRunning, Typed, TypeOK,
                BusyWorker, SnapshotCurrent, WorkerTx
  <2>2. PICK j \in Jobs : j = wjob
    BY <2>1
  <2>3. Held(j)
    BY <2>1, <2>2 DEF SettleInv, Settlement
  <2>4. /\ status' = [status EXCEPT ![j] = "succeeded"]
        /\ asset' = [asset EXCEPT ![j] = "live"]
    BY <1>4, <2>2 DEF CompleteWrite
  <2>5. order' = [order EXCEPT ![j] = IF @ = "reserved" THEN "completed" ELSE @]
    BY <1>4, <1>t, <2>1, <2>2, <2>3 DEF CompleteWrite, Held
  <2>6. Outcome[j] = "open" /\ Outcome' = [Outcome EXCEPT ![j] = "delivered"]
    BY <1>t, <2>1, <2>2, <2>3, <2>4 DEF Outcome, Held
  <2>7. Contract!Deliver(j)
    BY <2>5, <2>6 DEF Contract!Deliver, Contract!Book
  <2>8. StatusStep
    BY <1>t, <2>1, <2>2, <2>4 DEF StatusStep
  <2> QED BY <2>7, <2>8 DEF ContractStep, Contract!Next
<1>5. CASE FailWrite
  <2>1. /\ tx[Worker] \in TxRecord /\ tx[Worker].to \in {"failed", "rejected"}
        /\ status[tx[Worker].job] \in Active /\ tx[Worker].job \in Jobs
        /\ tx[Worker].reserved <=> cost[tx[Worker].job] > 0
    BY <1>5 DEF FailWrite, SettleInv, Typed, TypeOK, WorkerTx, SnapshotCurrent, TxRecord
  <2>2. CASE RefundExists(tx[Worker])
    BY <1>5, <2>2, FrameKeepsContract DEF FailWrite
  <2>3. CASE ~RefundExists(tx[Worker])
    <3>1. Refund(tx[Worker]) /\ UNCHANGED asset
      BY <1>5, <2>3 DEF FailWrite
    <3> QED BY <2>1, <3>1, RefundKeepsContract
  <2> QED BY <2>2, <2>3
<1>6. CASE \/ PrepareFails \/ LoadInputs \/ Dispatch \/ StoreImage
           \/ ProviderFails \/ CompleteRead \/ FailRead
  BY <1>6, FrameKeepsContract
  DEF PrepareFails, LoadInputs, Dispatch, StoreImage, ProviderFails, CompleteRead, FailRead
<1>7. ASSUME NEW S \in SUBSET Jobs, Cleanup(S) PROVE StatusStep /\ ContractStep
  <2>1. /\ \A j \in S : status[j] = "succeeded"
        /\ UNCHANGED order
        /\ status' = [j \in Jobs |-> IF j \in S THEN "deleted" ELSE status[j]]
        /\ asset' = [j \in Jobs |-> IF j \in S /\ asset[j] = "live"
                                      THEN "deleted" ELSE asset[j]]
    BY <1>7 DEF Cleanup, Revoke
  <2>2. Outcome' = Outcome
    BY <1>t, <2>1 DEF Outcome
  <2>3. StatusStep
    BY <1>t, <2>1 DEF StatusStep
  <2> QED BY <2>1, <2>2, <2>3 DEF ContractStep, Contract!contractVars
<1>8. ASSUME NEW j \in Jobs, RecoverJob(j) PROVE StatusStep /\ ContractStep
  <2> DEFINE t == [job |-> j, to |-> "failed", balance |-> points[owner[j]],
                   reserved |-> order[j] = "reserved"]
  <2>1. status[j] = "running" /\ Refund(t) /\ UNCHANGED asset
    BY <1>8 DEF RecoverJob, Abandoned, Running
  <2>2. t \in TxRecord /\ t.job = j /\ t.to = "failed"
    BY <2>1 DEF TxRecord, SettleInv, Typed, TypeOK, OwnedJobs
  <2>3. t.reserved = (order[j] = "reserved")
    OBVIOUS
  <2>4. order[j] = "reserved" <=> cost[j] > 0
    BY <2>1 DEF SettleInv, Settlement, Held
  <2>5. t.reserved <=> cost[t.job] > 0
    BY <2>2, <2>3, <2>4, Zenon
  <2> HIDE DEF t
  <2> QED BY <2>1, <2>2, <2>5, RefundKeepsContract
<1>9. CASE \/ Start \/ RecoveryDone \/ DbError \/ Crash \/ NewDay
           \/ (\E j \in Jobs : Age(j)) \/ (\E p \in Procs : Remove(p))
           \/ (\E u \in Users, i \in Uploads : UploadImage(u, i))
  BY <1>9, FrameKeepsContract
  DEF Start, RecoveryDone, DbError, Crash, NewDay, Age, Remove, RemoveFile, UploadImage
<1>10. CASE UNCHANGED vars
  BY <1>10, FrameKeepsContract DEF vars
<1> QED BY <1>1, <1>2, <1>3, <1>4, <1>5, <1>6, <1>7, <1>8, <1>9, <1>10
        DEF Next, Submit, WorkerStep, Boot

\* With row locks, a running job is never cancelled and a settled job is only
\* ever deleted.
THEOREM StatusOrderHolds == ASSUME RowLocks PROVE Spec => StatusOrder
<1>1. SettleInv /\ [Next]_vars => [StatusStep]_vars
  BY StepKeepsContract
<1> QED BY <1>1, AlwaysSettled, PTL DEF Spec, StatusOrder, StatusStep

\* With row locks, the jobs implement the contract with their owners.
THEOREM ContractKept == ASSUME RowLocks PROVE Spec => KeepsContract
<1>1. Init => Contract!Init
  BY DEF Init, Contract!Init, Outcome
<1>2. SettleInv /\ [Next]_vars => [Contract!Next]_(Contract!contractVars)
  BY StepKeepsContract DEF ContractStep
<1> QED BY <1>1, <1>2, AlwaysSettled, PTL DEF Spec, KeepsContract, Contract!Spec

-----------------------------------------------------------------------------
(***************************************************************************)
(* What the worker does with the provider and the disk, and how many jobs  *)
(* a user may have at once, with or without row locks.                     *)
(***************************************************************************)

\* A job that was never claimed has met neither the provider nor the disk.
Unclaimed(j) == status[j] \in {"absent", "queued"}
Untouched == \A j \in Jobs : Unclaimed(j) => calls[j] = 0 /\ asset[j] = "none"
\* The job in the worker's hands has been claimed, its provider is not asked
\* before Dispatch, and its image, once stored, is on disk.
InHand ==
  /\ pc \in WorkPhases => ~Unclaimed(wjob) /\ asset[wjob] = "none"
  /\ pc \in {"claimed", "loaded"} => calls[wjob] = 0
  /\ pc = "stored" => wjob \in files
\* Of the outputs only files of withdrawn ones are to be unlinked.
DoomedRevoked == \A p \in Procs : \A j \in doomed[p] \cap Jobs : asset[j] = "deleted"

\* The inductive invariant.
Handled == Typed /\ Untouched /\ InHand /\ DoomedRevoked /\ AtMostOneCall /\ LiveOutputHasFile

LEMMA HandledInit == Init => Handled
  BY TypedInit, ImageJobsAssumption
  DEF Init, Handled, Untouched, InHand, DoomedRevoked, AtMostOneCall, LiveOutputHasFile

\* A step may claim no job, undo no claim, and leave the worker, the calls and
\* the disk alone: nothing but statuses of claimed jobs changes.
LEMMA HandledFrame ==
  ASSUME Handled, Typed', UNCHANGED <<calls, asset, files, doomed, pc, wjob>>,
         \A j \in Jobs : Unclaimed(j)' => Unclaimed(j)
  PROVE  Handled'
<1>1. Untouched' /\ DoomedRevoked' /\ AtMostOneCall' /\ LiveOutputHasFile'
  BY DEF Handled, Untouched, DoomedRevoked, AtMostOneCall, LiveOutputHasFile
<1>2. InHand'
  <2>1. pc \in WorkPhases => wjob \in Jobs
    BY DEF Handled, Typed, BusyWorker
  <2> QED BY <2>1 DEF Handled, InHand
<1> QED BY <1>1, <1>2 DEF Handled

\* A refund, of a client, the worker or recovery, settles a job.
LEMMA RefundUnclaims ==
  ASSUME Typed, NEW t \in TxRecord, Refund(t)
  PROVE  \A j \in Jobs : Unclaimed(j)' => Unclaimed(j)
  BY DEF Refund, TxRecord, Unclaimed, Typed, TypeOK

LEMMA HandledSubmit ==
  ASSUME Handled, Typed', Submit
  PROVE  Handled'
<1>1. ASSUME NEW u \in Users, NEW j \in Jobs, NEW k \in Keys, NEW c \in Costs, NEW S \in InputSets,
             CreateJob(u, j, k, c, S)
      PROVE  Handled'
  BY <1>1, HandledFrame DEF CreateJob, Exists, Unclaimed, Handled, Typed, TypeOK
<1>2. ASSUME NEW u \in Users, NEW i \in Uploads, UploadImage(u, i) PROVE Handled'
  BY <1>2 DEF UploadImage, Handled, Untouched, Unclaimed, InHand, DoomedRevoked, AtMostOneCall,
              LiveOutputHasFile
<1> QED BY <1>1, <1>2 DEF Submit

\* Withdrawing outputs dooms exactly the files of withdrawn ones.
LEMMA RevokeKeeps ==
  ASSUME Handled, NEW p \in Procs, NEW S \in SUBSET Jobs, Revoke(p, S)
  PROVE  /\ DoomedRevoked'
         /\ \A j \in Jobs : asset'[j] = asset[j] \/ (asset[j] = "live" /\ asset'[j] = "deleted")
<1>1. \A j \in Jobs : asset'[j] = IF j \in S /\ asset[j] = "live" THEN "deleted" ELSE asset[j]
  BY DEF Revoke
<1>2. \A q \in Procs : doomed'[q] = IF q = p THEN {j \in S : asset[j] = "live"} ELSE doomed[q]
  BY DEF Revoke, Handled, Typed, TypeOK
<1>3. DoomedRevoked'
  BY <1>1, <1>2 DEF Handled, DoomedRevoked
<1> QED BY <1>1, <1>3

LEMMA HandledClient ==
  ASSUME Handled, Typed', NEW c \in Clients, ClientStep(c)
  PROVE  Handled'
<1>1. ASSUME NEW j \in Jobs, CancelRead(c, j) PROVE Handled'
  BY <1>1, HandledFrame DEF CancelRead, Unclaimed
<1>2. ASSUME NEW j \in Jobs, DeleteJob(c, j) PROVE Handled'
  <2>1. /\ DoomedRevoked'
        /\ \A i \in Jobs : asset'[i] = asset[i] \/ (asset[i] = "live" /\ asset'[i] = "deleted")
    <3>1. Revoke(c, {j}) /\ {j} \in SUBSET Jobs
      BY <1>2 DEF DeleteJob
    <3> QED BY <3>1, RevokeKeeps
  <2>2. \A i \in Jobs : Unclaimed(i)' => Unclaimed(i)
    BY <1>2 DEF DeleteJob, Unclaimed, Handled, Typed, TypeOK
  <2>3. Untouched' /\ AtMostOneCall' /\ LiveOutputHasFile'
    BY <1>2, <2>1, <2>2 DEF DeleteJob, Handled, Untouched, AtMostOneCall, LiveOutputHasFile
  <2>4. InHand'
    <3>1. pc \in WorkPhases => wjob \in Jobs
      BY DEF Handled, Typed, BusyWorker
    <3> QED BY <1>2, <2>1, <2>2, <3>1 DEF DeleteJob, Handled, InHand
  <2> QED BY <2>1, <2>3, <2>4 DEF Handled
<1>3. CASE CancelWrite(c)
  <2>1. tx[c] \in TxRecord /\ Refund(tx[c]) /\ Typed
    BY <1>3 DEF CancelWrite, Handled, Typed, TypeOK
  <2>2. \A j \in Jobs : Unclaimed(j)' => Unclaimed(j)
    BY <2>1, RefundUnclaims
  <2> QED BY <1>3, <2>2, HandledFrame DEF CancelWrite
<1>4. CASE CancelConflict(c)
  BY <1>4, HandledFrame DEF CancelConflict, Unclaimed
<1>5. ASSUME NEW i \in Uploads, DeleteInputCheck(c, i) PROVE Handled'
  BY <1>5, HandledFrame DEF DeleteInputCheck, Unclaimed
<1>6. CASE DeleteInputCommit(c)
  <2>1. closing[c] \in Uploads \ Jobs
    BY <1>6, ImageJobsAssumption DEF DeleteInputCommit, Handled, Typed, TypeOK
  <2>2. DoomedRevoked'
    BY <1>6, <2>1 DEF DeleteInputCommit, Handled, DoomedRevoked, Typed, TypeOK
  <2> QED BY <1>6, <2>2 DEF DeleteInputCommit, Handled, Untouched, Unclaimed, InHand, AtMostOneCall,
                            LiveOutputHasFile
<1> QED BY <1>1, <1>2, <1>3, <1>4, <1>5, <1>6 DEF ClientStep

LEMMA HandledWorker ==
  ASSUME Handled, Typed', WorkerStep
  PROVE  Handled'
<1> USE DEF Handled
<1>0. pc \in WorkPhases => wjob \in Jobs
  BY DEF Typed, BusyWorker
<1>1. ASSUME NEW j \in Jobs, Claim(j) PROVE Handled'
  <2>1. Unclaimed(j) /\ \A i \in Jobs : Unclaimed(i)' => Unclaimed(i) /\ i # j
    BY <1>1 DEF Claim, Queued, Unclaimed, Typed, TypeOK
  <2> QED BY <1>1, <2>1 DEF Claim, Untouched, InHand, DoomedRevoked, AtMostOneCall, LiveOutputHasFile
<1>2. CASE PrepareFails \/ LoadInputs
  BY <1>0, <1>2 DEF PrepareFails, LoadInputs, Goto, Fail, Untouched, Unclaimed, InHand, DoomedRevoked,
                    AtMostOneCall, LiveOutputHasFile
<1>3. CASE Dispatch
  <2>1. CASE status[wjob] = "running"
    <3>1. calls' = [calls EXCEPT ![wjob] = @ + 1] /\ calls[wjob] = 0 /\ wjob \in Jobs
      BY <1>0, <1>3, <2>1 DEF Dispatch, InHand
    <3>2. calls'[wjob] = 1 /\ \A i \in Jobs \ {wjob} : calls'[i] = calls[i]
      BY <3>1 DEF Typed, TypeOK
    <3>3. Untouched' /\ AtMostOneCall'
      BY <1>3, <2>1, <3>1, <3>2 DEF Dispatch, Untouched, Unclaimed, AtMostOneCall
    <3>4. InHand' /\ DoomedRevoked' /\ LiveOutputHasFile'
      BY <1>3, <2>1, <3>1 DEF Dispatch, Goto, InHand, Unclaimed, DoomedRevoked, LiveOutputHasFile
    <3> QED BY <3>3, <3>4
  <2>2. CASE status[wjob] # "running"
    BY <1>0, <1>3, <2>2 DEF Dispatch, Fail, Untouched, Unclaimed, InHand, DoomedRevoked,
                            AtMostOneCall, LiveOutputHasFile
  <2> QED BY <2>1, <2>2
<1>4. CASE StoreImage \/ ProviderFails
  BY <1>0, <1>4 DEF StoreImage, ProviderFails, Goto, Fail, Untouched, Unclaimed, InHand, DoomedRevoked,
                    AtMostOneCall, LiveOutputHasFile
<1>5. CASE CompleteRead
  <2>1. /\ pc = "stored" /\ wjob \in Jobs /\ UNCHANGED <<status, asset, calls, doomed>>
        /\ \/ UNCHANGED <<files, pc, wjob>>
           \/ pc' = "failing" /\ wjob' = wjob /\ files' = files \ {wjob}
    BY <1>0, <1>5 DEF CompleteRead, Fail
  <2> QED BY <2>1 DEF Untouched, Unclaimed, InHand, DoomedRevoked, AtMostOneCall, LiveOutputHasFile
<1>6. CASE CompleteWrite
  <2>1. /\ pc = "stored" /\ wjob \in Jobs /\ wjob \in files /\ pc' = "idle" /\ ~Unclaimed(wjob)
        /\ asset[wjob] = "none" /\ UNCHANGED <<calls, files, doomed>>
    BY <1>0, <1>6 DEF CompleteWrite, Rest, InHand
  <2>2. /\ asset'[wjob] = "live" /\ \A j \in Jobs \ {wjob} : asset'[j] = asset[j]
        /\ status'[wjob] = "succeeded" /\ \A j \in Jobs \ {wjob} : status'[j] = status[j]
    BY <1>6, <2>1 DEF CompleteWrite, Typed, TypeOK
  <2> QED BY <2>1, <2>2 DEF Untouched, Unclaimed, InHand, DoomedRevoked, AtMostOneCall, LiveOutputHasFile
<1>7. CASE FailRead
  <2>1. /\ pc = "failing" /\ pc' \in {"failing", "idle"} /\ (pc' = "failing" => wjob' = wjob)
        /\ UNCHANGED <<status, asset, calls, files, doomed>>
    BY <1>7 DEF FailRead, Rest
  <2> QED BY <2>1 DEF Untouched, Unclaimed, InHand, DoomedRevoked, AtMostOneCall, LiveOutputHasFile
<1>8. CASE FailWrite
  <2>1. tx[Worker] \in TxRecord
    BY <1>8 DEF FailWrite, Typed, TypeOK
  <2>2. \A j \in Jobs : Unclaimed(j)' => Unclaimed(j)
    BY <1>8, <2>1, RefundUnclaims DEF FailWrite, Unclaimed
  <2> QED BY <1>8, <2>2 DEF FailWrite, Rest, Untouched, InHand, DoomedRevoked, AtMostOneCall,
                            LiveOutputHasFile
<1> QED BY <1>1, <1>2, <1>3, <1>4, <1>5, <1>6, <1>7, <1>8 DEF WorkerStep

LEMMA HandledOther ==
  ASSUME Handled, Typed',
         \/ \E p \in Procs : Remove(p)
         \/ \E S \in SUBSET Jobs : Cleanup(S)
         \/ Boot \/ DbError \/ Crash \/ NewDay
         \/ \E j \in Jobs : Age(j)
  PROVE  Handled'
<1> USE DEF Handled
<1>0. pc \in WorkPhases => wjob \in Jobs
  BY DEF Typed, BusyWorker
<1>1. ASSUME NEW p \in Procs, NEW f \in Jobs \cup Uploads, RemoveFile(p, f) PROVE Handled'
  <2>1. /\ f \in doomed[p] /\ files' = files \ {f}
        /\ UNCHANGED <<status, asset, calls, pc, wjob>>
    BY <1>1 DEF RemoveFile
  <2>2. \A q \in Procs : doomed'[q] \subseteq doomed[q]
    BY <1>1 DEF RemoveFile, Typed, TypeOK
  <2>3. f \in Jobs => asset[f] = "deleted"
    BY <2>1 DEF DoomedRevoked
  <2>4. DoomedRevoked'
    BY <2>1, <2>2 DEF DoomedRevoked
  <2>5. LiveOutputHasFile' /\ InHand'
    BY <1>0, <2>1, <2>3 DEF LiveOutputHasFile, InHand, Unclaimed
  <2> QED BY <2>1, <2>4, <2>5 DEF Untouched, Unclaimed, AtMostOneCall
<1>2. ASSUME NEW S \in SUBSET Jobs, Cleanup(S) PROVE Handled'
  <2>1. /\ DoomedRevoked'
        /\ \A i \in Jobs : asset'[i] = asset[i] \/ (asset[i] = "live" /\ asset'[i] = "deleted")
    <3>1. Revoke(Worker, S)
      BY <1>2 DEF Cleanup
    <3> QED BY <3>1, RevokeKeeps
  <2>2. \A i \in Jobs : Unclaimed(i)' => Unclaimed(i)
    BY <1>2 DEF Cleanup, Unclaimed
  <2> QED BY <1>2, <2>1, <2>2 DEF Cleanup, Untouched, InHand, AtMostOneCall, LiveOutputHasFile
<1>3. CASE Start \/ RecoveryDone
  BY <1>3 DEF Start, RecoveryDone, Goto, Untouched, Unclaimed, InHand, DoomedRevoked, AtMostOneCall,
              LiveOutputHasFile
<1>4. ASSUME NEW j \in Jobs, RecoverJob(j) PROVE Handled'
  <2>1. PICK t : t = [job |-> j, to |-> "failed", balance |-> points[owner[j]],
                      reserved |-> order[j] = "reserved"]
    OBVIOUS
  <2>2. t \in TxRecord
    <3>1. owner[j] \in Users
      BY <1>4 DEF RecoverJob, Abandoned, Running, Typed, OwnedJobs
    <3> QED BY <2>1, <3>1 DEF TxRecord, Typed, TypeOK
  <2>3. Refund(t)
    BY <1>4, <2>1 DEF RecoverJob
  <2>4. \A i \in Jobs : Unclaimed(i)' => Unclaimed(i)
    BY <2>2, <2>3, RefundUnclaims
  <2> QED BY <1>4, <2>4, HandledFrame DEF RecoverJob
<1>5. CASE DbError
  <2>1. /\ UNCHANGED <<status, asset, calls, doomed>>
        /\ files' = IF pc = "stored" THEN files \ {wjob} ELSE files
        /\ \/ pc \in WorkPhases /\ pc' = "failing" /\ wjob' = wjob
           \/ pc # "stored" /\ pc' \in {"idle", "down"}
    BY <1>5 DEF DbError, Fail, Rest
  <2> QED BY <1>0, <2>1 DEF Untouched, Unclaimed, InHand, DoomedRevoked, AtMostOneCall, LiveOutputHasFile
<1>6. CASE Crash
  BY <1>6 DEF Crash, Untouched, Unclaimed, InHand, DoomedRevoked, AtMostOneCall, LiveOutputHasFile
<1>7. CASE NewDay \/ \E j \in Jobs : Age(j)
  BY <1>7, HandledFrame DEF NewDay, Age, Unclaimed
<1> QED BY <1>1, <1>2, <1>3, <1>4, <1>5, <1>6, <1>7 DEF Remove, Boot

LEMMA HandledNext == Handled /\ [Next]_vars => Handled'
<1> SUFFICES ASSUME Handled, [Next]_vars PROVE Handled'
  OBVIOUS
<1>1. Typed'
  BY TypedNext DEF Handled
<1>2. CASE Next
  BY <1>1, <1>2, HandledSubmit, HandledClient, HandledWorker, HandledOther DEF Next
<1>3. CASE UNCHANGED vars
  BY <1>1, <1>3, HandledFrame DEF vars, Unclaimed
<1> QED BY <1>2, <1>3

LEMMA AlwaysHandled == Spec => []Handled
  BY HandledInit, HandledNext, PTL DEF Spec

\* The provider is asked at most once for a job, on either database, however
\* often the process stops, the database fails and recovery settles the job.
THEOREM OneCallHolds == Spec => []AtMostOneCall
<1>1. Handled => AtMostOneCall
  BY DEF Handled
<1> QED BY <1>1, AlwaysHandled, PTL

\* An output that can be opened has its file, on either database, whichever
\* processes withdraw outputs and unlink files at the same time.
THEOREM LiveOutputsHaveFiles == Spec => []LiveOutputHasFile
<1>1. Handled => LiveOutputHasFile
  BY DEF Handled
<1> QED BY <1>1, AlwaysHandled, PTL

-----------------------------------------------------------------------------
(* The limit of active jobs.  A submission that saw room for one more job is *)
(* the only step after which a user has another active job.                  *)

Limited == Typed /\ ActiveWithinLimit

LEMMA ActiveJobsFinite ==
  ASSUME NEW u \in Users
  PROVE  IsFiniteSet(ActiveJobs(u)) /\ Cardinality(ActiveJobs(u)) \in Nat
<1>1. IsFiniteSet(ActiveJobs(u))
  BY FS_Subset, ImageJobsAssumption DEF ActiveJobs
<1> QED BY <1>1, FS_CardinalityType

LEMMA LimitedInit == Init => Limited
<1> SUFFICES ASSUME Init PROVE Limited
  OBVIOUS
<1>1. \A u \in Users : {j \in Jobs : owner[j] = u /\ status[j] \in {"queued", "running"}} = {}
  BY DEF Init
<1>2. 0 <= ActiveLimit
  BY ImageJobsAssumption
<1> QED BY <1>1, <1>2, TypedInit, FS_EmptySet DEF Limited, ActiveWithinLimit

\* No job of anybody becomes active.
LEMMA NoneBecomesActive ==
  ASSUME ActiveWithinLimit, Typed,
         \A j \in Jobs : status'[j] \in Active => status[j] \in Active /\ owner'[j] = owner[j]
  PROVE  ActiveWithinLimit'
<1> SUFFICES ASSUME NEW u \in Users PROVE Cardinality(ActiveJobs(u)') <= ActiveLimit
  BY DEF ActiveWithinLimit, ActiveJobs
<1>1. ActiveJobs(u)' \subseteq ActiveJobs(u)
  BY DEF ActiveJobs
<1>2. Cardinality(ActiveJobs(u)) <= ActiveLimit
  BY Zenon DEF ActiveWithinLimit, ActiveJobs
<1>3. /\ Cardinality(ActiveJobs(u)) \in Nat /\ Cardinality(ActiveJobs(u)') \in Nat
      /\ Cardinality(ActiveJobs(u)') <= Cardinality(ActiveJobs(u))
  BY <1>1, ActiveJobsFinite, FS_Subset, FS_CardinalityType
<1> QED BY <1>2, <1>3, ImageJobsAssumption

LEMMA CreateWithinLimit ==
  ASSUME Limited, NEW u \in Users, NEW j \in Jobs, NEW k \in Keys, NEW c \in Costs,
         NEW S \in InputSets, CreateJob(u, j, k, c, S)
  PROVE  ActiveWithinLimit'
<1> SUFFICES ASSUME NEW v \in Users PROVE Cardinality(ActiveJobs(v)') <= ActiveLimit
  BY DEF ActiveWithinLimit, ActiveJobs
<1>1. ActiveJobs(v)' = IF v = u THEN ActiveJobs(u) \cup {j} ELSE ActiveJobs(v)
  BY DEF CreateJob, Exists, ActiveJobs, Limited, Typed, TypeOK
<1>2. CASE v = u
  <2>1. j \notin ActiveJobs(u)
    BY DEF CreateJob, Exists, ActiveJobs
  <2>2. Cardinality(ActiveJobs(u) \cup {j}) = Cardinality(ActiveJobs(u)) + 1
    BY <2>1, ActiveJobsFinite, FS_AddElement
  <2>3. Cardinality(ActiveJobs(u)) < ActiveLimit
    BY DEF CreateJob
  <2>4. Cardinality(ActiveJobs(u)) \in Nat
    BY ActiveJobsFinite
  <2> QED BY <1>1, <1>2, <2>2, <2>3, <2>4, ImageJobsAssumption
<1>3. CASE v # u
  BY <1>1, <1>3, Zenon DEF Limited, ActiveWithinLimit, ActiveJobs
<1> QED BY <1>2, <1>3

\* Every other step leaves the owners alone, and a job that is active after it
\* was active before it.
LEMMA StepsActivateNone ==
  ASSUME Typed, NEW j \in Jobs, status'[j] \in Active,
         \/ \E u \in Users, i \in Uploads : UploadImage(u, i)
         \/ \E c \in Clients : ClientStep(c)
         \/ \E p \in Procs : Remove(p)
         \/ WorkerStep \/ \E S \in SUBSET Jobs : Cleanup(S)
         \/ Boot \/ DbError \/ Crash \/ NewDay
         \/ \E i \in Jobs : Age(i)
  PROVE  status[j] \in Active /\ owner'[j] = owner[j]
<1>1. ASSUME NEW t \in TxRecord, Refund(t) PROVE status[j] \in Active
  BY <1>1 DEF Refund, TxRecord, Typed, TypeOK
<1>2. ASSUME NEW c \in Clients, ClientStep(c) PROVE status[j] \in Active /\ owner'[j] = owner[j]
  <2>1. CASE CancelWrite(c)
    BY <1>1, <2>1 DEF CancelWrite, Typed, TypeOK
  <2>2. CASE \E i \in Jobs : DeleteJob(c, i)
    BY <2>2 DEF DeleteJob, Typed, TypeOK
  <2>3. CASE \/ \E i \in Jobs : CancelRead(c, i)
             \/ CancelConflict(c) \/ DeleteInputCommit(c)
             \/ \E i \in Uploads : DeleteInputCheck(c, i)
    BY <2>3 DEF CancelRead, CancelConflict, DeleteInputCheck, DeleteInputCommit
  <2> QED BY <1>2, <2>1, <2>2, <2>3 DEF ClientStep
<1>3. CASE WorkerStep
  <2>1. ASSUME NEW i \in Jobs, Claim(i) PROVE status[j] \in Active /\ owner'[j] = owner[j]
    BY <2>1 DEF Claim, Queued, Typed, TypeOK
  <2>2. CASE FailWrite
    BY <1>1, <2>2 DEF FailWrite, Typed, TypeOK
  <2>3. CASE CompleteWrite
    BY <2>3 DEF CompleteWrite, Typed, TypeOK
  <2>4. CASE PrepareFails \/ LoadInputs \/ Dispatch \/ StoreImage \/ ProviderFails
    BY <2>4 DEF PrepareFails, LoadInputs, Dispatch, StoreImage, ProviderFails
  <2>5. CASE CompleteRead \/ FailRead
    BY <2>5 DEF CompleteRead, FailRead
  <2> QED BY <1>3, <2>1, <2>2, <2>3, <2>4, <2>5 DEF WorkerStep
<1>4. ASSUME NEW i \in Jobs, RecoverJob(i) PROVE status[j] \in Active /\ owner'[j] = owner[j]
  <2>1. PICK t : t = [job |-> i, to |-> "failed", balance |-> points[owner[i]],
                      reserved |-> order[i] = "reserved"]
    OBVIOUS
  <2>2. t \in TxRecord
    <3>1. owner[i] \in Users
      BY <1>4 DEF RecoverJob, Abandoned, Running, Typed, OwnedJobs
    <3> QED BY <2>1, <3>1 DEF TxRecord, Typed, TypeOK
  <2>3. Refund(t) /\ owner' = owner
    BY <1>4, <2>1 DEF RecoverJob
  <2> QED BY <1>1, <2>2, <2>3
<1>5. CASE \E S \in SUBSET Jobs : Cleanup(S)
  BY <1>5 DEF Cleanup
<1>6. CASE \/ \E u \in Users, i \in Uploads : UploadImage(u, i)
           \/ \E p \in Procs : Remove(p)
           \/ Start \/ RecoveryDone \/ DbError \/ Crash \/ NewDay
           \/ \E i \in Jobs : Age(i)
  BY <1>6 DEF UploadImage, Remove, RemoveFile, Start, RecoveryDone, DbError, Crash, NewDay, Age
<1> QED BY <1>2, <1>3, <1>4, <1>5, <1>6 DEF Boot

LEMMA LimitedNext == Limited /\ [Next]_vars => Limited'
<1> SUFFICES ASSUME Limited, [Next]_vars PROVE Limited'
  OBVIOUS
<1>1. Typed'
  BY TypedNext DEF Limited
<1>2. CASE \E u \in Users, j \in Jobs, k \in Keys, c \in Costs, S \in InputSets : CreateJob(u, j, k, c, S)
  BY <1>1, <1>2, CreateWithinLimit DEF Limited
<1>3. CASE UNCHANGED vars
  BY <1>1, <1>3, NoneBecomesActive DEF vars, Limited
<1>4. CASE \/ \E u \in Users, i \in Uploads : UploadImage(u, i)
           \/ \E c \in Clients : ClientStep(c)
           \/ \E p \in Procs : Remove(p)
           \/ WorkerStep \/ \E S \in SUBSET Jobs : Cleanup(S)
           \/ Boot \/ DbError \/ Crash \/ NewDay
           \/ \E i \in Jobs : Age(i)
  <2>1. \A j \in Jobs : status'[j] \in Active => status[j] \in Active /\ owner'[j] = owner[j]
    BY <1>4, StepsActivateNone DEF Limited
  <2> QED BY <1>1, <2>1, NoneBecomesActive DEF Limited
<1> QED BY <1>2, <1>3, <1>4 DEF Next, Submit

\* No user has more active jobs than the limit, on either database: a
\* submission counts them after its no-op update of the user row, which keeps
\* other submissions of the user out, and nothing else adds an active job.
THEOREM ActiveLimitHolds == Spec => []ActiveWithinLimit
<1>1. Limited => ActiveWithinLimit
  BY DEF Limited
<1> QED BY <1>1, LimitedInit, LimitedNext, PTL DEF Spec

-----------------------------------------------------------------------------
(* The balances, where FOR UPDATE locks the row and a user has one active    *)
(* job at most.  The strengthening says that an open transaction has read    *)
(* the balance its user still has: who settles writes an absolute balance,   *)
(* so any other step that moved the points in between would be undone.       *)

\* Spent with the prices as a parameter.
PointsOf(c, S) == UNION {{j} \X (1..c[j]) : j \in S}

LEMMA PointsAre ==
  ASSUME NEW c, NEW S
  PROVE  \A x : x \in PointsOf(c, S) <=> \E j \in S : \E n \in 1..c[j] : x = <<j, n>>
BY DEF PointsOf

LEMMA PointsFinite ==
  ASSUME NEW c \in [Jobs -> Nat], NEW S \in SUBSET Jobs
  PROVE  IsFiniteSet(PointsOf(c, S)) /\ Cardinality(PointsOf(c, S)) \in Nat
<1> DEFINE T == {{j} \X (1..c[j]) : j \in S}
           f == [j \in S |-> {j} \X (1..c[j])]
<1>1. IsFiniteSet(S)
  BY ImageJobsAssumption, FS_Subset
<1>2. f \in Surjection(S, T)
  BY DEF Surjection
<1>3. IsFiniteSet(T)
  <2> HIDE DEF T, f
  <2> QED BY <1>1, <1>2, FS_Surjection
<1>4. ASSUME NEW j \in S PROVE IsFiniteSet({j} \X (1..c[j]))
  <2>1. c[j] \in Int
    OBVIOUS
  <2>2. IsFiniteSet(1..c[j])
    BY <2>1, FS_Interval
  <2>3. IsFiniteSet({j})
    BY FS_Singleton
  <2> QED BY <2>2, <2>3, FS_Product
<1>5. \A t \in T : IsFiniteSet(t)
  BY <1>4
<1>6. PointsOf(c, S) = UNION T
  BY DEF PointsOf
<1>7. IsFiniteSet(PointsOf(c, S))
  <2> HIDE DEF T
  <2> QED BY <1>3, <1>5, <1>6, FS_UNION
<1> QED BY <1>7, FS_CardinalityType

\* One more job holds its price more.
LEMMA PointsAdd ==
  ASSUME NEW c \in [Jobs -> Nat], NEW d \in [Jobs -> Nat], NEW S \in SUBSET Jobs,
         NEW j \in Jobs, j \notin S, \A i \in S : d[i] = c[i]
  PROVE  Cardinality(PointsOf(d, S \cup {j})) = Cardinality(PointsOf(c, S)) + d[j]
<1> DEFINE A == PointsOf(c, S)
           B == {j} \X (1..d[j])
<1>1. IsFiniteSet(A) /\ Cardinality(A) \in Nat
  BY PointsFinite
<1>2. d[j] \in Nat /\ d[j] \in Int
  OBVIOUS
<1>3. IsFiniteSet(1..d[j]) /\ Cardinality(1..d[j]) = d[j]
  <2>1. Cardinality(1..d[j]) = IF 1 > d[j] THEN 0 ELSE d[j] - 1 + 1
    BY <1>2, FS_Interval
  <2> QED BY <1>2, <2>1, FS_Interval
<1>4. IsFiniteSet({j}) /\ Cardinality({j}) = 1
  BY FS_Singleton
<1>5. IsFiniteSet(B) /\ Cardinality(B) = d[j]
  <2>1. IsFiniteSet(B) /\ Cardinality(B) = 1 * d[j]
    BY <1>3, <1>4, FS_Product
  <2> QED BY <1>2, <2>1
<1>6. A \cap B = {}
  <2>1. \A x \in A : \E i \in S : \E n \in 1..c[i] : x = <<i, n>>
    BY PointsAre
  <2> QED BY <2>1
<1>7. PointsOf(d, S \cup {j}) = A \cup B
  <2>1. ASSUME NEW x PROVE x \in PointsOf(d, S \cup {j}) <=> x \in A \/ x \in B
    <3>1. x \in PointsOf(d, S \cup {j}) <=> \E i \in S \cup {j} : \E n \in 1..d[i] : x = <<i, n>>
      BY PointsAre
    <3>2. x \in A <=> \E i \in S : \E n \in 1..c[i] : x = <<i, n>>
      BY PointsAre
    <3>3. x \in B <=> \E n \in 1..d[j] : x = <<j, n>>
      OBVIOUS
    <3> HIDE DEF A, B
    <3> QED BY <3>1, <3>2, <3>3
  <2> HIDE DEF A, B
  <2> QED BY <2>1
<1>8. Cardinality(A \cup B) = Cardinality(A) + Cardinality(B) - Cardinality(A \cap B)
  <2> HIDE DEF A, B
  <2> QED BY <1>1, <1>5, FS_Union
<1>9. Cardinality(A \cap B) = 0
  BY <1>6, FS_EmptySet
<1> HIDE DEF A, B
<1>10. Cardinality(PointsOf(d, S \cup {j})) = Cardinality(A) + d[j]
  <2>1. PICK n \in Nat : n = d[j]
    BY <1>2
  <2>2. Cardinality(A \cup B) = Cardinality(A) + n - 0
    BY <1>5, <1>8, <1>9, <2>1
  <2>3. Cardinality(A \cup B) = Cardinality(A) + n
    BY <1>1, <2>2
  <2> QED BY <1>7, <2>1, <2>3
<1> QED BY <1>10 DEF A

LEMMA SpentIs == ASSUME NEW u PROVE Spent(u) = Cardinality(PointsOf(cost, Paying(u)))
BY DEF Spent, PointsOf

LEMMA SpentIsPrimed ==
  ASSUME NEW u PROVE Spent(u)' = Cardinality(PointsOf(cost', Paying(u)'))
BY DEF Spent, PointsOf

\* With a limit of one, a user has one active job at most.
LEMMA OneActiveEach ==
  ASSUME ActiveLimit = 1, ActiveWithinLimit, Typed, NEW i \in Jobs, NEW j \in Jobs,
         status[i] \in Active, status[j] \in Active, owner[i] = owner[j]
  PROVE  i = j
<1> SUFFICES ASSUME i # j PROVE FALSE
  OBVIOUS
<1>1. owner[i] \in Users
  BY DEF Typed, OwnedJobs
<1>2. PICK u \in Users : u = owner[i]
  BY <1>1
<1>3. IsFiniteSet(ActiveJobs(u)) /\ Cardinality(ActiveJobs(u)) \in Nat
  BY ActiveJobsFinite
<1>4. Cardinality(ActiveJobs(u)) <= 1
  BY <1>2 DEF ActiveWithinLimit, ActiveJobs
<1>5. {i, j} \subseteq ActiveJobs(u)
  BY <1>2 DEF ActiveJobs
<1>6. IsFiniteSet({i}) /\ Cardinality({i}) = 1
  BY FS_Singleton
<1>7. Cardinality({i} \cup {j}) = 1 + 1
  BY <1>6, FS_AddElement
<1>8. {i} \cup {j} = {i, j}
  OBVIOUS
<1>9. Cardinality({i, j}) <= Cardinality(ActiveJobs(u))
  BY <1>3, <1>5, FS_Subset
<1> QED BY <1>3, <1>4, <1>7, <1>8, <1>9

\* An open transaction has read the balance that its user still has.
BalanceCurrent == \A p \in Procs : tx[p] # None => tx[p].balance = points[owner[tx[p].job]]

BooksInv == SettleInv /\ ActiveWithinLimit /\ BalanceCurrent /\ PointsConserved

\* Nobody's points move, and what an open transaction has read stays true.
LEMMA BooksFrame ==
  ASSUME BooksInv, SettleInv', ActiveWithinLimit',
         UNCHANGED <<points, owner, cost>>,
         \A j \in Jobs : (status'[j] \in Active \/ asset'[j] # "none")
                           <=> (status[j] \in Active \/ asset[j] # "none"),
         \A p \in Procs : tx'[p] # None =>
           \/ tx'[p] = tx[p]
           \/ tx'[p].balance = points[owner[tx'[p].job]]
  PROVE  BooksInv'
<1>1. ASSUME NEW u \in Users PROVE points'[u] + Spent(u)' = InitialPoints
  <2>1. Paying(u)' = Paying(u)
    BY DEF Paying
  <2>2. Spent(u)' = Spent(u)
    BY <2>1, SpentIs, SpentIsPrimed
  <2> QED BY <2>2 DEF BooksInv, PointsConserved
<1>2. PointsConserved'
  BY <1>1 DEF PointsConserved
<1>3. BalanceCurrent'
  BY DEF BooksInv, BalanceCurrent
<1> QED BY <1>2, <1>3 DEF BooksInv

\* A refund that has read the current balance gives back what the job held.
LEMMA RefundConserves ==
  ASSUME BooksInv, NEW t \in TxRecord, Refund(t), t.to \in Refused,
         status[t.job] \in Active, t.reserved <=> cost[t.job] > 0,
         t.balance = points[owner[t.job]], UNCHANGED <<owner, cost, asset>>
  PROVE  /\ PointsConserved'
         /\ \A u \in Users : u # owner[t.job] => points'[u] = points[u]
<1> DEFINE j == t.job
           o == owner[j]
<1>1. j \in Jobs /\ o \in Users /\ Held(j) /\ asset[j] = "none"
  BY DEF TxRecord, BooksInv, SettleInv, Settlement, Typed, OwnedJobs, Held
<1>2. cost \in [Jobs -> Nat] /\ points \in [Users -> Nat] /\ cost[j] \in Nat /\ points[o] \in Nat
  BY <1>1 DEF BooksInv, SettleInv, Typed, TypeOK
<1>3. /\ points'[o] = points[o] + cost[j]
      /\ \A u \in Users : u # o => points'[u] = points[u]
  <2>1. CASE t.reserved
    BY <1>1, <1>2, <2>1 DEF Refund
  <2>2. CASE ~t.reserved
    BY <1>1, <1>2, <2>2 DEF Refund
  <2> QED BY <2>1, <2>2
<1>4. status'[j] \in Refused /\ \A i \in Jobs : i # j => status'[i] = status[i]
  BY <1>1 DEF Refund, BooksInv, SettleInv, Typed, TypeOK
<1>5. ASSUME NEW u \in Users PROVE points'[u] + Spent(u)' = InitialPoints
  <2>1. points[u] + Spent(u) = InitialPoints
    BY DEF BooksInv, PointsConserved
  <2>2. CASE u = o
    <3>1. j \in Paying(u) /\ Paying(u) = Paying(u)' \cup {j} /\ j \notin Paying(u)'
      BY <1>1, <1>4, <2>2 DEF Paying
    <3>2. Paying(u)' \in SUBSET Jobs
      BY DEF Paying
    <3>3. Cardinality(PointsOf(cost, Paying(u)' \cup {j})) = Cardinality(PointsOf(cost, Paying(u)')) + cost[j]
      BY <1>1, <1>2, <3>1, <3>2, PointsAdd
    <3>4. Spent(u) = Spent(u)' + cost[j]
      BY <3>1, <3>3, SpentIs, SpentIsPrimed
    <3>5. Spent(u)' \in Nat
      BY <1>2, <3>2, PointsFinite, SpentIsPrimed
    <3> QED BY <1>2, <1>3, <2>1, <2>2, <3>4, <3>5
  <2>3. CASE u # o
    <3>1. Paying(u)' = Paying(u)
      BY <1>1, <1>4, <2>3 DEF Paying
    <3>2. Spent(u)' = Spent(u)
      BY <3>1, SpentIs, SpentIsPrimed
    <3> QED BY <1>3, <2>1, <2>3, <3>2
  <2> QED BY <2>2, <2>3
<1> QED BY <1>3, <1>5 DEF PointsConserved

\* A submission takes the price from a user who has no open transaction.
LEMMA CreateConserves ==
  ASSUME BooksInv, SettleInv', ActiveWithinLimit', ActiveLimit = 1,
         NEW u \in Users, NEW j \in Jobs, NEW k \in Keys, NEW c \in Costs,
         NEW S \in InputSets, CreateJob(u, j, k, c, S)
  PROVE  BooksInv'
<1>1. /\ points \in [Users -> Nat] /\ cost \in [Jobs -> Nat] /\ cost' \in [Jobs -> Nat]
      /\ points[u] \in Nat /\ c \in Nat
  BY ImageJobsAssumption DEF BooksInv, SettleInv, Typed, TypeOK
<1>2. /\ status[j] = "absent" /\ status'[j] = "queued" /\ owner'[j] = u /\ cost'[j] = c
      /\ points'[u] = points[u] - c
      /\ \A v \in Users : v # u => points'[v] = points[v]
      /\ \A i \in Jobs : i # j => status'[i] = status[i] /\ owner'[i] = owner[i] /\ cost'[i] = cost[i]
      /\ UNCHANGED <<asset, tx>>
  BY DEF CreateJob, Exists, BooksInv, SettleInv, Typed, TypeOK
<1>3. asset[j] = "none"
  BY <1>2 DEF BooksInv, SettleInv, Settlement
<1>4. ASSUME NEW v \in Users PROVE points'[v] + Spent(v)' = InitialPoints
  <2>1. points[v] + Spent(v) = InitialPoints
    BY DEF BooksInv, PointsConserved
  <2>2. Paying(v) \in SUBSET Jobs /\ j \notin Paying(v)
    BY <1>2, <1>3 DEF Paying
  <2>3. \A i \in Paying(v) : cost'[i] = cost[i]
    BY <1>2, <2>2
  <2>4. CASE v = u
    <3>1. Paying(v)' = Paying(v) \cup {j}
      BY <1>2, <2>4 DEF Paying
    <3>2. Cardinality(PointsOf(cost', Paying(v) \cup {j})) = Cardinality(PointsOf(cost, Paying(v))) + cost'[j]
      BY <1>1, <2>2, <2>3, PointsAdd
    <3>3. Spent(v)' = Spent(v) + c
      BY <1>2, <3>1, <3>2, SpentIs, SpentIsPrimed
    <3>4. Spent(v) \in Nat
      BY <1>1, <2>2, PointsFinite, SpentIs
    <3> QED BY <1>1, <1>2, <2>1, <2>4, <3>3, <3>4
  <2>5. CASE v # u
    <3>1. Paying(v)' = Paying(v)
      BY <1>2, <1>3, <2>5 DEF Paying
    <3>2. PointsOf(cost', Paying(v)) = PointsOf(cost, Paying(v))
      BY <2>3 DEF PointsOf
    <3>3. Spent(v)' = Spent(v)
      BY <3>1, <3>2, SpentIs, SpentIsPrimed
    <3> QED BY <1>2, <2>1, <2>5, <3>3
  <2> QED BY <2>4, <2>5
<1>5. PointsConserved'
  BY <1>4 DEF PointsConserved
<1>6. ActiveJobs(u) = {}
  <2>1. IsFiniteSet(ActiveJobs(u)) /\ Cardinality(ActiveJobs(u)) \in Nat
    BY ActiveJobsFinite
  <2>2. Cardinality(ActiveJobs(u)) < 1
    BY DEF CreateJob
  <2>3. Cardinality(ActiveJobs(u)) = 0
    BY <2>1, <2>2
  <2> QED BY <2>1, <2>3, FS_EmptySet
<1>7. ASSUME NEW p \in Procs, tx'[p] # None PROVE tx'[p].balance = points'[owner'[tx'[p].job]]
  <2>1. tx'[p] = tx[p]
    BY <1>2
  <2>2. tx[p] \in TxRecord
    BY <1>7, <2>1 DEF BooksInv, SettleInv, Typed, TypeOK
  <2>3. PICK i \in Jobs : i = tx[p].job
    BY <2>2 DEF TxRecord
  <2>4. status[i] \in Active /\ tx[p].balance = points[owner[i]]
    BY <1>7, <2>1, <2>3 DEF BooksInv, SettleInv, SnapshotCurrent, BalanceCurrent
  <2>5. i # j
    BY <1>2, <2>4
  <2>6. owner[i] \in Users /\ owner[i] # u
    BY <1>6, <2>4 DEF ActiveJobs, BooksInv, SettleInv, Typed, OwnedJobs
  <2> QED BY <1>2, <2>1, <2>3, <2>4, <2>5, <2>6
<1>8. BalanceCurrent'
  BY <1>7 DEF BalanceCurrent
<1> QED BY <1>5, <1>8 DEF BooksInv

\* A transaction refunds and ends; no other one is about the same user.
LEMMA SettlingConserves ==
  ASSUME BooksInv, SettleInv', ActiveWithinLimit', ActiveLimit = 1,
         NEW p \in Procs, tx[p] # None, tx[p].to \in Refused,
         Refund(tx[p]), CloseTx(p), UNCHANGED <<owner, cost, asset>>
  PROVE  BooksInv'
<1>1. tx[p] \in TxRecord
  BY DEF BooksInv, SettleInv, Typed, TypeOK
<1>2. PICK j \in Jobs : j = tx[p].job
  BY <1>1 DEF TxRecord
<1>3. /\ status[tx[p].job] \in Active /\ (tx[p].reserved <=> cost[tx[p].job] > 0)
      /\ tx[p].balance = points[owner[tx[p].job]]
  BY DEF BooksInv, SettleInv, SnapshotCurrent, BalanceCurrent
<1>4. /\ PointsConserved'
      /\ \A u \in Users : u # owner[j] => points'[u] = points[u]
  BY <1>1, <1>2, <1>3, RefundConserves
<1>5. tx'[p] = None /\ \A q \in Procs \ {p} : tx'[q] = tx[q]
  BY CloseTxFacts DEF BooksInv
<1>6. ASSUME NEW q \in Procs, tx'[q] # None PROVE tx'[q].balance = points'[owner'[tx'[q].job]]
  <2>1. q # p /\ tx'[q] = tx[q]
    BY <1>5, <1>6
  <2>2. tx[q] \in TxRecord
    BY <1>6, <2>1 DEF BooksInv, SettleInv, Typed, TypeOK
  <2>3. PICK i \in Jobs : i = tx[q].job
    BY <2>2 DEF TxRecord
  <2>4. status[i] \in Active /\ tx[q].balance = points[owner[i]]
    BY <1>6, <2>1, <2>3 DEF BooksInv, SettleInv, SnapshotCurrent, BalanceCurrent
  <2>5. i # j
    BY <1>2, <1>6, <2>1, <2>3 DEF BooksInv, SettleInv, OneTxPerJob
  <2>6. owner[i] # owner[j]
    BY <1>2, <1>3, <2>4, <2>5, OneActiveEach DEF BooksInv, SettleInv
  <2>7. owner[i] \in Users
    BY <2>4 DEF BooksInv, SettleInv, Typed, OwnedJobs
  <2> QED BY <1>4, <2>1, <2>3, <2>4, <2>6, <2>7
<1>7. BalanceCurrent'
  BY <1>6 DEF BalanceCurrent
<1> QED BY <1>4, <1>7 DEF BooksInv

LEMMA BooksClient ==
  ASSUME BooksInv, SettleInv', ActiveWithinLimit', ActiveLimit = 1,
         NEW c \in Clients, ClientStep(c)
  PROVE  BooksInv'
<1>1. c \in Procs
  OBVIOUS
<1>2. ASSUME NEW j \in Jobs, CancelRead(c, j) PROVE BooksInv'
  <2>1. OpenTx(c, j, "cancelled") /\ UNCHANGED <<points, owner, cost, status, asset>>
    BY <1>2 DEF CancelRead
  <2>2. \A p \in Procs : tx'[p] # None =>
          tx'[p] = tx[p] \/ tx'[p].balance = points[owner[tx'[p].job]]
    BY <1>1, <2>1 DEF OpenTx, BooksInv, SettleInv, Typed, TypeOK
  <2> QED BY <2>1, <2>2, BooksFrame
<1>3. ASSUME NEW j \in Jobs, DeleteJob(c, j) PROVE BooksInv'
  <2>1. /\ status[j] \in Terminal /\ status'[j] = "deleted"
        /\ asset'[j] = (IF asset[j] = "live" THEN "deleted" ELSE asset[j])
        /\ UNCHANGED <<points, owner, cost, tx>>
        /\ \A i \in Jobs \ {j} : status'[i] = status[i] /\ asset'[i] = asset[i]
    BY <1>3 DEF DeleteJob, Revoke, BooksInv, SettleInv, Typed, TypeOK
  <2>2. \A i \in Jobs : (status'[i] \in Active \/ asset'[i] # "none")
                          <=> (status[i] \in Active \/ asset[i] # "none")
    BY <2>1
  <2> QED BY <2>1, <2>2, BooksFrame
<1>4. CASE CancelWrite(c)
  <2>1. tx[c] # None /\ Refund(tx[c]) /\ CloseTx(c) /\ UNCHANGED <<owner, cost, asset>>
    BY <1>4 DEF CancelWrite
  <2>2. tx[c].to \in Refused
    BY <2>1 DEF BooksInv, SettleInv, ClientTx
  <2> QED BY <1>1, <2>1, <2>2, SettlingConserves
<1>5. CASE CancelConflict(c)
  <2>1. CloseTx(c) /\ UNCHANGED <<points, owner, cost, status, asset>>
    BY <1>5 DEF CancelConflict
  <2>2. \A p \in Procs : tx'[p] # None => tx'[p] = tx[p]
    BY <1>1, <2>1, CloseTxFacts DEF BooksInv
  <2> QED BY <2>1, <2>2, BooksFrame
<1>6. ASSUME NEW i \in Uploads, DeleteInputCheck(c, i) PROVE BooksInv'
  BY <1>6, BooksFrame DEF DeleteInputCheck
<1>7. CASE DeleteInputCommit(c)
  BY <1>7, BooksFrame DEF DeleteInputCommit
<1> QED BY <1>2, <1>3, <1>4, <1>5, <1>6, <1>7 DEF ClientStep

LEMMA BooksWorker ==
  ASSUME BooksInv, SettleInv', ActiveWithinLimit', ActiveLimit = 1, WorkerStep
  PROVE  BooksInv'
<1>1. ASSUME NEW j \in Jobs, Claim(j) PROVE BooksInv'
  <2>1. /\ status[j] = "queued" /\ status'[j] = "running"
        /\ UNCHANGED <<points, owner, cost, asset, tx>>
        /\ \A i \in Jobs \ {j} : status'[i] = status[i]
    BY <1>1 DEF Claim, Queued, BooksInv, SettleInv, Typed, TypeOK
  <2>2. \A i \in Jobs : (status'[i] \in Active \/ asset'[i] # "none")
                          <=> (status[i] \in Active \/ asset[i] # "none")
    BY <2>1
  <2> QED BY <2>1, <2>2, BooksFrame
<1>2. CASE PrepareFails \/ LoadInputs \/ Dispatch \/ StoreImage \/ ProviderFails
  <2>1. UNCHANGED <<points, owner, cost, status, asset, tx>>
    BY <1>2 DEF PrepareFails, LoadInputs, Dispatch, StoreImage, ProviderFails
  <2> QED BY <2>1, BooksFrame
<1>3. CASE CompleteRead \/ FailRead
  <2>1. UNCHANGED <<points, owner, cost, status, asset>>
    BY <1>3 DEF CompleteRead, FailRead
  <2>2. \/ tx' = tx
        \/ OpenTx(Worker, wjob, "succeeded") \/ OpenTx(Worker, wjob, verdict)
    BY <1>3 DEF CompleteRead, FailRead
  <2>3. \A p \in Procs : tx'[p] # None =>
          tx'[p] = tx[p] \/ tx'[p].balance = points[owner[tx'[p].job]]
    BY <2>2 DEF OpenTx, BooksInv, SettleInv, Typed, TypeOK
  <2> QED BY <2>1, <2>3, BooksFrame
<1>4. CASE CompleteWrite
  <2>1. wjob \in Jobs /\ status[wjob] \in Active
    BY <1>4 DEF CompleteWrite, BooksInv, SettleInv, Typed, BusyWorker, WorkingIsRunning
  <2>2. /\ asset'[wjob] = "live" /\ CloseTx(Worker) /\ UNCHANGED <<points, owner, cost>>
        /\ \A i \in Jobs \ {wjob} : status'[i] = status[i] /\ asset'[i] = asset[i]
    BY <1>4, <2>1 DEF CompleteWrite, BooksInv, SettleInv, Typed, TypeOK
  <2>3. \A i \in Jobs : (status'[i] \in Active \/ asset'[i] # "none")
                          <=> (status[i] \in Active \/ asset[i] # "none")
    BY <2>1, <2>2
  <2>4. \A p \in Procs : tx'[p] # None => tx'[p] = tx[p]
    BY <2>2, CloseTxFacts DEF BooksInv
  <2> QED BY <2>2, <2>3, <2>4, BooksFrame
<1>5. CASE FailWrite
  <2>1. tx[Worker] # None /\ tx[Worker].to \in Refused /\ ~RefundExists(tx[Worker])
    <3>1. tx[Worker] # None /\ tx[Worker].to \in {"failed", "rejected"}
      BY <1>5 DEF FailWrite, BooksInv, SettleInv, WorkerTx
    <3>2. tx[Worker].job \in Jobs /\ Held(tx[Worker].job)
      BY <3>1 DEF BooksInv, SettleInv, Typed, TypeOK, TxRecord, SnapshotCurrent, Settlement
    <3> QED BY <3>1, <3>2 DEF RefundExists, Held
  <2>2. Refund(tx[Worker]) /\ CloseTx(Worker) /\ UNCHANGED <<owner, cost, asset>>
    BY <1>5, <2>1 DEF FailWrite
  <2> QED BY <2>1, <2>2, SettlingConserves
<1> QED BY <1>1, <1>2, <1>3, <1>4, <1>5 DEF WorkerStep

LEMMA BooksOther ==
  ASSUME BooksInv, SettleInv', ActiveWithinLimit', ActiveLimit = 1,
         \/ \E u \in Users, i \in Uploads : UploadImage(u, i)
         \/ \E p \in Procs : Remove(p)
         \/ \E S \in SUBSET Jobs : Cleanup(S)
         \/ Boot \/ DbError \/ Crash \/ NewDay
         \/ \E j \in Jobs : Age(j)
  PROVE  BooksInv'
<1>1. CASE \/ \E u \in Users, i \in Uploads : UploadImage(u, i)
           \/ \E p \in Procs : Remove(p)
           \/ Start \/ RecoveryDone \/ NewDay \/ \E j \in Jobs : Age(j)
  <2>1. UNCHANGED <<points, owner, cost, status, asset, tx>>
    BY <1>1 DEF UploadImage, Remove, RemoveFile, Start, RecoveryDone, NewDay, Age
  <2> QED BY <2>1, BooksFrame
<1>2. ASSUME NEW S \in SUBSET Jobs, Cleanup(S) PROVE BooksInv'
  <2>1. /\ \A j \in S : status[j] = "succeeded"
        /\ \A j \in Jobs : status'[j] = IF j \in S THEN "deleted" ELSE status[j]
        /\ \A j \in Jobs : asset'[j] =
             IF j \in S /\ asset[j] = "live" THEN "deleted" ELSE asset[j]
        /\ UNCHANGED <<points, owner, cost, tx>>
    BY <1>2 DEF Cleanup, Revoke
  <2>2. \A i \in Jobs : (status'[i] \in Active \/ asset'[i] # "none")
                          <=> (status[i] \in Active \/ asset[i] # "none")
    BY <2>1
  <2> QED BY <2>1, <2>2, BooksFrame
<1>3. ASSUME NEW j \in Jobs, RecoverJob(j) PROVE BooksInv'
  <2>1. PICK t : t = [job |-> j, to |-> "failed", balance |-> points[owner[j]],
                      reserved |-> order[j] = "reserved"]
    OBVIOUS
  <2>2. /\ status[j] = "running" /\ pc = "recovering" /\ Refund(t)
        /\ UNCHANGED <<owner, cost, asset, tx>>
    BY <1>3, <2>1 DEF RecoverJob, Abandoned, Running
  <2>3. t \in TxRecord /\ t.job = j /\ t.to = "failed" /\ t.balance = points[owner[j]]
    BY <2>1, <2>2 DEF TxRecord, BooksInv, SettleInv, Typed, TypeOK, OwnedJobs
  <2>4. t.reserved = (order[j] = "reserved")
    BY <2>1
  <2>5. order[j] = "reserved" <=> cost[j] > 0
    BY <2>2 DEF BooksInv, SettleInv, Settlement, Held
  <2>6. t.reserved <=> cost[t.job] > 0
    BY <2>3, <2>4, <2>5, Zenon
  <2>7. PointsConserved'
    BY <2>2, <2>3, <2>6, RefundConserves
  <2>8. \A p \in Procs : tx'[p] = None
    BY <2>2 DEF BooksInv, SettleInv, Typed, BusyWorker
  <2>9. BalanceCurrent'
    BY <2>8 DEF BalanceCurrent
  <2> QED BY <2>7, <2>9 DEF BooksInv
<1>4. CASE DbError
  <2>1. CloseTx(Worker) /\ UNCHANGED <<points, owner, cost, status, asset>>
    BY <1>4 DEF DbError
  <2>2. \A p \in Procs : tx'[p] # None => tx'[p] = tx[p]
    BY <2>1, CloseTxFacts DEF BooksInv
  <2> QED BY <2>1, <2>2, BooksFrame
<1>5. CASE Crash
  <2>1. UNCHANGED <<points, owner, cost, status, asset>> /\ \A p \in Procs : tx'[p] = None
    BY <1>5 DEF Crash
  <2> QED BY <2>1, BooksFrame
<1> QED BY <1>1, <1>2, <1>3, <1>4, <1>5 DEF Boot

LEMMA BooksInit == Init => BooksInv
<1> SUFFICES ASSUME Init PROVE BooksInv
  OBVIOUS
<1>1. SettleInv /\ ActiveWithinLimit
  BY SettleInit, LimitedInit DEF Limited
<1>2. BalanceCurrent
  BY DEF Init, BalanceCurrent
<1>3. ASSUME NEW u \in Users PROVE points[u] + Spent(u) = InitialPoints
  <2>1. Paying(u) = {}
    BY DEF Init, Paying
  <2>2. PointsOf(cost, {}) = {}
    BY DEF PointsOf
  <2>3. Spent(u) = 0
    BY <2>1, <2>2, SpentIs, FS_EmptySet
  <2>4. points[u] = InitialPoints
    BY DEF Init
  <2> QED BY <2>3, <2>4, ImageJobsAssumption
<1> QED BY <1>1, <1>2, <1>3 DEF BooksInv, PointsConserved

LEMMA BooksNext == RowLocks /\ ActiveLimit = 1 /\ BooksInv /\ [Next]_vars => BooksInv'
<1> SUFFICES ASSUME RowLocks, ActiveLimit = 1, BooksInv, [Next]_vars PROVE BooksInv'
  OBVIOUS
<1>1. SettleInv'
  BY SettleNext DEF BooksInv
<1>2. ActiveWithinLimit'
  BY LimitedNext DEF BooksInv, SettleInv, Limited
<1>3. CASE UNCHANGED vars
  <2>1. UNCHANGED <<points, owner, cost, status, asset, tx>>
    BY <1>3 DEF vars
  <2> QED BY <1>1, <1>2, <2>1, BooksFrame
<1>4. CASE Next
  BY <1>1, <1>2, <1>4, CreateConserves, BooksClient, BooksWorker, BooksOther DEF Next, Submit
<1> QED BY <1>3, <1>4

\* Where FOR UPDATE locks the row and a user may have one active job, as the
\* policy is by default, no refund and no reservation of a user is lost: the
\* balance and what the jobs hold or have kept always add up to the start.
THEOREM PointsAreConserved ==
  ASSUME RowLocks, ActiveLimit = 1
  PROVE  Spec => []PointsConserved
<1>1. BooksInv /\ [Next]_vars => BooksInv'
  BY BooksNext
<1>2. BooksInv => PointsConserved
  BY DEF BooksInv
<1> QED BY <1>1, <1>2, BooksInit, PTL DEF Spec
==============================================================================
