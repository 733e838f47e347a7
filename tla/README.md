# Formal models of SmartAnswer

SmartAnswer answers quiz questions over HTTP (from its own question bank, from
learned answers and from language models), charges points for answers, and
generates images as paid background jobs.  This directory holds TLA+ models of
its parts, the TLC configurations that check them on small instances, and TLAPS
proofs.  `PROJECT.json` maps every definition to the lines of code it models
and lists runs, mutants, findings, hazards and theorems.

To check a model: `tlc -config <run>.cfg <module>.tla`; to check a proof:
`tlapm <module>Proofs.tla`.

## 1. Inventory

Everything runs in one process: one uvicorn worker (Dockerfile), a pool of
threads for the synchronous route handlers, a few asyncio tasks (image worker,
journal compaction), and one database, SQLite by default and PostgreSQL in the
supported deployment.  `platform/container.py` gives most platform services one
shared re-entrant lock; `AuthService` and the update service have locks of
their own; the image worker, the answer pipeline, the log clean-up and several
handlers take none and rely on transactions, on single assignments, or on luck.

| Part | State | Operations | What is hard | Module |
|---|---|---|---|---|
| Image jobs (`platform/image_generation`, its repository, `media`) | job rows, reservation and refund orders, assets, files | submit, cancel, delete, upload; worker: claim, load, dispatch, store, settle, clean up; recovery | overlap of worker and clients, crashes between steps, files against rows | `ImageJobs` |
| Image models (the same service, `protocols.py`) | model rows, verified edits, job snapshots | create, change, delete, test, submit, render | models change while a test or a job is in progress | `ImageModels` |
| Query admission (`api/query_admission.py`) | counters, recency table, windows | acquire, release, evict | clock and policy read before the lock, a full table | `QueryAdmission`, `AdmissionRate` |
| Query execution, API tokens (`api/query_execution.py`, `platform/tokens`, `platform/usage`) | key rows, leases, usage log | resolve, bind, admit, look up, bill, release; key administration | rights withdrawn while a request is served | `QueryBilling` |
| Wallet and balances (`platform/wallet`, usage, feedback, image and auth repositories) | balances, orders, redeem codes, rewards | redeem, adjust, charge, reward, reserve, refund | many writers, some of whole rows | `PointsLedger` |
| Accounts, roles, permissions (`auth/service.py`, `platform/permissions`) | users, roles, migrations | register, set role and status, delete; role administration | decisions on stale reads; the last superadmin | `Accounts` |
| Sessions, reset tokens, throttle (`auth`, `storage/redis_state.py`) | sessions and their index with times to live, failures | log in and out, resolve, revoke, reset | two expiries, fixed windows | `Sessions` |
| E-mail verification (`auth/email_verification.py`) | codes, limits, attempts | ask, send, verify, register, consume | limits checked before a slow send; three transactions per use | `Registration` |
| Announcements, notifications, feedback notices | rows, receipts, flags | publish, edit, mark, resolve | edits after reading; old handlers beside new | `Notices` |
| Settings, model rows, answer service (`platform/settings`, `llm/config`, `bootstrap.py`) | rows, running service | edit, migrate, refresh | refresh in steps, interrupted migrations | `Configuration` |
| Answer pipeline (`answering`, `llm/orchestration`, `llm/providers`, `llm/tools`) | the query in progress, search cache, cool-downs | search, ask, check, repeat, fail over, retry | every call may fail at every depth | `AnswerPipeline` |
| Answer cache (`llm/cache`) | entries, journal | record, compact, refresh, load | torn writes, compaction during appends, two objects on one file | `AnswerEntries`, `AnswerCache` |
| Question bank (`answering`, `storage/repositories/questions.py`, `api/v1/questions`) | row, index entry, learned answer | look up, learn, edit, delete, reindex, restart | three places, no lock over two | `QuestionBank` |
| Question index (`search`) | dictionary, order, slots, inverted indexes | add, replace, update, remove, rebuild, look up | slots and positions that outlive their record | `MatchIndex` |
| Lists and dashboard (`platform/usage`, `platform/feedback`, `platform/dashboard`) | rows | record, page, count, report | pages and figures read one by one while rows arrive | `Reports` |
| Release status (`platform/updates`) | the stored row | check, show | two requests that may disagree, overlapping checks | `Releases` |
| Database start-up (`storage/database.py`) | schema, copies | look, copy, drop, add, fill | concurrent and interrupted starts | `Schema` |
| Log files (`logger`) | files | append, enforce, clean up | list first, delete later, without a lock | `LogFiles` |
| Release scripts, import scripts, help, media decoding, parsing and adapters, prompts, ingestion, routes, captcha drawing, website | | | I/O, text and pictures | section 6 |

What makes the parts correct is stated with the runs in section 3; what is hard
to test is listed, line by line, under "hazards" in `PROJECT.json`.

## 2. Modules

Conventions:

- **Locks and transactions.**  What runs under a lock, or in a transaction
  that holds its locks for all its reads, is one step.  What reads first and
  writes later is two (`CancelRead`/`CancelWrite`, `ReadUser`/`Commit`,
  `BillRead`/`BillWrite`, `AskRole`/`WriteAccount`, `ReadAttempts`/
  `WriteAttempts`).  `RowLocks` says whether `SELECT ... FOR UPDATE` locks the
  row in between: TRUE is PostgreSQL; on SQLite the clause compiles to nothing,
  and the driver starts the transaction only at the first write.
- **Bounds** of an instance (requests, crashes, changes, the clock) are constants
  whose comment says `bound`, and appear in the guards.
- **Faulty variants.**  An operator that a `\* Faulty variant` comment
  announces is not part of the specification: it is the bug that shows that a
  property can fail (the `mutants` of `PROJECT.json`).
- **History variables** record what a property speaks of; no guard reads
  them but to bound an instance (`calls`, `granted`, `mailed`, `entered`, `damaged`, `overlapped`, `lost`).

### Points: ImageJobs, PointsLedger, QueryBilling

`ImageJobs` keeps the job rows (`status`, `owner`, `key`, `cost`, `inputs`,
`born`), wallet orders (`order`, `refunds`), balances, assets and files,
requests sent to the provider (`calls`), the worker's program counter, settling
transactions (`tx`) and files still to unlink (`doomed`).  `CreateJob` checks
limits, price and idempotency key behind a no-op update of the user row, which
locks on either database; `Claim`,
`LoadInputs`, `Dispatch`, `StoreImage`, `ProviderFails`, `CompleteRead/Write`,
`FailRead/Write` and `Cleanup` are the worker; `Crash`, `Start` and
`RecoverJob` the process; `Age` and `NewDay` time.  On SQLite `DeleteJob` and
`Cleanup` stay single steps, a limitation of that run.  `ImageJobContract` is
what a job promises its owner in four values (`absent`, `held`, `kept`,
`returned`); `ImageJobs` implements it under the mapping at its end.

`PointsLedger` has every writer of `users.points` and
`users.unlimited_expires_at`: the platform services under their shared lock
(`Enter`, `ReadUser`, `Commit`), reservations and refunds without one, and
`AuthService`, which reads a row, changes a copy and saves it whole (`GetUser`,
`SaveLoad`, `SaveFlush`).  `ledger` is what orders and logs say of a user.
`add_points`, `consume_points` and `grant_unlimited_days` have no callers and
are left out.

`QueryBilling` follows a request through guard, eligibility, principal,
admission, lookup, billing and release.  It resolves its caller up to four
times (`phase`), each time from the rows as they then are.  Owners and
administrators change keys and accounts meanwhile.  Static OCS keys and
anonymous callers, whom the code does not bill, are left out.

The three meet where the code does, each taking the others as a
nondeterministic environment: a job is for `PointsLedger` a reservation and a
refund; `QueryBilling` lets admission and the points check refuse at will.

### Platform: QueryAdmission, Accounts, Sessions, Registration, Notices, Configuration

`QueryAdmission` has the controller's `OrderedDict` as a set and an order
(`known`, `before`); the policy and the time a thread read before the lock
(`plan`, `now`) are where staleness enters.  `AdmissionContract` states
admission over the requests themselves, each judged by the policy in force when
it came (`judged`, for which `QueryAdmission` has the policy it read, `plan`);
`QueryAdmission` implements it.
`AdmissionRate` adds a history of the real times at which requests were let in
and states the rate limit over it, for policies that keep it on.

`Accounts`: a request of an administrator is authorised and its target read
(`Ask...`), decided under the lock on that reading (`Decide`) and written
(`WriteAccount`, `SaveRole`, `DropRole`); the migrations of every start may be
interrupted.  `granted` is what owners have ever given away.  `Sessions`: one
account name, its sessions, their Redis index with a time to live of its own,
reset tokens and the throttle.  `Registration`: `AskCode`, `SendMail`,
`SaveCode`, `Verify`, `ReadAttempts`, `WriteAttempts`, `RegisterName`,
`Consume` are the calls of a handler, which may stop between any two
(`Abort`).  `Notices`: announcements, notifications, receipts and row flags
(`MarkItem` and the older `MarkNotification` handlers), and feedback whose
author is told.  `Configuration`: partial edits of settings, models and prices,
the three migrations, and the refresh that reads (`ReadForStack`, `ReadModels`,
`ReadFlags`, `ReadRetries`) and assigns (`AssignProvider`, `AssignRest`) in
steps.

### Knowledge: AnswerPipeline, AnswerEntries, AnswerCache, QuestionBank, MatchIndex, ImageModels

`AnswerPipeline` is a machine of stages (attempt, search, answer, check,
repetition) over members and the forms of a request, with search engines that
cool down.  `AnswerEntries` is one learned answer (confirmations, conflict);
`AnswerCache` adds journal, compaction (`WriteTemp`, `TakeSnapshot`,
`ReplaceJournal`, `AbandonCompaction`; due by the count of records or, in lines,
by the size of the file), refresh and restart, and
`QuestionBank` adds the row and the index entry of one question with queries,
edits, deletions and reindexing in threads.  `MatchIndex` has the index's own
structures and its lookups by key, title and n-grams; the similarity of two
titles is a constant relation.  A lookup considers the `CandidateLimit` records
that share most n-grams with the question (`MostCommon`, 80 in the code); among
equals the code takes what a set happens to enumerate first, so `Recalled`,
`LookUp` and the scan they are compared with are sets of outcomes.  In
`QuestionBank` any look of a query may be skipped: `no_local_bank_mode` skips
all, a question in pictures only skips the index, one with pictures the learned
answer.  What such a query learns overwrites the row under the text of the
pictures, and the history variable `apart` notes that row and index may differ
since.  `ImageModels` has models, capability tests
(without the platform lock), submissions and the calls made from a snapshot.

### Operations: Reports, Releases, Schema, LogFiles

`Reports`: rows are built before the lock and stored under it; a reader turns
pages (`TurnPage`), counts, and reads a report figure by figure (`ReadModes`,
`ReadDay`).  `Releases`: a check asks twice and may fail or be cut off between
any two steps.  `Schema`: each statement of a SQLite upgrade is a step, other
databases upgrade in transactions planned from earlier looks.  `LogFiles`: a
pass lists once, then looks and deletes file by file (`RemoveNext`,
`LookAtAge`, `DeleteExpired`, `Measure`, `Trim`).

The components of a group share no state.  `MCPlatform` and `MCKnowledge` put
them side by side in one run: a variable `part` picks one component per
behaviour, from all of its initial states, and the others do not move.  So one
run says of each component what a run of its own would.  `ImageModels` relies
on `ImageJobs` for balances and files, `QuestionBank` on `AnswerPipeline` for
what a model may answer.

## 3. Runs

`pass` runs are exhaustive on their instance; a `violation` run shows a
counterexample to a statement of the repository.

| Run | What it shows | Instance and why it is enough |
|---|---|---|
| `image_pg` | On PostgreSQL: points held, kept or returned exactly as the status says (`Settlement`, `PointsConserved`), one provider call (`AtMostOneCall`), live outputs have files, the contract | two jobs of one user, two clients, the worker, an upload, a crash, a database error, prices 0 and 2 with 3 points: any two processes overlap on any job, the second job may not be affordable, the day may change |
| `image_sqlite` | What is left without row locks: the active limit, and every job settles when a restart takes 300 s | two jobs, two clients, two crashes |
| `query_billing` | Quota, binding, counters, bills, and every request ends | two threads, a key and its owner's session, two clients, limits 0 and 1, three requests, two changes: two first requests of different clients, two for the last answer of a quota, every withdrawal in every phase |
| `ledger_all` | All writers together on PostgreSQL: codes, rewards, which operations may lose an update, operations end | two users, two threads, two operations of any part, three days so that a code expires, deletion and invitation of a user: any two operations overlap at any step |
| `platform` | Admission exact and within its window, an owner remains, permissions trace to an owner, recent sessions are revoked, attempts and mails are bounded, a code serves one account, read marks are one's own, edits that do not overlap take effect, the admission contract | two threads, requests, handlers, editors or readers per component; tables, windows and limits of one or two; clocks of two to five ticks, longer than each time to live and window |
| `knowledge` | A query fails only when every model failed in every attempt; a restart reproduces the cache; trusted answers were never contradicted; only vouched answers are served; starts and undisturbed changes bring index and table together, and queries keep them so; lookups find what a scan with the same limit finds; edits use tested setups; accepted jobs run; pages and reports add up; the release shown is the last verified; upgrades are complete and recoverable; logs lose only what may go | two members, engines, answers, keys, records, models, readers, administrators, processes or threads per component; the bounds in `Knowledge.cfg` leave room for two overlapping requests and for one restart, compaction, midnight or crash in between |

Symmetry is used for values no expression tells apart, and never in a run with
a liveness property.  Deadlock is not checked: the bounded instances come to
rest when their requests are used up, and the system itself may be idle.

Type invariants document the state of each module.  Most are proved (section
5); none takes a place in a run.

### Violations

1. `image_sqlite_cancel`: on SQLite, the default database, a cancellation may
   overwrite a job the worker has claimed meanwhile
   (`storage/repositories/image_generation.py:349`).
2. `image_two_refunds`: two refunds of one user may overlap and one is lost,
   also on PostgreSQL, because the user row is read without a lock (`:367`).
   `image_pg` therefore allows one active job per user, where it cannot happen.
3. `image_prompt_restart`: a process restarted within 300 s of a crash leaves
   the interrupted job running until yet another restart
   (`platform/image_generation/service.py:519`).
4. `ledger_admin_save`: an account operation such as a role change writes back
   the points it read before a charge (`storage/repositories/auth.py:80`).
5. `bank_conflict`: a second answer that contradicts the first makes the cache
   entry a conflict, but the first one is in the question bank and is still
   served (`answering/service.py:304`).
6. `image_legacy`: jobs of a model with the old chat protocol are accepted and
   then refused by the worker for their own snapshot
   (`platform/image_generation/protocols.py:145`).

### Weaknesses the properties leave out

Each is in the model, and the property that would fail without the exception
says so in its comment.

- A charge and a reservation may overlap on SQLite (`usage.py:123`):
  `BalanceAccounted` is claimed of the platform services alone there.
- An upload may be deleted, or an output expire, while another job has still to
  read it; the job fails and is refunded.
- A quota limit of 0 set while a request is served means unlimited to the usage
  transaction (`usage.py:107`): `QuotaKept` leaves 0 out.
- A remembered session may outlive its index, and then a revocation misses it
  (`redis_state.py:104`): `RecentSessionsRevoked` speaks of the shorter time.
- Each other handler that decided before a code was saved adds one mail to the
  limits (`email_verification.py:268`): `MailsBounded` counts them.
- Two refreshes that overlap may leave an older service in place
  (`bootstrap.py:228`): `AloneEditsTakeEffect` speaks of requests that do not.
- A list of feedbacks of one status is cut before it is filtered, so some rows
  are on no page (`platform/feedback/service.py:266`); and the repository returns
  500 feedbacks at most where the service asks for 5000
  (`storage/repositories/feedback.py:87`), so older ones are neither listed nor
  counted: see `RowsListed`, which speaks of what the total counts.
- A query with `no_local_bank_mode`, or in pictures, looks past an answer that
  is there and overwrites its row, perhaps with one of low confidence, and the
  index keeps the old answer (`answering/service.py:74`,
  `answering/persistence.py:76`).  So do requests that overlap, and a save that
  fails.  `IndexAgreesAlone` says when the two are together again.
- With more than 80 records that share an n-gram with a question, one that fits
  may not be considered, and records the model answered take places although
  fuzzy matching uses none of them (`search/matching.py:276`): see
  `LooksUpLikeScan`.
- A release whose row is too long is stored and not read back
  (`platform/updates/service.py:171`): see `ShowsLastVerified`.
- Two processes that copy a SQLite file in the same second write the same copy
  (`storage/database.py:380`): see `BackupHoldsDropped`.
- An event appended after a pass looked at the age of its file goes with it
  (`logger/storage.py:229`): see `OnlyWhatMayGo`.

## 4. Fairness

- `ImageJobs`: weak fairness of the worker's steps, of recovery, of the removal
  of files, of a client's transaction already read, and of time.  The worker
  loop polls every few seconds and the provider call has a timeout; the
  container restarts the process (`restart: unless-stopped`).  Nothing forces
  clients, crashes, database errors or cleanups.
- `PointsLedger` and `QueryBilling`: strong fairness of each thread.  A thread
  may find the lock taken again and again, so weak fairness would not do;
  `RLock` and row locks are granted to every waiter when they keep being
  released, and nothing here holds one for ever.  A provider call in `Lookup`
  ends because every HTTP client has a timeout.  New operations are not forced.
- The other modules state safety only.  Their waits are bounded by timeouts of
  single calls, or are requests nobody has to make.

## 5. Proofs

`tlapm` checks every theorem for every value of the constants, under the named
assumption of each module.

| Theorem | Statement | Assumes besides |
|---|---|---|
| `ImageJobsProofs!TypeCorrect` | types; no balance is negative | |
| `ImageJobsProofs!SettlementHolds` | a job holds, keeps or returns its points as its status says | `RowLocks` |
| `ImageJobsProofs!StatusOrderHolds` | a running job is not cancelled, a settled one only deleted | `RowLocks` |
| `ImageJobsProofs!ContractKept` | `ImageJobs` implements `ImageJobContract` | `RowLocks` |
| `ImageJobsProofs!OneCallHolds` | the provider is asked at most once for a job | |
| `ImageJobsProofs!LiveOutputsHaveFiles` | an output that can be opened has its file | |
| `ImageJobsProofs!ActiveLimitHolds` | no user has more active jobs than the limit | |
| `ImageJobsProofs!PointsAreConserved` | a balance and what the jobs of the user hold or have kept add up to the start | `RowLocks`, `ActiveLimit = 1` |
| `QueryAdmissionProofs!TypeCorrect`, `CountsHold`, `TableHolds` | types, exact counters, bounded table | |
| `QueryAdmissionProofs!ContractKept` | `QueryAdmission` implements `AdmissionContract`: each request is judged by the policy in force when it came | |
| `QueryAdmissionProofs!RateLimitKept` | one admission more than the limit takes a window, less the wait for the lock | no more principals ask than the table holds |
| `PointsLedgerProofs!TypeCorrect`, `CodesHonoured`, `RewardsPaidOnce` | types, codes within their uses, rewards paid once, with or without row locks | |
| `PointsLedgerProofs!OnlyStaleWrites` | only refunds and whole-row saves separate balance and records | `RowLocks` |
| `PointsLedgerProofs!BalancesAccounted` | the balance is what the records add up to, where only the platform services write, or row locks hold and nobody refunds or saves whole rows | as stated |
| `QueryBillingProofs!TypeCorrect`, `UsageIsCounted`, `AnswersAreBilled`, `BindingIsExclusive`, `QuotaIsKept` | the safety properties of `query_billing` | |
| `AccessProofs!AccountsTyped`, `OwnerAlwaysRetained`, `PermissionsTrace`, `EditsKept` | types; an active superadmin remains; delegates give away nothing an owner has not; migrations undo no edit | |
| `AccessProofs!RevocationsReachRecentSessions` | a revocation leaves no session issued less than `DefaultTTL` ago | |
| `AccessProofs!WrongPasswordsBounded` | at most `2 * MaxFailures - 2` wrong passwords within a window | |
| `AccessProofs!CodeServesOneAccount`, `MailsAreBounded` | a code proves one account; mails within the limits and one for each other handler | |
| `SettingsProofs!ReadersMarkForThemselves` | an item is shown as read to those who marked its present version | |
| `SettingsProofs!LoneEditsTakeEffect` | requests that do not overlap leave the service as the rows describe it | |
| `KnowledgeProofs!BankServesVouched`, `BankIndexAgrees` | what is served was vouched for; a start or an undisturbed change makes the index equal to a reload, and it stays so while nothing parts them | |
| `KnowledgeProofs!RestartsReproduce`, `TrustedAnswersUnanimous` | an undamaged journal gives back the entries in service; trusted entries were never contradicted | |
| `KnowledgeProofs!FailureExhaustsModels` | a query fails only when every model failed in every attempt | |
| `KnowledgeProofs!LookupsMatchScan` | the indexes may find just what a scan of the records with the same limit of candidates may; a snapshot is in the order of the dictionary | |
| `OperationsProofs!EditsAreVerified`, `AcceptedJobsRun` | edits use tested setups; accepted jobs are not refused for their snapshot | |
| `OperationsProofs!PageShowsLastVerified` | the page shows the release verified last | |
| `OperationsProofs!UpgradesKeepData` | a ready process has the whole schema, and copies hold what was dropped | |
| `OperationsProofs!DeletionsAreDue` | a clean-up of the log deletes only what its mode may delete | |
| `OperationsProofs!PagesMissNoRow` | who turns all the pages of a list misses no row that was in it, but for the two kinds `RowsListed` names | |
| `OperationsProofs!ReportsFit` | the figures of a report fit together although each is read by itself | |

The type invariants of the other modules named here are theorems too.

The invariants, and why each part is needed:

- `ImageJobs`: `Typed` adds to the types that existing jobs have owners and that
  the worker's job exists.  `SettleInv` adds that what a settling transaction
  read of its job is still true (`SnapshotCurrent`), that there is one such
  transaction per job (`OneTxPerJob`), that a client's is about a queued job and
  the worker's about its own (`ClientTx`, `WorkerTx`), and that the worker's
  job is running while it works (`WorkingIsRunning`).  Without them a stale read
  could settle a job twice, and that is what happens without row locks.
- `ImageJobs`, about the worker: `Handled` says that a job never claimed has met
  neither the provider nor the disk (`Untouched`); that the job in the worker's
  hand is claimed, has no output yet, has not been sent before the provider is
  asked, and has its image on disk from storing to completion (`InHand`); and
  that only withdrawn outputs are about to be unlinked (`DoomedRevoked`).  None
  of this needs row locks: it rests on the one worker, not on the database.
  `Limited` carries the active limit: only a submission adds an active job.
- `ImageJobs`, the balances: `BooksInv` puts `SettleInv` and the active limit
  together and adds that an open transaction has read the balance its user still
  has (`BalanceCurrent`).  Who settles writes an absolute balance, so it must be
  the only one to move the points of that user: with one active job for each
  user there is no second settlement and no submission beside it.  The run
  `image_two_refunds` shows what happens with two.
- `QueryAdmission`: `Exact` adds that a principal with a request in progress is
  in the table (`WorkersKnown`).  Otherwise `release` would find nothing to give
  back.  That a full table has an idle entry follows by counting: fewer requests
  run than the global limit, which is below the capacity.
- `AdmissionRate`: `Rated` relates the times the controller keeps to those of
  the real admissions, by position from the end: an admission younger than a
  window less the wait for the lock has its time in the window of its
  principal, which the sweep has not reached (`Remembers`); so a policy that
  finds room in the window finds room in the history.  It needs that no time is
  read later than it is used, nor earlier than the wait allows (`Readings`), and
  that a full table is never full of others: evicting an idle principal to make
  room forgets its window, so the limit is promised to `MaxPrincipals` askers.
- `PointsLedger`: `Inv` adds one platform operation at a time and that what an
  operation has checked of its code or feedback row is still so; `Fresh`, for
  the balances, that the user row is what the transaction read, by the row lock
  or because nobody else writes.
- `QueryBilling`: `Inv` says per thread that the row about to be saved is still
  the row of the table (`Copied`), that a request whose caller may no longer ask
  is marked (`Marked`), and that one resolved in the present epoch comes from
  the client its key is bound to (`Recent`).  The last makes two first requests
  exclude each other: `BindSave` binds a key whose client is still unset.
- `Accounts`: `Governed` adds that what the migrations and system roles start
  with is given away (`AtFirst`), that a delegate's request in progress only
  carries what is (`Delegated`), although his own role may have changed since,
  and that migrations are over before requests are served (`Migrated`).
- `Sessions`: `Revocable` says that sessions carry an epoch of the past, that
  one of the current epoch issued less than `DefaultTTL` ago is in the user's
  index, and that the index does not end before it.  Nothing of the
  kind holds of older sessions, which sliding renewal keeps alive beyond the
  index.
- `QuestionBank`: `BankInvariant` says what each request in progress carries:
  answers it may still write are vouched for (`Vouches`); when nothing overlaps
  it, its copy is that of the table (`Current`), whatever the index says, which
  is why its last step brings the two together; and while nothing has parted
  them, the index is empty where a query looked and a recorded answer is the
  row's (`Agrees`, `Alone`).  `EntryOK` makes a conflict final.
- `Sessions`, the throttle: `AttemptsInv` says where in the list of wrong
  passwords the present record begins (`RecordTells`), and that those of two
  records before are more than a window older (`WindowsApart`).  So a window
  meets at most the ends of two records, each one short of the limit.
- `Registration`: `RegistrationInv` counts.  A mail has a row, or a handler about
  to save it, or was lost; and whoever asks for a code counts the rows of its
  window first.  The last handler that decided saw every mail of the window but
  those of other handlers under way, which is why the bound has their number in
  it.  For the codes: a handler that holds a code as verified has not used it up
  for another name.
- `Notices`: `NoticesInv` ties each of the three places a mark may be in
  (receipt, flag of a row, receipt of a row everyone sees) to the history, and
  says that versions and receipts are of edits that have happened
  (`VersionsPast`): an edit makes a version no receipt can have.
- `Configuration`: `ConfigInv` says that a lone request has read what the rows
  still say (`Fresh`), and that before the start is over none is in progress.
- `AnswerCache`: `CacheInv` says, while no line is lost, that the file tells the
  entries of the object in service (`Reproduced`); that a temporary file under
  way tells them for the keys already written, provided the count of records is
  still that of the snapshot (`Copying`); and that the count never falls back to
  it (`Compacting`).  `Heard` ties entries without a conflict to the history.
  That a file has a last line of each key is the well-foundedness of the naturals.
- `AnswerPipeline`: `PipelineInv` says that the models before the one under way
  are exactly those that failed in this attempt, and counts the attempts.
- `ImageModels`: `ModelsInv` dates tests and checks.  A record under test whose
  stamp is that of its model is that model (`TestsDated`), so a check with a
  current stamp was passed by what a job would call (`ChecksProven`); a
  job keeps what it was accepted for (`JobsAccepted`).
- `Releases`: `ReleasesInv` says that whoever asks or stores holds `check_lock`,
  and that the release verified last is the one about to be stored or the one
  in the row.
- `Schema`: `SchemaInv` says of each process what its start has brought about by
  the statement it has reached (`Progress`), that a copy is dated by a second in
  which its process started (`CopiesDated`), and that what is gone or about to go
  is in a copy (`CopiesHold`).
- `MatchIndex`: lookup and scan count the same n-grams under other names, slots
  and identifiers, so the candidates of one are those of the other
  (`HitsAreShared`, `MostCommonCarried`).  `MatchInv` says that every key is listed in one slot, the order
  of the slots is that of the dictionary, each index of titles and answers has
  the slots of the records it is about, and a tombstone is in none of them.  A
  record edited in place keeps its slot; one removed and added again gets the
  last, as in the dictionary.
- `LogFiles`: `LogInv` says that what a pass listed was there, that what it found
  old has not been written to by itself, and that the lines it counted still
  cover those it will see: events only add lines and deletions take what they
  found, so a trim never goes below the limit by its own count.

- `Reports`, the lists: `ListsInv` says of every row that was there when the walk
  began that it was shown, is of a kind that may be missed, or stands behind the
  pages turned so far (`Passed`).  A place is the number of rows ahead
  (`Ahead`): a row more ahead moves the others back, days that pass take rows
  away from the end alone, and the first rows stand among themselves as among
  all, so a cap changes no place.  `RowTimes` and `DueStored` exclude that a row
  of the list is stored once more.
- `Reports`, the figures: `ReportRight` keeps the set of rows the overview
  counted; they are still there when a later figure is read, each on one day of
  the trend if its days were computed on the day of the overview.

Only model-checked: all liveness (`EveryJobSettles`, `EveryWriteEnds`,
`EveryRequestEnds`), because fairness speaks of ENABLED.  Sums that are proved (`PointsConserved`, `OnlyWhatMayGo`,
`ReportAddsUp`) are stated as cardinalities of sets of pairs, one pair for each
point, line or call: a recursive sum would need an induction that the installed
provers cannot do.

## 6. Not modelled

- **Release scripts** (`deploy/*.sh`): shell scripts under a timer, outside the
  program.  `Releases` models what the program shows of releases.
- **Text**: question parsing, normalisation, the OCS adapter, prompts, answer
  extraction, fuzzy similarity of titles and options.  They convert texts
  without control of their own; where their outcome matters, it is a constant
  relation (`MatchIndex`) or a choice (`AnswerPipeline`).
- **Pictures**: decoding, rendering, the slider puzzle.  A picture is a value,
  a decoding is a call that may fail.
- **Import scripts, ingestion, help**: one-shot conversions and stored texts.
- **Routes**: they check and convert requests and hand over to the services.
- **Website**: a client of the API that no other part relies on.
- Within modelled parts: paging of notices, rankings of the dashboard,
  rejection statistics of admission, the masking of secrets, the console and
  the list of recent events of the logger, traces of image jobs.
