# SonClarus: specifications, model checking and proofs

SonClarus takes an audio file from a user, runs the selected stages (denoise,
separate, transcribe, summarize) on it and offers the results for download. A
FastAPI backend and four ML workers work on it without ever calling each other:
they share PostgreSQL rows, S3 objects and Kafka topics. This directory models
what can go wrong between them.

## 1. The system

| Component | Code | State it keeps | Operations |
|---|---|---|---|
| Upload and confirmation | `backend/.../jobs/{services,repository,routers}.py`, `users/repository.py` | `jobs` rows, `users.storage_used`, the original object in S3 | `request_upload`, `confirm_upload`; the client's POST to S3 |
| Result consumer | `backend/.../run_consumer.py`, `JobService.process_ml_result` | the job's row, its offsets in the result topic | fetch, apply one result under the row lock, publish the next stage, commit, seek back |
| Stage workers (4) | `ml/.../shared/consumer.py`, `*/inference.py` | their offsets, the stage's objects in S3 | fetch, download, infer, upload every output, publish the result, commit, seek back |
| Supervisor | `ml/start_consumers.py` | worker processes, restart times | start, restart after a delay, stop |
| Kafka producers | `*/shared/kafka_client.py` | one producer per process | start with retries, stop, `send_job` |
| Sessions | `backend/.../auth/*` | refresh-token rows, Redis blacklist of token ids | signup, login, refresh (rotation), logout, authenticate |
| Download links | `JobService.get_download_links`, `repository.py` | Redis cache entries | read the cache, read the row, sign, cache, return |
| Users | `users/{services,repository,models}.py` | `users` rows: the address, the storage counter | create at signup, find at login, charge; profile and statistics |
| Settings, responses, migrations, bootstrap | `shared/`, `main.py`, `alembic/` | - | configuration |

How they interact: `request_upload` creates a row and a presigned POST; the
client posts the object to S3 itself; `confirm_upload` measures the object,
queues the row and charges the user in one transaction, commits, and publishes
the first stage. A worker reads the message and its inputs, stores its outputs
and publishes a result; the result consumer applies it to the row and publishes
the next stage before its transaction commits. Records are keyed by job id, so
one job stays in one partition of each topic.

What is hard, and what must hold:

- *Confirmations race* with each other, with their own stale read of the storage
  counter, with the client's posts and with commits that happen after the
  response. The quota must hold, a job must be charged and published at most
  once, and a confirmed job must keep its file, whatever the other calls measured.
- *A failure can follow every await*, and a timed-out send may be delivered.
- *At-least-once delivery everywhere*: results and messages are repeated after
  exceptions, restarts and rollbacks. Duplicates must be recognised, no result may
  be refused for ever, offsets may not pass unfinished work, and every started
  job must be completed.
- *Two services, two copies of one contract*: names, keys and message fields are
  computed independently and must agree for all eleven selections.
- *Sessions are rows too*: refresh and logout calls read a row, wait for its lock
  and commit after their response. A revocation may not be undone, the session
  window may not grow, a logged-out access token may not work again.
- *Accounts are created by racing signups*, whose commits follow their responses:
  one address is one account, and no session may outlive a lost signup.
- *Cached answers age*: links are signed at one time, cached at a later one and
  answered at a third, by requests that race with the job itself.
- *The halves share rows and objects*: a late confirm call deletes what the
  consumers read. Only the jobs it deletes may be stuck, with their partition.
- *Workers die while the launcher looks elsewhere*: a dead one must come back, and
  a stop must end and leave none behind.

## 2. Modules

| Module | Models | State and actions |
|---|---|---|
| `Upload` | both upload operations of one user | one process per confirm call (`pc`), one action per `await`: `Authenticate`, `ReadJob`, `HeadObject`, `QueueRow`, `ChargeUser`, `CommitConfirm`, `Publish`, the deletes, `Fail`; the client's `PostObject`; `RequestUpload` with its later `CommitRequest` or `LoseRequest` |
| `StorageLedger` | abstract: what the upload half promises of rows, charges and messages | `Create`, `Confirm`, `Publish`, `Remove` |
| `Stages` | the stages and the selections a request may make | operators only |
| `JobProgress` | abstract: what a confirmed job is promised | `Start`, `Advance` |
| `Pipeline` | the four workers, the result consumer and the five topics | per consumer `position`, `committed`, `pc`; `Fetch`, `UploadOutput`, `PublishResult`, `ApplyResult`, `PublishNext`, `SaveResult`, `CommitOffsets`, and the faults `Except`, `Restart`, `...TimesOut` |
| `Takeover` | `Pipeline` when the consumer group hands the result partitions to a second instance | the transaction of the instance that lost them and the row as it read it; `Overtake`, `StaleApply`, `StalePublish`, `StaleSave`, `StaleFails`, `OwnerApply` |
| `System` | `Upload` and `Pipeline` together | their variables; the steps of both, joined where they meet: `PublishStep` is `Upload`'s publish and the record in the topic, `RefuseResult` and `RetryMissing` are the consumers' attempts at a deleted row and a deleted original, `Download` is the moment a worker has its inputs, `ResultLocks` holds the deletes back |
| `Artifacts` | names, keys, messages, metadata and links of one job | `ProcessMessage`, `ProcessResult` around the pure operators |
| `Downloads` | the download-links requests for the job of `Artifacts` | a clock, the cache entry, one process per request: `ReadCache`, `MissCache`, `ReadRow`, `SignLink`, `StoreCache`, `SkipStore`, `FailRequest` |
| `Session` | login, refresh, logout and the access-token blacklist | the refresh-token row, Redis and the browser's cookie; one process per refresh or logout call: `ReadToken`, `UpdateToken`, `CommitRefresh`, `RevokeToken`, `BlacklistToken`, `CommitLogout`, `Fail`; `Login` with its later `CommitLogin` or `LoseLogin` |
| `Accounts` | signup and login with the user's row, around `Session` | the committed users, how far each signup is, whose the session's row is; `CheckEmail`, `InsertUser`, `SignupTokens`, `CommitSignup`, `LoseSignup`, `FailSignup`, `LoginUser`, and the rival signup's `CommitRival` |
| `Supervisor` | the launcher and its worker processes | `Launch`, `InstallHandlers` or the signal before it (`KilledEarly`), the loop's `Wake`, `Notice`, `Skip`, `Respawn`, the shutdown's `Terminate` and `Join`, starts that raise; workers that connect, fail to connect and die |
| `UploadProofs`, `StagesProofs`, `PipelineProofs`, `TakeoverProofs`, `SystemProofs`, `SessionProofs` (with `Accounts`), `SupervisorProofs`, `DownloadsProofs` (with `Artifacts`) | - | the theorems of section 5, each module next to the one it is named for |
| `MCUpload`, `MCPipeline`, `MCTakeover`, `MCSystem`, `MCSession`, `MCAccounts` | - | instances for TLC |

Conventions. Definitions called a *Fault* in their comment are not part of any
specification: each is the form a mapped definition would have with a plausible
bug, and shows that a property is able to fail. Sizes are small integers, file
names are the user's stem plus the parts the stages append, payload is dropped.

`Upload`. PostgreSQL runs at READ COMMITTED, so `status`, `charged_bytes` and
`storage_used` are the committed values, a transaction's writes take effect in
its commit action, and `row_lock` and `user_lock` hold a call back until the
transaction that wrote the row ends; an UPDATE evaluates its condition when it
gets the lock. `snapshot` is what the authentication dependency read and the
service never reads again. FastAPI runs the exit code of the session dependency
after the response was sent, which is why `CommitRequest` is an action of its
own and `RequestUpload` lets the client go on before it. `Fail` is an exception
or the death of the process at any await of a working call: the transaction is
rolled back.

`Pipeline`. The position of a consumer is in memory, `committed` is in Kafka.
Committing stores all positions, as `consumer.commit()` does; `Restart` is the
death of a process (or `run_consumer`'s reconnect) and resumes at `committed`.
`Except` is any exception in the handler: the transaction is rolled back (there
is nothing to undo, the row changes only in `SaveResult`) and the consumer seeks
back. A message keeps the name of the stage whose outputs it reads; keys and
names are the business of `Artifacts`. Jobs are those `confirm_upload`
committed, and their rows stay; `System` is where they may go. The download and
the inference are part of the first `UploadOutput`: they change nothing others see,
and in this module nothing removes an input. `System`, where a confirm call may
remove the original, has the download as a step of its own.

`Takeover`. An exception, a restart and a takeover share `MaxFaults`. The owner of
the partitions is `Pipeline`'s result consumer; the other instance finishes its
record from the columns it read, waits for the row's lock like the owner, and
commits no offset, since its membership is over. The lock is modelled by where
the two transactions are, so that leaving it out shows the lost update
(`NoRowLock`).

`System`. `Pipeline` is instantiated with its own faults switched off: `Except`,
`Restart` and timed-out sends are `pipeline_safety`'s and `pipeline_progress`'s
subject, and `System` has the faults of the confirm calls instead. Both the
acknowledged and the timed-out publish of a confirm call append the record.
`jobs.status` is `status` while the API owns it and `job_status` from QUEUED on,
because the two halves write different columns of one row. The row lock of a
result's transaction is the consumer's `pc` (it holds the row in `publish` and
`save`); that of a confirm call is `row_lock`, and each side waits for the other.
A result for a row that is gone and a message whose original is gone are sought
back (`Pipeline!SeekBack`, what `Except` does) without ever counting as a fault:
their cause does not go away. `Pipeline!OpenSpec` is `Spec` with such steps. A
worker that has downloaded the original (`downloaded`) works on its own copy: a
delete after that no longer stops this attempt, only the next one.

`Artifacts`. `content` is what the recording holds, as the models find it: the
stages refuse a file that does not decode, and the summary refuses a transcript
without words; both raise at every retry.

`Downloads`. A signature counts from the whole second it was made in, a Redis key
from the moment it is set, so time has several ticks to a second. `SigningTime`
bounds the time from the row's read to the cache entry: the clock waits for a
request that reaches it. A miss stands for no entry, a Redis that raises and an
entry that does not validate. The same request may be sent again.

`Accounts`. A signup is a login whose transaction also inserts the user. The
unique index is modelled by what PostgreSQL does with it: an INSERT waits for an
open transaction with the same address and fails if that one commits. A rival is
a signup from another browser; of it only the user's row matters here.

`Session`. Time is counted in ticks, several to a second, since JWT expiries and
Redis lifetimes are whole seconds and the clock is not. A token is named for the
login or the refresh call that issued it. As in `Upload`, an UPDATE stays in its
transaction (`row_lock`) until a commit that follows the response, so the browser
may use a token whose hash is not committed.

`Supervisor`. `restart_in` is `restart_at` minus the clock, so no bound on time is
needed; a scan is preceded by one or two seconds. `closed` is a Process object
after `close()`, on which every method raises ValueError. A worker that ignores
SIGTERM stays `alive` in `Terminate`. A signal before the handlers are set ends the
launcher at once (`aborted`, as a start that raises), with the workers it has
started left alone. `crashed` is the end of `main` by the ValueError of
`stop_workers`; that the interpreter then waits for the children that still run is
not modelled, so `StopsEnd` counts `crashed` as the end of a stop, and
`NoWorkerLeft` says what is wrong with it. The attempts of `KafkaProducer.start` are
counted, because the last failed one ends the worker.

## 3. Runs

| Run | Instance | Shows |
|---|---|---|
| `upload_safety` | 2 jobs, 3 confirm calls, files of 1, 2, 3 with a limit of 5, a POST range from 2, 2 posts | no interleaving breaks the quota or the books, publishes twice, or removes the file of a confirmed job, unless the client has replaced it; `IInv`, the inductive invariant of the proofs, holds; `Upload` implements `StorageLedger` |
| `system` | 2 jobs of one partition and one stage, 3 confirm calls (two on the first job), 1 failing call, fairness | a result keeps its row until its commit; only paid jobs are processed; the processing implements `Pipeline` (`OpenSpec`, where records may fail for ever); every call ends; every published job is completed unless an orphan (row or original deleted) stands in its partition |
| `upload_orphan` | 1 job, 2 calls | **violated**: a message whose job is gone |
| `upload_stranded` | 1 job, 2 calls, fairness | **violated**: a job that stays QUEUED unpublished |
| `pipeline_safety` | 2 jobs, 2 partitions, 2 faults, takeovers included; selections {denoise, separate} and {separate, transcribe} | the row, the topics, the offsets and the bucket agree in every state, also while two result consumers work on one record; what is done has its files and is not undone |
| `pipeline_progress` | 2 jobs in one partition, one of them with each of the 11 selections, the other with {separate}; 1 fault | `Pipeline` implements `JobProgress`, liveness included, although jobs queue behind each other |
| `downloads` | every selection and content, a name of 227 characters, 2 requests, links of 2 ticks, 2 ticks to a second, `SigningTime` 1 | messages are accepted and resolve to stored objects; every answer lists all objects of a completed job; no link is staler than `SigningTime` plus the rounding; every recording comes through, the summary of silence and files that are not audio excepted |
| `artifacts_long` | names of 228 to 255 characters | **violated**: accepted names that no stage can process |
| `accounts` | 1 signup or login, 1 rival signup with the address, 3 refresh or logout calls, 2 ticks to a second | one account per address, refusals name an existing account, no session without its user; revocations stay, the session window holds, a logged-out access token is dead |
| `session_logout` | 1 login, 2 calls | **violated**: a logout that revokes nothing |
| `supervisor` | 3 workers, 2 connection attempts, delay of 3, 3 faults, fairness | restarts belong to dead workers, workers come back, a stop ends and leaves no worker |
| `supervisor_fail` | 2 workers, 2 faults | **violated**: `stop_workers` raises with a worker alive |

Bounds. Three confirm calls on two jobs give every pair on one job a third
party that competes for the user's row; the limit of 5 admits 2+3 and refuses
3+3, so both quota checks are decided both ways, with and without a stale
snapshot; two posts let an object be replaced after it was measured. The two
pipeline selections make one topic (separate) the first stage of one job and the
second stage of another, and include the stage with two outputs, so that a fault
on one partition meets progress on the other. Two faults cover a failed recovery.
Three session calls allow a refresh, a logout and a second refresh between their
steps; the window of 3 ticks cuts the second slide of 2, and two ticks to a second
put every clock reading both on and off a whole second. Three workers let one be
noticed, one restarted and one die in the same scan; three faults are a death and
a failed recovery (two failed attempts).
In `system` two calls on one job are what an orphan takes, and a second job
behind it in the partition is what it blocks; `MaxPosts` 2 lets the first file be
replaced by a smaller one after it was measured, which deletes the object of a
published job. `MCSystem!Client` (an ACTION_CONSTRAINT) cuts choices of the
client only: which sizes it posts, that it requests both jobs and posts the second
file before it sends a call, and which of two equal calls goes first. It restrains
`PostObject` and `Authenticate` alone, so no step with fairness is cut.
In `downloads` the clock of 5 ticks lets an entry expire and be filled again by
the other request while the first answer is still looked at; a name of 227
characters is the longest that fits every selection, the effect of its length
being monotone. One rival suffices in `accounts`: the two signups meet in every
order of check, insert, wait, commit and loss.
Unbounded quantities are cut by `MaxPosts`, `MaxFaults`, `MaxFailures`, `MaxTime`
and `MaxDeaths` only.

Where deadlock checking is off, the system rests when it has no more input: all
calls answered, all records consumed.

Fairness. `Upload!FairSpec` assumes that a call which can take a step takes one:
the event loop runs it and the database, S3 and Kafka answer or raise; nothing is
assumed of the client. `System` takes over this fairness and `Pipeline`'s, one
condition per call and per consumer; failures of calls are not fair. `DownloadsSpec`
assumes that workers and result consumer go on, and nothing of the requests.
`Pipeline!FairSpec` assumes that each consumer keeps
working: the loops are `while True`, the supervisor restarts a dead worker and
`run_consumer` reconnects; faults are finite in number, because no retry helps
against a failure that never ends. `StartJob` has no fairness, since the backend
does not guarantee it (`upload_stranded`). `Supervisor!FairSpec` assumes that the launcher
runs on and that a worker which can keep trying to connect succeeds once the
faults, finite in number, are over; nobody is assumed to request a stop.

## 4. Disagreements found

1. `upload_orphan`: `services.py:484` promises that workers never get a message
   for a job that isn't saved. `delete_job` deletes whatever the status, so a
   confirm that saw no object deletes the row another confirm has published.
2. `upload_stranded`: `enums.py:15` describes QUEUED as "to be published". After
   a failure between commit and publish nothing ever publishes the job.
3. `artifacts_long`: `schemas.py:12` accepts names of 255 characters, which grow
   by 8 to 28 more on their way through the stages.
4. `session_logout`: `backend/README.md:95` says logout revokes the current
   session. It finds the row by the hash of the cookie's token and ignores that
   there may be none: the login's row, or the hash a refresh has just replaced,
   is committed after the response that delivered the token.
5. `supervisor_fail`: `start_consumers.py:57` says `stop_workers` stops all running
   consumers. When a restart raises, the dead worker's closed Process is still in
   the dict, and `is_alive()` raises on it before the workers behind it are stopped.

Without a run of its own: `routers.py:84` answers "Uploaded file exceeds your storage
quota, file has been deleted", but `delete_file_from_s3` logs a failed delete and
returns (`s3_client.py:188`), so the file may still be there. And the file it does
delete need not be the one that was measured: the POST stays valid, so the client may
replace a file that was too large by one that fits, or one that was confirmed by
one a late call finds too large, and the call deletes what then lies under the key.
`ConfirmedFilesStay` is about all other cases; `DeleteObject` and `PostObject` have
these two.

What `system` and `downloads` add to this list: an orphan of 1, or a published
job whose object a late oversize delete removed, blocks its partition for every
other job (`OnlyOrphansBlock` says that nothing else does); a summary of a
recording without words and an upload that is not audio block theirs
(`ml/README.md:82` says that such messages block). And where `repository.py:100`
says "Cache the signed links until their S3 signatures expire", the entry outlives
the signatures by the time between the first signature and the `setex`, and by the
part of a second the signature's date is rounded down: `LinksExpireWithTheCache`
states this bound, which TLC shows to be met and, one tick less, violated.

## 5. Proofs

Eight modules hold theorems; TLAPS checks every leaf. Each theorem holds for every
value of the constants that satisfies the named assumptions of the modules:

| Assumption | Says | Justified by |
|---|---|---|
| `UploadAssumption`, `NobodyAssumption` | sizes and limits are numbers, no call is called `Nobody` | types of the columns |
| `JobsAssumption` | job ids are finitely many | a UUID has 128 bits |
| `PipelineAssumption` | jobs have a partition and a selection the schema accepts, there is a partition | keyed records, `ValidSelection` |
| `SystemAssumption` | the same for the whole | the same |
| `ArtifactsAssumption`, `DownloadsAssumption` | a lifetime and a second are at least a tick | `shared/config.py:37`, `download_url_ttl_seconds` |
| `SessionAssumption`, `NoneAssumption`, `RivalsAssumption` | logins, calls and rivals are distinct; the sliding window is within the session's; access tokens live whole seconds | `auth/services.py:108-109` (7 and 90 days), `auth/jwt.py:15` |
| `SupervisorAssumption` | there is a worker, an attempt to connect and a delay | `start_consumers.py` |

| Module | Inductive invariant | Theorems about what runs check |
|---|---|---|
| `UploadProofs` | `IInv` | `TypeOK`, `QuotaRespected`, `RowsArePaid`, `PublishedOnce`, `PublishedAfterQueued`, `ConfirmedFilesStay`, `ImplementsLedger` |
| `PipelineProofs` | `PInv` | all invariants of `Pipeline` and `Progress!Spec`, under `Spec` (`PipelineSafety`, `PipelineImplementsProgress`) and under `OpenSpec` (`OpenSafety`, `OpenImplementsProgress`) |
| `TakeoverProofs` | `TInv` | the same with two result consumers, one theorem each, and `NothingIsUndone` |
| `SystemProofs` | `SystemInv`, `PipelineInv` | `ResultsHaveTheirRow`, `WorkIsPaid`, `ImplementsPipeline`, and `Upload!Spec` itself; the invariants of `Pipeline` and `Progress!Spec` in the composition |
| `SessionProofs` | `SInv`, `AInv` | `RevokedStaysRevoked`, `WindowRespected`, `LoggedOutTokenIsDead`; `AccountsTypeOK`, `AccountIsUnique`, `RefusalsNameAnAccount`, `SessionsHaveTheirUser`, and `Session!Spec` under `Accounts` |
| `SupervisorProofs` | `IInv` | `TypeOK`, `RestartsAreForTheDead`, `ExitLeavesNoWorker` |
| `DownloadsProofs` | `DownloadsInv` | `DownloadsTypeOK`, `MessageIsUsable`, `AnswersAreWhole`, `LinksExpireWithTheCache` |
| `StagesProofs` | - | lemmas about `FirstStage`, `Later`, `NextStage`, for the modules above |

The arguments.

*Upload.* None of the properties is inductive. The quota needs
`UserLockInv`: the call at its commit is the one that holds the user's lock, and
what fitted when it took the lock still fits, as nobody else moves the counter.
`PublishedOnce` needs `RowLockInv` (a call past its UPDATE owns a pending row) and
`PublishInv` (a call about to publish is alone on a job without messages; deleted
rows do not come back). `ConfirmedFilesStay` needs `FileInv`, over all the calls that
rely on a measurement: those of a file posted once have measured the same size, and
the file is only gone when that size does not fit. It cannot fit later either
(`RefusalInv`, from `SnapshotInv` and a counter that only grows, `StorageGrows`), and
the call at its commit has found under the user's lock that it fits; hence the file
is there when the job becomes confirmed, no call is about to remove it, and a call
still before `head_object` will find it to fit, as its snapshot is from before this
charge. That is why the stale snapshot is right and a fresh one would be wrong
(`HeadObjectFresh`). `RowsArePaid` speaks of a sum over all jobs. The library's folds are recursive,
so `SumIs` first says what `Total` is: by taking the least counterexample among
the subsets of a finite set (`WFMin` over strict subsets, which needs no theorem
with an operator parameter) there is one function with the fold's equations. Then
`SumChanges`: a sum moves by what its one changed row moves, which is at most what
the step moves the counter (`ChargesStep`), under `IInv`.
The refinement hides the calls and their locks: `InvisibleStep` shows that
four kinds of step are all that `StorageLedger` sees, and one lemma each maps them.

*Pipeline.* `NoResultRefused` speaks of the record a consumer is about to read, and
says nothing of the rest of the log, so it cannot be inductive. `PInv` describes
all of it: each result but a job's first stands *behind* the result of the stage
before (`OrderInv`), each message but a first has that result (`MessageInv`), and
everything a consumer has passed, or has committed, has had its effect
(`SettledOf`). Thus, when the result consumer reads a result, the stage before is
in the row's `done`; with `RowIsConsistent` that makes it the expected stage or a
duplicate. Exceptions and restarts go back to positions that `SettledOf` covers
already, which is why no number of them matters. The step simulation of
`JobProgress` has one visible step, `SaveResult`, and needs `HeldInv`: the
transaction at its commit still holds what it accepted. `DoneIsBacked` relates the
row to the bucket; what carries it is the log between the two (`DoneHasResult`: a
stage done has a result in its partition, and results stay), with
`ResultsAreBacked`. None of this counts exceptions: `SeekBackStep` has no bound, and
`OpenSpec` is covered by the same invariant.

*Takeover.* `StaleInv`: a late transaction that holds the row read the row as it is,
and the owner has none open for the same job. Every step of `Pipeline` keeps it
since the only writer, the owner, waits; `NothingIsUndone` follows because what
the late transaction writes extends what it read.

*System.* `SystemImplementsUpload` carries all theorems about `Upload` over to the
composition: every joint step is a step of `Upload` or leaves its variables alone.
`ResultsHaveTheirRow` then needs that a call which takes the row lock finds no
result at work on the row (`ResultLocks`) and that rows a result can find are
queued, hence past their confirm; `WorkIsPaid` needs that every record and file is
of a published job (`PublishedWork`) and that queued rows are charged (`ChargeInv`).
`SystemImplementsPipeline` is the other half: a confirm call that publishes is a
`StartJob`, whose guard (no stage topic has a record of the job) is what
`PublishedWork` and `PublishInv` say together; a retry of an orphan's record is a
`SeekBack`. `PP` then instantiates `PipelineProofs` itself with the system's
variables: its lemmas hold under the substitution once `PipelineAssumption` is shown
of the system's constants (`PipelineAssumed`), so `PInv` is an invariant of `System`
too, and with it `SystemKeepsSafety` and `SystemImplementsProgress`.

*Session and Accounts.* `RevokedStaysRevoked` and `WindowRespected` are inductive
with the typing. `LoggedOutTokenIsDead` is not: `BlacklistInv` says what the call
has done before its commit, and relies on `IssuedInv`, that nobody can show a token
whose expiry is still to be set; whole seconds are handled by `WholeType`.
`Accounts` implements `Session` step by step. `AccountIsUnique` needs `IndexInv`:
open inserts and committed users exclude each other; `SessionsHaveTheirUser` needs
`OpenInv`, the same for a login that is not committed yet.

*Supervisor.* `LaunchInv` and `JoinInv` say what the loops have done up to their
index; without the first a restart could be planned for a worker never started.

*Downloads.* `ArtifactsInv` proves the contract of the two services: what a stage
returns names what it stored (`MetadataNamesOutputs`), so the bucket is what the
row and the result on its way back name (`BucketInv`), and the next message reads
part of it (`NextMessageIsUsable`, where `AfterSeparate` shows that only
`transcribe` meets two inputs). Of a request, what it has signed and what it has
still to sign is the bucket (`SigningInv`); a link is dated no earlier than a
second before the row was read (`WholeSecond`), the request took `SigningTime` at
most, and the entry is given the lifetime of a link made at its end: the sum is the
bound of `LinksExpireWithTheCache` (`TimeInv`).

Only model-checked:

- everything under fairness (`AllCallsEnd`, `OnlyOrphansBlock`, `RecordingsComplete`,
  `WorkersComeBack`, `StopsEnd`) and the fairness half of `ImplementsProgress`,
  whose other half is `PipelineImplementsProgress`: liveness is out of the prover's
  reach;
- `NameLength`, a fold: the theorems about `Downloads` hold whether a name fits or not.

## 6. Not modelled, and the plan

What the plan named is modelled, checked and, where it is safety or a step
simulation, proved. Left for whoever goes on:

1. Liveness, when a prover for fairness is at hand: `ImplementsProgress` first, whose
   measure is the number of records in front of the job in its partition.
2. `Takeover` inside `System`, where the late transaction also meets the deletes: the
   two are checked and proved apart, and `ResultLocks` and `StaleLocks` are one lock.
3. Two instances of one worker, as `Takeover` does for the result consumer.

Not modelled: model inference and audio processing (numerical code and calls to
models; what the rest sees of them is a success, an exception, names and the
`content` above), passwords, wording of responses, logging, settings and
migrations (no state of their own), the profile, statistics and recent-jobs reads
(one query each), the start and stop of the backend (a fixed sequence before the
first request and after the last), a producer's `stop`, two instances of one worker
(their outputs overwrite each other with the same names, and their results are the
repeated ones `Pipeline` has).
