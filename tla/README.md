# MediaFlow core: specification

TLA+ models of the server in `src/apps/core`, the TLC configurations that check
them and the TLAPS proofs about them. Paths below are relative to
`src/apps/core/src` unless they start with `src/`.

The server's own pipeline is modelled from the directory that is watched to the
catalog entry, and so are the services around it:

* the **processing-task engine** (tasks, leases, workers, handlers' commits, requests,
  manual decisions, runtime), checked and in its central parts proved;
* the abstract **fenced lease** that this engine and the scan engine implement, proved;
* the **execution of an organization plan** (journal, file operations system call by
  system call, local result, rollback), checked;
* **intake**: scan tasks, file revisions, the watcher and the reconcile coordinator;
* **acquisition**: downloads with the remote clients, automation events, feeds,
  webhooks and completions;
* the **services**: event streams, notifications, calls of the downloader clients,
  plans and their approval, territories of inboxes and targets, capability calls,
  identity, backups, paged lists.

## 1. The system and its parts

MediaFlow watches inbox directories, fetches what feeds and webhooks announce,
identifies media files, asks an administrator where it is unsure, moves or copies the
files into a library and publishes them in a catalog. The server is one Rust process
over one SQLite database (WAL, writes in `BEGIN IMMEDIATE` transactions) with several
background loops. All coordination between the loops goes through rows; a channel only
wakes a loop up early.

| part | state it keeps | operations | talks to |
|---|---|---|---|
| Processing tasks `tasks/processing/store.rs` | task row (status, stage, checkpoint, lease, version, cancel flag, retry time, references), attempts, idempotency bindings, decision receipts | ensure_revision, claim_next, renew, nine stage transitions, terminal transitions, retry, request_cancel, reclaim_expired, apply_manual_decision | every loop below; outbox |
| Processing worker `tasks/processing/worker.rs`, `platform/task_runtime.rs` | the lease it was given, a heartbeat, a stop token | run_once (claim, run the stage's handler under a heartbeat, commit or pause), prepare, start | store, handlers |
| Identification `identification/store.rs` | evidence, candidates, decision, review case per revision | begin_attempt, commit (moves the task in the same transaction) | task row, TMDB |
| Manual decisions `identification/manual/` | immutable decisions, dispatch per decision | accept, pending_dispatches, mark_applied | task row, audit log |
| TMDB settings `connectors/store.rs` | encrypted token, version, health, response cache | save (makes blocked tasks due), delete, health | task row |
| Plans and targets `organization/{plan,target}_*.rs` | immutable plans, approvals, versioned targets | draw, recalculate, approve, run; create, replace, delete | execution, inboxes |
| Organization execution `organization/{executor,journal_store,coordinator}.rs` | operation journals, local results | prepare, execute, verify, rollback, NFO | task row, file system, catalog |
| Scan tasks `tasks/{store,worker}.rs` | scan row, lease, attempts, observed batches, errors | claim, record_observations, renew, finish, retry, cancel, reclaim | discovery |
| Discovery `discovery/` | tracked files and revisions, watch state, policies, reconcile requests | observe, stabilise, supersede, schedule, project | scan tasks, processing tasks |
| Downloader `connectors/downloader/` | connections, download tasks with lease and remote id, completion signals | claim_batch, add, poll, retry, cancel, probe | remote client, automation |
| Automation `automation/` | sources, cursors, events with lease, command receipts | claim, act, settle, poll, accept a call, dispatch a completion, reclaim | downloader, discovery |
| Notifications `notifications/` | messages, webhook, deliveries with a lease token | enqueue, claim, send, finish | webhook endpoint |
| Outbox and SSE `platform/{outbox,sse}.rs` | event rows, per-stream cursor | write, replay, cleanup, stream | every writer; clients |
| Capability gateway `capability/` | request claims and results | claim, execute, persist, replay | scan, processing, plans |
| Identity `identity/` | account, throttle, sessions, pairing codes, devices | bootstrap, login, pair, rotate, revoke | HTTP |
| Catalog `catalog/` | items and artwork | idempotent upsert, queries | completion stage |
| Backup, migrations `platform/` | files | backup, migrate, verify, restore | database |
| SDK and clients `src/packages`, `src/apps/{web,android,...}` | client-side caches | paging, event following | HTTP, SSE |

### What is hard about it, and what makes each part correct

* **Processing tasks.** Two workers can believe they own a task (expired lease), a
  worker can die anywhere, and administrators act on rows that are being worked on.
  Correct means: one open attempt per task and a gapless history; no commit from a
  stale snapshot; requests and decisions are applied exactly once; a stage runs only
  with what earlier stages produced; events tell the truth; accepted cancels bind;
  work finishes.
* **Manual decisions.** Accepted in one transaction, applied to the task, audited and
  marked in three others. Correct means: applied once, never lost, and never in the way
  of starting the service.
* **Organization execution.** A file operation and the journal row that describes it
  cannot be atomic. Correct means: nothing foreign is overwritten, a crash leaves a
  state a later run can tell apart, a rollback only removes what the journal verified.
* **Plans.** Drawn from a target that changes, approved and recalculated at once.
  Correct means: what runs was authorised, by the target's rules or by a receipt.
* **Scans and revisions.** A file changes while it is scanned and scans are cut short.
  Correct means: one live revision, handed on only when it was seen at rest; nothing is
  declared missing that was there all the time; truthful attempts under the lease.
* **Reconcile.** Six sources schedule scans and every hint may be lost. Correct means:
  at most one open reconcile, and every change becomes known in the end.
* **Downloader, automation.** The remote may have accepted an add whose answer was
  lost; configurations change under a call; an event must make one download however
  often it is claimed; the cursor of a feed must stay behind its events.
* **Notifications.** At least once, and health that belongs to the endpoint in force.
* **Outbox and SSE.** Every committed event once and in order, or a gap notice.
* **Territories.** Checked before the transaction that writes: still disjoint.
* **Capability gateway, identity, backup, lists.** Retried, raced and cut short: run
  once, one device per code, nothing mixed or lost, whole walks.

`PROJECT.json` lists each hazard with its line and the properties that would show it
going wrong.

## 2. Modules

| module | what it is |
|---|---|
| `FencedLease` | what a leased row promises: grants with numbers that never return, renewals, finishes, revocations |
| `FencedLease_proofs` | exclusion and freshness of grants, for any agents and resources |
| `ProcessingTask` | the processing-task engine; implements `FencedLease` |
| `ProcessingTask_proofs` | its types, attempt ledger and snapshot currency, for any constants |
| `ProcessingRecords_proofs` | what is kept beside its rows agrees with them, it implements `FencedLease`, and accepted cancels bind, for any constants |
| `OrganizationFiles` | the files one plan touches, compensation of a file, users |
| `OrganizationExecution` | executor, journal, result, completion and rollback over these files |
| `OrganizationExecution_proofs` | its types, the journal's truth about the files, what keeps the media and a user's files, what a completed result rests on and what a rollback restores, for any plans and runs |
| `FileRevisions` | tracked files, their revisions and the requests they lead to |
| `ScanTask` | the scan engine and its walk over these; implements `FencedLease` |
| `ScanTask_proofs` | it implements `FencedLease`, keeps one live revision per file, records that agree, earned requests and true absences, for any constants |
| `Reconcile` | watcher, coalescer, coordinator and reconcile requests over scan tasks |
| `Reconcile_proofs` | one open reconcile per inbox, bounds and types, and what holds of scans by themselves, for any constants |
| `Downloads` | connections, download tasks, their worker and the remote clients |
| `Automation` | sources, events, feeds, webhook calls and completions over these |
| `Acquisition_proofs` | verdicts fit, downloads are added once, feeds taken once, events raised under their source, for any constants |
| `DownloaderClients` | one call of a client of either product |
| `EventStream` | outbox and server-sent events |
| `Notifications` | messages, webhook and deliveries |
| `OrganizationPlans` | plans of one task, from drawing to running |
| `Territories` | directories of inboxes and targets |
| `CapabilityCalls` | calls through the capability gateway |
| `Identity` | account, throttle, sessions, codes and devices |
| `Backups` | migrations, backups, restores |
| `Paging` | lists read page by page |
| `Services_proofs` | a theorem for each of the eight services `EventStream` to `Backups`, for any constants |
| `MCProcessingTask`, `MCOrganization`, `MCScan`, `MCIntake`, `MCAcquisition` | symmetries, plans and incidents the runs use |
| `MCServices` | the services that share no state, one at a time |

Processing and execution meet in the stage commit. `ProcessingTask` models it with every
column and fence, and takes the handler's choice among its outcomes as nondeterministic;
`OrganizationExecution` models what the handler does before, and keeps of the commit
only that it needs the lease and what it does to stage and readiness. Discovery hands a
stable revision to `ensure_revision` (`requests` of `FileRevisions`, `Create` of
`ProcessingTask`); `Automation` extends `Downloads` and asks for a reconcile as
`Reconcile` accepts it.

### ProcessingTask: state

| variable | code |
|---|---|
| `task[t]` | the row of `tasks_processing_tasks`. Identifiers are dropped (a row is named by its revision); `current` is the ordinal of `current_attempt_id`; `retry` is `next_retry_at_us` as none, pending or due; `expired` says that `lease_expires_at_us <= now`; `plan`, `result`, `catalog` are the presence of the three references |
| `attempts[t]` | `tasks_processing_attempts` in the order of `ordinal` |
| `worker[w]` | what `run_once` holds in memory: `pc`, the `ProcessingLease` clone, the heartbeat between its two calls, the handler's outcome |
| `binding[k]` | the idempotency binding a key has been used for |
| `decision[d]`, `queue`, `receipts`, `audited` | decision rows, dispatches still `accepted` in dispatch order, task receipts, audit receipts |
| `reviewCase[t]` | id and status of the last review case |
| `event[t]` | the payload of the task's last `state-changed` event |
| `runtime` | down, recovering, preparing, working or dispatching, with the position in the batch of `dispatch_once` |
| `incidents` | how many incidents happened (bounded) |

Each action that changes rows is one transaction. Between two transactions of one
worker everything else may happen. The actions of a worker follow `run_once`:

```
Claim --> handling --> (IdentificationCommit | OrganizationCommit | HandlerFails
                        | HandlerDelegates) --> settling --> Settle -->
          committed: back to ready
          failed:    pausing  --> FinishStageFailed
          delegated: checking --> CheckCancel --> cancelling | finishing
          lease lost (WorkerAbandons), at any of these points
beside it:  BeatCheck (cancel_requested), BeatRenew (renew), BeatFails
```

`Holds(w)` is the version-and-owner condition of the organization and terminal
updates; `Authority(w)` is the different one of the identification commit (owner,
attempt, unexpired, no cancel). `Moves` lists for each organization stage the
transitions its handler can ask for. The identification handler of the production
build commits itself; the constant `Delegated` switches on handlers that leave the
commit to the worker, which the trait allows and the tests use.

Abstractions, all of them data: identifiers, times (see above), text of reasons (five
classes), evidence and candidates. Not in the model: `begin_attempt`'s own writes
(evidence rows of the attempt, no task column), notifications, list queries. A
row of an account that does not exist and arithmetic overflow of `attempt_count` do
not occur.

### FencedLease as seen from ProcessingTask

`TicketOf(w)` maps a worker's snapshot to a ticket whose grant is the row version it
was given; `holder` is the row's version while it runs, `issued` the row's
version. The property `LeaseSpec` of the runs says that each step of `ProcessingTask`
is a step of `FencedLease` or leaves it unchanged: a renewal does not change the
version, everything else that touches a row does, and a cancel of a running row does
not take the lease away.

### OrganizationFiles and OrganizationExecution

One task with one authorised plan: an operation (copy, move, hard link, quarantine), a
source, a target and possibly an NFO beside it.

| variable | code |
|---|---|
| `disk` | which inode each name leads to: source, target, NFO, and the hidden names of `platform/capability_fs.rs:1095` |
| `content` | the data of each inode |
| `comp[a]` | the call of `compensate_created` an actor is in, between two system calls |
| `journal` | the rows of `organization_file_operation_journals`: the file operation, the removal of its source, the NFO |
| `result` | the row of `organization_local_results` |
| `receipts` | `organization_rollback_receipts` |
| `task`, `holder` | stage and readiness of the task, and the run that has its lease |
| `run[r]` | a call of a stage handler: where it is and the journal row it holds in memory |
| `undo[c]` | a call of `rollback` |
| `plan` | the immutable plan: operation, placement, whether it has an NFO. It never changes; each initial state has a plan of `Scenarios` |
| `limits`, `spent` | how many crashes, faults, lost leases, user actions, retries and rollbacks there may be, and were |

A step is one transaction, one look at a file or one system call that changes a name.
Between any two of them another run, a request or a user may act, and the process may
die. The comparison of size, time, identity and hash is a comparison of inode and data.

```
stage file-operation   Observe - PrepareFile - Begin - (Execute - Rename - Confirm | Copy - Publish)
                       - Mark - Inspect - Verify - Completed - [removal] - Conclude - Commit
removal of a source    EnsurePartial - PrepareRemoval - Begin - RemovalLook - RemovalRename
                       - RemovalCheck - RemovalUnlink - Mark - Inspect - Verify - FinishRemoval
stage nfo              NfoLook - NfoPending - NfoInspect - NfoPrepare - Begin - NfoExecute
                       - NfoCreate - NfoPublish - Mark - Inspect - Verify - NfoFinish - Commit
stage completion       Complete - Catalog - Commit
rollback               Ask - Check - Load - [NFO] - CompLook - CompRename - CompVerify
                       - (CompRemove | CompRestore) - FileTaken - Finish
```

`Advance` enters these sequences at the step the status of the journal row asks for, as
`advance`, `advance_source_removal` and `advance_nfo` do. Every `Write` of a row is
conditional on the status and version the run holds; a stale write ends the run with an
error, which the worker turns into a pause with a retry (`"again"`). `Placement` says
whether source and target are on one device, on two, or on one that is mounted twice so
that only the rename finds out (`"bind"`): the code has a path of its own for each.

External: the inodes, users and other programs. A user writes, deletes or edits the
visible names, not the hidden ones. Left out: roots, directories, permissions and
symbolic links; the stop of a copy (the handler's token is never stopped);
`recover` and `run_next`, which only tests call; a plan that is paused again after its
task has left planning.

### Intake: FileRevisions, ScanTask, Reconcile

| variable | code |
|---|---|
| `disk`, `old` | external: what a file at each path looks like now, and which modification times are older than the minimum age |
| `tracked`, `requests` | `discovery_tracked_files` with their revisions; the requests for processing |
| `task[t]`, `order` | rows of `tasks_scan_tasks` with attempts, the batch they have seen, errors and last event, by slot; `order` says of two slots in use which was created before which |
| `binding[k]` | idempotency keys of users |
| `scan[w]` | the worker: opening, walking, writing a batch, deciding, finishing |
| `root`, `server` | whether the root is mounted, and the health of the inbox; phase of the process |
| `watch` | policy and watch state: health, due, the active reconcile, last error |
| `os`, `unreported`, `channel`, `overflow`, `pending` | the watcher's idea of what it watches and the kernel's; events not delivered, the bounded channel and its flag, the coalescer |
| `tick` | where the coordinator's tick is |
| `ask[k]` | `discovery_reconcile_requests` of automations |
| `sighting`, `absent` | history variables that the properties read: what the last observations of a path agreed on, and when nothing was at a path |

Times are the questions that the code asks of them: has the interval passed since the
revision was last counted, is the modification older than the minimum age, has the due
time come, has the window of a hint passed. A step is one transaction or one look of the
walk at one path; between them files change, the lease lapses, the process dies and the
root is unmounted. The version of a scan row leaves out the renewals and the batches of
the lease holder, which move row and lease together under one mutex (`tasks/worker.rs`).

### Acquisition: Downloads, Automation

| variable | code |
|---|---|
| `download[d]`, `signal[d]` | `download_tasks` with lease, remote id and failure; completion signals |
| `conn[c]` | `downloader_connections`: version, enabled, health, and which url and secret that health was judged with |
| `server[d]` | external: what the remote client holds under the tag of the download |
| `batch`, `probing` | what the worker and a probe hold between their reads and their writes |
| `source[k]` | the source of each kind (feed, webhook, completion mapping) with its version, cursor and lease |
| `event[e]`, `receipt` | `automation_events`, receipts of commands |
| `feed` | external: the edition of each item |
| `tries`, `loop`, `webhook` | attempts of signals; the one loop; a signed call between its check and its transaction |
| `madeFor`, `asked` | the idempotency key each download was made under, and the reconciles asked for |

Each store method is a transaction; each call of a client may be lost before or after it
took effect. `Transmission` names connections whose look-up by tag fails (section 6); the
run has none. A restart is one step (`RestartAll`), and all its `prepare` calls are in it;
`Stranding` says whether it may come before the old leases expire.

### The services

| module | state |
|---|---|
| `EventStream` | the log and the last id given, the server's side of one stream, the client's last id with what it saw, the session |
| `Notifications` | notices, the webhook with version and health, a delivery per notice, the worker, what each endpoint accepted |
| `DownloaderClients` | the remote's session, codec, what it took and whether it lists it; the call's place and answer |
| `OrganizationPlans` | configurations of the target, plans with what they were drawn from, approvals, the planner between its reads, requests between theirs |
| `Territories` | directories of inboxes and targets, targets a plan refers to, requests between check and transaction |
| `CapabilityCalls` | claims, results, arrivals of calls, executions and answers given |
| `Identity` | clock, account, requests under way, throttle rows, sessions, codes, devices |
| `Backups` | live database and roots, phase of the program, the backup being made, backup files, the restore and its directory |
| `Paging` | the history of one table and one walk over one of thirteen lists |

## 3. Runs

A passing run finds no error in the whole bounded state space; the three runs that
expect a violation belong to section 5. Several invariants that speak of the same records
are listed as one conjunction (`RecordsAgree`, `ScanRecordsAgree`, `ExecutionInvariant`,
`IntakeInvariant`, `FeedTakenOnce`, `AcquisitionEnds`, `BackupsHold`); their parts are
named definitions above them.

### Processing tasks

All use `MCProcessingTask`. An *incident* is a crash, an expired lease of a live
worker, a failing handler or heartbeat, or a dependency that is down.

| run | constants | checks |
|---|---|---|
| `safety` | 1 task, 2 workers, 2 keys, 1 decision, 1 incident; workers and keys symmetric | `TypeOK`, `AttemptLedger`, `SnapshotCurrent`, `RecordsAgree`, `AcceptedCancelBinds`, `LeaseSpec` (1.8 million states) |
| `decisions` | 1 task, 1 worker, 2 decisions, 2 incidents, no requests; handlers may delegate | `Settles`, `RestartServes`, `DecisionApplied` under fairness |
| `restart` | 1 task, 1 worker, 1 key, 1 decision, 1 incident | a finding, see 5 |

The properties:

* `AttemptLedger` - the history is gapless, at most one attempt is open, it is the
  current one and has the status and stage of its row.
* `SnapshotCurrent` - a worker whose commit would be accepted has a snapshot of the
  row's present stage, checkpoint and attempt.
* `RecordsAgree` - the records about a task tell one story: each manual attempt has
  exactly one key or decision that asked for it; a decision is in the queue until the
  task and the audit log have it, and once; a stage past planning has a plan, past files
  a result, and only a completed task is in the catalog; `recovering` is shown only on an
  attempt that follows a lost lease; the last event says what the row says (the
  `recovering` flag of running rows excepted, see 6).
* `AcceptedCancelBinds` - a task whose cancel was accepted is never handed on by a worker
  that fails or commits a move.
* `Settles`, `RestartServes`, `DecisionApplied` - work comes to rest; a stopped server
  serves again; a decision arrives.
* `LeaseSpec` - every step is one of `FencedLease`.

**Why the bounds are enough.** Rows interact in `claim_next` (which row is the oldest)
and in the batches of dispatcher and recovery; the proofs cover any number of tasks for
ledger and snapshots, the run one. Two workers are the least with a takeover; the
transactions of a third would meet the same guards. Two keys allow retry after cancel,
cancel after retry and twice the same. One incident covers each failure alone in every
interleaving. `Settles` is checked with one worker, which takes over from itself after
its lease lapsed. Attempts and versions have no bound of their own: they grow only with
keys, decisions and incidents.

**Fairness** (`FairSpec`). The loop of `start` (`platform/task_runtime.rs:344`) never
ends and runs on a multi-threaded executor, so a worker that began goes on, a round of
work follows another, and a batch is processed. Time passes: a pending retry becomes
due and an abandoned lease expires. A container that stopped is restarted
(`src/infra/compose/compose.yaml:9`, `restart: unless-stopped`), which justifies
`Boot`. A handler ends: it returns or fails. Nothing is assumed of requests,
revisions, provider updates or incidents. A fairness of the claim is only given per
worker, not per task.

**Deadlock** is checked in every one of these runs: the runtime can always take a step.

### Organization execution

All use `MCOrganization`. A *scenario* is a plan with the incidents that may happen to
it, once each unless it says twice. A run looks at all behaviours of all its scenarios.

| run | scenarios | checks |
|---|---|---|
| `organization` | 2 runs, 2 callers, 2 keys, symmetric; the table below | `ExecutionInvariant`, `MediaSurvives`, `CompensatedIsRestored`, `UserDataKept` (half a million states) |
| `organization_rest` | 1 run; copy, move (two devices, bind) and hard link, each with crash, fault, user, retry | `ComesToRest` under fairness, `CompletedOnVerified` |
| `organization_move_rerun` | the least that shows it | a finding, see 5 |

| plan of `organization` | incidents |
|---|---|
| copy with NFO | crash, fault, lost lease, user, retry |
| move with NFO, bind | crash, fault, lost lease |
| move, two devices | crash, fault, lost lease, user |
| hard link | crash, fault, lost lease, retry |
| quarantine, one device | crash, fault, lost lease, user |
| quarantine, two devices | crash, fault, lost lease, retry |
| quarantine, bind | crash, fault, lost lease, user, retry |
| quarantine, one device | fault, user, rollback |
| copy with NFO | fault, user, rollback |
| copy | fault, user, rollback twice |
| copy with NFO | rollback twice |
| hard link | fault, retry, rollback twice |
| move with NFO | fault, rollback twice |

The properties:

* `UserDataKept` - no step of the core overwrites, changes or unlinks the last name of
  a file with a user's data. Each operation looks at a name and acts on it later.
* `MediaSurvives` - without users, the media always has a name other than a temporary
  one; in quiet it has a visible one, unless a crash or fault interrupted a step that
  hides it.
* `ExecutionInvariant` - types, and `JournalMatchesDisk`: without users and rollbacks, what the journal calls verified
  is so on the disk, although two runs share one journal and crash anywhere.
* `CompletedOnVerified` - without users, a result becomes completed only when the file,
  the removal of its source and the NFO are verified.
* `CompensatedIsRestored` - once everything is quiet, a compensated result means that the
  target is gone and the source is where it was.
* `ComesToRest` - the task stops being retried. A pause for a person is rest: that a move cut
  short behind its rename ends there instead of being resumed (section 6) is not what it asks.

Where sections 5 and 6 say that a property fails, the passing runs leave out that one
circumstance and nothing else: no crash and no lost lease meets a rollback
(`CompensatedIsRestored`, `MediaSurvives`), no rollback meets a second device, no user
meets a hard link (`UserDataKept`). So nothing is claimed of a rollback that a crash cuts short
(`platform/capability_fs.rs:504`), and the removal of a restored source
(`organization/executor.rs:605`) is seen by `organization_move_rerun` only. `CompletedOnVerified` is asked of runs that do not
overlap, `ComesToRest` not of a quarantine.

**Why the bounds are enough.** Two runs are what a lost lease or a takeover gives; a
third could only start after a second loss. Two callers with a key each are the least
that compensate one file twice. One crash, fault and user action each meet every other
step in every order; all code paths are per plan, so one task is all there is. Three
inodes of a kind are never all linked. The bounded counters limit only
what happens to the system, not what the code does.

**Fairness** (`FairSpec`). A handler that runs goes on (`RunStep`), a request too
(`RequestStep`), and a task that may be claimed is claimed by some worker
(`StartStage`), from the endless loop of `platform/task_runtime.rs:344`. Faults, users,
retries and rollbacks are not fair.

**Deadlock** is not checked in these runs: a task that is done, or waits for an
administrator who does not come, really stops.

### Intake

| run | constants | checks |
|---|---|---|
| `scan` (`MCScan`) | 2 paths, one of them a sample, 2 looks of a file, 2 slots, 2 workers, 2 keys; at most one change, two requests and one upset, and one of these less while two work on one task | `ScanRecordsAgree`, `OneLiveRevision`, `RequestsAreEarned`, `MissingWasAbsent`, `ScanLeaseSpec` |
| `intake_reconcile` (`MCIntake`) | 1 path, 3 slots, channel and coalescer of 1; two of: changes, an automation's request, a policy change, crash, unmount, failing tick | `IntakeInvariant` |
| `intake_liveness` (`MCIntake`) | 1 path, 2 slots; a change and a crash or failing watcher | `ReconcilesEnd`, `ChangesSeen`, `SettledFileRequested` under fairness |

* `ScanRecordsAgree` - only the last attempt of a scan may be open and it has the row's
  status, each later one follows an attempt that allows it, and the last event tells the
  row.
* `OneLiveRevision` - exactly the current revision of a path that is not missing is alive
  (observing, stable or auxiliary), across changes, returns and cut-off scans.
* `RequestsAreEarned` - a request for processing is only made for facts that the last
  observations agreed on over an interval and whose modification is old enough.
* `MissingWasAbsent` - a file is declared missing only by a scan that completes, and only
  if there was a moment since that scan was made at which it was not there.
* `ScanLeaseSpec` - the scan engine implements `FencedLease`: a worker whose task another took
  over can neither finish it nor renew its lease; and, since a batch counts no version, it cannot
  write one either (`BatchesAreFenced`).
* `IntakeInvariant` - shapes and bounds, and at most one open reconcile scan, to which the
  watch state points, whoever schedules.
* `ReconcilesEnd`, `ChangesSeen`, `SettledFileRequested` - there is a moment without an
  open reconcile again and again; a change becomes known unless the root is away; a
  file that rests is handed to processing.

**Bounds.** The runtime starts one scan worker. In `scan` a second one comes in when the lease
lapsed under the first, who still has the task in its hands and goes on with it: the two then
look, write batches and finish in every order. A second worker that works on another task shares
nothing with the first but the table, and is left to the proof, as are more of them. Facts age
(`AgesWhenRead`) only once a revision under observation can be asked for it; nothing else reads
their age. In the two intake runs the one worker takes over from itself. A channel of one
place makes an overflow as easy as the real one of many. Three slots are the most the two schedulers beside the running one can fill; a
finished reconcile leaves its slot. With one path and one change the channel of
`intake_liveness` never fills: that an overflow does no harm is seen by `intake_reconcile`, and
that its change becomes known is not. **Fairness**: worker and coordinator are endless
loops, the process is restarted, time passes, the kernel delivers what it watches, an
unmounted root comes back. Nobody is obliged to change a file, ask or read an inbox.
**Deadlock** is checked of the two intake runs, and not of `scan`, where all may be done.

### Acquisition

| run | constants | checks |
|---|---|---|
| `acquisition` (`MCAcquisition`) | 2 downloads, 2 events, 1 connection, 1 item, 1 webhook nonce, 1 command key, 2 attempts; any two of: a fault, two changes by an administrator, a user's request, two changes of the feed | `VerdictFitsConfig`, `AddedOnce`, `FeedTakenOnce`, `RaisedUnderItsSource`, `AcquisitionEnds` under fairness |
| `automation_stuck` | 1 download, 1 event, no nonce or command, `Stranding` | a finding, see 5 |

* `VerdictFitsConfig` - the health of a connection, and a download waiting for another
  configuration, were found with the url and secret that are saved, though calls take
  long and administrators replace, disable and delete.
* `AddedOnce` - a remote client that lists what it took under its tag takes each download
  once, although answers and processes are lost after the add, and a download is only
  given up as missing if it was hidden, removed or never added.
* `FeedTakenOnce` - an event makes at most one download, however often it is attempted;
  the cursor of the feed never passes an item without its event.
* `RaisedUnderItsSource` - an event is raised under the version of the source it was read
  with.
* `AcquisitionEnds` - every event and every download ends.

**Fairness**: both loops go on, the remote client finishes what it took, and a row that is
eligible again and again is claimed (strongly fair per row: each batch takes the oldest
rows, which leave it in a bounded number of attempts). In `acquisition` a restart comes
after the old leases have expired (`Stranding` is FALSE), so an event left running is seen by
`automation_stuck` only: there `AutomationEnds` fails, which is the finding. **Deadlock** is not checked: all may be done.

### Services

The run `services` (`MCServices`) follows one service per behaviour, chosen in the
initial state; they share no state, and a run each would say the same.

| service | constants | checks |
|---|---|---|
| `EventStream` | 5 events, pages of 2, 1 event kept behind a deleted one, 2 cuts | `SeesAllOrGap`; `CatchesUp` under fairness |
| `Notifications` | 2 notices, 2 attempts, 2 configurations, 1 fault | `HealthIsItsOwn`; `DeliveriesEnd` under fairness |
| `DownloaderClients` | all kinds of remote, 2 renewals of its session | `CallTellsTruth` |
| `OrganizationPlans` | 2 plans, 1 change, 2 callers, 2 requests, 1 key | `OnlyAuthorizedRuns` |
| `Territories` | 3 directories, 2 administrators, 3 requests | `Disjoint` |
| `CapabilityCalls` | 2 requests, 2 keys (one without a handler), 2 bodies, 2 arrivals at once | `RunsOnce` |
| `Identity` | 2 requests at once, 3 in all, 2 failures lock, time 0..1 | `OneDevicePerCode` |
| `Backups` | 2 schema versions, 2 backups, 1 change of data, 1 accident | `BackupsHold` |
| `Paging` | 3 rows, 2 of them early, 4 changes, 2 times, pages of 1 | `WalkIsWhole` |

* `SeesAllOrGap` - a client gets every event after the one it started from, once and in
  order, or is told of a gap that covers it; `CatchesUp` - and reaches the end.
* `HealthIsItsOwn` - a delivery reported as made was taken by the endpoint of its own
  configuration, and the health shown was told by a delivery of the one in force;
  `DeliveriesEnd` - every delivery ends.
* `CallTellsTruth` - what the caller of an add may conclude. A torrent said to be added is
  listed. One said to be missing may still be there: a qBittorrent may accept it as pending, or
  execute the add after the client gave up waiting; but when every answer was read it was taken,
  once. After a refusal that was read nothing was taken and nothing is under way. However often
  requests were sent again, and however late one arrives, the torrent is taken once.
* `OnlyAuthorizedRuns` - the plan that runs was free to run by the target it was drawn
  from or approved, and does not lie over something known to be there, however
  recalculations, approvals, agents and changes of the target interleave.
* `Disjoint` - no inbox contains another, and no target overlaps an inbox or a target.
* `RunsOnce` - a key is executed once at most, and who gets a result gets that of
  exactly its own call.
* `OneDevicePerCode` - a code lets in one device, with no more access than it was for.
* `BackupsHold` - what a restore puts in place is the database and roots of one backup
  as written, and before a migration there is a backup of what it changes.
* `WalkIsWhole` - a finished walk over a history shows what belonged to the list when it
  began, each row once; over the other lists every row that nobody touched, once.

**Bounds.** Two at once are the least that race, and every store method is a short
transaction; two page boundaries and a gap fit into five events; a walk of three rows by
one has two cursors. **Fairness** is that of the endless loops and of a client that
reconnects. **Deadlock** is not checked: every service may have done all it is bound to.

### Mutants

Definitions marked "Mutant" are plausible slips (a guard dropped, an old attempt left
open, a flag not reset, a rename that overwrites). `PROJECT.json` pairs every property
of every passing run with one that violates it.

## 4. Proofs

Eight modules of proofs; every theorem is for any values of the constants that satisfy the
named assumptions of the modules, and for nothing less than the specification the runs check.
Every proof has the same shape: an inductive invariant, one lemma per action (or per
group of actions that change the same thing), a lemma that joins them, and the temporal step.
What was thought to be inductive was first given to TLC as an invariant of a run; what it
refuted is told below.

### Processing

`ProcessingTask_proofs` proves, for any finite set of tasks and any workers, keys,
decisions, delegated outcomes and number of incidents:

* `TypesHold`: `Spec => []TypeOK`
* `LedgerHolds`: `Spec => []AttemptLedger`
* `SnapshotsAreCurrent`: `Spec => []SnapshotCurrent`
* `Invariant`: `Spec => []IInv`, from which the others follow

`IInv` has four parts, and none is inductive without the others:

* `Typed` = `TypeOK` and `BatchInv`. The dispatcher indexes the queue it read before:
  that its counter stays within the queue and that a queued decision names a task is
  what makes the row it writes a row.
* `AttemptLedger`. Inductive only with the leases: a commit closes the attempt in the
  worker's *snapshot*, so the snapshot's attempt must be the row's.
* `LeaseInv`: every snapshot `Fits` the row it came from. Its version is at most the
  row's, and if it equals the row's and the row is running, then stage, checkpoint and
  attempt agree. This is the fencing argument in one line: a row's
  version grows with each change of these columns, so an equal version proves an
  unchanged row. The identification commit is not fenced by the version but by owner,
  attempt and time; it needs the ledger in turn, since only the current attempt is
  open.
* `DelegationInv`: an outcome left to the worker belongs to an identification lease,
  so that the worker's `finish_*` keeps the stage within the attempt's.

`ProcessingRecords_proofs` proves `RecordsHold` (`Spec => []RecordsAgree`) from
`RInv` = `IInv`, `RowsAgree`, `QueueInv` and `AccountInv`. Its first half says once how any
step may change one row together with its attempts and its last event (`Change`); the parts
are then read off that relation. `RowsAgree` adds to the property that a running row has no
reason and that a row that shows as recovering never rests on a pause. `AccountInv` counts:
a task has as many manual attempts as retry keys and received decisions. It is the part that
would fail if a decision were applied twice, and it needs `QueueInv`: a decision
leaves the queue only with its receipt, and the head of the queue at the audit has one.

`FencedLease_proofs` proves `Exclusion` (two agents never both hold a valid ticket of
one resource) and `Fresh` (a grant number never comes back) from the invariant that
tickets carry issued numbers and no two tickets of a resource the same one. With
`LeaseSpec` these say of the code that a worker that was taken over stays locked out.

`ProcessingRecords_proofs` also proves for the task engine:

* `WorkersAreFenced`: `Spec => LeaseSpec`, the refinement, for any constants. `IInv` is not enough:
  the identification commit does not compare versions, so that it finishes the abstract
  lease under the current number has to come from elsewhere. `OwnersCurrent` says it: a
  task that runs in the name of a worker with a lease of it runs under that lease's
  version. It is inductive because only a claim writes an owner, and a worker claims
  only when it has no lease. `Numbered` (a running row's version is not 0) tells a held
  resource from a free one.
* `CancelsBind`: `Spec => AcceptedCancelBinds` under the assumption `Delegated = {}`, which is what
  this build does (section 6). With a handler that delegates, the property does not hold
  of the code: the flag may be set between the worker's look at it and
  `finish_identification_complete`. The proof adds `Undelegated`: a worker is never at the two places where
  an outcome is still to be written.

### Organization

`OrganizationExecution_proofs` proves of executor, journal, files and rollbacks together, for any
scenarios, runs and requests (a run that lost its lease goes on beside the next one):

* `ExecutionCorrect` (`ExecutionInvariant`): the shapes of everything, and the journal's truth.
* `MediaKept` (`MediaSurvives`): the media is never only in a temporary file, and visible once all
  is quiet. Its hypothesis is that the scenario allows no rollback or the file is copied or
  linked: with a rollback of a moved file the property does not hold of the code (section 5, run
  `organization_move_rerun`).

* `UserDataSafe` (`UserDataKept`): no step of a run, a rollback or a fault takes the last name of a
  file a user wrote or changes it, with any number of crashes, faults and rollbacks. Its
  hypothesis `Careful` names what the code cannot meet: a hard link beside a user, a copy with two
  user edits, a move or a quarantine that lost two leases (section 6 has all three).
* `CompletedRests` (`CompletedOnVerified`): a result becomes completed on verified rows only, with any
  number of crashes, faults and retries. Its hypothesis `Orderly` admits no rollback, which would
  change rows another run relies on, and either a plan that removes no source by a row of its own
  (`Straight`: copies, links, moves within a device, quarantines but between mounts), of which any
  number of runs may overlap, or a move that keeps its lease. Section 6 has the ways out.
* `RollbackReturns` (`CompensatedIsRestored`): once all is quiet, a compensated result means that the
  target is gone and the source in place, with any number of requests, rollbacks, faults
  and retries. Its hypothesis `Returning` leaves out what sections 5 and 6 show to break it: a crash or
  a run without its lease (either may make or give back the target behind a rollback's back), and a
  moved file whose rollback cannot rename it to its source, which is given back to a target that
  another rollback has found gone.

The first two follow from `Inductive`, which has five parts. `Base` says at which steps a run may be with
which row of which plan; without it a run at `mark` could hold any row. `Temporaries`: of all
runs only one is between creating and publishing a temporary file, which the exclusive
creation gives and which matters when a failed run cleans up. `Limited`: incidents stay within
their limits, so that a scenario without an incident never has one. `SourceKept`: the source of
a copy or link is the original as long as no user acts; the hidden names of a rollback are others, and
`CompensateKeepsSource` goes through the renames. `QuietWorld`, until a user or a rollback
interferes, relates files, rows and runs: where the original and its copies are, that an
applied row names what is at the target, that a removal has begun only with a target in place, and
what each run has seen that still is so. The hard part is that it holds of runs that act on what
they read before: `Settled` says what no step of any run does in a quiet world (a target never
changes once it is there, an absent source stays absent, an NFO keeps its facts), and
`HoldsKept` that all the claims above survive such steps.

`UserDataSafe` needs `UserWorld` beside it, which holds with users and rollbacks. `FilesOurs`: a file has one
name unless it is linked, the manifest is where manifests go, no temporary file is a
user's. `HiddenHeld`: a name under which a rollback hides a file has one owner, for the rename
to it happens only when it is free; so what an owner looked at is what it removes.
`CompOurs` and `Ours`: facts that say which file may be removed are never those of a user's
file, from the run that wrote them to the row and to the request that read the row. `Overlap` counts
runs: with one lost lease two at most. `RemovalOurs`: at the unlink of a removal the hidden name
leads to the planned source or to nothing, and then nothing will come there. It is the only part that
needs the count, since a third run could hide another file in between.

`CompletedRests` needs `OrderedWorld`. `RowStands`: a row that a run knows to be verified is verified
in the database, because whoever reviews or changes a row has it in memory in another status, and
each write asks for the status. A straight plan has no removal at all (`NoRemovals`). A composed move has
one run at a time; `MoveStands` says what that run's step tells of the removal: behind the file
operation (`Late`) there is none unverified, before it the task is still in its first stage, and a
run that comes back to a verified file finds an unverified removal only with the source in place.
Without the last part a run that was resumed after a crash could conclude past it.

`RollbackReturns` needs `ReturnWorld`. The property is far from inductive, for a request may have looked
at the target long before another one reports success. `Placed` says that nothing makes a target once
there is a result: the run that wrote the result only commits, and every later run is in a stage behind the
file operation (`StageSteps`). `Before`, without a result: nothing is taken back, and what is
moved is at one of its two places. `Behind`, with one: the file is what the verified row describes, at the
target, under the hidden name of a request that holds it, or, if it is moved, at its source again, and
then at none of the others. `Requesting`: the facts a request works with are those of the row,
whichever version of it was read; a request about to report success has seen the target gone, and
nothing brings it back: of several requests only the one that holds the file could (`HoldsTarget`),
and that one finds the facts it expects and the source free, so it never gives the file back.

### Scans and the intake

`ScanTask_proofs` proves of the scan engine by itself, for any paths, facts, tasks and workers:

* `OneRevisionLives` (`OneLiveRevision`). The property is no invariant by itself: an observation
  supersedes the revision the file points to, and what it makes alive may be one seen before.
  `FilesInOrder` adds that the current revision is never superseded, only alive or missing, so
  that seeing it again revives it. `ScansTyped` says that what a worker carries from the walk to
  its batch are facts of paths; without it the rows a batch writes would be unknown.
* `ScansAreFenced` (`ScanLeaseSpec`): the whole engine, with its walk, heartbeat,
  takeovers, crashes and requests, implements `FencedLease`, and writes a batch only for a
  worker that holds the task (every other step that adds to a row counts its version up). Each action is shown to be a
  grant, a renewal, a finish, a revocation, a lapse or no change of the lease. It takes three
  facts more: a row in use has an attempt and a version above zero (so grant numbers
  are never the absent one), only a running row's lease lapses, and a worker about to finish
  carries a final status, which is what makes its write the abstract `Finish` and not a renewal.
* `ScanRecordsHold` (`ScanRecordsAgree`): the attempts of a task are one `Story` that ends with
  the row's status, and its last event says what the row does.
* `OnlyEarnedRequests` (`RequestsAreEarned`). `SightingsKept` ties each revision to what the
  history of observations knows: one that is stable, or about to be, was the same over more
  than the interval. Missing files and second scans are where it is not obvious.
* `MissingWasAway` (`MissingWasAbsent`). `ScansCover` follows the walk: of each path that is no
  longer to be visited there is an observation or an error, in memory or in the table, or the
  path was away. It is kept only for a worker that still has the lease; a scan that was taken over
  may carry anything, because its batch is refused.

`Reconcile_proofs` proves of the intake, where the coordinator, automations and users schedule
scans of the same table: `IntakeStaysInOrder` (`IntakeInvariant`: types, the capacities of
channel and coalescer, one open reconcile that the watch row points to), and that the three record
properties above go on to hold (`IntakeRecordsHold`, `IntakeMissesOnlyAbsent`,
`IntakeAsksOnlyEarned`). The argument is one observation: a step of the intake is either a step
`ScanTask` could take by itself (`ScanStep`), whose lemmas are used as they are, or it
schedules (`Rescheduled`): each slot of the table stays as it is, is left by a scan that has
ended, or is taken by a new one. `OneReconcile` is kept by the first kind because no step of the scan engine
opens a reconcile (`Calm`), for which it matters that only manual scans can be retried, and by
the second because the transaction looks for an open one before it inserts.

### Downloads and automations

`Acquisition_proofs` proves of the downloads with their connections (`DInv`) and of the events
over them (`AInv`), from `AcquisitionHolds` (`AcquisitionSpec => []AcquisitionInvariant`):

* `VerdictsFit` (`VerdictFitsConfig`): `VerdictsInOrder` is the order in which worker and probe
  read address and credentials; a verdict is stored only for a version at least as old as both.
* `EachAddedOnce` (`AddedOnce`): `BatchHeld` (rows in the batch are leased to it and open),
  `Answering` (an answer is in hand only between request and conclusion), and
  `RowsExplained` and `BatchExplained`: a torrent that is not found was never added, was removed, or
  is one its downloader does not list.
* `FeedIsTakenOnce` (`FeedTakenOnce`): `PollSound` (what a poll holds is of the configuration as
  long as the version is the same), `CursorBehindEvents`, `KeysMakeOne` and `RunByTheLoop`.
* `EventsAreRaisedUnderTheirSource` (`RaisedUnderItsSource`), an action property.

`LeastExists`, `RankExists` and `RanksDiffer` are facts about the oldest of a set and ranks in it that the
batch and the feed need; they rest on the well-foundedness of the natural numbers.

### Services

`Services_proofs` has one invariant for each of the services that share no state:

| theorem | property | what the invariant adds |
|---|---|---|
| `ClientsSeeAllOrAGap` | `SeesAllOrGap` | what a stream holds follows what its client has, one after the other, or is a gap; only the front of the log is ever gone |
| `HealthIsTold` | `HealthIsItsOwn` | a courier heard of a success only from the endpoint of its delivery's configuration |
| `CallsTellTheTruth` | `CallTellsTruth` | no request before the adding one takes a torrent or leaves one under way; what is listed or hidden was taken once, what is late not yet; a query that follows a read answer follows an accepting one |
| `OnlyAuthorizedPlansRun` | `OnlyAuthorizedRuns` | plans only grow in number and never change; an approval, given or under way, is of a plan that may be overridden |
| `TerritoriesStayApart` | `Disjoint` | rows are proper. The transaction looks again, so what the checks before it saw is not needed; overlap is symmetric, as the two directions of the code's prefix tests give |
| `CallsRunOnce` | `RunsOnce` | a key has one request, two deliveries are never at work on one claim, what was executed was claimed, and what a caller was told is the record. A crash ends deliveries but leaves claims, so that one cut short stays pending and nothing runs it again |
| `OneDeviceForACode` | `OneDevicePerCode` | a code that a request redeems, or a device was let in with, is used up, and one of the two at most |
| `WalksAreWhole` | `WalkIsWhole` | a row the walk promises is shown if and only if it does not lie behind the cursor. That a page is what comes first, and has a last row, is shown of ranks in a finite set (`PageIsFirst`, `LastIs`). The rows of a page of targets are read again after their ids were: by then they can only have moved to the front (`ShownToIds`), so none is passed over. Assumed is that ids and times are numbers, the table is finite, the clock is not set back and a page has room for a row |
| `BackupsCanBeHadBack` | `BackupsHold` | a start goes on only once its backup is whole; what is published was compared with the manifest after it was copied |

### What the proofs changed

* `MissingWasAbsent` was not true with three requests of a user, and the run allows two: the
  history variable `absent` was only fed by changes of the disk, so a path that was away already when
  a task was retried was not in it. `Retry` now records what is away at that moment, as the
  creation of a scan does.
* Some definitions had `CASE` arms that overlap (in `Notifications`, `ProcessingTask`,
  `OrganizationFiles` and `OrganizationExecution`). TLC takes the first arm that is true, the
  logic any of them: they now say what the `match` of the code says.
* `order` of `ScanTask` is the relation "was created before" between slots in use and no
  sequence that is filtered, which the provers cannot reason about. The oldest task is the same.
* `Paging` kept its pages as sequences sorted with `SortSeq`. They are sets now: a page is the
  rows of the least ranks behind the cursor, and the cursor of a page of targets is the row, read
  again, of the last id that was read.

### Only model-checked

* The liveness properties (`Settles`, `RestartServes`, `DecisionApplied`, `ComesToRest`,
  `ReconcilesEnd`, `ChangesSeen`, `SettledFileRequested`, `AcquisitionEnds`, `CatchesUp`,
  `DeliveriesEnd`): the prover treats neither fairness nor ENABLED.

Every invariant and every action property of a passing run has a theorem; the hypotheses of those that
have one are named above.

## 5. Where the code and its documentation disagree

Each of these has a run of its own that TLC ends with a violation.

1. **A decision can stop the service for good** (`restart`). Accept, then retry or
   cancel before the dispatch: the dispatch fails each time, and `prepare` returns its
   error to `serve`. The table has columns for failed dispatches that nothing writes.
   `RestartServes` and `DecisionApplied` hold as long as nobody retries or cancels a task
   with an accepted decision (run `decisions`).
2. **A file stage beside a rollback can delete the only copy**
   (`organization_move_rerun`). `completed` takes a source that a rollback has just
   restored for one it has to remove, and the removal does not look at the target
   (`organization/executor.rs:605`). It takes a crash between the result and the stage's
   commit.
3. **An event can be left running** (`automation_stuck`). `claim_one` never takes a running
   event (`automation/event_store.rs:354`), and `prepare`, once per start, takes back only
   leases that have expired by then. After a crash and a restart within 30 seconds the
   event stays running until some later start.

## 6. Observations without a run

Each of these was met while modelling, in the model (the circumstance that shows it is
named) or by reading.

Processing and decisions:

* An accepted cancel is erased by `reclaim_expired` and by a takeover
  (`tasks/processing/store.rs:1311`, `:710`), and by the pause with a retry of an
  organization stage (`:1040`, `:1170`), although `model.rs:90` promises the next stop point
  and the comment at `store.rs:1726` says it of failures.
* After accept, retry and a new review case the old decision is applied to the new case:
  `apply_manual_decision` (`store.rs:1391`) only checks that the task waits, though a
  decision is bound to the version of its case (`identification/manual/store.rs:263`).
* `request_cancel` of a running task writes an event with `recovering=false` although
  the row may be recovering; `RecordsAgree` leaves that column out.
* With a handler that delegates `identification-complete`, a cancel accepted between
  the worker's check and `finish_identification_complete` is lost. The production
  handler commits itself, so the `safety` run has `Delegated = {}`.

Organization:

* A quarantine to another device ends in review without its manifest, after the source was
  removed: the copy's identity is compared with the source's
  (`platform/capability_fs.rs:856`; `platform/fs.rs:426` promises the manifest).
* A rollback that died after the file got its hidden name reports success when it is asked
  again (`platform/capability_fs.rs:504`).
* A quarantined file's task never completes: the completion stage looks for a verified
  copy, move or hard link only (`organization/coordinator.rs:583`).
* A file stage is not resumed after a crash behind the rename: `run_file_stage` looks at
  the source before the journal (`organization/executor.rs:180`), and `recover`, which
  reads it, is called by tests only.
* Two rollbacks of a file moved to another device: one hides the target, the other finds
  it gone and records compensated, the first gives it back.
* A rollback beside a run that goes on without its lease, or whose stage is run again: the
  run may link or rename the target again, and a compensated result has its target back.
* A hard link can remove a user's file: what is at the target after `linkat` is taken for
  the link (`platform/capability_fs.rs:800`).
* A copy that is recovered takes a target with the bytes of the source for its own
  (`organization/executor.rs:1178`): two edits of a user that give source and target the same new
  bytes, a crash and a rollback, and the rollback removes the user's file.
* Of three runs of a move to another device (two lost leases) two can be behind their look at the
  hidden source while the third, which saw the planned source before, hides a file a user has put
  there since: the one that comes to the unlink last removes it (`platform/capability_fs.rs:931`).
* A result can be completed before the removal of its source is verified, when another run
  holds the source under its hidden name (`organization/executor.rs:605`).
* A quarantine between two mounts of one file system (a copy and a removal) that dies when the
  file is verified and the removal is not is completed by its next run, with the source in place
  and no manifest: `completed` (`organization/executor.rs:600`) looks at the source of a move only.
  TLC finds it (`CompletedOnVerified`) in the scenario "quarantine", "bind" with one crash.
* A compensated result can be completed again: the end of the NFO stage asks nothing of
  the result's status (`organization/journal_store.rs:936`).
* `OrganizationFileOperationHandler` gives the executor a stop token of its own
  (`organization/coordinator.rs:256`): stopping a worker does not stop a copy.
* A temporary file left by a crash in a copy is never removed: every later attempt ends
  in review as ambiguous, which `src/apps/core/tests/organization_recovery.rs` intends.
* A rollback accepted before the completion stage ran makes that stage fail and be retried
  without end; after completion, a rollback leaves the catalog entry in place.
* `authorize_once` (`organization/plan_store.rs:194`) checks the version it was given and then
  reads the newest plan in another statement: a recalculation in between gets the receipt of
  a version that was not shown. `OnlyAuthorizedRuns` asks only for a receipt.
* The planner reads the row of a target and its rules in two queries, so a plan may mix two
  configurations; a target deleted between load and persist, a wake-up that comes while the
  task is seen queued and a recalculation beside the planner each leave a plan to be asked
  for again.

Intake:

* A cancel accepted between the worker's read (`tasks/worker.rs:127`) and its finish is lost,
  and a scan's cancel flag survives takeover and reclaim, where a processing task's does not.
* A hint that comes while a reconcile runs is mapped to that reconcile and dropped, a failing
  tick loses the hints it had drained, and after an unnoticed unmount and remount `replace`
  returns at once. The periodic reconcile heals all three.
* A path seen by an earlier attempt of a scan and gone in a later one is not declared missing
  by that scan. A revision that comes back keeps its old request.
* `finish_projection` overwrites the health `disabled`; `Accept` between the end of a scan
  and its projection overwrites the active one; `next_check_at_us` is never read; the health
  of an inbox changes only when it is read.

Acquisition:

* `transmission/client.rs:389` answers every query by tag with `InvalidResponse`, and the worker
  asks by tag before each add (`connectors/downloader/worker.rs:115`): every download on a
  Transmission connection fails for good. `port.rs:137` offers the query for both products.
* The same item of a feed with another payload is a `RequestConflict` that rolls the whole poll
  back, again at each poll, though `event_store.rs:836` speaks of skipping duplicates.
* An event cancelled after it was taken back leaves the download it made. An add a qBittorrent
  accepted but does not list yet ends as missing. Blocked downloads are queued again only at
  startup; worker and probe read a connection and its secret in two queries.
* Two tasks for one torrent on one connection meet in a unique index and abort the batch; one
  slow batch holds the others up. A Transmission of version 6 that gives no hint of its version
  is refused.

Services:

* A crash, or a registered capability without a handler, leaves a claim pending for ever
  (`capability/claims.rs`); `plan_outcome_from_view` answers with the newest version, read again;
  `list_events` gives no cursor with a page that is not full.
* `record_failure` is three statements: a success that clears the row in between makes it fail or
  lock a fresh row. A pairing code is used up before the device's name is validated; a lost answer
  to a rotation locks the device out; `get_session` renews the CSRF token of the other tab.
* A restore killed between its two publications leaves a database without deployment roots, and
  later restores refuse the directory. The list of backups sorts and cuts file names before it
  looks for manifests. `instance.key` is in no backup, as documented.
* A webhook changed between the second look and the send still gets one delivery; an answer lost
  before it is recorded means a second delivery with the same id.
* After an older backup was restored, a `Last-Event-ID` beyond the log skips events without a gap.
* In the plain keyset lists (targets, downloads, events, connections, sources) a row that is
  touched during a walk may move to the front and be skipped. Pages of targets read each target
  again: they may overlap, and a target deleted meanwhile fails the page. The cursor of a scan's
  files may exceed 512 bytes for long paths.

## 7. Not modelled, and what could come next

* Protocol formatting and parsing, ignore rules, path and name rules of `planner.rs`,
  evidence and scoring: pure functions of text with unit tests of their own.
* Cryptography, request security, static files, outbound address checks, the HTTP layer.
* The Jellyfin connector and the enhancer: calls without durable task state.
* TMDB's response cache and its single-flight map; the SDK's cached pager.
* The guard on a changed deployment-roots file, inbox-root events, the absence of the account.
* User interfaces, generated contracts and clients, container files.
* Proofs of weaker hypotheses: `CompensatedIsRestored` of a file moved to another device with one
  rollback, `MediaSurvives` of a moved file with rollbacks and without crashes.
