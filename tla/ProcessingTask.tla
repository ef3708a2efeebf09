--------------------------- MODULE ProcessingTask ---------------------------
(***************************************************************************)
(* The processing-task engine of the MediaFlow core: the task and attempt  *)
(* rows of tasks/processing/store.rs, the workers of                       *)
(* tasks/processing/worker.rs with their heartbeats and lease snapshots,   *)
(* the handlers as far as they move a task, the administrator's retry and  *)
(* cancel requests, the manual decisions that identification/manual/       *)
(* accepts and dispatches, and the runtime loop of                         *)
(* platform/task_runtime.rs with its start-up recovery.                    *)
(*                                                                         *)
(* Every action below that changes a row is one BEGIN IMMEDIATE            *)
(* transaction (or one UPDATE) of the code, so the transactions of         *)
(* concurrent workers, requests and recoveries interleave here exactly     *)
(* where the code lets them.  What a worker keeps in memory between two    *)
(* transactions is in worker[w]; a crash loses it.                         *)
(*                                                                         *)
(* Time is abstracted: a lease is or is not expired, a retry is pending or *)
(* due.  What can go wrong without anybody asking for it (a lease that     *)
(* expires under a live worker, a failing handler or database, a crash, a  *)
(* dependency that is down) is an incident; MaxIncidents bounds them.      *)
(***************************************************************************)
EXTENDS Integers, Sequences, FiniteSets

CONSTANTS
    Tasks,          \* stable file revisions, each with at most one task
    Workers,        \* the processing workers of one runtime
    Keys,           \* the idempotency keys requests may carry: bounds requests
    Decisions,      \* the manual decisions that may be accepted: bounds them
    Delegated,      \* outcomes an identification handler leaves to the worker
    MaxIncidents,   \* how many incidents a behaviour may have
    NoTask, NoOwner

ASSUME TasksAssumption == IsFiniteSet(Tasks) /\ NoTask \notin Tasks
ASSUME OwnersAssumption == NoOwner \notin Workers
ASSUME DelegatedAssumption ==
    Delegated \subseteq {"identification-complete", "waiting-confirmation", "paused"}
ASSUME IncidentsAssumption == MaxIncidents \in Nat

VARIABLES
    task,           \* tasks_processing_tasks, one row per revision
    attempts,       \* tasks_processing_attempts of each task, by ordinal
    worker,         \* what each worker has in memory
    binding,        \* tasks_processing_idempotency_bindings
    decision,       \* identification_task_decisions
    queue,          \* decisions whose dispatch is still 'accepted', oldest first
    receipts,       \* tasks_processing_manual_decision_receipts
    audited,        \* decisions the audit log has recorded
    reviewCase,     \* the latest identification_review_cases row of each task
    event,          \* the last processing-task.state-changed event of each task
    runtime,        \* where ProcessingTaskRuntime is
    incidents       \* how many incidents there were

rows == <<task, attempts, event>>
review == <<decision, queue, receipts, audited, reviewCase>>
vars == <<rows, worker, binding, review, runtime, incidents>>

-----------------------------------------------------------------------------
(***************************************************************************)
(* Values.                                                                 *)
(***************************************************************************)

Statuses == {"queued", "running", "waiting-confirmation", "paused",
             "cancelled", "partial-success", "completed", "failed"}

Stages == {"identification", "planning", "file-operation", "nfo", "completion"}

Checkpoints == {"pending", "identification-complete", "waiting-confirmation",
                "dependency-blocked", "execution-authorized", "planning-paused",
                "file-operation-executing", "file-operation-manual-review",
                "nfo-pending", "nfo-failed", "local-result-prepared",
                "catalog-committed", "cancelled"}

\* Reasons are kept as far as a transition depends on them.
Reasons == {"none", "identification", "provider", "revision-changed", "organization"}

AttemptReasons == {"initial", "manual-retry", "dependency-recovery", "lease-recovery"}
AttemptStatuses == {"queued", "running", "failed", "succeeded", "cancelled"}
Failures == {"none", "lease-lost", "stage-failed", "revision-changed"}

Attempt == [reason : AttemptReasons, status : AttemptStatuses,
            stage : Stages, failure : Failures]

Row == [status : Statuses \cup {"absent"}, stage : Stages, checkpoint : Checkpoints,
        reason : Reasons, recovering : BOOLEAN, attemptCount : Nat, current : Nat,
        cancelRequested : BOOLEAN, owner : Workers \cup {NoOwner}, expired : BOOLEAN,
        retry : {"none", "pending", "due"}, plan : BOOLEAN, result : BOOLEAN,
        catalog : BOOLEAN, version : Nat, created : Nat]

Lease == [task : Tasks, version : Nat, attempt : Nat, stage : Stages,
          checkpoint : Checkpoints]
NoLease == [task |-> NoTask]

\* A worker in one of these places has a lease in memory.
Busy == {"handling", "settling", "checking", "cancelling", "pausing", "finishing"}

Memory == [pc : Busy \cup {"ready", "joined"}, lease : Lease \cup {NoLease},
           beat : {"none", "waiting", "checked", "cancelled", "lost"},
           outcome : {"none", "committed", "error"} \cup Delegated]

Resting(pc) == [pc |-> pc, lease |-> NoLease, beat |-> "none", outcome |-> "none"]

Binding == [action : {"retry", "cancel"}, task : Tasks]
Unbound == [action |-> "none"]

Verdict == [task : Tasks \cup {NoTask}, case : Nat, kind : {"none", "reidentify", "planning"}]

StateEvent == [status : Statuses \cup {"absent"}, stage : Stages, recovering : BOOLEAN,
               reason : Reasons]

Place == [phase : {"down", "recover", "boot", "dispatch", "work"},
          step : {"fetch", "apply", "audit", "mark", "done"}, left : Nat]

Absent == [status |-> "absent", stage |-> "identification", checkpoint |-> "pending",
           reason |-> "none", recovering |-> FALSE, attemptCount |-> 0, current |-> 0,
           cancelRequested |-> FALSE, owner |-> NoOwner, expired |-> FALSE,
           retry |-> "none", plan |-> FALSE, result |-> FALSE, catalog |-> FALSE,
           version |-> 0, created |-> 0]

TypeOK ==
    /\ task \in [Tasks -> Row]
    /\ attempts \in [Tasks -> Seq(Attempt)]
    /\ worker \in [Workers -> Memory]
    /\ \A w \in Workers : worker[w].pc \in Busy <=> worker[w].lease # NoLease
    /\ binding \in [Keys -> Binding \cup {Unbound}]
    /\ decision \in [Decisions -> Verdict]
    /\ queue \in Seq(Decisions)
    /\ receipts \in SUBSET Decisions
    /\ audited \in SUBSET Decisions
    /\ reviewCase \in [Tasks -> [id : Nat, active : BOOLEAN]]
    /\ event \in [Tasks -> StateEvent]
    /\ runtime \in Place
    /\ incidents \in 0 .. MaxIncidents

Init ==
    /\ task = [t \in Tasks |-> Absent]
    /\ attempts = [t \in Tasks |-> <<>>]
    /\ worker = [w \in Workers |-> Resting("joined")]
    /\ binding = [k \in Keys |-> Unbound]
    /\ decision = [d \in Decisions |-> [task |-> NoTask, case |-> 0, kind |-> "none"]]
    /\ queue = <<>>
    /\ receipts = {}
    /\ audited = {}
    /\ reviewCase = [t \in Tasks |-> [id |-> 0, active |-> FALSE]]
    /\ event = [t \in Tasks |-> [status |-> "absent", stage |-> "identification",
                                 recovering |-> FALSE, reason |-> "none"]]
    /\ runtime = [phase |-> "down", step |-> "fetch", left |-> 0]
    /\ incidents = 0

-----------------------------------------------------------------------------
(***************************************************************************)
(* Parts of transactions.                                                  *)
(***************************************************************************)

\* One more incident, if the bound allows it.
Incident == incidents < MaxIncidents /\ incidents' = incidents + 1

\* The administrator's requests are served once start-up is over.
Serving == runtime.phase \in {"dispatch", "work"}

\* The lease condition of every finishing transaction and of renew:
\* id, version, status='running' and lease_owner still match the snapshot.
\* (Mutant: the owner's lease is believed without looking at the row.)
HoldsByStatus(w) ==
    /\ worker[w].lease # NoLease
    /\ task[worker[w].lease.task].status = "running"
Holds(w) ==
    /\ worker[w].lease # NoLease
    /\ LET r == task[worker[w].lease.task] IN
        /\ r.status = "running"
        /\ r.version = worker[w].lease.version
        /\ r.owner = w

\* write_state_event: the outbox row written in the same transaction.
Announce(t, status, stage, recovering, reason) ==
    event' = [event EXCEPT ![t] = [status |-> status, stage |-> stage,
                                   recovering |-> recovering, reason |-> reason]]

NewAttempt(reason, status, stage) ==
    [reason |-> reason, status |-> status, stage |-> stage, failure |-> "none"]

\* UPDATE tasks_processing_attempts SET status=... WHERE id=? AND status='running'.
Close(list, i, status, failure) ==
    IF list[i].status = "running"
    THEN [list EXCEPT ![i] = [@ EXCEPT !.status = status, !.failure = failure]]
    ELSE list

\* The columns every transaction that ends a lease resets.
Released(r) ==
    [r EXCEPT !.recovering = FALSE, !.cancelRequested = FALSE, !.owner = NoOwner,
              !.expired = FALSE, !.version = @ + 1]

\* The row after a transition that ends a lease.
FinishedRow(r, x) ==
    [Released(r) EXCEPT !.status = x.status, !.stage = x.stage, !.checkpoint = x.checkpoint,
                        !.reason = x.reason, !.retry = x.retry]

\* A row queued again under the new attempt that was appended to its list.
Requeued(r) ==
    [r EXCEPT !.status = "queued", !.current = r.attemptCount + 1,
              !.attemptCount = @ + 1, !.cancelRequested = FALSE, !.version = @ + 1]

-----------------------------------------------------------------------------
(***************************************************************************)
(* Creation and claims.                                                    *)
(***************************************************************************)

\* created_at_us only ever orders the rows.
NewRow == [Absent EXCEPT !.status = "queued", !.attemptCount = 1, !.current = 1, !.version = 1,
                         !.created = Cardinality({t \in Tasks : task[t].status # "absent"})]

\* ensure_revision, reached from ensure_pending at start-up and once per round.
EnsureRevision(t) ==
    /\ \/ runtime.phase = "recover"
       \/ runtime.phase = "dispatch" /\ runtime.step = "done"
    /\ task[t].status = "absent"
    /\ task' = [task EXCEPT ![t] = NewRow]
    /\ attempts' = [attempts EXCEPT ![t] = <<NewAttempt("initial", "queued", "identification")>>]
    /\ Announce(t, "queued", "identification", FALSE, "none")
    /\ UNCHANGED <<worker, binding, review, runtime, incidents>>

\* The WHERE clause of claim_next.
\* (Mutants: a running task can be claimed before its lease expired; an expired
\* lease is never taken over.)
ClaimableEarly(t) ==
    \/ task[t].status \in {"queued", "running"}
    \/ task[t].status = "paused" /\ task[t].retry = "due"
ClaimableWithoutTakeover(t) ==
    \/ task[t].status = "queued"
    \/ task[t].status = "paused" /\ task[t].retry = "due"
Claimable(t) ==
    \/ task[t].status = "queued"
    \/ task[t].status = "paused" /\ task[t].retry = "due"
    \/ task[t].status = "running" /\ task[t].expired

\* ORDER BY created_at_us LIMIT 1.
Oldest(t) ==
    /\ Claimable(t)
    /\ \A u \in Tasks : Claimable(u) => task[t].created <= task[u].created

\* claim_next keeps a queued task's attempt and gives any other task a new one.
\* (Mutant: the attempt that lost its lease stays 'running'.)
ClaimedAttemptsLeavingOld(t) ==
    IF task[t].status = "queued"
    THEN [attempts[t] EXCEPT ![task[t].current] = [@ EXCEPT !.status = "running"]]
    ELSE Append(attempts[t], NewAttempt(IF task[t].status = "running" THEN "lease-recovery"
                                        ELSE "dependency-recovery", "running", task[t].stage))
ClaimedAttempts(t) ==
    CASE task[t].status = "queued" ->
            [attempts[t] EXCEPT ![task[t].current] = [@ EXCEPT !.status = "running"]]
      [] task[t].status = "running" ->
            Append(Close(attempts[t], task[t].current, "failed", "lease-lost"),
                   NewAttempt("lease-recovery", "running", task[t].stage))
      [] OTHER ->
            Append(attempts[t], NewAttempt("dependency-recovery", "running", task[t].stage))

ClaimedRow(t, w) ==
    LET r == task[t]
        n == IF r.status = "queued" THEN r.attemptCount ELSE r.attemptCount + 1
    IN [r EXCEPT !.status = "running", !.reason = "none",
                 !.recovering = @ \/ r.status = "running",
                 !.current = IF r.status = "queued" THEN @ ELSE n,
                 !.attemptCount = n, !.cancelRequested = FALSE, !.owner = w,
                 !.expired = FALSE, !.retry = "none", !.version = @ + 1]

\* claim_next: the oldest claimable task, with a snapshot of its row as the lease.
Claim(w) ==
    /\ runtime.phase = "work"
    /\ worker[w].pc = "ready"
    /\ \E t \in Tasks :
        /\ Oldest(t)
        /\ task[t].status = "queued" => attempts[t][task[t].current].status = "queued"
        /\ task' = [task EXCEPT ![t] = ClaimedRow(t, w)]
        /\ attempts' = [attempts EXCEPT ![t] = ClaimedAttempts(t)]
        /\ Announce(t, "running", task[t].stage, ClaimedRow(t, w).recovering, "none")
        /\ worker' = [worker EXCEPT ![w] =
             [pc |-> "handling", beat |-> "waiting", outcome |-> "none",
              lease |-> [task |-> t, version |-> ClaimedRow(t, w).version,
                         attempt |-> ClaimedRow(t, w).current, stage |-> task[t].stage,
                         checkpoint |-> task[t].checkpoint]]]
    /\ UNCHANGED <<binding, review, runtime, incidents>>

\* run_once returns None when there is nothing to claim.
NoWork(w) ==
    /\ runtime.phase = "work"
    /\ worker[w].pc = "ready"
    /\ \A t \in Tasks : ~Claimable(t)
    /\ worker' = [worker EXCEPT ![w] = Resting("joined")]
    /\ UNCHANGED <<rows, binding, review, runtime, incidents>>

-----------------------------------------------------------------------------
(***************************************************************************)
(* The heartbeat (renewal_loop) that runs beside a handler.                *)
(***************************************************************************)

\* A tick first reads cancel_requested; TRUE stops the handler.
BeatCheck(w) ==
    /\ worker[w].pc = "handling"
    /\ worker[w].beat = "waiting"
    /\ worker' = [worker EXCEPT ![w] = [@ EXCEPT !.beat =
         IF task[worker[w].lease.task].cancelRequested THEN "cancelled" ELSE "checked"]]
    /\ UNCHANGED <<rows, binding, review, runtime, incidents>>

\* It then renews.  The condition has no lease_expires_at_us: an expired lease
\* that nobody took over is re-established.  No row matched means it is lost.
BeatRenew(w) ==
    /\ worker[w].pc \in {"handling", "settling"}
    /\ worker[w].beat = "checked"
    /\ IF Holds(w)
       THEN /\ task' = [task EXCEPT ![worker[w].lease.task] = [@ EXCEPT !.expired = FALSE]]
            /\ worker' = [worker EXCEPT ![w] = [@ EXCEPT !.beat = "waiting"]]
       ELSE /\ worker' = [worker EXCEPT ![w] = [@ EXCEPT !.beat = "lost"]]
            /\ UNCHANGED task
    /\ UNCHANGED <<attempts, event, binding, review, runtime, incidents>>

\* A transient database error leaves the lease as it is until the next tick.
BeatFails(w) ==
    /\ worker[w].pc \in {"handling", "settling"}
    /\ worker[w].beat = "checked"
    /\ worker' = [worker EXCEPT ![w] = [@ EXCEPT !.beat = "waiting"]]
    /\ UNCHANGED <<rows, binding, review, runtime, incidents>>

-----------------------------------------------------------------------------
(***************************************************************************)
(* The identification handler: one transaction of identification/store.rs  *)
(* that decides the attempt and moves the task.                            *)
(***************************************************************************)

\* How a lease ends: what becomes of the row, and of the attempt.
Ending(status, stage, checkpoint, reason, retry, attempt, failure) ==
    [status |-> status, stage |-> stage, checkpoint |-> checkpoint, reason |-> reason,
     retry |-> retry, attempt |-> attempt, failure |-> failure]

Confirmed == Ending("queued", "planning", "identification-complete", "identification",
                    "none", "queued", "none")
NeedsReview == Ending("waiting-confirmation", "identification", "waiting-confirmation",
                      "identification", "none", "succeeded", "none")
Blocked(retry) == Ending("paused", "identification", "dependency-blocked", "provider",
                         retry, "failed", "stage-failed")
RevisionChanged == Ending("cancelled", "identification", "cancelled", "revision-changed",
                          "none", "failed", "revision-changed")

IdentificationOutcomes ==
    {Confirmed, NeedsReview, Blocked("none"), Blocked("pending"), RevisionChanged}

\* assert_attempt_authority and the WHERE clause of the update: unlike the other
\* commits it checks the expiry and the cancel flag, and the attempt, not the version.
Authority(w) ==
    LET l == worker[w].lease  r == task[l.task] IN
        /\ r.status = "running" /\ r.stage = "identification"
        /\ r.current = l.attempt /\ r.owner = w
        /\ ~r.expired /\ ~r.cancelRequested

\* replace_review_case: waiting opens a new case, confirming closes the old one,
\* a blocked provider keeps it.
NextCase(c, status) ==
    CASE status = "waiting-confirmation" -> [id |-> c.id + 1, active |-> TRUE]
      [] status = "queued" -> [c EXCEPT !.active = FALSE]
      [] OTHER -> c

IdentifiedAttempt(a, x) ==
    IF a.status = "running"
    THEN [a EXCEPT !.status = x.attempt, !.stage = x.stage, !.failure = x.failure]
    ELSE a

Identified(list, i, x) == [list EXCEPT ![i] = IdentifiedAttempt(@, x)]

\* IdentificationStore::commit.  Blocking with a retry time is an incident.
IdentificationCommit(w) ==
    /\ worker[w].pc = "handling"
    /\ worker[w].lease.stage = "identification"
    /\ Authority(w)
    /\ \E x \in IdentificationOutcomes, t \in Tasks :
        /\ t = worker[w].lease.task
        /\ IF x.retry = "none" THEN UNCHANGED incidents ELSE Incident
        /\ task' = [task EXCEPT ![t] = FinishedRow(@, x)]
        /\ attempts' = [attempts EXCEPT ![t] =
             Identified(@, worker[w].lease.attempt, x)]
        /\ reviewCase' = [reviewCase EXCEPT ![t] = NextCase(@, x.status)]
        /\ Announce(t, x.status, x.stage, FALSE, x.reason)
    /\ worker' = [worker EXCEPT ![w] = [@ EXCEPT !.pc = "settling", !.outcome = "committed"]]
    /\ UNCHANGED <<binding, decision, queue, receipts, audited, runtime>>

-----------------------------------------------------------------------------
(***************************************************************************)
(* The organization handlers: planning, file-operation, nfo, completion.   *)
(* Each ends in one finish_organization_* transaction of the task store.   *)
(***************************************************************************)

Move(status, stage, checkpoint, reason, retry, continue) ==
    [status |-> status, stage |-> stage, checkpoint |-> checkpoint, reason |-> reason,
     retry |-> retry, continue |-> continue, plan |-> FALSE, result |-> FALSE,
     catalog |-> FALSE]

\* finish_organization_plan and finish_organization_planning_failed.
PlanningMoves ==
    {[Move("queued", "file-operation", "execution-authorized", "none", "none", TRUE)
        EXCEPT !.plan = TRUE],
     [Move("paused", "planning", "planning-paused", "organization", "none", FALSE)
        EXCEPT !.plan = TRUE],
     Move("paused", "planning", "planning-paused", "organization", "none", FALSE)}

\* finish_organization_file, _io_pending and _manual_review.
FileMoves ==
    {[Move("queued", "nfo", "nfo-pending", "none", "none", TRUE) EXCEPT !.result = TRUE],
     [Move("queued", "completion", "local-result-prepared", "none", "none", TRUE)
        EXCEPT !.result = TRUE],
     Move("paused", "file-operation", "file-operation-executing", "organization",
          "pending", FALSE),
     Move("paused", "file-operation", "file-operation-manual-review", "organization",
          "none", FALSE),
     [Move("paused", "file-operation", "file-operation-manual-review", "organization",
           "none", FALSE) EXCEPT !.result = TRUE]}

\* finish_organization_nfo.
NfoMoves ==
    {[Move("queued", "completion", "local-result-prepared", "none", "none", TRUE)
        EXCEPT !.result = TRUE],
     [Move("partial-success", "nfo", "nfo-failed", "organization", "none", FALSE)
        EXCEPT !.result = TRUE]}

\* finish_organization_completed and _catalog_pending.
CompletionMoves ==
    {[Move("completed", "completion", "catalog-committed", "none", "none", FALSE)
        EXCEPT !.result = TRUE, !.catalog = TRUE],
     [Move("paused", "completion", "local-result-prepared", "organization", "pending", FALSE)
        EXCEPT !.result = TRUE]}

Moves(stage) ==
    CASE stage = "planning" -> PlanningMoves
      [] stage = "file-operation" -> FileMoves
      [] stage = "nfo" -> NfoMoves
      [] stage = "completion" -> CompletionMoves
      [] OTHER -> {}

\* An accepted cancel replaces a move that would go on to the next stage.
Decide(r, x) ==
    IF r.cancelRequested /\ x.continue
    THEN [x EXCEPT !.status = "cancelled", !.stage = r.stage, !.checkpoint = "cancelled",
                   !.reason = "none", !.continue = FALSE]
    ELSE x

MovedAttempt(a, x) ==
    CASE x.continue -> [a EXCEPT !.status = "queued", !.stage = x.stage]
      [] x.status = "completed" -> [a EXCEPT !.status = "succeeded"]
      [] x.status = "cancelled" -> [a EXCEPT !.status = "cancelled"]
      [] OTHER -> [a EXCEPT !.status = "failed", !.failure = "stage-failed"]

MovedAttempts(list, i, x) ==
    IF list[i].status # "running" THEN list
    ELSE [list EXCEPT ![i] = MovedAttempt(@, x)]

\* The row after the move.  References are only ever added (COALESCE).
MovedRow(r, x) ==
    [FinishedRow(r, x) EXCEPT !.plan = @ \/ x.plan, !.result = @ \/ x.result,
                              !.catalog = @ \/ x.catalog]

\* finish_organization_transition.
OrganizationCommit(w) ==
    /\ worker[w].pc = "handling"
    /\ Holds(w)
    /\ \E t \in Tasks, x0 \in Moves(worker[w].lease.stage) :
        /\ t = worker[w].lease.task
        /\ IF x0.retry = "none" THEN UNCHANGED incidents ELSE Incident
        /\ LET x == Decide(task[t], x0) IN
            /\ task' = [task EXCEPT ![t] = MovedRow(@, x)]
            /\ attempts' = [attempts EXCEPT ![t] = MovedAttempts(@, worker[w].lease.attempt, x)]
            /\ Announce(t, x.status, x.stage, FALSE, x.reason)
    /\ worker' = [worker EXCEPT ![w] = [@ EXCEPT !.pc = "settling", !.outcome = "committed"]]
    /\ UNCHANGED <<binding, review, runtime>>

-----------------------------------------------------------------------------
(***************************************************************************)
(* How else a handler can return, and what the worker makes of it.         *)
(***************************************************************************)

CanCommit(w) ==
    IF worker[w].lease.stage = "identification" THEN Authority(w) ELSE Holds(w)

\* The handler returns an error.  It must when its commit would be refused;
\* failing although it could commit is an incident.
HandlerFails(w) ==
    /\ worker[w].pc = "handling"
    /\ IF CanCommit(w) THEN Incident ELSE UNCHANGED incidents
    /\ worker' = [worker EXCEPT ![w] = [@ EXCEPT !.pc = "settling", !.outcome = "error"]]
    /\ UNCHANGED <<rows, binding, review, runtime>>

\* The handler committed, and something after its commit failed (reading the task
\* back, record_tmdb_health): it returns an error all the same.
FailsAfterCommit(w) ==
    /\ worker[w].pc = "settling"
    /\ worker[w].outcome = "committed"
    /\ Incident
    /\ worker' = [worker EXCEPT ![w] = [@ EXCEPT !.outcome = "error"]]
    /\ UNCHANGED <<rows, binding, review, runtime>>

\* A handler may leave the transition to the worker.  A pause has a cause.
HandlerDelegates(w) ==
    /\ worker[w].pc = "handling"
    /\ worker[w].lease.stage = "identification"
    /\ \E o \in Delegated :
        /\ IF o = "paused" THEN Incident ELSE UNCHANGED incidents
        /\ worker' = [worker EXCEPT ![w] = [@ EXCEPT !.pc = "settling", !.outcome = o]]
    /\ UNCHANGED <<rows, binding, review, runtime>>

\* run_once once the handler has returned and the heartbeat has stopped.
Settle(w) ==
    LET next == IF worker[w].beat = "cancelled" THEN "cancelling"
                ELSE IF worker[w].beat = "lost" \/ worker[w].outcome = "committed" THEN "joined"
                ELSE IF worker[w].outcome = "error" THEN "pausing"
                ELSE "checking"
    IN /\ worker[w].pc = "settling"
       /\ worker[w].beat # "checked"
       /\ worker' = [worker EXCEPT ![w] =
            IF next = "joined" THEN Resting("joined") ELSE [@ EXCEPT !.pc = next]]
       /\ UNCHANGED <<rows, binding, review, runtime, incidents>>

\* commit_handler_outcome reads the flag in a statement of its own.
CheckCancel(w) ==
    /\ worker[w].pc = "checking"
    /\ worker' = [worker EXCEPT ![w] = [@ EXCEPT !.pc =
         IF task[worker[w].lease.task].cancelRequested THEN "cancelling" ELSE "finishing"]]
    /\ UNCHANGED <<rows, binding, review, runtime, incidents>>

\* finish_terminal_attempt: a pause meets the cancel flag inside its transaction.
\* (Mutant: the flag is not looked at.)
EndedIgnoringCancel(r, x) == x
Ended(r, x) ==
    IF x.status = "paused" /\ r.cancelRequested
    THEN Ending("cancelled", x.stage, "cancelled", "none", "none", "cancelled", "none")
    ELSE x

FinishTerminal(w, x0) ==
    IF Holds(w)
    THEN LET t == worker[w].lease.task
             x == Ended(task[t], x0)
         IN /\ task' = [task EXCEPT ![t] = FinishedRow(@, x)]
            /\ attempts' = [attempts EXCEPT ![t] =
                 Close(@, worker[w].lease.attempt, x.attempt, x.failure)]
            /\ Announce(t, x.status, x.stage, FALSE, x.reason)
    ELSE UNCHANGED rows

\* finish_cancelled.
FinishCancelled(w) ==
    /\ worker[w].pc = "cancelling"
    /\ FinishTerminal(w, Ending("cancelled", worker[w].lease.stage, "cancelled", "none",
                                "none", "cancelled", "none"))
    /\ worker' = [worker EXCEPT ![w] = Resting("joined")]
    /\ UNCHANGED <<binding, review, runtime, incidents>>

\* pause_after_handler_failure: finish_stage_failed with a backoff.
FinishStageFailed(w) ==
    /\ worker[w].pc = "pausing"
    /\ FinishTerminal(w, Ending("paused", worker[w].lease.stage, worker[w].lease.checkpoint,
                                "none", "pending", "failed", "stage-failed"))
    /\ worker' = [worker EXCEPT ![w] = Resting("joined")]
    /\ UNCHANGED <<binding, review, runtime, incidents>>

\* finish_identification_complete: same attempt, no look at the cancel flag.
FinishIdentificationComplete(w) ==
    IF Holds(w)
    THEN LET t == worker[w].lease.task IN
         /\ task' = [task EXCEPT ![t] = FinishedRow(@, Confirmed)]
         /\ attempts' = [attempts EXCEPT ![t] =
              Identified(@, worker[w].lease.attempt, Confirmed)]
         /\ Announce(t, "queued", "planning", FALSE, "identification")
    ELSE UNCHANGED rows

\* commit_handler_outcome: finish_identification_complete, finish_waiting_confirmation
\* or finish_paused.
FinishOutcome(w) ==
    /\ worker[w].pc = "finishing"
    /\ CASE worker[w].outcome = "identification-complete" -> FinishIdentificationComplete(w)
         [] worker[w].outcome = "waiting-confirmation" ->
              FinishTerminal(w, NeedsReview)
         [] OTHER ->
              FinishTerminal(w, Ending("paused", worker[w].lease.stage, "dependency-blocked",
                                       "provider", "pending", "failed", "stage-failed"))
    /\ worker' = [worker EXCEPT ![w] = Resting("joined")]
    /\ UNCHANGED <<binding, review, runtime, incidents>>

\* A panic, or a database that is down: run_once ends and the row stays 'running'.
\* (Mutant: the worker goes into its next round with the old lease.)
WorkerAbandonsKeepingLease(w) ==
    /\ worker[w].pc \in Busy
    /\ Incident
    /\ worker' = [worker EXCEPT ![w].pc = "joined"]
    /\ UNCHANGED <<rows, binding, review, runtime>>
WorkerAbandons(w) ==
    /\ worker[w].pc \in Busy
    /\ Incident
    /\ worker' = [worker EXCEPT ![w] = Resting("joined")]
    /\ UNCHANGED <<rows, binding, review, runtime>>

-----------------------------------------------------------------------------
(***************************************************************************)
(* The administrator's requests.  A key that is already bound to a request *)
(* answers with what that request did, or with a conflict, and changes     *)
(* nothing; so only a key that is free is of interest here.                *)
(***************************************************************************)

Fresh(k) == Serving /\ binding[k] = Unbound

\* The row after a retry: same stage and checkpoint, a new attempt.
Retried(r) ==
    [Requeued(r) EXCEPT !.reason = "none", !.recovering = FALSE, !.retry = "none"]

\* control_task for processing.retry.
Retry(t, k) ==
    /\ Fresh(k)
    /\ task[t].status \in {"paused", "waiting-confirmation", "cancelled",
                           "partial-success", "failed"}
    /\ task' = [task EXCEPT ![t] = Retried(@)]
    /\ attempts' = [attempts EXCEPT ![t] =
         Append(@, NewAttempt("manual-retry", "queued", task[t].stage))]
    /\ Announce(t, "queued", task[t].stage, FALSE, "none")
    /\ binding' = [binding EXCEPT ![k] = [action |-> "retry", task |-> t]]
    /\ UNCHANGED <<worker, review, runtime, incidents>>

CancelledRow(r) ==
    [r EXCEPT !.status = "cancelled", !.checkpoint = "cancelled", !.reason = "none",
              !.cancelRequested = FALSE, !.retry = "none", !.version = @ + 1]

Withdrawn(list, i) ==
    IF list[i].status = "queued"
    THEN [list EXCEPT ![i] = [@ EXCEPT !.status = "cancelled"]]
    ELSE list

\* control_task for processing.cancel on a task that no worker runs.
CancelResting(t) ==
    /\ task[t].status \in {"queued", "paused", "waiting-confirmation"}
    /\ task' = [task EXCEPT ![t] = CancelledRow(@)]
    /\ attempts' = [attempts EXCEPT ![t] =
         IF task[t].status = "queued" THEN Withdrawn(@, task[t].current) ELSE @]
    /\ Announce(t, "cancelled", task[t].stage, FALSE, "none")

\* On a running task only the flag is set: the version stays, so the lease stays.
CancelRunning(t) ==
    /\ task[t].status = "running"
    /\ task' = [task EXCEPT ![t].cancelRequested = TRUE]
    /\ Announce(t, "running", task[t].stage, FALSE, "none")
    /\ UNCHANGED attempts

Cancel(t, k) ==
    /\ Fresh(k)
    /\ CancelResting(t) \/ CancelRunning(t)
    /\ binding' = [binding EXCEPT ![k] = [action |-> "cancel", task |-> t]]
    /\ UNCHANGED <<worker, review, runtime, incidents>>

\* ManualStore::accept: a decision about the active case of a task that waits for it,
\* unless one about the same case is still to be dispatched.
AcceptDecision(d, t, kind) ==
    /\ Serving
    /\ decision[d].task = NoTask
    /\ reviewCase[t].active
    /\ task[t].status = "waiting-confirmation"
    /\ \A i \in 1 .. Len(queue) :
        ~(decision[queue[i]].task = t /\ decision[queue[i]].case = reviewCase[t].id)
    /\ decision' = [decision EXCEPT ![d] =
                      [task |-> t, case |-> reviewCase[t].id, kind |-> kind]]
    /\ queue' = Append(queue, d)
    /\ UNCHANGED <<rows, worker, binding, receipts, audited, reviewCase, runtime, incidents>>

\* Saving the TMDB settings makes every task that is blocked by the provider due.
\* Somebody has to save them, so it counts as an incident.
BlockedByProvider(r) ==
    r.status = "paused" /\ r.stage = "identification" /\ r.reason = "provider"

DueRow(r) == [r EXCEPT !.retry = "due", !.version = @ + 1]

UpdateProvider ==
    /\ Serving
    /\ \E t \in Tasks : BlockedByProvider(task[t])
    /\ Incident
    /\ task' = [t \in Tasks |-> IF BlockedByProvider(task[t]) THEN DueRow(task[t]) ELSE task[t]]
    /\ UNCHANGED <<attempts, event, worker, binding, review, runtime>>

-----------------------------------------------------------------------------
(***************************************************************************)
(* The decision coordinator: dispatch_once, three transactions a decision. *)
(***************************************************************************)

Dispatching(step) == runtime.phase \in {"boot", "dispatch"} /\ runtime.step = step

\* pending_dispatches: what is accepted now makes the batch.
DispatchFetch ==
    /\ Dispatching("fetch")
    /\ runtime' = [runtime EXCEPT !.left = Len(queue),
                                  !.step = IF queue = <<>> THEN "done" ELSE "apply"]
    /\ UNCHANGED <<rows, worker, binding, review, incidents>>

\* A decision whose receipt exists was applied before a crash.
\* (Mutants: the receipt is not looked up; a decision whose task does not wait any
\* more counts as applied.)
AppliedNever(d) == FALSE
AppliedWhenStale(d) ==
    d \in receipts \/ task[decision[d].task].status # "waiting-confirmation"
Applied(d) == d \in receipts

Awaited(t) == task[t].status = "waiting-confirmation" /\ task[t].stage = "identification"

DecidedRow(r, d) ==
    [Requeued(r) EXCEPT
        !.stage = IF decision[d].kind = "planning" THEN "planning" ELSE "identification",
        !.checkpoint = IF decision[d].kind = "planning" THEN "identification-complete"
                       ELSE "pending",
        !.reason = "none", !.recovering = FALSE, !.owner = NoOwner,
        !.expired = FALSE, !.retry = "none"]

Superseded(list, i) ==
    IF list[i].status \in {"queued", "running"}
    THEN [list EXCEPT ![i] = [@ EXCEPT !.status = "cancelled"]]
    ELSE list

ApplyAwaited(t, d) ==
    LET r == DecidedRow(task[t], d) IN
    /\ task' = [task EXCEPT ![t] = r]
    /\ attempts' = [attempts EXCEPT ![t] =
         Append(Superseded(@, task[t].current), NewAttempt("manual-retry", "queued", r.stage))]
    /\ Announce(t, "queued", r.stage, FALSE, "none")
    /\ receipts' = receipts \cup {d}

\* apply_manual_decision.
DispatchApply ==
    /\ Dispatching("apply")
    /\ LET d == Head(queue)  t == decision[d].task IN
        IF Applied(d) THEN UNCHANGED <<rows, receipts>>
        ELSE Awaited(t) /\ ApplyAwaited(t, d)
    /\ runtime' = [runtime EXCEPT !.step = "audit"]
    /\ UNCHANGED <<worker, binding, decision, queue, audited, reviewCase, incidents>>

\* Its task does not wait any more: the error ends the batch, and a start-up with it.
DispatchRefused ==
    /\ Dispatching("apply")
    /\ ~Applied(Head(queue))
    /\ ~Awaited(decision[Head(queue)].task)
    /\ runtime' = [phase |-> IF runtime.phase = "boot" THEN "down" ELSE "dispatch",
                   step |-> IF runtime.phase = "boot" THEN "fetch" ELSE "done", left |-> 0]
    /\ UNCHANGED <<rows, worker, binding, review, incidents>>

\* record_manual_decision_once.
DispatchAudit ==
    /\ Dispatching("audit")
    /\ audited' = audited \cup {Head(queue)}
    /\ runtime' = [runtime EXCEPT !.step = "mark"]
    /\ UNCHANGED <<rows, worker, binding, decision, queue, receipts, reviewCase, incidents>>

\* mark_applied, and on to the next decision of the batch.
DispatchMark ==
    /\ Dispatching("mark")
    /\ queue' = Tail(queue)
    /\ runtime' = [runtime EXCEPT !.left = @ - 1,
                                  !.step = IF runtime.left = 1 THEN "done" ELSE "apply"]
    /\ UNCHANGED <<rows, worker, binding, decision, receipts, audited, reviewCase, incidents>>

-----------------------------------------------------------------------------
(***************************************************************************)
(* The runtime: start-up, rounds, crashes and the clock.                   *)
(***************************************************************************)

At(phase) == [phase |-> phase, step |-> "fetch", left |-> 0]

Boot ==
    /\ runtime.phase = "down"
    /\ runtime' = At("recover")
    /\ UNCHANGED <<rows, worker, binding, review, incidents>>

Lapsed(t) == task[t].status = "running" /\ task[t].expired

RecoveringRow(r) ==
    [Requeued(r) EXCEPT !.recovering = TRUE, !.owner = NoOwner, !.expired = FALSE]

\* reclaim_expired, once per start: every expired lease is queued for recovery.
\* The code announces each task; the order does not matter to anything here.
ReclaimExpired ==
    /\ runtime.phase = "recover"
    /\ task' = [t \in Tasks |-> IF Lapsed(t) THEN RecoveringRow(task[t]) ELSE task[t]]
    /\ attempts' = [t \in Tasks |-> IF ~Lapsed(t) THEN attempts[t] ELSE
                      Append(Close(attempts[t], task[t].current, "failed", "lease-lost"),
                             NewAttempt("lease-recovery", "queued", task[t].stage))]
    /\ event' = [t \in Tasks |-> IF ~Lapsed(t) THEN event[t] ELSE
                   [status |-> "queued", stage |-> task[t].stage, recovering |-> TRUE,
                    reason |-> "none"]]
    /\ runtime' = At("boot")
    /\ UNCHANGED <<worker, binding, review, incidents>>

\* prepare is over; the first round of start() dispatches again.
StartServing ==
    /\ runtime.phase = "boot"
    /\ runtime.step = "done"
    /\ runtime' = At("dispatch")
    /\ UNCHANGED <<rows, worker, binding, review, incidents>>

\* A round runs run_once once per worker ...
StartRound ==
    /\ runtime.phase = "dispatch"
    /\ runtime.step = "done"
    /\ runtime' = At("work")
    /\ worker' = [w \in Workers |-> Resting("ready")]
    /\ UNCHANGED <<rows, binding, review, incidents>>

\* ... and the next one starts when all of them have returned.
EndRound ==
    /\ runtime.phase = "work"
    /\ \A w \in Workers : worker[w].pc = "joined"
    /\ runtime' = At("dispatch")
    /\ UNCHANGED <<rows, worker, binding, review, incidents>>

\* The process dies, or is stopped: every task of the runtime is aborted.
Crash ==
    /\ runtime.phase # "down"
    /\ Incident
    /\ runtime' = At("down")
    /\ worker' = [w \in Workers |-> Resting("joined")]
    /\ UNCHANGED <<rows, binding, review>>

\* next_retry_at_us is reached.
RetryDue(t) ==
    /\ task[t].status = "paused"
    /\ task[t].retry = "pending"
    /\ task' = [task EXCEPT ![t].retry = "due"]
    /\ UNCHANGED <<attempts, event, worker, binding, review, runtime, incidents>>

\* lease_expires_at_us is reached.  Under a worker that is alive and would have
\* renewed it that is an incident; under nobody it is only a matter of time.
LeaseExpires(t) ==
    /\ task[t].status = "running"
    /\ ~task[t].expired
    /\ IF \E w \in Workers : worker[w].lease # NoLease /\ worker[w].lease.task = t /\ Holds(w)
       THEN Incident ELSE UNCHANGED incidents
    /\ task' = [task EXCEPT ![t].expired = TRUE]
    /\ UNCHANGED <<attempts, event, worker, binding, review, runtime>>

-----------------------------------------------------------------------------

HandlerReturns(w) ==
    IdentificationCommit(w) \/ OrganizationCommit(w) \/ HandlerFails(w) \/ HandlerDelegates(w)

WorkerCloses(w) ==
    Settle(w) \/ CheckCancel(w) \/ FinishCancelled(w) \/ FinishStageFailed(w) \/ FinishOutcome(w)

Dispatch == DispatchFetch \/ DispatchApply \/ DispatchRefused \/ DispatchAudit \/ DispatchMark

Next ==
    \/ \E t \in Tasks : EnsureRevision(t) \/ RetryDue(t) \/ LeaseExpires(t)
    \/ \E t \in Tasks, k \in Keys : Retry(t, k) \/ Cancel(t, k)
    \/ \E t \in Tasks, d \in Decisions, kind \in {"reidentify", "planning"} :
          AcceptDecision(d, t, kind)
    \/ UpdateProvider
    \/ \E w \in Workers :
          \/ Claim(w) \/ NoWork(w)
          \/ BeatCheck(w) \/ BeatRenew(w) \/ BeatFails(w)
          \/ HandlerReturns(w) \/ FailsAfterCommit(w)
          \/ WorkerCloses(w) \/ WorkerAbandons(w)
    \/ Dispatch
    \/ Boot \/ ReclaimExpired \/ StartServing \/ StartRound \/ EndRound \/ Crash

Spec == Init /\ [][Next]_vars

(***************************************************************************)
(* The runtime is a loop that never ends, on a multi-threaded executor:    *)
(* what a worker or the coordinator has begun goes on.  The clock runs,    *)
(* and a container that stopped is started again.  Nothing is assumed of   *)
(* requests, of new revisions or of incidents.                             *)
(***************************************************************************)
Fairness ==
    /\ \A w \in Workers :
        /\ WF_vars(Claim(w) \/ NoWork(w))
        /\ WF_vars(BeatRenew(w) \/ BeatFails(w))
        /\ WF_vars(HandlerReturns(w))
        /\ WF_vars(WorkerCloses(w))
    /\ \A t \in Tasks : WF_vars(RetryDue(t)) /\ WF_vars(LeaseExpires(t))
    /\ WF_vars(Dispatch)
    /\ WF_vars(Boot \/ ReclaimExpired \/ StartServing \/ StartRound \/ EndRound)

FairSpec == Spec /\ Fairness

-----------------------------------------------------------------------------
(***************************************************************************)
(* Safety.                                                                 *)
(***************************************************************************)

\* The attempts of a task are a ledger: numbered without gaps, the row points to
\* the last one, an older one is never open, and the open one says what the row
\* says.  Takeover, recovery, retry, cancel, decision and every way to finish write
\* both tables; one that forgot either would leave two attempts open, or none.
AttemptLedger ==
    \A t \in Tasks :
        LET r == task[t]  n == Len(attempts[t]) IN
        /\ r.attemptCount = n
        /\ r.current = n
        /\ r.status = "absent" <=> n = 0
        /\ \A i \in 1 .. n : attempts[t][i].status \in {"queued", "running"} => i = n
        /\ n > 0 =>
            /\ attempts[t][n].status = "queued" <=> r.status = "queued"
            /\ attempts[t][n].status = "running" <=> r.status = "running"
            /\ attempts[t][n].stage = r.stage
        /\ r.owner # NoOwner <=> r.status = "running"
        /\ r.expired \/ r.cancelRequested => r.status = "running"

\* A handler works from the snapshot it was given at the claim.  As long as its
\* commit would still be accepted, the snapshot is not stale: the row is at the same
\* stage and checkpoint, under the same attempt (worker.rs clones the lease).
SnapshotCurrent ==
    \A w \in Workers :
        Holds(w) =>
            LET l == worker[w].lease  r == task[l.task] IN
            /\ l.stage = r.stage /\ l.checkpoint = r.checkpoint /\ l.attempt = r.current
            /\ attempts[l.task][l.attempt].status = "running"

ManualAttempts(t) ==
    {i \in 1 .. Len(attempts[t]) : attempts[t][i].reason = "manual-retry"}
RetryKeys(t) == {k \in Keys : binding[k] = [action |-> "retry", task |-> t]}
Received(t) == {d \in receipts : decision[d].task = t}

\* Exactly once: every manual attempt of a task answers one retry key or one decision
\* receipt, however often the request, the batch or the process was repeated.
ManualAttemptsAccounted ==
    \A t \in Tasks :
        Cardinality(ManualAttempts(t)) = Cardinality(RetryKeys(t)) + Cardinality(Received(t))

\* What a stage needs was produced before: a task past planning has a plan, one past
\* its file operation a result, and it is complete exactly when the catalog has it.
StageArtifacts ==
    \A t \in Tasks :
        LET r == task[t] IN
        /\ r.stage \in {"file-operation", "nfo", "completion"} => r.plan
        /\ r.stage \in {"nfo", "completion"} => r.result
        /\ r.catalog <=> r.status = "completed"
        /\ r.status = "completed" <=> r.checkpoint = "catalog-committed"
        /\ r.status = "waiting-confirmation" => r.stage = "identification"
        /\ r.status = "partial-success" => r.stage = "nfo"

\* A task that shows as recovering is on an attempt that recovers a lost lease, and
\* the attempt before it lost one.
RecoveringExplained ==
    \A t \in Tasks :
        task[t].recovering =>
            LET n == task[t].current IN
            /\ n > 1
            /\ attempts[t][n].reason = "lease-recovery"
            /\ attempts[t][n - 1].failure = "lease-lost"

\* The last state event of a task (the outbox a client follows) says what the row
\* says: no transition is silent, and none is announced that did not happen.
EventMirrorsRow ==
    \A t \in Tasks :
        /\ event[t].status = task[t].status
        /\ event[t].stage = task[t].stage
        /\ event[t].reason = task[t].reason

Accepted == {d \in Decisions : decision[d].task # NoTask}
Queued == {queue[i] : i \in 1 .. Len(queue)}

\* A decision leaves the queue only when its task and the audit log have it, in that
\* order; until then it is in the queue, and once (dispatch_once, mark_applied).
DecisionLedger ==
    /\ audited \subseteq receipts /\ receipts \subseteq Accepted
    /\ Accepted \ Queued \subseteq audited
    /\ Cardinality(Queued) = Len(queue)
    /\ runtime.step \in {"apply", "audit", "mark"} => runtime.left \in 1 .. Len(queue)

\* What is kept beside the row agrees with it and with each other: the attempts that
\* requests and decisions asked for, what the stages produced, the mark of a recovery,
\* the last event, and the queue of the decisions.
RecordsAgree ==
    /\ ManualAttemptsAccounted
    /\ StageArtifacts
    /\ RecoveringExplained
    /\ EventMirrorsRow
    /\ DecisionLedger

(***************************************************************************)
(* Steps.                                                                  *)
(***************************************************************************)

\* Once a running task's cancel is accepted, no commit of its worker hands it to its
\* next stage or to the reviewer, and a failing handler does not pause it for another
\* try.  Two ways out are left, which erase the request: a recovery and a pause of an
\* organization handler.
AcceptedCancelBinds ==
    [][\A t \in Tasks :
        (task[t].status = "running" /\ task[t].cancelRequested) =>
            /\ task'[t].status = "queued" => task'[t].recovering
            /\ task'[t].status = "paused" => task'[t].reason = "organization"
            /\ task'[t].status # "waiting-confirmation"]_vars

(***************************************************************************)
(* The lease columns implement FencedLease.                                *)
(***************************************************************************)

TicketOf(w) ==
    IF worker[w].lease = NoLease THEN [grant |-> 0]
    ELSE [resource |-> worker[w].lease.task, grant |-> worker[w].lease.version]

Leases == INSTANCE FencedLease WITH
    Agents <- Workers,
    Resources <- Tasks,
    holder <- [t \in Tasks |-> IF task[t].status = "running" THEN task[t].version ELSE 0],
    issued <- [t \in Tasks |-> task[t].version],
    lapsed <- [t \in Tasks |-> Lapsed(t)],
    ticket <- [w \in Workers |-> TicketOf(w)]

\* Every step of workers, requests, recoveries and crashes is one of a fenced lease:
\* a worker that was taken over can neither renew nor finish, although nobody tells it
\* and although the identification commit looks at the attempt and not at the version.
LeaseSpec == Leases!Spec

(***************************************************************************)
(* Liveness, under FairSpec.                                               *)
(***************************************************************************)

\* Whatever crashes, fails or expires (finitely often), an open task comes to rest.
Settles ==
    \A t \in Tasks : task[t].status \in {"queued", "running"}
                        ~> task[t].status \notin {"queued", "running"}

\* A stopped server comes up again: no state of the database keeps it from serving.
RestartServes == runtime.phase = "down" ~> Serving

\* An accepted decision reaches its task, the audit log and its mark.
DecisionApplied ==
    \A d \in Decisions : decision[d].task # NoTask ~> (d \in audited /\ d \notin Queued)

=============================================================================
