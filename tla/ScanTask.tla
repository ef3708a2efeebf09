------------------------------ MODULE ScanTask ------------------------------
(***************************************************************************)
(* tasks/store.rs and tasks/worker.rs with the walk of discovery/scanner.rs*)
(* for the scan tasks of one inbox: creation, claim and takeover, batches  *)
(* of observations, the terminal transitions, retry, cancel and the        *)
(* recovery of expired leases, with the scan worker as a process between   *)
(* them.                                                                   *)
(*                                                                         *)
(* A step is one transaction, or one look of the walk at one path.  The    *)
(* version of a row counts every write but the renewals and the batches of *)
(* the lease holder: both move the version of the row and of the lease in  *)
(* memory together, under the mutex the two share.                         *)
(*                                                                         *)
(***************************************************************************)
EXTENDS FileRevisions

CONSTANTS
    Tasks, NoTask,
    Workers, NoOwner,
    Keys,           \* idempotency keys of the requests of users
    Possible, Limits    \* the incidents that may happen, how many of each kind and of all

Incidents ==
    {"change", "request", "ask", "policy", "crash", "lapse", "fault", "unmount", "watch", "tick"}

\* "unmount" takes the root away, "watch" makes the watcher of the operating system fail,
\* "fault" is an error under the scan, "tick" one under the coordinator.
KindOf(what) == CASE what = "change" -> "change"
                  [] what \in {"request", "ask", "policy"} -> "request"
                  [] OTHER -> "upset"

ASSUME TasksAssumption ==
    /\ NoTask \notin Tasks /\ NoOwner \notin Workers
    /\ Possible \subseteq Incidents /\ Limits \in [{"change", "request", "upset", "all"} -> Nat]

VARIABLES
    task,           \* tasks_scan_tasks with attempts, batch and errors, by slot
    order,          \* of two slots in use, which one was created before which
    binding,        \* discovery_idempotency_keys: what a key of a user is bound to
    scan,           \* what each worker has in memory
    root,           \* whether the root can be read, and the health of the inbox row
    server,         \* "down", "recovered" after reclaim_expired, "up"
    absent,         \* history: the paths nothing was at, at some moment while the task was open
    spent

scans == <<task, order, binding, scan>>
world == <<root, server, spent>>

ScanStatuses == {"absent", "queued", "running", "partial-success", "completed", "failed", "cancelled"}
Open == {"queued", "running"}
ScanReasons == {"manual", "startup", "periodic", "watch_recovery"}

ScanAttempt == [reason : {"initial", "manual_retry", "recovery"}, status : ScanStatuses]

\* seen is the attempt that last observed a path in the batch, errors the paths the current
\* attempt has an error for, rootFailed a scope='root' error of one of the codes the coordinator
\* asks for, event the last task.state-changed.
Rows == [reason : ScanReasons, status : ScanStatuses, recovering : BOOLEAN, cancel : BOOLEAN,
         owner : Workers \cup {NoOwner}, lapsed : BOOLEAN, version : Nat,
         attempts : Seq(ScanAttempt), seen : [Paths -> Nat], errors : SUBSET Paths,
         rootFailed : BOOLEAN, event : [status : ScanStatuses, recovering : BOOLEAN]]

Absent ==
    [reason |-> "manual", status |-> "absent", recovering |-> FALSE, cancel |-> FALSE,
     owner |-> NoOwner, lapsed |-> FALSE, version |-> 0, attempts |-> << >>,
     seen |-> [p \in Paths |-> 0], errors |-> {}, rootFailed |-> FALSE,
     event |-> [status |-> "absent", recovering |-> FALSE]]

\* What the scanner has not written yet: facts of files, entries it could not read.
NothingPending == [files |-> [p \in Paths |-> NoFacts], errors |-> {}]

Walking == {"opening", "walking", "batch", "record"}

\* then says what follows the batch being written, verdict what the scan came to.
Scans == [at : Walking \cup {"idle", "decide", "finish"}, task : Tasks \cup {NoTask},
          version : Nat, todo : SUBSET Paths,
          pending : [files : [Paths -> Facts \cup {NoFacts}], errors : SUBSET Paths],
          cancelled : BOOLEAN, then : {"walk", "ok", "root", "abandon"},
          verdict : {"none", "ok", "root", "error", "lost"},
          status : ScanStatuses, rootCode : BOOLEAN]

NoScan == [at |-> "idle", task |-> NoTask, version |-> 0, todo |-> {}, pending |-> NothingPending,
           cancelled |-> FALSE, then |-> "walk", verdict |-> "none", status |-> "absent",
           rootCode |-> FALSE]

Unbound == [action |-> "none"]
Bindings == [action : {"scan.create", "scan.retry", "scan.cancel"}, task : Tasks]

ScanInit ==
    /\ FilesInit
    /\ task = [t \in Tasks |-> Absent]
    /\ order = {}
    /\ binding = [k \in Keys |-> Unbound]
    /\ scan = [w \in Workers |-> NoScan]
    /\ root = [readable |-> TRUE, available |-> TRUE]
    /\ server = "down"
    /\ absent = [t \in Tasks |-> {}]
    /\ spent = [kind \in DOMAIN Limits |-> 0]

Spend(what) ==
    /\ what \in Possible
    /\ \A kind \in {KindOf(what), "all"} : spent[kind] < Limits[kind]
    /\ spent' = [kind \in DOMAIN Limits |->
            IF kind \in {KindOf(what), "all"} THEN spent[kind] + 1 ELSE spent[kind]]

-----------------------------------------------------------------------------
(***************************************************************************)
(* Rows.                                                                   *)
(***************************************************************************)

Announce(r, status, recovering) ==
    [r EXCEPT !.event = [status |-> status, recovering |-> recovering]]

Current(r) == Len(r.attempts)

CloseAttempt(r, status) ==
    IF r.attempts[Current(r)].status \in Open
    THEN [r EXCEPT !.attempts[Current(r)].status = status] ELSE r

OpenAttempt(r, reason, status) ==
    [r EXCEPT !.attempts = Append(@, [reason |-> reason, status |-> status]), !.errors = {}]

NewRow(reason) ==
    Announce([OpenAttempt(Absent, "initial", "queued") EXCEPT !.reason = reason,
                !.status = "queued", !.version = 1], "queued", FALSE)

InUse(rows) == {t \in Tasks : rows[t] # Absent}

\* What a new task of the given reason does to the tables; the slot is t.
Insert(t, reason) ==
    /\ task' = [task EXCEPT ![t] = NewRow(reason)]
    /\ order' = order \cup (InUse(task) \X {t})
    /\ absent' = [absent EXCEPT ![t] = {p \in Paths : disk[p] = NoFacts}]

(***************************************************************************)
(* Requests of users.  A repeated request with a bound key changes         *)
(* nothing: it is not a step.                                              *)
(***************************************************************************)

Bind(k, action, t) ==
    /\ server = "up" /\ Spend("request")
    /\ binding[k] = Unbound
    /\ binding' = [binding EXCEPT ![k] = [action |-> action, task |-> t]]
    /\ UNCHANGED <<files, scan, root, server>>

Create(k, t) ==
    /\ root.available
    /\ task[t] = Absent
    /\ Insert(t, "manual")
    /\ Bind(k, "scan.create", t)

\* The batch is kept, with what earlier attempts observed.
Retry(k, t) ==
    LET r == task[t] IN
    /\ r.reason = "manual" /\ r.status \in {"failed", "partial-success"}
    /\ task' = [task EXCEPT ![t] =
            Announce([OpenAttempt(r, "manual_retry", "queued") EXCEPT !.status = "queued",
                        !.recovering = FALSE, !.cancel = FALSE, !.version = @ + 1],
                     "queued", FALSE)]
    /\ absent' = [absent EXCEPT ![t] = @ \cup {p \in Paths : disk[p] = NoFacts}]
    /\ Bind(k, "scan.retry", t)
    /\ UNCHANGED order

\* A running task is only marked: its version stays, so its lease stays.
RequestCancel(k, t) ==
    LET r == task[t] IN
    /\ r.reason = "manual" /\ r.status \in Open
    /\ task' = [task EXCEPT ![t] =
            IF r.status = "queued"
            THEN Announce([CloseAttempt(r, "cancelled") EXCEPT !.status = "cancelled",
                            !.cancel = FALSE, !.version = @ + 1], "cancelled", r.recovering)
            ELSE Announce([r EXCEPT !.cancel = TRUE], "running", r.recovering)]
    /\ Bind(k, "scan.cancel", t)
    /\ UNCHANGED <<order, absent>>

-----------------------------------------------------------------------------
(***************************************************************************)
(* Leases.                                                                 *)
(***************************************************************************)

\* (Mutant: only a restart takes a task back from a holder that is gone.)
ClaimableQueued(t) == task[t].status = "queued"

Claimable(t) == task[t].status = "queued" \/ (task[t].status = "running" /\ task[t].lapsed)

Oldest(t) ==
    /\ Claimable(t)
    /\ \A u \in Tasks : Claimable(u) => <<u, t>> \notin order

\* (Mutant: the row is only asked whether it is still running, not for whom.)
HoldsAny(w) ==
    /\ scan[w].task # NoTask
    /\ LET r == task[scan[w].task] IN r.status = "running" /\ ~r.lapsed

\* The lease is the one the row was given: id, version, owner, running and not expired.
Holds(w) ==
    /\ scan[w].task # NoTask
    /\ LET r == task[scan[w].task] IN
        /\ r.status = "running" /\ r.owner = w /\ r.version = scan[w].version
        /\ ~r.lapsed

Claimed(r, w) ==
    LET taken == r.status = "running"
        started == IF taken THEN OpenAttempt(CloseAttempt(r, "failed"), "recovery", "running")
                   ELSE [r EXCEPT !.attempts[Current(r)].status = "running"]
        recovering == taken \/ r.recovering
    IN Announce([started EXCEPT !.status = "running", !.recovering = recovering, !.owner = w,
                    !.lapsed = FALSE, !.version = @ + 1], "running", recovering)

Claim(w, t) ==
    /\ server = "up"
    /\ scan[w] = NoScan /\ Oldest(t)
    /\ task' = [task EXCEPT ![t] = Claimed(@, w)]
    /\ scan' = [scan EXCEPT ![w] = [NoScan EXCEPT !.at = "opening", !.task = t,
                                        !.version = task[t].version + 1]]
    /\ UNCHANGED <<files, order, binding, absent, world>>

\* A lease lapses when its holder is gone, or when the process was held up for longer than the
\* heartbeat leaves.
LeaseExpires(t) ==
    /\ task[t].status = "running" /\ ~task[t].lapsed
    /\ task' = [task EXCEPT ![t].lapsed = TRUE]
    /\ IF \E w \in Workers : scan[w].task = t /\ Holds(w)
       THEN Spend("lapse") ELSE UNCHANGED spent
    /\ UNCHANGED <<files, order, binding, scan, root, server, absent>>

\* (Mutant: the attempt that was given up stays open.)
ReclaimedLeavingAttempt(r) ==
    Announce([OpenAttempt(r, "recovery", "queued") EXCEPT
                !.status = "queued", !.recovering = TRUE, !.owner = NoOwner, !.lapsed = FALSE,
                !.version = @ + 1], "queued", TRUE)

Reclaimed(r) ==
    Announce([OpenAttempt(CloseAttempt(r, "failed"), "recovery", "queued") EXCEPT
                !.status = "queued", !.recovering = TRUE, !.owner = NoOwner, !.lapsed = FALSE,
                !.version = @ + 1], "queued", TRUE)

\* Only at the start of the process, before anything else runs.
ReclaimExpired ==
    /\ server = "down" /\ server' = "recovered"
    /\ task' = [t \in Tasks |->
            IF task[t].status = "running" /\ task[t].lapsed THEN Reclaimed(task[t]) ELSE task[t]]
    /\ UNCHANGED <<files, order, binding, scan, root, absent, spent>>

-----------------------------------------------------------------------------
(***************************************************************************)
(* The worker: run_once.                                                   *)
(***************************************************************************)

Go(w, s) ==
    /\ scan' = [scan EXCEPT ![w] = s]
    /\ UNCHANGED <<task, order, binding, absent, root, server>>

Think(w, s) == Go(w, s) /\ UNCHANGED <<files, spent>>

OpenScanSource(w) ==
    LET s == scan[w] IN
    /\ s.at = "opening"
    /\ Think(w, IF root.readable THEN [s EXCEPT !.at = "walking", !.todo = Paths]
                ELSE [s EXCEPT !.at = "finish", !.status = "failed", !.rootCode = TRUE])

\* The walk comes to a path; what it finds there is sent on, and written with a later batch.
Look(w, p) ==
    LET s == scan[w] IN
    /\ s.at = "walking" /\ p \in s.todo /\ root.readable
    /\ Think(w, [s EXCEPT !.todo = @ \ {p}, !.pending.files[p] = disk[p]])

LookFails(w, p) ==
    LET s == scan[w] IN
    /\ s.at = "walking" /\ p \in s.todo /\ root.readable
    /\ Spend("fault")
    /\ Go(w, [s EXCEPT !.todo = @ \ {p}, !.pending.errors = @ \cup {p}])
    /\ UNCHANGED files

\* The root changed under the walk: a fatal error, sent after what was found before it.
WalkFails(w) ==
    LET s == scan[w] IN
    /\ s.at = "walking" /\ s.todo # {} /\ ~root.readable
    /\ Think(w, [s EXCEPT !.at = "batch", !.then = "root"])

\* A batch is full, or a checkpoint is due.
Flush(w) ==
    LET s == scan[w] IN
    /\ s.at = "walking" /\ s.todo # {} /\ s.pending # NothingPending
    /\ Think(w, [s EXCEPT !.at = "batch", !.then = "walk"])

WalkEnds(w) ==
    LET s == scan[w] IN
    /\ s.at = "walking" /\ s.todo = {}
    /\ Think(w, [s EXCEPT !.at = "batch", !.then = "ok"])

\* The scan after a batch that failed: a fatal error of the walk goes before a cancel.
Stopped(s, verdict) ==
    IF s.then = "abandon" THEN NoScan
    ELSE [s EXCEPT !.at = "decide",
            !.verdict = IF s.then = "root" /\ verdict = "error" THEN "root" ELSE verdict]

CheckCancel(w) ==
    LET s == scan[w] IN
    /\ s.at = "batch"
    /\ Think(w, IF task[s.task].cancel THEN [Stopped(s, "error") EXCEPT !.cancelled = s.then # "abandon"]
                ELSE [s EXCEPT !.at = "record"])

Written(s) ==
    CASE s.then = "walk" -> [s EXCEPT !.at = "walking", !.pending = NothingPending]
      [] s.then = "abandon" -> NoScan
      [] OTHER -> [s EXCEPT !.at = "decide", !.pending = NothingPending, !.verdict = s.then]

Recorded(r, pending) ==
    [r EXCEPT !.seen = [p \in Paths |-> IF pending.files[p] # NoFacts THEN Current(r) ELSE @[p]],
              !.errors = @ \cup pending.errors]

\* One transaction: files, revisions, errors and counters of a batch.
RecordObservations(w) ==
    LET s == scan[w] IN
    /\ s.at = "record"
    /\ IF ~Holds(w) \/ task[s.task].cancel
       THEN /\ Think(w, Stopped(s, IF Holds(w) THEN "error" ELSE "lost"))
       ELSE /\ task' = [task EXCEPT ![s.task] = Recorded(@, s.pending)]
            /\ scan' = [scan EXCEPT ![w] = Written(s)]
            /\ ObserveAll(s.pending.files)
            /\ UNCHANGED <<order, binding, absent, world>>

\* The database refuses the batch.
RecordFails(w) ==
    LET s == scan[w] IN
    /\ s.at = "record" /\ Spend("fault")
    /\ Go(w, Stopped(s, "error"))
    /\ UNCHANGED files

\* A renewal is refused, or fails for another reason: the scan is told to stop, may still write
\* what it holds, and its result is thrown away.  The task keeps running without a worker.
HeartbeatFails(w) ==
    LET s == scan[w] IN
    /\ s.at \in {"walking", "decide"}
    /\ IF Holds(w) THEN Spend("fault") ELSE UNCHANGED spent
    /\ Go(w, IF s.at = "walking" /\ s.pending # NothingPending
             THEN [s EXCEPT !.at = "batch", !.then = "abandon"] ELSE NoScan)
    /\ UNCHANGED files

\* The worker reads the cancel flag once more, unless the root has failed.
Decide(w) ==
    LET s == scan[w]
        cancelled == s.cancelled \/ task[s.task].cancel
        To(status, code) == [s EXCEPT !.at = "finish", !.status = status, !.rootCode = code]
    IN
    /\ s.at = "decide"
    /\ Think(w, CASE s.verdict = "root" -> To("failed", TRUE)
                  [] s.verdict # "root" /\ cancelled -> To("cancelled", FALSE)
                  [] s.verdict = "ok" /\ ~cancelled ->
                        To(IF task[s.task].errors = {} THEN "completed" ELSE "partial-success", FALSE)
                  [] s.verdict = "error" /\ ~cancelled -> To("failed", FALSE)
                  [] OTHER -> NoScan)

FinishedRow(r, s) ==
    Announce([CloseAttempt(r, s.status) EXCEPT !.status = s.status, !.recovering = FALSE,
                !.cancel = FALSE, !.owner = NoOwner, !.version = @ + 1,
                !.rootFailed = @ \/ s.rootCode], s.status, FALSE)

NotInBatch(t) == {p \in Paths : task[t].seen[p] = 0}

\* (Mutant: a scan that left files out tells what is missing.)
FinishMissingUnread(w) ==
    LET s == scan[w] IN
    /\ s.at = "finish"
    /\ scan' = [scan EXCEPT ![w] = NoScan]
    /\ IF ~Holds(w) THEN UNCHANGED <<files, task>>
       ELSE /\ task' = [task EXCEPT ![s.task] = FinishedRow(@, s)]
            /\ IF s.status \in {"completed", "partial-success"}
               THEN MarkUnseenMissing(NotInBatch(s.task)) ELSE UNCHANGED files
    /\ UNCHANGED <<order, binding, absent, world>>

\* The terminal transaction asks for the lease, and no more for the cancel flag.
Finish(w) ==
    LET s == scan[w] IN
    /\ s.at = "finish"
    /\ scan' = [scan EXCEPT ![w] = NoScan]
    /\ IF ~Holds(w) THEN UNCHANGED <<files, task>>
       ELSE /\ task' = [task EXCEPT ![s.task] = FinishedRow(@, s)]
            /\ IF s.status = "completed" THEN MarkUnseenMissing(NotInBatch(s.task))
               ELSE UNCHANGED files
    /\ UNCHANGED <<order, binding, absent, world>>

-----------------------------------------------------------------------------
(***************************************************************************)
(* The user's files, the process and time.                                 *)
(***************************************************************************)

\* A file is created, replaced or removed.
Changed(p, f) ==
    /\ f # disk[p] /\ root.readable /\ Spend("change")
    /\ disk' = [disk EXCEPT ![p] = f]
    /\ absent' = IF f # NoFacts THEN absent
                 ELSE [t \in Tasks |-> IF task[t].status \in Open THEN absent[t] \cup {p} ELSE absent[t]]
    /\ UNCHANGED <<old, tracked, requests, sighting, scans, root, server>>

Unmounted ==
    /\ root.readable /\ Spend("unmount")
    /\ root' = [root EXCEPT !.readable = FALSE]
    /\ UNCHANGED <<files, scans, absent, server>>

Remounted ==
    /\ ~root.readable
    /\ root' = [root EXCEPT !.readable = TRUE]
    /\ UNCHANGED <<files, scans, absent, server, spent>>

\* Somebody reads the inbox: revalidate looks at the directory and writes its health.
InboxRead ==
    /\ server = "up" /\ root.available # root.readable
    /\ root' = [root EXCEPT !.available = root.readable]
    /\ UNCHANGED <<files, scans, absent, server, spent>>

Died ==
    /\ server # "down" /\ Spend("crash")
    /\ server' = "down"
    /\ scan' = [w \in Workers |-> NoScan]
    /\ UNCHANGED <<files, task, order, binding, absent, root>>

\* The interval matters to a revision that is observed.
Rests(p) ==
    /\ \E f \in Facts : tracked[p].revision[f].status = "observing" /\ ~tracked[p].revision[f].rested
    /\ IntervalPasses(p)
    /\ UNCHANGED <<scans, absent, world>>

Grows(f) == f \notin old /\ Ages(f) /\ UNCHANGED <<scans, absent, world>>

TimePasses == (\E p \in Paths : Rests(p)) \/ (\E f \in Facts : Grows(f))

Requested == \E k \in Keys, t \in Tasks : Create(k, t) \/ Retry(k, t) \/ RequestCancel(k, t)

Walk(w) ==
    \/ OpenScanSource(w) \/ WalkFails(w) \/ Flush(w) \/ WalkEnds(w)
    \/ \E p \in Paths : Look(w, p) \/ LookFails(w, p)

Write(w) == CheckCancel(w) \/ RecordObservations(w) \/ RecordFails(w)

Worker(w) ==
    \/ \E t \in Tasks : Claim(w, t)
    \/ Walk(w) \/ Write(w) \/ HeartbeatFails(w) \/ Decide(w) \/ Finish(w)

(***************************************************************************)
(* The scan tasks by themselves, without the coordinator of Reconcile.     *)
(***************************************************************************)

Serves ==
    /\ server = "recovered" /\ server' = "up"
    /\ UNCHANGED <<files, scans, absent, root, spent>>

ScanNext ==
    \/ Requested \/ TimePasses \/ ReclaimExpired \/ Serves
    \/ \E w \in Workers : Worker(w)
    \/ \E t \in Tasks : LeaseExpires(t)
    \/ \E p \in Paths, f \in Facts \cup {NoFacts} : Changed(p, f)
    \/ Unmounted \/ Remounted \/ InboxRead \/ Died

ScanSpec == ScanInit /\ [][ScanNext]_<<files, scans, absent, world>>

-----------------------------------------------------------------------------
(***************************************************************************)
(* Properties.                                                             *)
(***************************************************************************)

\* The attempts of a task tell its whole story: only the last one may be open and it has the
\* status of the row, a retry of the user follows an attempt that failed or left files out, a
\* recovery follows one that was given up, and nothing follows a completed or cancelled one.
ScanAttemptLedger ==
    \A t \in Tasks : task[t] # Absent =>
        LET a == task[t].attempts IN
        /\ a # << >> /\ a[Len(a)].status = task[t].status
        /\ a[1].reason = "initial"
        /\ \A i \in 1..(Len(a) - 1) :
            /\ a[i].status \in {"failed", "partial-success"}
            /\ a[i + 1].reason = "manual_retry" \/ (a[i + 1].reason = "recovery" /\ a[i].status = "failed")

\* What the last event of a task told its subscribers is what the row says.
LastEventTellsRow ==
    \A t \in Tasks :
        task[t].event = [status |-> task[t].status, recovering |-> task[t].recovering]

\* What is kept beside the row of a scan agrees with it: its attempts and its last event.
ScanRecordsAgree == ScanAttemptLedger /\ LastEventTellsRow

ScanTypeOK ==
    /\ FilesTypeOK
    /\ task \in [Tasks -> Rows]
    /\ order \subseteq Tasks \X Tasks
    /\ binding \in [Keys -> Bindings \cup {Unbound}]
    /\ scan \in [Workers -> Scans]
    /\ root \in [readable : BOOLEAN, available : BOOLEAN]
    /\ server \in {"down", "recovered", "up"}
    /\ absent \in [Tasks -> SUBSET Paths]
    /\ spent \in [DOMAIN Limits -> Nat]

\* A file is taken for gone only by a scan that completed, and only when it really was away at
\* some moment of that scan, however many attempts, takeovers and lost batches it took.
MissingWasAbsent ==
    [][\A p \in Paths : (tracked'[p].missing /\ ~tracked[p].missing) =>
        \E t \in Tasks : /\ task[t].status = "running" /\ task'[t].status = "completed"
                         /\ p \in absent[t]]_<<files, task, absent>>

\* The lease columns of the scan tasks.
ScanLeases == INSTANCE FencedLease WITH
    Agents <- Workers,
    Resources <- Tasks,
    holder <- [t \in Tasks |-> IF task[t].status = "running" THEN task[t].version ELSE 0],
    issued <- [t \in Tasks |-> task[t].version],
    lapsed <- [t \in Tasks |-> task[t].lapsed],
    ticket <- [w \in Workers |-> IF scan[w].task = NoTask THEN [grant |-> 0]
                                ELSE [resource |-> scan[w].task, grant |-> scan[w].version]]

\* A batch adds to what a row has and leaves its version, as nothing else does.
TakesBatch(r, q) == q.version = r.version /\ (q.seen # r.seen \/ q.errors # r.errors)

\* A batch is written by the worker the task is leased to, while the lease lasts.
BatchesAreFenced ==
    [][\A t \in Tasks : TakesBatch(task[t], task'[t]) =>
        \E w \in Workers : /\ scan'[w] # scan[w]
                           /\ ScanLeases!Valid(w, t) /\ ~task[t].lapsed]_<<task, scan>>

\* The scan tasks implement FencedLease: a worker that was taken over, although nobody told it
\* and it walks on, can neither finish the task of the other nor write a batch to it.
ScanLeaseSpec == ScanLeases!Spec /\ BatchesAreFenced
=============================================================================
