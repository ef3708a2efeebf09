----------------------- MODULE ProcessingTask_proofs -----------------------
(***************************************************************************)
(* Proofs about ProcessingTask.                                            *)
(***************************************************************************)
EXTENDS ProcessingTask, FiniteSetTheorems, SequenceTheorems, TLAPS

-----------------------------------------------------------------------------
(***************************************************************************)
(* What the helpers return.                                                *)
(***************************************************************************)

\* A row stays a row when one column gets a value of its type.
LEMMA RowUpdate ==
  ASSUME NEW r \in Row
  PROVE  /\ \A v \in Statuses \cup {"absent"} : [r EXCEPT !.status = v] \in Row
         /\ \A v \in Stages : [r EXCEPT !.stage = v] \in Row
         /\ \A v \in Checkpoints : [r EXCEPT !.checkpoint = v] \in Row
         /\ \A v \in Reasons : [r EXCEPT !.reason = v] \in Row
         /\ \A v \in BOOLEAN : [r EXCEPT !.recovering = v] \in Row
         /\ \A v \in BOOLEAN : [r EXCEPT !.cancelRequested = v] \in Row
         /\ \A v \in BOOLEAN : [r EXCEPT !.expired = v] \in Row
         /\ \A v \in BOOLEAN : [r EXCEPT !.plan = v] \in Row
         /\ \A v \in BOOLEAN : [r EXCEPT !.result = v] \in Row
         /\ \A v \in BOOLEAN : [r EXCEPT !.catalog = v] \in Row
         /\ \A v \in Nat : [r EXCEPT !.attemptCount = v] \in Row
         /\ \A v \in Nat : [r EXCEPT !.current = v] \in Row
         /\ \A v \in Nat : [r EXCEPT !.version = v] \in Row
         /\ \A v \in Nat : [r EXCEPT !.created = v] \in Row
         /\ \A v \in Workers \cup {NoOwner} : [r EXCEPT !.owner = v] \in Row
         /\ \A v \in {"none", "pending", "due"} : [r EXCEPT !.retry = v] \in Row
BY DEF Row

LEMMA RowFields ==
  ASSUME NEW r \in Row
  PROVE  /\ r.status \in Statuses \cup {"absent"} /\ r.stage \in Stages
         /\ r.checkpoint \in Checkpoints /\ r.reason \in Reasons
         /\ r.recovering \in BOOLEAN /\ r.attemptCount \in Nat /\ r.current \in Nat
         /\ r.cancelRequested \in BOOLEAN /\ r.owner \in Workers \cup {NoOwner}
         /\ r.expired \in BOOLEAN /\ r.retry \in {"none", "pending", "due"}
         /\ r.plan \in BOOLEAN /\ r.result \in BOOLEAN /\ r.catalog \in BOOLEAN
         /\ r.version \in Nat /\ r.created \in Nat
         /\ r.version + 1 \in Nat /\ r.attemptCount + 1 \in Nat
BY DEF Row

LEMMA ReleasedRow ==
  ASSUME NEW r \in Row
  PROVE  Released(r) \in Row
<1>1. [r EXCEPT !.recovering = FALSE] \in Row
  BY RowUpdate
<1>2. [r EXCEPT !.recovering = FALSE, !.cancelRequested = FALSE] \in Row
  BY <1>1, RowUpdate
<1>3. [r EXCEPT !.recovering = FALSE, !.cancelRequested = FALSE, !.owner = NoOwner] \in Row
  BY <1>2, RowUpdate
<1>4. [r EXCEPT !.recovering = FALSE, !.cancelRequested = FALSE, !.owner = NoOwner,
                !.expired = FALSE] \in Row
  BY <1>3, RowUpdate
<1> QED
  BY <1>4, RowUpdate, RowFields DEF Released

\* The fields an ending and a move have in common.
Closing(x) ==
    /\ x.status \in Statuses /\ x.stage \in Stages /\ x.checkpoint \in Checkpoints
    /\ x.reason \in Reasons /\ x.retry \in {"none", "pending", "due"}

LEMMA FinishedRowType ==
  ASSUME NEW r \in Row, NEW x, Closing(x)
  PROVE  FinishedRow(r, x) \in Row
<1> DEFINE s == Released(r)
<1>1. s \in Row
  BY ReleasedRow
<1> HIDE DEF s
<1>2. [s EXCEPT !.status = x.status] \in Row
  BY <1>1, RowUpdate DEF Closing
<1>3. [s EXCEPT !.status = x.status, !.stage = x.stage] \in Row
  BY <1>2, RowUpdate DEF Closing
<1>4. [s EXCEPT !.status = x.status, !.stage = x.stage, !.checkpoint = x.checkpoint] \in Row
  BY <1>3, RowUpdate DEF Closing
<1>5. [s EXCEPT !.status = x.status, !.stage = x.stage, !.checkpoint = x.checkpoint,
                !.reason = x.reason] \in Row
  BY <1>4, RowUpdate DEF Closing
<1>6. [s EXCEPT !.status = x.status, !.stage = x.stage, !.checkpoint = x.checkpoint,
                !.reason = x.reason, !.retry = x.retry] \in Row
  BY <1>5, RowUpdate DEF Closing
<1> QED
  BY <1>6 DEF FinishedRow, s

\* A move also has the references it brings.
Moving(x) == Closing(x) /\ x.plan \in BOOLEAN /\ x.result \in BOOLEAN /\ x.catalog \in BOOLEAN

LEMMA MovedRowType ==
  ASSUME NEW r \in Row, NEW x, Moving(x)
  PROVE  MovedRow(r, x) \in Row
<1> DEFINE s == FinishedRow(r, x)
<1>1. s \in Row
  BY FinishedRowType DEF Moving
<1> HIDE DEF s
<1>2. /\ s.plan \/ x.plan \in BOOLEAN
      /\ s.result \/ x.result \in BOOLEAN
      /\ s.catalog \/ x.catalog \in BOOLEAN
  BY <1>1, RowFields DEF Moving
<1>3. [s EXCEPT !.plan = s.plan \/ x.plan] \in Row
  BY <1>1, RowUpdate
<1>4. [s EXCEPT !.plan = s.plan \/ x.plan, !.result = s.result \/ x.result] \in Row
  BY <1>3, RowUpdate
<1>5. [s EXCEPT !.plan = s.plan \/ x.plan, !.result = s.result \/ x.result,
                !.catalog = s.catalog \/ x.catalog] \in Row
  BY <1>4, RowUpdate
<1> QED
  BY <1>5 DEF MovedRow, s

LEMMA RequeuedRow ==
  ASSUME NEW r \in Row
  PROVE  Requeued(r) \in Row
<1>1. [r EXCEPT !.status = "queued"] \in Row
  BY RowUpdate DEF Statuses
<1>2. [r EXCEPT !.status = "queued", !.current = r.attemptCount + 1] \in Row
  BY <1>1, RowUpdate, RowFields
<1>3. [r EXCEPT !.status = "queued", !.current = r.attemptCount + 1,
                !.attemptCount = r.attemptCount + 1] \in Row
  BY <1>2, RowUpdate, RowFields
<1>4. [r EXCEPT !.status = "queued", !.current = r.attemptCount + 1,
                !.attemptCount = r.attemptCount + 1, !.cancelRequested = FALSE] \in Row
  BY <1>3, RowUpdate
<1> QED
  BY <1>4, RowUpdate, RowFields DEF Requeued

LEMMA RetriedRow ==
  ASSUME NEW r \in Row
  PROVE  Retried(r) \in Row
<1> DEFINE s == Requeued(r)
<1>1. s \in Row
  BY RequeuedRow
<1> HIDE DEF s
<1>2. [s EXCEPT !.reason = "none"] \in Row
  BY <1>1, RowUpdate DEF Reasons
<1>3. [s EXCEPT !.reason = "none", !.recovering = FALSE] \in Row
  BY <1>2, RowUpdate
<1>4. [s EXCEPT !.reason = "none", !.recovering = FALSE, !.retry = "none"] \in Row
  BY <1>3, RowUpdate
<1> QED
  BY <1>4 DEF Retried, s

LEMMA RecoveringRowType ==
  ASSUME NEW r \in Row
  PROVE  RecoveringRow(r) \in Row
<1> DEFINE s == Requeued(r)
<1>1. s \in Row
  BY RequeuedRow
<1> HIDE DEF s
<1>2. [s EXCEPT !.recovering = TRUE] \in Row
  BY <1>1, RowUpdate
<1>3. [s EXCEPT !.recovering = TRUE, !.owner = NoOwner] \in Row
  BY <1>2, RowUpdate
<1>4. [s EXCEPT !.recovering = TRUE, !.owner = NoOwner, !.expired = FALSE] \in Row
  BY <1>3, RowUpdate
<1> QED
  BY <1>4 DEF RecoveringRow, s

LEMMA DecidedRowType ==
  ASSUME NEW r \in Row, NEW d
  PROVE  DecidedRow(r, d) \in Row
<1> DEFINE s == Requeued(r)
           stage == IF decision[d].kind = "planning" THEN "planning" ELSE "identification"
           checkpoint == IF decision[d].kind = "planning" THEN "identification-complete"
                         ELSE "pending"
<1>1. s \in Row
  BY RequeuedRow
<1>2. stage \in Stages /\ checkpoint \in Checkpoints
  BY DEF Stages, Checkpoints
<1> HIDE DEF s, stage, checkpoint
<1>3. [s EXCEPT !.stage = stage] \in Row
  BY <1>1, <1>2, RowUpdate
<1>4. [s EXCEPT !.stage = stage, !.checkpoint = checkpoint] \in Row
  BY <1>2, <1>3, RowUpdate
<1>5. [s EXCEPT !.stage = stage, !.checkpoint = checkpoint, !.reason = "none"] \in Row
  BY <1>4, RowUpdate DEF Reasons
<1>6. [s EXCEPT !.stage = stage, !.checkpoint = checkpoint, !.reason = "none",
                !.recovering = FALSE] \in Row
  BY <1>5, RowUpdate
<1>7. [s EXCEPT !.stage = stage, !.checkpoint = checkpoint, !.reason = "none",
                !.recovering = FALSE, !.owner = NoOwner] \in Row
  BY <1>6, RowUpdate
<1>8. [s EXCEPT !.stage = stage, !.checkpoint = checkpoint, !.reason = "none",
                !.recovering = FALSE, !.owner = NoOwner, !.expired = FALSE] \in Row
  BY <1>7, RowUpdate
<1>9. [s EXCEPT !.stage = stage, !.checkpoint = checkpoint, !.reason = "none",
                !.recovering = FALSE, !.owner = NoOwner, !.expired = FALSE,
                !.retry = "none"] \in Row
  BY <1>8, RowUpdate
<1> QED
  BY <1>9 DEF DecidedRow, s, stage, checkpoint

LEMMA CancelledRowType ==
  ASSUME NEW r \in Row
  PROVE  CancelledRow(r) \in Row
<1>1. [r EXCEPT !.status = "cancelled"] \in Row
  BY RowUpdate DEF Statuses
<1>2. [r EXCEPT !.status = "cancelled", !.checkpoint = "cancelled"] \in Row
  BY <1>1, RowUpdate DEF Checkpoints
<1>3. [r EXCEPT !.status = "cancelled", !.checkpoint = "cancelled",
                !.reason = "none"] \in Row
  BY <1>2, RowUpdate DEF Reasons
<1>4. [r EXCEPT !.status = "cancelled", !.checkpoint = "cancelled", !.reason = "none",
                !.cancelRequested = FALSE] \in Row
  BY <1>3, RowUpdate
<1>5. [r EXCEPT !.status = "cancelled", !.checkpoint = "cancelled", !.reason = "none",
                !.cancelRequested = FALSE, !.retry = "none"] \in Row
  BY <1>4, RowUpdate
<1> QED
  BY <1>5, RowUpdate, RowFields DEF CancelledRow

LEMMA DueRowType ==
  ASSUME NEW r \in Row
  PROVE  DueRow(r) \in Row
<1>1. [r EXCEPT !.retry = "due"] \in Row
  BY RowUpdate
<1> QED
  BY <1>1, RowUpdate, RowFields DEF DueRow

LEMMA MovesAreMoving ==
  ASSUME NEW stage, NEW x \in Moves(stage)
  PROVE  Moving(x) /\ x.continue \in BOOLEAN
<1> DEFINE Fits(y) == Moving(y) /\ y.continue \in BOOLEAN
<1> USE DEF Moving, Closing, Move, Statuses, Stages, Checkpoints, Reasons
<1>1. \A y \in PlanningMoves : Fits(y)
  <2> SUFFICES ASSUME NEW y \in PlanningMoves PROVE Fits(y)
    OBVIOUS
  <2>1. CASE y = [Move("queued", "file-operation", "execution-authorized", "none", "none",
                       TRUE) EXCEPT !.plan = TRUE]
    BY <2>1
  <2>2. CASE y = [Move("paused", "planning", "planning-paused", "organization", "none",
                       FALSE) EXCEPT !.plan = TRUE]
    BY <2>2
  <2>3. CASE y = Move("paused", "planning", "planning-paused", "organization", "none", FALSE)
    BY <2>3
  <2> HIDE DEF Fits, Move
  <2> QED
    BY <2>1, <2>2, <2>3 DEF PlanningMoves
<1>2. \A y \in FileMoves : Fits(y)
  <2> SUFFICES ASSUME NEW y \in FileMoves PROVE Fits(y)
    OBVIOUS
  <2>1. CASE y = Move("paused", "file-operation", "file-operation-executing",
                      "organization", "pending", FALSE)
    BY <2>1
  <2>2. CASE y = Move("paused", "file-operation", "file-operation-manual-review",
                      "organization", "none", FALSE)
    BY <2>2
  <2>3. CASE y = [Move("paused", "file-operation", "file-operation-manual-review",
                       "organization", "none", FALSE) EXCEPT !.result = TRUE]
    BY <2>3
  <2>4. CASE y = [Move("queued", "nfo", "nfo-pending", "none", "none", TRUE)
                    EXCEPT !.result = TRUE]
    BY <2>4
  <2>5. CASE y = [Move("queued", "completion", "local-result-prepared", "none", "none", TRUE)
                    EXCEPT !.result = TRUE]
    BY <2>5
  <2> HIDE DEF Fits, Move
  <2> QED
    BY <2>1, <2>2, <2>3, <2>4, <2>5 DEF FileMoves
<1>3. \A y \in NfoMoves : Fits(y)
  BY ZenonT(40) DEF NfoMoves
<1>4. \A y \in CompletionMoves : Fits(y)
  BY ZenonT(40) DEF CompletionMoves
<1>5. Fits(x)
  <2> HIDE DEF Fits
  <2>1. \/ stage = "planning" /\ x \in PlanningMoves
        \/ stage = "file-operation" /\ x \in FileMoves
        \/ stage = "nfo" /\ x \in NfoMoves
        \/ stage = "completion" /\ x \in CompletionMoves
    BY DEF Moves
  <2> QED  BY <2>1, <1>1, <1>2, <1>3, <1>4
<1> QED
  BY <1>5

LEMMA DecidedMove ==
  ASSUME NEW r \in Row, NEW x, Moving(x), x.continue \in BOOLEAN
  PROVE  Moving(Decide(r, x)) /\ Decide(r, x).continue \in BOOLEAN
<1>1. CASE ~(r.cancelRequested /\ x.continue)
  BY <1>1 DEF Decide
<1>2. CASE r.cancelRequested /\ x.continue
  <2> DEFINE y == [x EXCEPT !.status = "cancelled", !.stage = r.stage,
                            !.checkpoint = "cancelled", !.reason = "none", !.continue = FALSE]
  <2>1. /\ y.status = "cancelled" /\ y.stage = r.stage /\ y.checkpoint = "cancelled"
        /\ y.reason = "none" /\ y.continue = FALSE /\ y.retry = x.retry
        /\ y.plan = x.plan /\ y.result = x.result /\ y.catalog = x.catalog
    OBVIOUS
  <2> QED
    BY <1>2, <2>1, RowFields DEF Decide, Moving, Closing, Statuses, Checkpoints, Reasons
<1> QED
  BY <1>1, <1>2

\* An ending also says what becomes of the attempt.
EndingType(x) == Closing(x) /\ x.attempt \in AttemptStatuses /\ x.failure \in Failures

LEMMA IdentificationEndings ==
  ASSUME NEW x \in IdentificationOutcomes
  PROVE  EndingType(x)
BY DEF IdentificationOutcomes, Confirmed, NeedsReview, Blocked, RevisionChanged, Ending,
       EndingType, Closing, Statuses, Stages, Checkpoints, Reasons, AttemptStatuses, Failures

LEMMA EndedType ==
  ASSUME NEW r \in Row, NEW x, EndingType(x)
  PROVE  EndingType(Ended(r, x))
BY DEF Ended, Ending, EndingType, Closing, Statuses, Stages, Checkpoints, Reasons,
       AttemptStatuses, Failures

\* A list of attempts stays one when any position gets an attempt, or one is added.
LEMMA ListReplace ==
  ASSUME NEW list \in Seq(Attempt), NEW i, NEW a, i \in 1 .. Len(list) => a \in Attempt
  PROVE  [list EXCEPT ![i] = a] \in Seq(Attempt)
<1>1. CASE i \in 1 .. Len(list)
  BY <1>1, ExceptSeq
<1>2. CASE i \notin 1 .. Len(list)
  <2>1. [list EXCEPT ![i] = a] = list
    BY <1>2
  <2> QED  BY <2>1
<1> QED
  BY <1>1, <1>2

\* The columns of an attempt that a transition may write.
LEMMA AttemptUpdate ==
  ASSUME NEW a \in Attempt, NEW status \in AttemptStatuses
  PROVE  /\ [a EXCEPT !.status = status] \in Attempt
         /\ \A failure \in Failures :
               [a EXCEPT !.status = status, !.failure = failure] \in Attempt
         /\ \A stage \in Stages : [a EXCEPT !.status = status, !.stage = stage] \in Attempt
         /\ \A stage \in Stages, failure \in Failures :
               [a EXCEPT !.status = status, !.stage = stage, !.failure = failure] \in Attempt
BY DEF Attempt

LEMMA ListItem ==
  ASSUME NEW list \in Seq(Attempt), NEW i \in 1 .. Len(list)
  PROVE  list[i] \in Attempt
OBVIOUS

LEMMA CloseType ==
  ASSUME NEW list \in Seq(Attempt), NEW i, NEW status \in AttemptStatuses,
         NEW failure \in Failures
  PROVE  Close(list, i, status, failure) \in Seq(Attempt)
<1>1. ASSUME i \in 1 .. Len(list)
      PROVE  [list[i] EXCEPT !.status = status, !.failure = failure] \in Attempt
  <2>1. list[i] \in Attempt
    BY <1>1, ListItem
  <2> QED  BY <2>1, AttemptUpdate
<1> QED
  BY <1>1, ListReplace DEF Close

LEMMA WithdrawnType ==
  ASSUME NEW list \in Seq(Attempt), NEW i
  PROVE  Withdrawn(list, i) \in Seq(Attempt)
<1>1. ASSUME i \in 1 .. Len(list)
      PROVE  [list[i] EXCEPT !.status = "cancelled"] \in Attempt
  <2>1. list[i] \in Attempt
    BY <1>1, ListItem
  <2> QED  BY <2>1 DEF Attempt, AttemptStatuses
<1> QED
  BY <1>1, ListReplace DEF Withdrawn

LEMMA SupersededType ==
  ASSUME NEW list \in Seq(Attempt), NEW i
  PROVE  Superseded(list, i) \in Seq(Attempt)
<1>1. ASSUME i \in 1 .. Len(list)
      PROVE  [list[i] EXCEPT !.status = "cancelled"] \in Attempt
  <2>1. list[i] \in Attempt
    BY <1>1, ListItem
  <2> QED  BY <2>1 DEF Attempt, AttemptStatuses
<1> QED
  BY <1>1, ListReplace DEF Superseded

LEMMA MovedAttemptType ==
  ASSUME NEW a \in Attempt, NEW x, Moving(x)
  PROVE  MovedAttempt(a, x) \in Attempt
<1>1. x.stage \in Stages
  BY DEF Moving, Closing
<1>2. [a EXCEPT !.status = "queued", !.stage = x.stage] \in Attempt
  BY <1>1, AttemptUpdate DEF AttemptStatuses
<1>3. [a EXCEPT !.status = "succeeded"] \in Attempt
  BY DEF Attempt, AttemptStatuses
<1>4. [a EXCEPT !.status = "cancelled"] \in Attempt
  BY DEF Attempt, AttemptStatuses
<1>5. [a EXCEPT !.status = "failed", !.failure = "stage-failed"] \in Attempt
  BY AttemptUpdate DEF AttemptStatuses, Failures
<1> QED
  BY <1>2, <1>3, <1>4, <1>5 DEF MovedAttempt

LEMMA MovedAttemptsType ==
  ASSUME NEW list \in Seq(Attempt), NEW i, NEW x, Moving(x)
  PROVE  MovedAttempts(list, i, x) \in Seq(Attempt)
<1>1. i \in 1 .. Len(list) => MovedAttempt(list[i], x) \in Attempt
  BY ListItem, MovedAttemptType
<1> QED
  BY <1>1, ListReplace DEF MovedAttempts

LEMMA NewAttemptType ==
  ASSUME NEW reason \in AttemptReasons, NEW status \in AttemptStatuses, NEW stage \in Stages
  PROVE  NewAttempt(reason, status, stage) \in Attempt
BY DEF NewAttempt, Attempt, Failures

LEMMA MemoryFields ==
  /\ \A m \in Memory :
        /\ m.lease # NoLease => m.lease \in Lease
        /\ \A pc \in Busy \cup {"ready", "joined"} : [m EXCEPT !.pc = pc] \in Memory
        /\ \A b \in {"none", "waiting", "checked", "cancelled", "lost"} :
              [m EXCEPT !.beat = b] \in Memory
        /\ \A o \in {"none", "committed", "error"} \cup Delegated :
              [m EXCEPT !.outcome = o] \in Memory
  /\ \A pc \in {"ready", "joined"} : Resting(pc) \in Memory
BY DEF Memory, Resting, Busy

LEMMA BeatChanged ==
  ASSUME NEW m \in Memory, NEW b \in {"none", "waiting", "checked", "cancelled", "lost"}
  PROVE  /\ [m EXCEPT !.beat = b] \in Memory
         /\ [m EXCEPT !.beat = b].lease = m.lease
         /\ [m EXCEPT !.beat = b].pc = m.pc
<1>1. [m EXCEPT !.beat = b] \in Memory
  BY MemoryFields
<1> QED
  BY <1>1 DEF Memory

LEMMA OutcomeChanged ==
  ASSUME NEW m \in Memory, NEW o \in {"none", "committed", "error"} \cup Delegated
  PROVE  /\ [m EXCEPT !.outcome = o] \in Memory
         /\ [m EXCEPT !.outcome = o].lease = m.lease
         /\ [m EXCEPT !.outcome = o].pc = m.pc
<1>1. [m EXCEPT !.outcome = o] \in Memory
  BY MemoryFields
<1> QED
  BY <1>1 DEF Memory

LEMMA LeaseFields ==
  /\ \A l \in Lease : /\ l.task \in Tasks /\ l.version \in Nat /\ l.attempt \in Nat
                      /\ l.stage \in Stages /\ l.checkpoint \in Checkpoints
  /\ NoLease \notin Lease
  /\ NoLease.task \notin Tasks
BY TasksAssumption DEF Lease, NoLease

-----------------------------------------------------------------------------
(***************************************************************************)
(* The types.  TypeOK alone is not inductive: that the batch counter stays  *)
(* a number and that Head(queue) is a decision about a task needs what the  *)
(* dispatch knows of its queue.                                            *)
(***************************************************************************)

BatchInv ==
    /\ runtime.step \in {"apply", "audit", "mark"} => runtime.left \in 1 .. Len(queue)
    /\ \A i \in 1 .. Len(queue) : decision[queue[i]].task \in Tasks

Typed == TypeOK /\ BatchInv

LEMMA InitTyped == Init => Typed
<1> SUFFICES ASSUME Init PROVE Typed
  OBVIOUS
<1>1. Absent \in Row
  BY DEF Absent, Row, Stages, Checkpoints, Reasons
<1>2. \A w \in Workers : worker[w] = Resting("joined") /\ worker[w] \in Memory
                         /\ worker[w].pc \notin Busy /\ worker[w].lease = NoLease
  BY MemoryFields DEF Init, Resting, Busy
<1>3. \A d \in Decisions : decision[d] \in Verdict
  BY DEF Init, Verdict
<1>4. \A t \in Tasks : event[t] \in StateEvent
  BY DEF Init, StateEvent, Stages, Reasons
<1>5. runtime \in Place
  BY DEF Init, Place
<1>6. <<>> \in Seq(Attempt) /\ <<>> \in Seq(Decisions) /\ Len(queue) = 0
  BY DEF Init
<1>7. TypeOK
  BY <1>1, <1>2, <1>3, <1>4, <1>5, <1>6, IncidentsAssumption DEF Init, TypeOK
<1>8. BatchInv
  BY <1>6 DEF Init, BatchInv
<1> QED
  BY <1>7, <1>8 DEF Typed

\* A step that writes the tables of one task, as most do, keeps their types.
LEMMA WriteTask ==
  ASSUME TypeOK, NEW t \in Tasks, NEW r \in Row, NEW list \in Seq(Attempt),
         NEW status \in Statuses, NEW stage \in Stages, NEW recovering \in BOOLEAN,
         NEW reason \in Reasons,
         task' = [task EXCEPT ![t] = r],
         attempts' = [attempts EXCEPT ![t] = list],
         Announce(t, status, stage, recovering, reason)
  PROVE  /\ task' \in [Tasks -> Row]
         /\ attempts' \in [Tasks -> Seq(Attempt)]
         /\ event' \in [Tasks -> StateEvent]
<1>1. [status |-> status, stage |-> stage, recovering |-> recovering, reason |-> reason]
        \in StateEvent
  BY DEF StateEvent
<1> QED
  BY <1>1 DEF TypeOK, Announce

\* A worker that lets go of its lease, and one that only moves on.
LEMMA WorkerRests ==
  ASSUME TypeOK, NEW w \in Workers, NEW pc \in {"ready", "joined"},
         worker' = [worker EXCEPT ![w] = Resting(pc)]
  PROVE  /\ worker' \in [Workers -> Memory]
         /\ \A v \in Workers : worker'[v].pc \in Busy <=> worker'[v].lease # NoLease
<1>1. Resting(pc) \in Memory /\ Resting(pc).pc \notin Busy /\ Resting(pc).lease = NoLease
  BY MemoryFields DEF Resting, Busy
<1> QED
  BY <1>1 DEF TypeOK

LEMMA WorkerMoves ==
  ASSUME TypeOK, NEW w \in Workers, NEW m \in Memory,
         worker' = [worker EXCEPT ![w] = m],
         m.lease = worker[w].lease,
         m.pc \in Busy <=> worker[w].pc \in Busy
  PROVE  /\ worker' \in [Workers -> Memory]
         /\ \A v \in Workers : worker'[v].pc \in Busy <=> worker'[v].lease # NoLease
BY DEF TypeOK

\* What a worker with a lease knows.
LEMMA Leased ==
  ASSUME TypeOK, NEW w \in Workers, worker[w].pc \in Busy
  PROVE  /\ worker[w].lease \in Lease
         /\ worker[w].lease.task \in Tasks /\ worker[w].lease.attempt \in Nat
         /\ worker[w].lease.version \in Nat
         /\ worker[w].lease.stage \in Stages /\ worker[w].lease.checkpoint \in Checkpoints
         /\ task[worker[w].lease.task] \in Row
         /\ attempts[worker[w].lease.task] \in Seq(Attempt)
<1>1. worker[w] \in Memory /\ worker[w].lease # NoLease
  BY DEF TypeOK
<1> QED
  BY <1>1, MemoryFields, LeaseFields DEF TypeOK

\* An ending written by finish_terminal_attempt.
LEMMA FinishTerminalTyped ==
  ASSUME TypeOK, NEW w \in Workers, worker[w].pc \in Busy, NEW x, EndingType(x),
         FinishTerminal(w, x)
  PROVE  /\ task' \in [Tasks -> Row]
         /\ attempts' \in [Tasks -> Seq(Attempt)]
         /\ event' \in [Tasks -> StateEvent]
<1>1. CASE Holds(w)
  <2> DEFINE t == worker[w].lease.task
             y == Ended(task[t], x)
             list == Close(attempts[t], worker[w].lease.attempt, y.attempt, y.failure)
  <2>1. t \in Tasks /\ task[t] \in Row /\ attempts[t] \in Seq(Attempt)
    BY Leased
  <2>2. EndingType(y)
    BY <2>1, EndedType
  <2>3. FinishedRow(task[t], y) \in Row /\ list \in Seq(Attempt)
    BY <2>1, <2>2, FinishedRowType, CloseType DEF EndingType
  <2>4. /\ task' = [task EXCEPT ![t] = FinishedRow(task[t], y)]
        /\ attempts' = [attempts EXCEPT ![t] = list]
        /\ Announce(t, y.status, y.stage, FALSE, y.reason)
    BY <1>1 DEF FinishTerminal
  <2> HIDE DEF t, y, list
  <2> QED
    BY <2>1, <2>2, <2>3, <2>4, WriteTask DEF EndingType, Closing
<1>2. CASE ~Holds(w)
  BY <1>2 DEF FinishTerminal, rows, TypeOK
<1> QED
  BY <1>1, <1>2

LEMMA NewRowType == NewRow \in Row
<1> DEFINE n == Cardinality({t \in Tasks : task[t].status # "absent"})
<1>1. n \in Nat
  BY TasksAssumption, FS_Subset, FS_CardinalityType
<1> HIDE DEF n
<1>2. NewRow = [Absent EXCEPT !.status = "queued", !.attemptCount = 1, !.current = 1,
                              !.version = 1, !.created = n]
  BY DEF NewRow, n
<1>3. Absent \in Row
  BY DEF Absent, Row, Stages, Checkpoints, Reasons
<1>4. [Absent EXCEPT !.status = "queued"] \in Row
  BY <1>3, RowUpdate DEF Statuses
<1>5. [Absent EXCEPT !.status = "queued", !.attemptCount = 1] \in Row
  BY <1>4, RowUpdate
<1>6. [Absent EXCEPT !.status = "queued", !.attemptCount = 1, !.current = 1] \in Row
  BY <1>5, RowUpdate
<1>7. [Absent EXCEPT !.status = "queued", !.attemptCount = 1, !.current = 1,
                     !.version = 1] \in Row
  BY <1>6, RowUpdate
<1> QED
  BY <1>1, <1>2, <1>7, RowUpdate

LEMMA ClaimedRowType ==
  ASSUME TypeOK, NEW t \in Tasks, NEW w \in Workers
  PROVE  ClaimedRow(t, w) \in Row
<1> DEFINE r == task[t]
           n == IF r.status = "queued" THEN r.attemptCount ELSE r.attemptCount + 1
           b == r.recovering \/ r.status = "running"
           c == IF r.status = "queued" THEN r.current ELSE n
<1>1. r \in Row
  BY DEF TypeOK
<1>2. n \in Nat /\ b \in BOOLEAN /\ c \in Nat /\ r.version + 1 \in Nat
  BY <1>1, RowFields
<1>3. ClaimedRow(t, w) =
        [r EXCEPT !.status = "running", !.reason = "none", !.recovering = b, !.current = c,
                  !.attemptCount = n, !.cancelRequested = FALSE, !.owner = w,
                  !.expired = FALSE, !.retry = "none", !.version = r.version + 1]
  BY DEF ClaimedRow
<1> HIDE DEF r, n, b, c
<1>4. [r EXCEPT !.status = "running"] \in Row
  BY <1>1, RowUpdate DEF Statuses
<1>5. [r EXCEPT !.status = "running", !.reason = "none"] \in Row
  BY <1>4, RowUpdate DEF Reasons
<1>6. [r EXCEPT !.status = "running", !.reason = "none", !.recovering = b] \in Row
  BY <1>2, <1>5, RowUpdate
<1>7. [r EXCEPT !.status = "running", !.reason = "none", !.recovering = b,
                !.current = c] \in Row
  BY <1>2, <1>6, RowUpdate
<1>8. [r EXCEPT !.status = "running", !.reason = "none", !.recovering = b, !.current = c,
                !.attemptCount = n] \in Row
  BY <1>2, <1>7, RowUpdate
<1>9. [r EXCEPT !.status = "running", !.reason = "none", !.recovering = b, !.current = c,
                !.attemptCount = n, !.cancelRequested = FALSE] \in Row
  BY <1>8, RowUpdate
<1>10. [r EXCEPT !.status = "running", !.reason = "none", !.recovering = b, !.current = c,
                 !.attemptCount = n, !.cancelRequested = FALSE, !.owner = w] \in Row
  BY <1>9, RowUpdate
<1>11. [r EXCEPT !.status = "running", !.reason = "none", !.recovering = b, !.current = c,
                 !.attemptCount = n, !.cancelRequested = FALSE, !.owner = w,
                 !.expired = FALSE] \in Row
  BY <1>10, RowUpdate
<1>12. [r EXCEPT !.status = "running", !.reason = "none", !.recovering = b, !.current = c,
                 !.attemptCount = n, !.cancelRequested = FALSE, !.owner = w,
                 !.expired = FALSE, !.retry = "none"] \in Row
  BY <1>11, RowUpdate
<1> DEFINE s == [r EXCEPT !.status = "running", !.reason = "none", !.recovering = b,
                          !.current = c, !.attemptCount = n, !.cancelRequested = FALSE,
                          !.owner = w, !.expired = FALSE, !.retry = "none"]
           v == r.version + 1
<1>13. ClaimedRow(t, w) = [s EXCEPT !.version = v]
  BY <1>3
<1>14. s \in Row /\ v \in Nat
  BY <1>2, <1>12
<1> HIDE DEF s, v
<1> QED
  BY <1>13, <1>14, RowUpdate, ZenonT(40)

LEMMA ClaimedAttemptsType ==
  ASSUME TypeOK, NEW t \in Tasks
  PROVE  ClaimedAttempts(t) \in Seq(Attempt)
<1> DEFINE list == attempts[t]  i == task[t].current
<1>1. list \in Seq(Attempt) /\ task[t].stage \in Stages
  BY RowFields DEF TypeOK
<1>2. CASE task[t].status = "queued"
  <2> DEFINE a == [list[i] EXCEPT !.status = "running"]
  <2>1. ClaimedAttempts(t) = [list EXCEPT ![i] = a]
    BY <1>2 DEF ClaimedAttempts
  <2>2. i \in 1 .. Len(list) => list[i] \in Attempt
    BY <1>1, ListItem
  <2>3. i \in 1 .. Len(list) => a \in Attempt
    BY <2>2 DEF Attempt, AttemptStatuses
  <2> HIDE DEF a, list, i
  <2> QED  BY <1>1, <2>1, <2>3, ListReplace
<1>3. CASE task[t].status = "running"
  <2>1. Close(list, i, "failed", "lease-lost") \in Seq(Attempt)
    BY <1>1, CloseType DEF AttemptStatuses, Failures
  <2>2. NewAttempt("lease-recovery", "running", task[t].stage) \in Attempt
    BY <1>1, NewAttemptType DEF AttemptReasons, AttemptStatuses
  <2> QED  BY <1>3, <2>1, <2>2 DEF ClaimedAttempts
<1>4. CASE task[t].status \notin {"queued", "running"}
  <2>1. NewAttempt("dependency-recovery", "running", task[t].stage) \in Attempt
    BY <1>1, NewAttemptType DEF AttemptReasons, AttemptStatuses
  <2> QED  BY <1>1, <1>4, <2>1 DEF ClaimedAttempts
<1> QED
  BY <1>2, <1>3, <1>4

LEMMA RequestsTyped ==
  ASSUME Typed, NEW t \in Tasks
  PROVE  /\ EnsureRevision(t) => Typed'
         /\ RetryDue(t) => Typed'
         /\ LeaseExpires(t) => Typed'
         /\ \A k \in Keys : Retry(t, k) \/ Cancel(t, k) => Typed'
         /\ \A d \in Decisions, kind \in {"reidentify", "planning"} :
               AcceptDecision(d, t, kind) => Typed'
         /\ UpdateProvider => Typed'
<1> USE DEF Typed
<1>0. /\ task[t] \in Row /\ attempts[t] \in Seq(Attempt) /\ task[t].stage \in Stages
      /\ reviewCase[t].id \in Nat
  BY RowFields DEF TypeOK
<1>1. ASSUME EnsureRevision(t) PROVE Typed'
  <2>1. NewAttempt("initial", "queued", "identification") \in Attempt
    BY NewAttemptType DEF AttemptReasons, AttemptStatuses, Stages
  <2>2. <<NewAttempt("initial", "queued", "identification")>> \in Seq(Attempt)
    BY <2>1
  <2>3. /\ task' \in [Tasks -> Row] /\ attempts' \in [Tasks -> Seq(Attempt)]
        /\ event' \in [Tasks -> StateEvent]
    BY <1>1, <2>2, NewRowType, WriteTask DEF EnsureRevision, Statuses, Stages, Reasons
  <2> QED
    BY <1>1, <2>3 DEF EnsureRevision, TypeOK, BatchInv, review
<1>2. ASSUME RetryDue(t) PROVE Typed'
  <2>1. [task[t] EXCEPT !.retry = "due"] \in Row
    BY <1>0, RowUpdate
  <2> QED
    BY <1>2, <2>1 DEF RetryDue, TypeOK, BatchInv, review
<1>3. ASSUME LeaseExpires(t) PROVE Typed'
  <2>1. [task[t] EXCEPT !.expired = TRUE] \in Row
    BY <1>0, RowUpdate
  <2>2. incidents' \in 0 .. MaxIncidents
    BY <1>3, IncidentsAssumption DEF LeaseExpires, Incident, TypeOK
  <2> QED
    BY <1>3, <2>1, <2>2 DEF LeaseExpires, TypeOK, BatchInv, review
<1>4. ASSUME NEW k \in Keys, Retry(t, k) PROVE Typed'
  <2>1. NewAttempt("manual-retry", "queued", task[t].stage) \in Attempt
    BY <1>0, NewAttemptType DEF AttemptReasons, AttemptStatuses
  <2>2. Append(attempts[t], NewAttempt("manual-retry", "queued", task[t].stage)) \in Seq(Attempt)
    BY <1>0, <2>1
  <2>3. /\ task' \in [Tasks -> Row] /\ attempts' \in [Tasks -> Seq(Attempt)]
        /\ event' \in [Tasks -> StateEvent]
    BY <1>0, <1>4, <2>2, RetriedRow, WriteTask DEF Retry, Statuses, Reasons
  <2>4. [action |-> "retry", task |-> t] \in Binding
    BY DEF Binding
  <2> QED
    BY <1>4, <2>3, <2>4 DEF Retry, TypeOK, BatchInv, review
<1>5. ASSUME NEW k \in Keys, Cancel(t, k) PROVE Typed'
  <2>1. /\ task' \in [Tasks -> Row] /\ attempts' \in [Tasks -> Seq(Attempt)]
        /\ event' \in [Tasks -> StateEvent]
    <3>1. CASE CancelRunning(t)
      <4>1. [task[t] EXCEPT !.cancelRequested = TRUE] \in Row
        BY <1>0, RowUpdate
      <4>2. [status |-> "running", stage |-> task[t].stage, recovering |-> FALSE,
             reason |-> "none"] \in StateEvent
        BY <1>0 DEF StateEvent, Statuses, Reasons
      <4> QED
        BY <3>1, <4>1, <4>2 DEF CancelRunning, Announce, TypeOK
    <3>2. CASE CancelResting(t)
      <4>1. Withdrawn(attempts[t], task[t].current) \in Seq(Attempt)
        BY <1>0, WithdrawnType
      <4>5. attempts' \in [Tasks -> Seq(Attempt)]
        BY <1>0, <3>2, <4>1 DEF CancelResting, TypeOK
      <4>6. [status |-> "cancelled", stage |-> task[t].stage, recovering |-> FALSE,
             reason |-> "none"] \in StateEvent
        BY <1>0 DEF StateEvent, Statuses, Reasons
      <4> QED
        BY <1>0, <3>2, <4>5, <4>6, CancelledRowType DEF CancelResting, Announce, TypeOK
    <3> QED  BY <1>5, <3>1, <3>2 DEF Cancel
  <2>2. [action |-> "cancel", task |-> t] \in Binding
    BY DEF Binding
  <2> QED
    BY <1>5, <2>1, <2>2 DEF Cancel, TypeOK, BatchInv, review
<1>6. ASSUME NEW d \in Decisions, NEW kind \in {"reidentify", "planning"},
             AcceptDecision(d, t, kind)
      PROVE  Typed'
  <2> DEFINE v == [task |-> t, case |-> reviewCase[t].id, kind |-> kind]
  <2>1. v \in Verdict /\ v.task = t
    BY <1>0 DEF Verdict
  <2>2. decision' = [decision EXCEPT ![d] = v] /\ queue' = Append(queue, d)
    BY <1>6 DEF AcceptDecision
  <2> HIDE DEF v
  <2>3. queue \in Seq(Decisions) /\ queue' \in Seq(Decisions) /\ Len(queue') = Len(queue) + 1
    BY <2>2 DEF TypeOK
  <2>4. decision' \in [Decisions -> Verdict]
    BY <2>1, <2>2 DEF TypeOK
  <2>5. TypeOK'
    BY <1>6, <2>3, <2>4 DEF AcceptDecision, TypeOK, rows
  <2>6. ASSUME NEW i \in 1 .. Len(queue') PROVE decision'[queue'[i]].task \in Tasks
    <3>1. CASE i = Len(queue')
      <4>1. queue'[i] = d
        BY <2>2, <2>3, <3>1
      <4> QED  BY <2>1, <2>2, <4>1 DEF TypeOK
    <3>2. CASE i # Len(queue')
      <4>1. i \in 1 .. Len(queue) /\ queue'[i] = queue[i] /\ queue[i] \in Decisions
        BY <2>2, <2>3, <3>2
      <4> QED  BY <2>1, <2>2, <4>1 DEF BatchInv, TypeOK
    <3> QED  BY <3>1, <3>2
  <2>7. BatchInv'
    <3>1. Len(queue) \in Nat /\ 1 .. Len(queue) \subseteq 1 .. Len(queue')
      BY <2>3
    <3>2. runtime' = runtime
      BY <1>6 DEF AcceptDecision
    <3> QED
      BY <2>6, <3>1, <3>2 DEF BatchInv
  <2> QED  BY <2>5, <2>7
<1>7. ASSUME UpdateProvider PROVE Typed'
  <2>1. \A u \in Tasks : task[u] \in Row /\ DueRow(task[u]) \in Row
    BY DueRowType DEF TypeOK
  <2>2. task' \in [Tasks -> Row]
    BY <1>7, <2>1 DEF UpdateProvider
  <2>3. incidents' \in 0 .. MaxIncidents
    BY <1>7, IncidentsAssumption DEF UpdateProvider, Incident, TypeOK
  <2> QED
    BY <1>7, <2>2, <2>3 DEF UpdateProvider, TypeOK, BatchInv, review
<1> QED
  BY <1>1, <1>2, <1>3, <1>4, <1>5, <1>6, <1>7

LEMMA ClaimTyped ==
  ASSUME Typed, NEW w \in Workers, Claim(w)
  PROVE  Typed'
<1> USE DEF Typed
<1>1. PICK t \in Tasks :
        /\ task' = [task EXCEPT ![t] = ClaimedRow(t, w)]
        /\ attempts' = [attempts EXCEPT ![t] = ClaimedAttempts(t)]
        /\ Announce(t, "running", task[t].stage, ClaimedRow(t, w).recovering, "none")
        /\ worker' = [worker EXCEPT ![w] =
             [pc |-> "handling", beat |-> "waiting", outcome |-> "none",
              lease |-> [task |-> t, version |-> ClaimedRow(t, w).version,
                         attempt |-> ClaimedRow(t, w).current, stage |-> task[t].stage,
                         checkpoint |-> task[t].checkpoint]]]
  BY DEF Claim
<1>2. task[t] \in Row /\ ClaimedRow(t, w) \in Row /\ ClaimedAttempts(t) \in Seq(Attempt)
  BY ClaimedRowType, ClaimedAttemptsType DEF TypeOK
<1>3. /\ task' \in [Tasks -> Row] /\ attempts' \in [Tasks -> Seq(Attempt)]
      /\ event' \in [Tasks -> StateEvent]
  <2>1. /\ "running" \in Statuses /\ "none" \in Reasons
        /\ task[t].stage \in Stages /\ ClaimedRow(t, w).recovering \in BOOLEAN
    BY <1>2, RowFields DEF Statuses, Reasons
  <2> QED  BY <1>1, <1>2, <2>1, WriteTask, ZenonT(40)
<1> DEFINE l == [task |-> t, version |-> ClaimedRow(t, w).version,
                 attempt |-> ClaimedRow(t, w).current, stage |-> task[t].stage,
                 checkpoint |-> task[t].checkpoint]
           m == [pc |-> "handling", beat |-> "waiting", outcome |-> "none", lease |-> l]
<1>4. l \in Lease
  BY <1>2, RowFields DEF Lease
<1>5. worker' = [worker EXCEPT ![w] = m]
  BY <1>1
<1> HIDE DEF l
<1>6. m \in Memory /\ m.pc \in Busy /\ m.lease # NoLease
  BY <1>4, LeaseFields DEF Memory, Busy
<1> HIDE DEF m
<1>7. /\ worker' \in [Workers -> Memory]
      /\ \A v \in Workers : worker'[v].pc \in Busy <=> worker'[v].lease # NoLease
  BY <1>5, <1>6 DEF TypeOK
<1> QED
  BY <1>3, <1>7 DEF Claim, TypeOK, BatchInv, review

\* The steps of a worker that write no row.
LEMMA WorkerTyped ==
  ASSUME Typed, NEW w \in Workers
  PROVE  /\ NoWork(w) => Typed'
         /\ BeatCheck(w) \/ BeatRenew(w) \/ BeatFails(w) => Typed'
         /\ HandlerFails(w) \/ FailsAfterCommit(w) \/ HandlerDelegates(w) => Typed'
         /\ Settle(w) \/ CheckCancel(w) \/ WorkerAbandons(w) => Typed'
<1> USE DEF Typed
<1>0. worker[w] \in Memory
  BY DEF TypeOK
<1>a. ASSUME Incident \/ UNCHANGED incidents PROVE incidents' \in 0 .. MaxIncidents
  BY <1>a, IncidentsAssumption DEF Incident, TypeOK
<1>1. ASSUME NoWork(w) PROVE Typed'
  <2>1. worker' \in [Workers -> Memory]
        /\ \A v \in Workers : worker'[v].pc \in Busy <=> worker'[v].lease # NoLease
    BY <1>1, WorkerRests DEF NoWork
  <2> QED
    BY <1>1, <2>1 DEF NoWork, TypeOK, BatchInv, rows, review
<1>2. ASSUME BeatCheck(w) PROVE Typed'
  <2> DEFINE b == IF task[worker[w].lease.task].cancelRequested THEN "cancelled" ELSE "checked"
             m == [worker[w] EXCEPT !.beat = b]
  <2>b. b \in {"none", "waiting", "checked", "cancelled", "lost"}
    OBVIOUS
  <2>2. worker' = [worker EXCEPT ![w] = m]
    BY <1>2 DEF BeatCheck
  <2> HIDE DEF b
  <2>1. m \in Memory /\ m.lease = worker[w].lease /\ m.pc = worker[w].pc
    BY <1>0, <2>b, BeatChanged
  <2> HIDE DEF m
  <2>3. worker' \in [Workers -> Memory]
        /\ \A v \in Workers : worker'[v].pc \in Busy <=> worker'[v].lease # NoLease
    BY <2>1, <2>2, WorkerMoves
  <2> QED
    BY <1>2, <2>3 DEF BeatCheck, TypeOK, BatchInv, rows, review
<1>3. ASSUME BeatRenew(w) PROVE Typed'
  <2>1. worker[w].pc \in Busy
    BY <1>3 DEF BeatRenew, Busy
  <2>2. PICK b \in {"waiting", "lost"} : worker' = [worker EXCEPT ![w] = [@ EXCEPT !.beat = b]]
    BY <1>3 DEF BeatRenew
  <2> DEFINE m == [worker[w] EXCEPT !.beat = b]
  <2>3. m \in Memory /\ m.lease = worker[w].lease /\ m.pc = worker[w].pc
    BY <1>0, BeatChanged
  <2>4. worker' = [worker EXCEPT ![w] = m]
    BY <2>2
  <2> HIDE DEF m
  <2>5. worker' \in [Workers -> Memory]
        /\ \A v \in Workers : worker'[v].pc \in Busy <=> worker'[v].lease # NoLease
    BY <2>3, <2>4, WorkerMoves
  <2> DEFINE t == worker[w].lease.task
  <2>6. t \in Tasks /\ [task[t] EXCEPT !.expired = FALSE] \in Row
    BY <2>1, Leased, RowUpdate
  <2>7. task' \in [Tasks -> Row]
    BY <1>3, <2>6 DEF BeatRenew, TypeOK
  <2> QED
    BY <1>3, <2>5, <2>7 DEF BeatRenew, TypeOK, BatchInv, review
<1>4. ASSUME BeatFails(w) PROVE Typed'
  <2> DEFINE m == [worker[w] EXCEPT !.beat = "waiting"]
  <2>1. m \in Memory /\ m.lease = worker[w].lease /\ m.pc = worker[w].pc
    BY <1>0, BeatChanged
  <2>2. worker' = [worker EXCEPT ![w] = m]
    BY <1>4 DEF BeatFails
  <2> HIDE DEF m
  <2>3. worker' \in [Workers -> Memory]
        /\ \A v \in Workers : worker'[v].pc \in Busy <=> worker'[v].lease # NoLease
    BY <2>1, <2>2, WorkerMoves
  <2> QED
    BY <1>4, <2>3 DEF BeatFails, TypeOK, BatchInv, rows, review
<1>5. ASSUME NEW o \in {"committed", "error"} \cup Delegated, worker[w].pc \in Busy,
             worker' = [worker EXCEPT ![w] = [@ EXCEPT !.pc = "settling", !.outcome = o]]
      PROVE  worker' \in [Workers -> Memory]
             /\ \A v \in Workers : worker'[v].pc \in Busy <=> worker'[v].lease # NoLease
  <2> DEFINE m == [worker[w] EXCEPT !.pc = "settling", !.outcome = o]
  <2>1. m \in Memory /\ m.lease = worker[w].lease /\ m.pc \in Busy
    BY <1>0 DEF Memory, Busy
  <2> HIDE DEF m
  <2> QED  BY <1>5, <2>1, WorkerMoves DEF m
<1>6. ASSUME HandlerFails(w) PROVE Typed'
  <2>1. worker' \in [Workers -> Memory]
        /\ \A v \in Workers : worker'[v].pc \in Busy <=> worker'[v].lease # NoLease
    BY <1>5, <1>6 DEF HandlerFails, Busy
  <2> QED
    BY <1>a, <1>6, <2>1 DEF HandlerFails, TypeOK, BatchInv, rows, review
<1>7. ASSUME FailsAfterCommit(w) PROVE Typed'
  <2> DEFINE m == [worker[w] EXCEPT !.outcome = "error"]
  <2>1. m \in Memory /\ m.lease = worker[w].lease /\ m.pc = worker[w].pc
    BY <1>0, OutcomeChanged
  <2>2. worker' = [worker EXCEPT ![w] = m]
    BY <1>7 DEF FailsAfterCommit
  <2> HIDE DEF m
  <2>3. worker' \in [Workers -> Memory]
        /\ \A v \in Workers : worker'[v].pc \in Busy <=> worker'[v].lease # NoLease
    BY <2>1, <2>2, WorkerMoves
  <2> QED
    BY <1>a, <1>7, <2>3 DEF FailsAfterCommit, TypeOK, BatchInv, rows, review
<1>8. ASSUME HandlerDelegates(w) PROVE Typed'
  <2>1. PICK o \in Delegated :
          worker' = [worker EXCEPT ![w] = [@ EXCEPT !.pc = "settling", !.outcome = o]]
    BY <1>8 DEF HandlerDelegates
  <2>2. worker' \in [Workers -> Memory]
        /\ \A v \in Workers : worker'[v].pc \in Busy <=> worker'[v].lease # NoLease
    BY <1>5, <1>8, <2>1 DEF HandlerDelegates, Busy
  <2>3. incidents' \in 0 .. MaxIncidents
    BY <1>a, <1>8 DEF HandlerDelegates
  <2> QED
    BY <1>8, <2>2, <2>3 DEF HandlerDelegates, TypeOK, BatchInv, rows, review
<1>9. ASSUME Settle(w) \/ CheckCancel(w) PROVE Typed'
  <2>1. worker[w].pc \in Busy
    BY <1>9 DEF Settle, CheckCancel, Busy
  <2>2. \/ worker' = [worker EXCEPT ![w] = Resting("joined")]
        \/ \E pc \in {"cancelling", "pausing", "checking", "finishing"} :
              worker' = [worker EXCEPT ![w] = [@ EXCEPT !.pc = pc]]
    BY <1>9 DEF Settle, CheckCancel
  <2>3. worker' \in [Workers -> Memory]
        /\ \A v \in Workers : worker'[v].pc \in Busy <=> worker'[v].lease # NoLease
    <3>1. CASE worker' = [worker EXCEPT ![w] = Resting("joined")]
      BY <3>1, WorkerRests
    <3>2. ASSUME NEW pc \in {"cancelling", "pausing", "checking", "finishing"},
                 worker' = [worker EXCEPT ![w] = [@ EXCEPT !.pc = pc]]
          PROVE  worker' \in [Workers -> Memory]
                 /\ \A v \in Workers : worker'[v].pc \in Busy <=> worker'[v].lease # NoLease
      <4> DEFINE m == [worker[w] EXCEPT !.pc = pc]
      <4>1. m \in Memory /\ m.lease = worker[w].lease /\ m.pc \in Busy
        BY <1>0 DEF Memory, Busy
      <4> HIDE DEF m
      <4> QED  BY <2>1, <3>2, <4>1, WorkerMoves DEF m
    <3> QED  BY <2>2, <3>1, <3>2
  <2> QED
    BY <1>9, <2>3 DEF Settle, CheckCancel, TypeOK, BatchInv, rows, review
<1>10. ASSUME WorkerAbandons(w) PROVE Typed'
  <2>1. worker' \in [Workers -> Memory]
        /\ \A v \in Workers : worker'[v].pc \in Busy <=> worker'[v].lease # NoLease
    BY <1>10, WorkerRests DEF WorkerAbandons
  <2> QED
    BY <1>a, <1>10, <2>1 DEF WorkerAbandons, TypeOK, BatchInv, rows, review
<1> QED
  BY <1>1, <1>2, <1>3, <1>4, <1>6, <1>7, <1>8, <1>9, <1>10

LEMMA IdentifiedType ==
  ASSUME NEW list \in Seq(Attempt), NEW i, NEW x, EndingType(x)
  PROVE  Identified(list, i, x) \in Seq(Attempt)
<1>1. ASSUME i \in 1 .. Len(list) PROVE IdentifiedAttempt(list[i], x) \in Attempt
  <2>1. list[i] \in Attempt
    BY <1>1, ListItem
  <2> QED
    BY <2>1, AttemptUpdate DEF IdentifiedAttempt, EndingType, Closing
<1> QED
  BY <1>1, ListReplace DEF Identified

LEMMA NextCaseType ==
  ASSUME NEW c \in [id : Nat, active : BOOLEAN], NEW status
  PROVE  NextCase(c, status) \in [id : Nat, active : BOOLEAN]
<1>1. [id |-> c.id + 1, active |-> TRUE] \in [id : Nat, active : BOOLEAN]
  <2>1. c.id + 1 \in Nat
    OBVIOUS
  <2> QED  BY <2>1
<1>2. [c EXCEPT !.active = FALSE] \in [id : Nat, active : BOOLEAN]
  OBVIOUS
<1> QED
  BY <1>1, <1>2 DEF NextCase

LEMMA CommitTyped ==
  ASSUME Typed, NEW w \in Workers
  PROVE  /\ IdentificationCommit(w) => Typed'
         /\ OrganizationCommit(w) => Typed'
<1> USE DEF Typed
<1>0. worker[w] \in Memory
  BY DEF TypeOK
<1>1. ASSUME worker[w].pc \in Busy,
             worker' = [worker EXCEPT ![w] = [@ EXCEPT !.pc = "settling", !.outcome = "committed"]]
      PROVE  worker' \in [Workers -> Memory]
             /\ \A v \in Workers : worker'[v].pc \in Busy <=> worker'[v].lease # NoLease
  <2> DEFINE m == [worker[w] EXCEPT !.pc = "settling", !.outcome = "committed"]
  <2>1. m \in Memory /\ m.lease = worker[w].lease /\ m.pc \in Busy
    BY <1>0 DEF Memory, Busy
  <2> HIDE DEF m
  <2> QED  BY <1>1, <2>1, WorkerMoves DEF m
<1>2. ASSUME Incident \/ UNCHANGED incidents PROVE incidents' \in 0 .. MaxIncidents
  BY <1>2, IncidentsAssumption DEF Incident, TypeOK
<1>3. ASSUME IdentificationCommit(w) PROVE Typed'
  <2>1. worker[w].pc \in Busy
    BY <1>3 DEF IdentificationCommit, Busy
  <2>2. worker' \in [Workers -> Memory]
        /\ \A v \in Workers : worker'[v].pc \in Busy <=> worker'[v].lease # NoLease
    BY <1>1, <1>3, <2>1 DEF IdentificationCommit
  <2> DEFINE t == worker[w].lease.task
             i == worker[w].lease.attempt
             list(x) == Identified(attempts[t], i, x)
  <2>3. t \in Tasks /\ task[t] \in Row /\ attempts[t] \in Seq(Attempt)
    BY <2>1, Leased
  <2>4. PICK x \in IdentificationOutcomes :
          /\ IF x.retry = "none" THEN UNCHANGED incidents ELSE Incident
          /\ task' = [task EXCEPT ![t] = FinishedRow(task[t], x)]
          /\ attempts' = [attempts EXCEPT ![t] = list(x)]
          /\ reviewCase' = [reviewCase EXCEPT ![t] = NextCase(reviewCase[t], x.status)]
          /\ Announce(t, x.status, x.stage, FALSE, x.reason)
    BY <1>3, <2>3 DEF IdentificationCommit
  <2>5. EndingType(x)
    BY IdentificationEndings
  <2>6. FinishedRow(task[t], x) \in Row /\ list(x) \in Seq(Attempt)
    <3> HIDE DEF t, i
    <3>1. list(x) \in Seq(Attempt)
      BY <2>3, <2>5, IdentifiedType
    <3> QED  BY <2>3, <2>5, <3>1, FinishedRowType DEF EndingType
  <2>7. NextCase(reviewCase[t], x.status) \in [id : Nat, active : BOOLEAN]
    <3>1. reviewCase[t] \in [id : Nat, active : BOOLEAN]
      BY <2>3 DEF TypeOK
    <3> QED  BY <3>1, NextCaseType
  <2> HIDE DEF t, list
  <2>8. /\ task' \in [Tasks -> Row] /\ attempts' \in [Tasks -> Seq(Attempt)]
        /\ event' \in [Tasks -> StateEvent]
    BY <2>3, <2>4, <2>5, <2>6, WriteTask DEF EndingType, Closing
  <2>9. reviewCase' \in [Tasks -> [id : Nat, active : BOOLEAN]]
    BY <2>3, <2>4, <2>7 DEF TypeOK
  <2>10. incidents' \in 0 .. MaxIncidents
    BY <1>2, <2>4
  <2> QED
    BY <1>3, <2>2, <2>8, <2>9, <2>10 DEF IdentificationCommit, TypeOK, BatchInv
<1>4. ASSUME OrganizationCommit(w) PROVE Typed'
  <2>1. worker[w].pc \in Busy
    BY <1>4 DEF OrganizationCommit, Busy
  <2>2. worker' \in [Workers -> Memory]
        /\ \A v \in Workers : worker'[v].pc \in Busy <=> worker'[v].lease # NoLease
    BY <1>1, <1>4, <2>1 DEF OrganizationCommit
  <2> DEFINE t == worker[w].lease.task
             i == worker[w].lease.attempt
  <2>3. t \in Tasks /\ task[t] \in Row /\ attempts[t] \in Seq(Attempt)
    BY <2>1, Leased
  <2>4. PICK x0 \in Moves(worker[w].lease.stage) :
          /\ IF x0.retry = "none" THEN UNCHANGED incidents ELSE Incident
          /\ task' = [task EXCEPT ![t] = MovedRow(task[t], Decide(task[t], x0))]
          /\ attempts' = [attempts EXCEPT ![t] =
               MovedAttempts(attempts[t], i, Decide(task[t], x0))]
          /\ Announce(t, Decide(task[t], x0).status, Decide(task[t], x0).stage, FALSE,
                      Decide(task[t], x0).reason)
    BY <1>4, <2>3 DEF OrganizationCommit
  <2> DEFINE x == Decide(task[t], x0)
  <2>5. Moving(x) /\ Closing(x)
    BY <2>3, MovesAreMoving, DecidedMove DEF Moving
  <2>6. MovedRow(task[t], x) \in Row /\ MovedAttempts(attempts[t], i, x) \in Seq(Attempt)
    BY <2>3, <2>5, MovedRowType, MovedAttemptsType
  <2>7. /\ task' = [task EXCEPT ![t] = MovedRow(task[t], x)]
        /\ attempts' = [attempts EXCEPT ![t] = MovedAttempts(attempts[t], i, x)]
        /\ Announce(t, x.status, x.stage, FALSE, x.reason)
    BY <2>4
  <2> HIDE DEF t, i, x
  <2>8. /\ task' \in [Tasks -> Row] /\ attempts' \in [Tasks -> Seq(Attempt)]
        /\ event' \in [Tasks -> StateEvent]
    BY <2>3, <2>5, <2>6, <2>7, WriteTask DEF Closing
  <2>9. incidents' \in 0 .. MaxIncidents
    BY <1>2, <2>4
  <2> QED
    BY <1>4, <2>2, <2>8, <2>9 DEF OrganizationCommit, TypeOK, BatchInv, review
<1> QED
  BY <1>3, <1>4

LEMMA FinishTyped ==
  ASSUME Typed, NEW w \in Workers
  PROVE  FinishCancelled(w) \/ FinishStageFailed(w) \/ FinishOutcome(w) => Typed'
<1> USE DEF Typed
<1>1. ASSUME worker[w].pc \in Busy
      PROVE  \A status \in Statuses, checkpoint \in Checkpoints, reason \in Reasons,
                retry \in {"none", "pending", "due"}, attempt \in AttemptStatuses,
                failure \in Failures :
               EndingType(Ending(status, worker[w].lease.stage, checkpoint, reason, retry,
                                 attempt, failure))
  BY <1>1, Leased DEF Ending, EndingType, Closing
<1>2. ASSUME worker[w].pc \in Busy, worker' = [worker EXCEPT ![w] = Resting("joined")],
             UNCHANGED <<binding, review, runtime, incidents>>,
             \/ UNCHANGED rows
             \/ \E x : EndingType(x) /\ FinishTerminal(w, x)
             \/ FinishIdentificationComplete(w)
      PROVE  Typed'
  <2>1. worker' \in [Workers -> Memory]
        /\ \A v \in Workers : worker'[v].pc \in Busy <=> worker'[v].lease # NoLease
    BY <1>2, WorkerRests
  <2>2. /\ task' \in [Tasks -> Row] /\ attempts' \in [Tasks -> Seq(Attempt)]
        /\ event' \in [Tasks -> StateEvent]
    <3>1. CASE UNCHANGED rows
      BY <3>1 DEF rows, TypeOK
    <3>2. ASSUME NEW x, EndingType(x), FinishTerminal(w, x)
          PROVE  /\ task' \in [Tasks -> Row] /\ attempts' \in [Tasks -> Seq(Attempt)]
                 /\ event' \in [Tasks -> StateEvent]
      BY <1>2, <3>2, FinishTerminalTyped
    <3>3. CASE FinishIdentificationComplete(w) /\ Holds(w)
      <4> DEFINE t == worker[w].lease.task
                 list == Identified(attempts[t], worker[w].lease.attempt, Confirmed)
      <4>1. t \in Tasks /\ task[t] \in Row /\ attempts[t] \in Seq(Attempt)
        BY <1>2, Leased
      <4>2. EndingType(Confirmed)
        BY IdentificationEndings DEF IdentificationOutcomes
      <4>3. FinishedRow(task[t], Confirmed) \in Row /\ list \in Seq(Attempt)
        BY <4>1, <4>2, FinishedRowType, IdentifiedType DEF EndingType
      <4>4. /\ task' = [task EXCEPT ![t] = FinishedRow(task[t], Confirmed)]
            /\ attempts' = [attempts EXCEPT ![t] = list]
            /\ Announce(t, "queued", "planning", FALSE, "identification")
        BY <3>3 DEF FinishIdentificationComplete
      <4> HIDE DEF t, list
      <4>5. "queued" \in Statuses /\ "planning" \in Stages /\ "identification" \in Reasons
        BY DEF Statuses, Stages, Reasons
      <4> QED
        BY <4>1, <4>3, <4>4, <4>5, WriteTask
    <3>4. CASE FinishIdentificationComplete(w) /\ ~Holds(w)
      BY <3>4 DEF FinishIdentificationComplete, rows, TypeOK
    <3> QED  BY <1>2, <3>1, <3>2, <3>3, <3>4
  <2> QED
    BY <1>2, <2>1, <2>2 DEF TypeOK, BatchInv, review
<1>3. ASSUME FinishCancelled(w) PROVE Typed'
  <2>1. worker[w].pc \in Busy
    BY <1>3 DEF FinishCancelled, Busy
  <2> DEFINE x == Ending("cancelled", worker[w].lease.stage, "cancelled", "none", "none",
                         "cancelled", "none")
  <2>2. EndingType(x)
    <3>1. /\ "cancelled" \in Statuses /\ "cancelled" \in Checkpoints
          /\ "none" \in Reasons /\ "cancelled" \in AttemptStatuses /\ "none" \in Failures
      BY DEF Statuses, Checkpoints, Reasons, AttemptStatuses, Failures
    <3> QED  BY <1>1, <2>1, <3>1
  <2> HIDE DEF x
  <2>3. FinishTerminal(w, x)
    BY <1>3 DEF FinishCancelled, x
  <2> QED
    BY <1>2, <1>3, <2>1, <2>2, <2>3 DEF FinishCancelled
<1>4. ASSUME FinishStageFailed(w) PROVE Typed'
  <2>1. worker[w].pc \in Busy
    BY <1>4 DEF FinishStageFailed, Busy
  <2> DEFINE x == Ending("paused", worker[w].lease.stage, worker[w].lease.checkpoint, "none",
                         "pending", "failed", "stage-failed")
  <2>2. EndingType(x)
    <3>1. /\ "paused" \in Statuses /\ "none" \in Reasons
          /\ "failed" \in AttemptStatuses /\ "stage-failed" \in Failures
          /\ worker[w].lease.checkpoint \in Checkpoints
      BY <2>1, Leased DEF Statuses, Reasons, AttemptStatuses, Failures
    <3> QED  BY <1>1, <2>1, <3>1
  <2> HIDE DEF x
  <2>3. FinishTerminal(w, x)
    BY <1>4 DEF FinishStageFailed, x
  <2> QED
    BY <1>2, <1>4, <2>1, <2>2, <2>3 DEF FinishStageFailed
<1>5. ASSUME FinishOutcome(w) PROVE Typed'
  <2>1. worker[w].pc \in Busy
    BY <1>5 DEF FinishOutcome, Busy
  <2> DEFINE x == Ending("paused", worker[w].lease.stage, "dependency-blocked", "provider",
                         "pending", "failed", "stage-failed")
  <2>2. EndingType(x)
    <3>1. /\ "paused" \in Statuses /\ "dependency-blocked" \in Checkpoints
          /\ "provider" \in Reasons /\ "failed" \in AttemptStatuses
          /\ "stage-failed" \in Failures
      BY DEF Statuses, Checkpoints, Reasons, AttemptStatuses, Failures
    <3> QED  BY <1>1, <2>1, <3>1
  <2> HIDE DEF x
  <2>3. EndingType(NeedsReview)
    BY IdentificationEndings DEF IdentificationOutcomes
  <2>4. \/ FinishIdentificationComplete(w)
        \/ FinishTerminal(w, NeedsReview)
        \/ FinishTerminal(w, x)
    BY <1>5 DEF FinishOutcome, x
  <2> QED
    BY <1>2, <1>5, <2>1, <2>2, <2>3, <2>4 DEF FinishOutcome
<1> QED
  BY <1>3, <1>4, <1>5

LEMMA DispatchTyped ==
  ASSUME Typed, Dispatch
  PROVE  Typed'
<1> USE DEF Typed
<1>0. /\ runtime \in Place /\ runtime.left \in Nat /\ runtime.phase \in {"boot", "dispatch"}
      /\ queue \in Seq(Decisions) /\ Len(queue) \in Nat
  BY DEF Dispatch, DispatchFetch, DispatchApply, DispatchRefused, DispatchAudit, DispatchMark,
         Dispatching, TypeOK, Place
<1>1. ASSUME DispatchFetch PROVE Typed'
  <2>1. runtime' = [runtime EXCEPT !.left = Len(queue),
                                   !.step = IF queue = <<>> THEN "done" ELSE "apply"]
    BY <1>1 DEF DispatchFetch
  <2>2. runtime' \in Place
    BY <1>0, <2>1 DEF Place
  <2>3. runtime'.left = Len(queue) /\ (runtime'.step # "done" => Len(queue) > 0)
    BY <1>0, <2>1 DEF Place
  <2>4. runtime'.step \in {"done", "apply"} /\ (runtime'.step = "apply" => Len(queue) \in 1 .. Len(queue))
    BY <1>0, <2>1, <2>3 DEF Place
  <2> QED
    BY <1>1, <2>2, <2>3, <2>4 DEF DispatchFetch, TypeOK, BatchInv, rows, review
<1>2. ASSUME Dispatching("apply") \/ Dispatching("audit") \/ Dispatching("mark")
      PROVE  /\ runtime.left \in 1 .. Len(queue) /\ Len(queue) > 0
             /\ Head(queue) \in Decisions /\ decision[Head(queue)].task \in Tasks
             /\ Tail(queue) \in Seq(Decisions) /\ Len(Tail(queue)) = Len(queue) - 1
             /\ \A i \in 1 .. Len(Tail(queue)) : Tail(queue)[i] = queue[i + 1]
  <2>1. runtime.left \in 1 .. Len(queue)
    BY <1>2 DEF Dispatching, BatchInv
  <2>2. Len(queue) > 0 /\ queue # <<>> /\ Head(queue) = queue[1]
    BY <1>0, <2>1
  <2>3. decision[queue[1]].task \in Tasks /\ queue[1] \in Decisions
    BY <1>0, <2>2 DEF BatchInv
  <2> QED  BY <1>0, <2>1, <2>2, <2>3
<1>3. ASSUME DispatchApply PROVE Typed'
  <2> DEFINE d == Head(queue)  t == decision[d].task  r == DecidedRow(task[t], d)
             list == Append(Superseded(attempts[t], task[t].current),
                            NewAttempt("manual-retry", "queued", r.stage))
  <2>1. /\ runtime.left \in 1 .. Len(queue) /\ d \in Decisions /\ t \in Tasks
    BY <1>2, <1>3 DEF DispatchApply
  <2>2. /\ task' \in [Tasks -> Row] /\ attempts' \in [Tasks -> Seq(Attempt)]
        /\ event' \in [Tasks -> StateEvent] /\ receipts' \in SUBSET Decisions
    <3>1. CASE Applied(d)
      BY <1>3, <3>1 DEF DispatchApply, rows, TypeOK
    <3>2. CASE ~Applied(d)
      <4>1. task[t] \in Row /\ attempts[t] \in Seq(Attempt) /\ r \in Row
        BY <2>1, DecidedRowType DEF TypeOK
      <4>2. r.stage \in Stages
        BY <4>1, RowFields
      <4>3. NewAttempt("manual-retry", "queued", r.stage) \in Attempt
        BY <4>2, NewAttemptType DEF AttemptReasons, AttemptStatuses
      <4>4. Superseded(attempts[t], task[t].current) \in Seq(Attempt)
        BY <4>1, SupersededType
      <4>6. list \in Seq(Attempt)
        BY <4>3, <4>4
      <4>7. ApplyAwaited(t, d)
        BY <1>3, <3>2 DEF DispatchApply
      <4>8. /\ task' = [task EXCEPT ![t] = r] /\ receipts' = receipts \cup {d}
            /\ Announce(t, "queued", r.stage, FALSE, "none")
        BY <4>7 DEF ApplyAwaited
      <4>9. attempts' = [attempts EXCEPT ![t] = list]
        BY <4>7 DEF ApplyAwaited
      <4>10. /\ "queued" \in Statuses /\ "none" \in Reasons /\ r.stage \in Stages
        BY <4>2 DEF Statuses, Reasons
      <4> HIDE DEF d, t, r, list
      <4> QED
        BY <2>1, <4>1, <4>6, <4>8, <4>9, <4>10, WriteTask DEF TypeOK
    <3> QED  BY <3>1, <3>2
  <2>3. runtime' \in Place /\ runtime'.left = runtime.left
    BY <1>0, <1>3 DEF DispatchApply, Place
  <2> QED
    BY <1>3, <2>1, <2>2, <2>3 DEF DispatchApply, TypeOK, BatchInv
<1>4. ASSUME DispatchRefused PROVE Typed'
  <2>1. runtime' \in Place /\ runtime'.step \in {"fetch", "done"}
    BY <1>4 DEF DispatchRefused, Place
  <2> QED
    BY <1>4, <2>1 DEF DispatchRefused, TypeOK, BatchInv, rows, review
<1>5. ASSUME DispatchAudit PROVE Typed'
  <2>1. /\ runtime.left \in 1 .. Len(queue) /\ Head(queue) \in Decisions
    BY <1>2, <1>5 DEF DispatchAudit
  <2>2. runtime' \in Place /\ runtime'.left = runtime.left
    BY <1>0, <1>5 DEF DispatchAudit, Place
  <2> QED
    BY <1>5, <2>1, <2>2 DEF DispatchAudit, TypeOK, BatchInv, rows
<1>6. ASSUME DispatchMark PROVE Typed'
  <2>1. /\ runtime.left \in 1 .. Len(queue) /\ Len(queue) > 0
        /\ Tail(queue) \in Seq(Decisions) /\ Len(Tail(queue)) = Len(queue) - 1
        /\ \A i \in 1 .. Len(Tail(queue)) : Tail(queue)[i] = queue[i + 1]
    BY <1>2, <1>6 DEF DispatchMark
  <2>2. runtime' = [runtime EXCEPT !.left = runtime.left - 1,
                                   !.step = IF runtime.left = 1 THEN "done" ELSE "apply"]
    BY <1>6 DEF DispatchMark
  <2>3. runtime' \in Place
    <3>1. runtime.left - 1 \in Nat
      BY <1>0, <2>1
    <3> QED  BY <1>0, <2>2, <3>1 DEF Place
  <2>4. runtime'.step \in {"done", "apply"}
        /\ (runtime'.step = "apply" => runtime'.left \in 1 .. Len(Tail(queue)))
    BY <1>0, <2>1, <2>2 DEF Place
  <2>5. \A i \in 1 .. Len(Tail(queue)) : decision[Tail(queue)[i]].task \in Tasks
    BY <1>0, <2>1 DEF BatchInv
  <2> QED
    BY <1>6, <2>1, <2>3, <2>4, <2>5 DEF DispatchMark, TypeOK, BatchInv, rows
<1> QED
  BY <1>1, <1>3, <1>4, <1>5, <1>6 DEF Dispatch

LEMMA RuntimeTyped ==
  ASSUME Typed
  PROVE  /\ Boot \/ StartServing \/ StartRound \/ EndRound \/ Crash => Typed'
         /\ ReclaimExpired => Typed'
<1> USE DEF Typed
<1>1. \A phase \in {"down", "recover", "boot", "dispatch", "work"} :
        At(phase) \in Place /\ At(phase).step = "fetch"
  BY DEF At, Place
<1>2. \A pc \in {"ready", "joined"} :
        /\ Resting(pc) \in Memory /\ Resting(pc).pc \notin Busy
        /\ Resting(pc).lease = NoLease
  BY MemoryFields DEF Resting, Busy
<1>3. ASSUME Boot \/ StartServing \/ EndRound PROVE Typed'
  BY <1>1, <1>3 DEF Boot, StartServing, EndRound, TypeOK, BatchInv, rows, review
<1>4. ASSUME StartRound PROVE Typed'
  <2>1. worker' = [w \in Workers |-> Resting("ready")]
    BY <1>4 DEF StartRound
  <2>2. worker' \in [Workers -> Memory]
        /\ \A v \in Workers : worker'[v].pc \in Busy <=> worker'[v].lease # NoLease
    BY <1>2, <2>1
  <2> QED
    BY <1>1, <1>4, <2>2 DEF StartRound, TypeOK, BatchInv, rows, review
<1>5. ASSUME Crash PROVE Typed'
  <2>1. worker' = [w \in Workers |-> Resting("joined")]
    BY <1>5 DEF Crash
  <2>2. worker' \in [Workers -> Memory]
        /\ \A v \in Workers : worker'[v].pc \in Busy <=> worker'[v].lease # NoLease
    BY <1>2, <2>1
  <2>3. incidents' \in 0 .. MaxIncidents
    BY <1>5, IncidentsAssumption DEF Crash, Incident, TypeOK
  <2> QED
    BY <1>1, <1>5, <2>2, <2>3 DEF Crash, TypeOK, BatchInv, rows, review
<1>6. ASSUME ReclaimExpired PROVE Typed'
  <2> DEFINE list(t) == Append(Close(attempts[t], task[t].current, "failed", "lease-lost"),
                               NewAttempt("lease-recovery", "queued", task[t].stage))
             said(t) == [status |-> "queued", stage |-> task[t].stage, recovering |-> TRUE,
                         reason |-> "none"]
  <2>1. ASSUME NEW t \in Tasks
        PROVE  /\ task[t] \in Row /\ RecoveringRow(task[t]) \in Row
               /\ attempts[t] \in Seq(Attempt) /\ list(t) \in Seq(Attempt)
               /\ event[t] \in StateEvent /\ said(t) \in StateEvent
    <3>1. /\ task[t] \in Row /\ attempts[t] \in Seq(Attempt) /\ event[t] \in StateEvent
      BY DEF TypeOK
    <3>2. task[t].stage \in Stages
      BY <3>1, RowFields
    <3>3. Close(attempts[t], task[t].current, "failed", "lease-lost") \in Seq(Attempt)
      BY <3>1, CloseType DEF AttemptStatuses, Failures
    <3>4. NewAttempt("lease-recovery", "queued", task[t].stage) \in Attempt
      BY <3>2, NewAttemptType DEF AttemptReasons, AttemptStatuses
    <3>5. list(t) \in Seq(Attempt)
      BY <3>3, <3>4
    <3>6. said(t) \in StateEvent
      BY <3>2 DEF StateEvent, Statuses, Reasons
    <3> QED  BY <3>1, <3>5, <3>6, RecoveringRowType
  <2>2. /\ task' = [t \in Tasks |-> IF Lapsed(t) THEN RecoveringRow(task[t]) ELSE task[t]]
        /\ attempts' = [t \in Tasks |-> IF ~Lapsed(t) THEN attempts[t] ELSE list(t)]
        /\ event' = [t \in Tasks |-> IF ~Lapsed(t) THEN event[t] ELSE said(t)]
    BY <1>6 DEF ReclaimExpired
  <2> HIDE DEF list, said
  <2>3. /\ task' \in [Tasks -> Row] /\ attempts' \in [Tasks -> Seq(Attempt)]
        /\ event' \in [Tasks -> StateEvent]
    BY <2>1, <2>2
  <2> QED
    BY <1>1, <1>6, <2>3 DEF ReclaimExpired, TypeOK, BatchInv, review
<1> QED
  BY <1>3, <1>4, <1>5, <1>6

LEMMA NextTyped == Typed /\ [Next]_vars => Typed'
<1> SUFFICES ASSUME Typed, [Next]_vars PROVE Typed'
  OBVIOUS
<1>1. CASE UNCHANGED vars
  BY <1>1 DEF vars, rows, review, Typed, TypeOK, BatchInv
<1>2. CASE Next
  <2>1. ASSUME NEW t \in Tasks, EnsureRevision(t) \/ RetryDue(t) \/ LeaseExpires(t)
        PROVE  Typed'
    BY <2>1, RequestsTyped
  <2>2. ASSUME NEW t \in Tasks, NEW k \in Keys, Retry(t, k) \/ Cancel(t, k) PROVE Typed'
    BY <2>2, RequestsTyped
  <2>3. ASSUME NEW t \in Tasks, NEW d \in Decisions, NEW kind \in {"reidentify", "planning"},
               AcceptDecision(d, t, kind)
        PROVE  Typed'
    BY <2>3, RequestsTyped
  <2>4. ASSUME UpdateProvider PROVE Typed'
    <3>1. PICK t \in Tasks : TRUE
      BY <2>4 DEF UpdateProvider
    <3> QED  BY <2>4, <3>1, RequestsTyped
  <2>5. ASSUME NEW w \in Workers,
               \/ Claim(w) \/ NoWork(w)
               \/ BeatCheck(w) \/ BeatRenew(w) \/ BeatFails(w)
               \/ HandlerReturns(w) \/ FailsAfterCommit(w)
               \/ WorkerCloses(w) \/ WorkerAbandons(w)
        PROVE  Typed'
    BY <2>5, ClaimTyped, WorkerTyped, CommitTyped, FinishTyped DEF HandlerReturns, WorkerCloses
  <2>6. ASSUME Dispatch PROVE Typed'
    BY <2>6, DispatchTyped
  <2>7. ASSUME Boot \/ ReclaimExpired \/ StartServing \/ StartRound \/ EndRound \/ Crash
        PROVE  Typed'
    BY <2>7, RuntimeTyped
  <2> QED
    BY <1>2, <2>1, <2>2, <2>3, <2>4, <2>5, <2>6, <2>7 DEF Next
<1> QED
  BY <1>1, <1>2

\* Every variable has its type in every reachable state, and the coordinator's batch
\* counter never runs past the queue.
THEOREM TypesHold == Spec => []TypeOK
<1>1. Spec => []Typed
  BY InitTyped, NextTyped, PTL DEF Spec
<1>2. Typed => TypeOK
  BY DEF Typed
<1> QED
  BY <1>1, <1>2, PTL

-----------------------------------------------------------------------------
(***************************************************************************)
(* The ledger and the snapshots.  Neither is inductive alone: a worker that *)
(* finishes closes the attempt its snapshot names, so the ledger needs the  *)
(* snapshot to name the current one, and the snapshot is only that of the   *)
(* current attempt because versions never come back.                        *)
(***************************************************************************)

Open == {"queued", "running"}

\* AttemptLedger for one row and its list.
LedgerOf(r, list) ==
    /\ r.attemptCount = Len(list)
    /\ r.current = Len(list)
    /\ r.status = "absent" <=> Len(list) = 0
    /\ \A i \in 1 .. Len(list) : list[i].status \in Open => i = Len(list)
    /\ Len(list) > 0 =>
        /\ list[Len(list)].status = "queued" <=> r.status = "queued"
        /\ list[Len(list)].status = "running" <=> r.status = "running"
        /\ list[Len(list)].stage = r.stage
    /\ r.owner # NoOwner <=> r.status = "running"
    /\ r.expired \/ r.cancelRequested => r.status = "running"

\* What a ledger says of the attempt its row points to.
LEMMA LedgerCurrent ==
  ASSUME NEW r, NEW list \in Seq(Attempt), LedgerOf(r, list), r.status # "absent"
  PROVE  /\ r.attemptCount = Len(list) /\ r.current = Len(list) /\ Len(list) > 0
         /\ r.status = "running" => list[r.current].status = "running"
<1>1. r.current = Len(list) /\ Len(list) \in Nat /\ Len(list) # 0 /\ r.attemptCount = Len(list)
  BY DEF LedgerOf
<1>2. Len(list) > 0
  BY <1>1
<1>3. list[Len(list)].status = "running" <=> r.status = "running"
  BY <1>2 DEF LedgerOf
<1> QED
  BY <1>1, <1>2, <1>3

LEMMA LedgerIsPerTask ==
  AttemptLedger <=> \A t \in Tasks : LedgerOf(task[t], attempts[t])
BY DEF AttemptLedger, LedgerOf, Open

\* What a snapshot keeps of a row that may have moved on.
Fits(l, r) ==
    /\ l.version <= r.version
    /\ (r.status = "running" /\ r.version = l.version) =>
          l.stage = r.stage /\ l.checkpoint = r.checkpoint /\ l.attempt = r.current

\* (The version of a row that is not there yet is 0: no snapshot is older.)
LeaseInv ==
    /\ \A w \in Workers :
          worker[w].lease # NoLease => Fits(worker[w].lease, task[worker[w].lease.task])
    /\ \A t \in Tasks : task[t].status = "absent" => task[t].version = 0

\* Only an identification handler leaves its outcome to the worker.
DelegationInv ==
    \A w \in Workers :
        worker[w].outcome \in Delegated => worker[w].lease.stage = "identification"

IInv == Typed /\ AttemptLedger /\ LeaseInv /\ DelegationInv

\* How a row may change under the snapshots that were taken of it.
Succeeds(r, s) ==
    /\ r.version <= s.version
    /\ (s.status = "running" /\ s.version = r.version) =>
          /\ r.status = "running"
          /\ s.stage = r.stage /\ s.checkpoint = r.checkpoint /\ s.current = r.current
    /\ s.status = "absent" => r.status = "absent" /\ s.version = r.version

LEMMA SuccessorFits ==
  ASSUME NEW l \in Lease, NEW r \in Row, NEW s \in Row, Fits(l, r), Succeeds(r, s)
  PROVE  Fits(l, s)
<1>1. l.version \in Nat /\ r.version \in Nat /\ s.version \in Nat
  BY LeaseFields, RowFields
<1> QED
  BY <1>1 DEF Fits, Succeeds

\* The current attempt changes with its row.
LEMMA LedgerReplace ==
  ASSUME NEW r \in Row, NEW list \in Seq(Attempt), LedgerOf(r, list), r.status # "absent",
         NEW s \in Row, NEW a,
         s.attemptCount = r.attemptCount, s.current = r.current, s.status # "absent",
         a.status = "queued" <=> s.status = "queued",
         a.status = "running" <=> s.status = "running",
         a.stage = s.stage,
         s.owner # NoOwner <=> s.status = "running",
         s.expired \/ s.cancelRequested => s.status = "running"
  PROVE  LedgerOf(s, [list EXCEPT ![r.current] = a])
<1> DEFINE n == Len(list)  new == [list EXCEPT ![r.current] = a]
<1>1. n \in Nat /\ n > 0 /\ r.current = n
  BY DEF LedgerOf
<1>2. Len(new) = n /\ new[n] = a /\ \A i \in 1 .. n : i # n => new[i] = list[i]
  BY <1>1
<1>3. \A i \in 1 .. n : list[i].status \in Open => i = n
  BY DEF LedgerOf
<1> HIDE DEF new
<1>4. \A i \in 1 .. Len(new) : new[i].status \in Open => i = Len(new)
  BY <1>2, <1>3
<1>5. s.attemptCount = n /\ s.current = n
  BY <1>1 DEF LedgerOf
<1> QED
  BY <1>1, <1>2, <1>4, <1>5 DEF LedgerOf, new

Closed(list) == \A i \in 1 .. Len(list) : list[i].status \notin Open

\* A new attempt is appended to a list without an open one.
LEMMA LedgerAppend ==
  ASSUME NEW list \in Seq(Attempt), Closed(list), NEW s \in Row, NEW a \in Attempt,
         s.attemptCount = Len(list) + 1, s.current = Len(list) + 1, s.status # "absent",
         a.status = "queued" <=> s.status = "queued",
         a.status = "running" <=> s.status = "running",
         a.stage = s.stage,
         s.owner # NoOwner <=> s.status = "running",
         s.expired \/ s.cancelRequested => s.status = "running"
  PROVE  LedgerOf(s, Append(list, a))
<1> DEFINE n == Len(list)  new == Append(list, a)
<1>1. n \in Nat /\ Len(new) = n + 1 /\ new[n + 1] = a /\ \A i \in 1 .. n : new[i] = list[i]
  OBVIOUS
<1> HIDE DEF new
<1>2. \A i \in 1 .. Len(new) : new[i].status \in Open => i = Len(new)
  <2> SUFFICES ASSUME NEW i \in 1 .. Len(new), i # Len(new) PROVE new[i].status \notin Open
    OBVIOUS
  <2>1. i \in 1 .. n /\ new[i] = list[i]
    BY <1>1
  <2> QED  BY <2>1 DEF Closed
<1> QED
  BY <1>1, <1>2 DEF LedgerOf, new

\* The attempts stay, and the row changes in nothing the ledger looks at.
LEMMA LedgerKeep ==
  ASSUME NEW r \in Row, NEW list \in Seq(Attempt), LedgerOf(r, list), NEW s \in Row,
         s.attemptCount = r.attemptCount, s.current = r.current, s.stage = r.stage,
         \/ s.status = r.status
         \/ r.status \notin Open \cup {"absent"} /\ s.status \notin Open \cup {"absent"},
         s.owner # NoOwner <=> s.status = "running",
         s.expired \/ s.cancelRequested => s.status = "running"
  PROVE  LedgerOf(s, list)
BY DEF LedgerOf, Open

\* A task that rests has no open attempt, and one whose lease lapsed has none once the
\* attempt that lost it is closed.
LEMMA RestingClosed ==
  ASSUME NEW r \in Row, NEW list \in Seq(Attempt), LedgerOf(r, list), r.status \notin Open
  PROVE  Closed(list)
<1> SUFFICES ASSUME NEW i \in 1 .. Len(list), list[i].status \in Open PROVE FALSE
  BY DEF Closed
<1>1. i = Len(list) /\ Len(list) > 0
  BY DEF LedgerOf
<1> QED
  BY <1>1 DEF LedgerOf, Open

LEMMA LostClosed ==
  ASSUME NEW r \in Row, NEW list \in Seq(Attempt), LedgerOf(r, list), r.status = "running"
  PROVE  /\ Closed(Close(list, r.current, "failed", "lease-lost"))
         /\ Len(Close(list, r.current, "failed", "lease-lost")) = Len(list)
<1> DEFINE n == Len(list)
           a == [list[n] EXCEPT !.status = "failed", !.failure = "lease-lost"]
           new == [list EXCEPT ![n] = a]
<1>1. n \in Nat /\ n > 0 /\ r.current = n /\ list[n].status = "running" /\ list[n] \in Attempt
  BY DEF LedgerOf
<1>2. a.status = "failed"
  BY <1>1 DEF Attempt
<1>3. Close(list, r.current, "failed", "lease-lost") = new
  BY <1>1 DEF Close
<1> HIDE DEF a
<1>4. Len(new) = n /\ new[n] = a /\ \A i \in 1 .. n : i # n => new[i] = list[i]
  BY <1>1
<1> HIDE DEF new
<1>5. Closed(new)
  BY <1>2, <1>4 DEF Closed, LedgerOf, Open
<1> QED
  BY <1>3, <1>4, <1>5

\* A step keeps the ledger and the snapshots when it does so for every row, and hands
\* out no lease.
LEMMA KeepsBoth ==
  ASSUME TypeOK, LeaseInv, TypeOK',
         \A t \in Tasks : LedgerOf(task'[t], attempts'[t]) /\ Succeeds(task[t], task'[t]),
         \A w \in Workers : worker'[w].lease = NoLease \/ worker'[w].lease = worker[w].lease
  PROVE  AttemptLedger' /\ LeaseInv'
<1>1. AttemptLedger'
  BY DEF AttemptLedger, LedgerOf, Open
<1>2. ASSUME NEW w \in Workers, worker'[w].lease # NoLease
      PROVE  Fits(worker'[w].lease, task'[worker'[w].lease.task])
  <2> DEFINE l == worker[w].lease
  <2>1. worker'[w].lease = l /\ l # NoLease /\ l \in Lease
    BY <1>2, MemoryFields DEF TypeOK
  <2>2. l.task \in Tasks
    BY <2>1, LeaseFields
  <2>3. task[l.task] \in Row /\ task'[l.task] \in Row
    BY <2>2 DEF TypeOK
  <2>4. Fits(l, task[l.task]) /\ Succeeds(task[l.task], task'[l.task])
    BY <2>1, <2>2 DEF LeaseInv
  <2> QED
    BY <2>1, <2>3, <2>4, SuccessorFits
<1>3. ASSUME NEW t \in Tasks, task'[t].status = "absent" PROVE task'[t].version = 0
  BY <1>3 DEF LeaseInv, Succeeds
<1> QED
  BY <1>1, <1>2, <1>3 DEF LeaseInv

LEMMA Stutters ==
  ASSUME TypeOK, AttemptLedger
  PROVE  \A t \in Tasks : LedgerOf(task[t], attempts[t]) /\ Succeeds(task[t], task[t])
BY LedgerIsPerTask, RowFields DEF Succeeds, TypeOK

\* The same for a step that writes one task.
LEMMA KeepsBothOne ==
  ASSUME IInv, TypeOK', NEW t \in Tasks, NEW r, NEW list,
         LedgerOf(r, list), Succeeds(task[t], r),
         task' = [task EXCEPT ![t] = r], attempts' = [attempts EXCEPT ![t] = list],
         \A w \in Workers : worker'[w].lease = NoLease \/ worker'[w].lease = worker[w].lease
  PROVE  AttemptLedger' /\ LeaseInv'
<1>1. TypeOK /\ AttemptLedger /\ LeaseInv
  BY DEF IInv, Typed
<1>2. \A u \in Tasks : LedgerOf(task'[u], attempts'[u]) /\ Succeeds(task[u], task'[u])
  BY <1>1, Stutters DEF TypeOK
<1> QED
  BY <1>1, <1>2, KeepsBoth

\* And for one that writes none.
LEMMA KeepsBothNone ==
  ASSUME IInv, TypeOK', UNCHANGED <<task, attempts>>,
         \A w \in Workers : worker'[w].lease = NoLease \/ worker'[w].lease = worker[w].lease
  PROVE  AttemptLedger' /\ LeaseInv'
<1>1. TypeOK /\ AttemptLedger /\ LeaseInv
  BY DEF IInv, Typed
<1>2. \A u \in Tasks : LedgerOf(task'[u], attempts'[u]) /\ Succeeds(task[u], task'[u])
  BY <1>1, Stutters
<1> QED
  BY <1>1, <1>2, KeepsBoth

\* The columns after each kind of write.
LEMMA FinishedColumns ==
  ASSUME NEW r \in Row, NEW x
  PROVE  LET s == FinishedRow(r, x) IN
         /\ s.status = x.status /\ s.stage = x.stage
         /\ s.attemptCount = r.attemptCount /\ s.current = r.current
         /\ s.owner = NoOwner /\ s.expired = FALSE /\ s.cancelRequested = FALSE
         /\ s.version = r.version + 1
BY DEF FinishedRow, Released, Row

LEMMA MovedColumns ==
  ASSUME NEW r \in Row, NEW x
  PROVE  LET s == MovedRow(r, x) IN
         /\ s.status = x.status /\ s.stage = x.stage
         /\ s.attemptCount = r.attemptCount /\ s.current = r.current
         /\ s.owner = NoOwner /\ s.expired = FALSE /\ s.cancelRequested = FALSE
         /\ s.version = r.version + 1
BY DEF MovedRow, FinishedRow, Released, Row

LEMMA RetriedColumns ==
  ASSUME NEW r \in Row
  PROVE  LET s == Retried(r) IN
         /\ s.status = "queued" /\ s.stage = r.stage
         /\ s.attemptCount = r.attemptCount + 1 /\ s.current = r.attemptCount + 1
         /\ s.owner = r.owner /\ s.expired = r.expired /\ s.cancelRequested = FALSE
         /\ s.version = r.version + 1
BY DEF Retried, Requeued, Row

LEMMA RecoveringColumns ==
  ASSUME NEW r \in Row
  PROVE  LET s == RecoveringRow(r) IN
         /\ s.status = "queued" /\ s.stage = r.stage
         /\ s.attemptCount = r.attemptCount + 1 /\ s.current = r.attemptCount + 1
         /\ s.owner = NoOwner /\ s.expired = FALSE /\ s.cancelRequested = FALSE
         /\ s.version = r.version + 1
BY DEF RecoveringRow, Requeued, Row

LEMMA DecidedColumns ==
  ASSUME NEW r \in Row, NEW d
  PROVE  LET s == DecidedRow(r, d) IN
         /\ s.status = "queued"
         /\ s.attemptCount = r.attemptCount + 1 /\ s.current = r.attemptCount + 1
         /\ s.owner = NoOwner /\ s.expired = FALSE /\ s.cancelRequested = FALSE
         /\ s.version = r.version + 1
BY DEF DecidedRow, Requeued, Row

LEMMA CancelledColumns ==
  ASSUME NEW r \in Row
  PROVE  LET s == CancelledRow(r) IN
         /\ s.status = "cancelled" /\ s.stage = r.stage
         /\ s.attemptCount = r.attemptCount /\ s.current = r.current
         /\ s.owner = r.owner /\ s.expired = r.expired /\ s.cancelRequested = FALSE
         /\ s.version = r.version + 1
BY DEF CancelledRow, Row

LEMMA DueColumns ==
  ASSUME NEW r \in Row
  PROVE  LET s == DueRow(r) IN
         /\ s.status = r.status /\ s.stage = r.stage /\ s.checkpoint = r.checkpoint
         /\ s.attemptCount = r.attemptCount /\ s.current = r.current
         /\ s.owner = r.owner /\ s.expired = r.expired
         /\ s.cancelRequested = r.cancelRequested
         /\ s.version = r.version + 1
BY DEF DueRow, Row

LEMMA ClaimedColumns ==
  ASSUME NEW t \in Tasks, NEW w \in Workers, task[t] \in Row
  PROVE  LET r == task[t]  s == ClaimedRow(t, w) IN
         /\ s.status = "running" /\ s.stage = r.stage /\ s.checkpoint = r.checkpoint
         /\ r.status = "queued" => s.attemptCount = r.attemptCount /\ s.current = r.current
         /\ r.status # "queued" =>
              s.attemptCount = r.attemptCount + 1 /\ s.current = r.attemptCount + 1
         /\ s.owner = w /\ s.expired = FALSE /\ s.cancelRequested = FALSE
         /\ s.version = r.version + 1
BY DEF ClaimedRow, Row

LEMMA NewColumns ==
  /\ NewRow.status = "queued" /\ NewRow.stage = "identification"
  /\ NewRow.attemptCount = 1 /\ NewRow.current = 1 /\ NewRow.version = 1
  /\ NewRow.owner = NoOwner /\ NewRow.expired = FALSE /\ NewRow.cancelRequested = FALSE
BY DEF NewRow, Absent

\* A version that grew cannot be the one of an older snapshot.
LEMMA GrownSucceeds ==
  ASSUME NEW r \in Row, NEW s \in Row, s.version = r.version + 1, s.status # "absent"
  PROVE  Succeeds(r, s)
BY RowFields DEF Succeeds

\* How a list ends that was closed by an ending, moved, or handed over.
LEMMA LedgerFinished ==
  ASSUME NEW r \in Row, NEW list \in Seq(Attempt), LedgerOf(r, list), r.status = "running",
         NEW x, EndingType(x), x.attempt \notin Open, x.status \notin Open, x.stage = r.stage
  PROVE  LedgerOf(FinishedRow(r, x), Close(list, r.current, x.attempt, x.failure))
<1> DEFINE a == [list[r.current] EXCEPT !.status = x.attempt, !.failure = x.failure]
           s == FinishedRow(r, x)
<1>1. /\ r.current \in 1 .. Len(list) /\ list[r.current] \in Attempt
      /\ list[r.current].status = "running" /\ list[r.current].stage = r.stage
  BY DEF LedgerOf
<1>2. Close(list, r.current, x.attempt, x.failure) = [list EXCEPT ![r.current] = a]
  BY <1>1 DEF Close
<1>3. a.status = x.attempt /\ a.stage = r.stage
  BY <1>1 DEF Attempt
<1>4. s \in Row
  BY FinishedRowType DEF EndingType
<1>5. /\ s.status = x.status /\ s.stage = x.stage
      /\ s.attemptCount = r.attemptCount /\ s.current = r.current
      /\ s.owner = NoOwner /\ s.expired = FALSE /\ s.cancelRequested = FALSE
  BY FinishedColumns
<1>6. s.status \notin Open /\ s.status # "absent" /\ a.status \notin Open
  BY <1>3, <1>5 DEF EndingType, Closing, Statuses
<1> HIDE DEF a, s
<1>7. LedgerOf(s, [list EXCEPT ![r.current] = a])
  BY <1>3, <1>4, <1>5, <1>6, LedgerReplace DEF Open
<1> QED
  BY <1>2, <1>7 DEF s

LEMMA LedgerIdentified ==
  ASSUME NEW r \in Row, NEW list \in Seq(Attempt), LedgerOf(r, list), r.status = "running",
         NEW x, EndingType(x), x.attempt # "running", x.status # "running",
         x.attempt = "queued" <=> x.status = "queued"
  PROVE  LedgerOf(FinishedRow(r, x), Identified(list, r.current, x))
<1> DEFINE a == IdentifiedAttempt(list[r.current], x)
           s == FinishedRow(r, x)
<1>1. /\ r.current \in 1 .. Len(list) /\ list[r.current] \in Attempt
      /\ list[r.current].status = "running"
  BY DEF LedgerOf
<1>2. a.status = x.attempt /\ a.stage = x.stage
  BY <1>1 DEF IdentifiedAttempt, Attempt
<1>3. s \in Row
  BY FinishedRowType DEF EndingType
<1>4. /\ s.status = x.status /\ s.stage = x.stage
      /\ s.attemptCount = r.attemptCount /\ s.current = r.current
      /\ s.owner = NoOwner /\ s.expired = FALSE /\ s.cancelRequested = FALSE
  BY FinishedColumns
<1>5. s.status # "absent"
  BY <1>4 DEF EndingType, Closing, Statuses
<1>6. Identified(list, r.current, x) = [list EXCEPT ![r.current] = a]
  BY DEF Identified
<1> HIDE DEF a, s
<1>7. LedgerOf(s, [list EXCEPT ![r.current] = a])
  BY <1>2, <1>3, <1>4, <1>5, LedgerReplace
<1> QED
  BY <1>6, <1>7 DEF s

LEMMA IdentificationAttempts ==
  ASSUME NEW x \in IdentificationOutcomes
  PROVE  /\ x.attempt # "running" /\ x.status # "running"
         /\ x.attempt = "queued" <=> x.status = "queued"
BY DEF IdentificationOutcomes, Confirmed, NeedsReview, Blocked, RevisionChanged, Ending

\* A move that does not go on leaves the task at the stage it was at.
LEMMA MovesStay ==
  ASSUME NEW stage, NEW x \in Moves(stage)
  PROVE  /\ x.status # "running"
         /\ x.continue <=> x.status = "queued"
         /\ ~x.continue => x.stage = stage
<1> DEFINE Stays(y, at) == /\ y.status # "running"
                           /\ y.continue <=> y.status = "queued"
                           /\ ~y.continue => y.stage = at
<1>1. \A y \in PlanningMoves : Stays(y, "planning")
  BY DEF PlanningMoves, Move
<1>2. \A y \in FileMoves : Stays(y, "file-operation")
  <2> SUFFICES ASSUME NEW y \in FileMoves PROVE Stays(y, "file-operation")
    OBVIOUS
  <2>1. CASE y = [Move("queued", "nfo", "nfo-pending", "none", "none", TRUE)
                    EXCEPT !.result = TRUE]
    BY <2>1 DEF Move
  <2>2. CASE y = [Move("queued", "completion", "local-result-prepared", "none", "none", TRUE)
                    EXCEPT !.result = TRUE]
    BY <2>2 DEF Move
  <2>3. CASE y = Move("paused", "file-operation", "file-operation-executing",
                      "organization", "pending", FALSE)
    BY <2>3 DEF Move
  <2>4. CASE y = Move("paused", "file-operation", "file-operation-manual-review",
                      "organization", "none", FALSE)
    BY <2>4 DEF Move
  <2>5. CASE y = [Move("paused", "file-operation", "file-operation-manual-review",
                       "organization", "none", FALSE) EXCEPT !.result = TRUE]
    BY <2>5 DEF Move
  <2> HIDE DEF Stays
  <2> QED
    BY <2>1, <2>2, <2>3, <2>4, <2>5 DEF FileMoves
<1>3. \A y \in NfoMoves : Stays(y, "nfo")
  BY DEF NfoMoves, Move
<1>4. \A y \in CompletionMoves : Stays(y, "completion")
  BY DEF CompletionMoves, Move
<1>5. Stays(x, stage)
  <2> HIDE DEF Stays
  <2>1. \/ stage = "planning" /\ x \in PlanningMoves
        \/ stage = "file-operation" /\ x \in FileMoves
        \/ stage = "nfo" /\ x \in NfoMoves
        \/ stage = "completion" /\ x \in CompletionMoves
    BY DEF Moves
  <2> QED  BY <2>1, <1>1, <1>2, <1>3, <1>4
<1> QED
  BY <1>5

LEMMA DecidedStays ==
  ASSUME NEW r \in Row, NEW x \in Moves(r.stage)
  PROVE  LET y == Decide(r, x) IN
         /\ y.status # "running"
         /\ y.continue <=> y.status = "queued"
         /\ ~y.continue => y.stage = r.stage
<1>1. CASE ~(r.cancelRequested /\ x.continue)
  BY <1>1, MovesStay DEF Decide
<1>2. CASE r.cancelRequested /\ x.continue
  <2>1. /\ Decide(r, x).status = "cancelled" /\ Decide(r, x).stage = r.stage
        /\ Decide(r, x).continue = FALSE
    BY <1>2 DEF Decide
  <2> QED  BY <2>1
<1> QED
  BY <1>1, <1>2

LEMMA LedgerMoved ==
  ASSUME NEW r \in Row, NEW list \in Seq(Attempt), LedgerOf(r, list), r.status = "running",
         NEW x \in Moves(r.stage)
  PROVE  LedgerOf(MovedRow(r, Decide(r, x)), MovedAttempts(list, r.current, Decide(r, x)))
<1> DEFINE y == Decide(r, x)
           a == MovedAttempt(list[r.current], y)
           s == MovedRow(r, y)
<1>1. /\ r.current \in 1 .. Len(list) /\ list[r.current] \in Attempt
      /\ list[r.current].status = "running" /\ list[r.current].stage = r.stage
  BY DEF LedgerOf
<1>2. Moving(y) /\ y.status \in Statuses
  BY MovesAreMoving, DecidedMove DEF Moving, Closing
<1>3. /\ y.status # "running"
      /\ y.continue <=> y.status = "queued"
      /\ ~y.continue => y.stage = r.stage
  BY DecidedStays
<1> HIDE DEF y
<1>4. /\ a.status = "queued" <=> y.status = "queued"
      /\ a.status # "running"
      /\ a.stage = y.stage
  <2>1. CASE y.continue
    BY <1>1, <1>3, <2>1 DEF MovedAttempt, Attempt
  <2>2. CASE ~y.continue
    <3>1. a.status \notin Open /\ a.stage = list[r.current].stage
      BY <1>1, <2>2 DEF MovedAttempt, Attempt, Open
    <3> QED  BY <1>1, <1>3, <2>2, <3>1 DEF Open
  <2> QED  BY <2>1, <2>2
<1>5. s \in Row
  BY <1>2, MovedRowType
<1>6. /\ s.status = y.status /\ s.stage = y.stage
      /\ s.attemptCount = r.attemptCount /\ s.current = r.current
      /\ s.owner = NoOwner /\ s.expired = FALSE /\ s.cancelRequested = FALSE
  BY MovedColumns
<1>7. s.status # "absent" /\ s.status # "running"
  BY <1>2, <1>3, <1>6 DEF Statuses
<1>8. MovedAttempts(list, r.current, y) = [list EXCEPT ![r.current] = a]
  BY <1>1 DEF MovedAttempts
<1> HIDE DEF a, s
<1>9. LedgerOf(s, [list EXCEPT ![r.current] = a])
  BY <1>4, <1>5, <1>6, <1>7, LedgerReplace
<1> QED
  BY <1>8, <1>9 DEF s, y

LEMMA LedgerClaimed ==
  ASSUME TypeOK, AttemptLedger, NEW t \in Tasks, NEW w \in Workers, Claimable(t)
  PROVE  LedgerOf(ClaimedRow(t, w), ClaimedAttempts(t))
<1> DEFINE r == task[t]  list == attempts[t]  s == ClaimedRow(t, w)
<1>1. r \in Row /\ list \in Seq(Attempt) /\ s \in Row /\ LedgerOf(r, list) /\ w # NoOwner
  BY ClaimedRowType, LedgerIsPerTask, OwnersAssumption DEF TypeOK
<1>2. /\ s.status = "running" /\ s.stage = r.stage
      /\ r.status = "queued" => s.attemptCount = r.attemptCount /\ s.current = r.current
      /\ r.status # "queued" =>
           s.attemptCount = r.attemptCount + 1 /\ s.current = r.attemptCount + 1
      /\ s.owner = w /\ s.expired = FALSE /\ s.cancelRequested = FALSE
  BY <1>1, ClaimedColumns
<1>3. r.attemptCount = Len(list) /\ r.stage \in Stages
  BY <1>1, RowFields DEF LedgerOf
<1>4. ASSUME NEW reason \in AttemptReasons
      PROVE  LET a == NewAttempt(reason, "running", r.stage) IN
             a \in Attempt /\ a.status = "running" /\ a.stage = r.stage
  BY <1>3, NewAttemptType DEF NewAttempt, AttemptStatuses
<1> HIDE DEF s
<1>5. CASE r.status = "queued"
  <2> DEFINE a == [list[r.current] EXCEPT !.status = "running"]
  <2>1. list[r.current] \in Attempt /\ list[r.current].stage = r.stage
    BY <1>1, <1>5 DEF LedgerOf
  <2>2. a.status = "running" /\ a.stage = r.stage
    BY <2>1 DEF Attempt
  <2>3. ClaimedAttempts(t) = [list EXCEPT ![r.current] = a]
    BY <1>5 DEF ClaimedAttempts
  <2> HIDE DEF a, list, r
  <2>4. LedgerOf(s, [list EXCEPT ![r.current] = a])
    BY <1>1, <1>2, <1>5, <2>2, LedgerReplace
  <2> QED  BY <2>3, <2>4 DEF s
<1>6. CASE r.status = "running"
  <2> DEFINE closed == Close(list, r.current, "failed", "lease-lost")
             a == NewAttempt("lease-recovery", "running", r.stage)
  <2>1. ClaimedAttempts(t) = Append(closed, a)
    BY <1>6 DEF ClaimedAttempts
  <2>2. Closed(closed) /\ Len(closed) = Len(list) /\ closed \in Seq(Attempt)
    BY <1>1, <1>6, LostClosed, CloseType DEF AttemptStatuses, Failures
  <2>3. a \in Attempt /\ a.status = "running" /\ a.stage = r.stage
    BY <1>4 DEF AttemptReasons
  <2> HIDE DEF closed, a, list, r
  <2>4. LedgerOf(s, Append(closed, a))
    BY <1>1, <1>2, <1>3, <1>6, <2>2, <2>3, LedgerAppend
  <2> QED  BY <2>1, <2>4 DEF s
<1>7. CASE r.status = "paused"
  <2> DEFINE a == NewAttempt("dependency-recovery", "running", r.stage)
  <2>1. ClaimedAttempts(t) = Append(list, a)
    BY <1>7 DEF ClaimedAttempts
  <2>2. Closed(list)
    BY <1>1, <1>7, RestingClosed DEF Open
  <2>3. a \in Attempt /\ a.status = "running" /\ a.stage = r.stage
    BY <1>4 DEF AttemptReasons
  <2> HIDE DEF a, list, r
  <2>4. LedgerOf(s, Append(list, a))
    BY <1>1, <1>2, <1>3, <1>7, <2>2, <2>3, LedgerAppend
  <2> QED  BY <2>1, <2>4 DEF s
<1> QED
  BY <1>5, <1>6, <1>7 DEF Claimable

LEMMA RequestsKeep ==
  ASSUME IInv, TypeOK', NEW t \in Tasks
  PROVE  /\ EnsureRevision(t) => AttemptLedger' /\ LeaseInv'
         /\ RetryDue(t) \/ LeaseExpires(t) => AttemptLedger' /\ LeaseInv'
         /\ \A k \in Keys : Retry(t, k) \/ Cancel(t, k) => AttemptLedger' /\ LeaseInv'
         /\ UpdateProvider => AttemptLedger' /\ LeaseInv'
<1> DEFINE r == task[t]  list == attempts[t]
<1>1. TypeOK /\ AttemptLedger /\ LeaseInv
  BY DEF IInv, Typed
<1>2. /\ r \in Row /\ list \in Seq(Attempt) /\ LedgerOf(r, list) /\ r.stage \in Stages
      /\ r.version \in Nat
  BY <1>1, LedgerIsPerTask, RowFields DEF TypeOK
<1>3. attempts = [attempts EXCEPT ![t] = list]
  BY <1>1 DEF TypeOK
<1>4. /\ r.attemptCount = Len(list)
      /\ r.owner # NoOwner <=> r.status = "running"
      /\ r.expired \/ r.cancelRequested => r.status = "running"
  BY <1>2 DEF LedgerOf
<1>5. ASSUME EnsureRevision(t) PROVE AttemptLedger' /\ LeaseInv'
  <2> DEFINE a == NewAttempt("initial", "queued", "identification")
  <2>6. r.status = "absent" /\ r.version = 0
    BY <1>1, <1>5 DEF EnsureRevision, LeaseInv
  <2>1. Len(list) = 0
    BY <1>2, <2>6 DEF LedgerOf
  <2>2. Closed(list) /\ Append(list, a) = <<a>>
    <3> HIDE DEF a
    <3>1. list = <<>>
      BY <1>2, <2>1
    <3>2. Closed(<<>>) /\ Append(<<>>, a) = <<a>>
      BY DEF Closed
    <3> HIDE DEF list
    <3> QED  BY <3>1, <3>2
  <2>3. a \in Attempt /\ a.status = "queued" /\ a.stage = "identification"
    BY NewAttemptType DEF NewAttempt, AttemptReasons, AttemptStatuses, Stages
  <2>4. LedgerOf(NewRow, Append(list, a))
    <3> DEFINE s == NewRow
    <3>1. /\ s \in Row /\ s.status = "queued" /\ s.stage = "identification"
          /\ s.attemptCount = Len(list) + 1 /\ s.current = Len(list) + 1
          /\ s.owner = NoOwner /\ s.expired = FALSE /\ s.cancelRequested = FALSE
      BY <2>1, NewRowType, NewColumns
    <3> HIDE DEF s, a, list
    <3>2. LedgerOf(s, Append(list, a))
      BY <1>2, <2>2, <2>3, <3>1, LedgerAppend
    <3> QED  BY <3>2 DEF s
  <2>5. Succeeds(r, NewRow)
    BY <2>6, NewRowType, NewColumns, GrownSucceeds, <1>2
  <2> HIDE DEF a
  <2> QED
    BY <1>5, <2>2, <2>4, <2>5, KeepsBothOne DEF EnsureRevision, a
<1>6. ASSUME RetryDue(t) PROVE AttemptLedger' /\ LeaseInv'
  <2> DEFINE s == [r EXCEPT !.retry = "due"]
  <2>1. s \in Row
    BY <1>2, RowUpdate
  <2>2. /\ s.status = r.status /\ s.stage = r.stage /\ s.checkpoint = r.checkpoint
        /\ s.attemptCount = r.attemptCount /\ s.current = r.current /\ s.version = r.version
        /\ s.owner = r.owner /\ s.expired = r.expired /\ s.cancelRequested = r.cancelRequested
    BY <1>2 DEF Row
  <2>3. task' = [task EXCEPT ![t] = s]
    BY <1>6 DEF RetryDue
  <2> HIDE DEF s
  <2>4. LedgerOf(s, list)
    BY <1>2, <1>4, <2>1, <2>2, LedgerKeep
  <2>5. Succeeds(r, s)
    BY <1>2, <2>2 DEF Succeeds
  <2> QED
    BY <1>3, <1>6, <2>3, <2>4, <2>5, KeepsBothOne DEF RetryDue
<1>7. ASSUME LeaseExpires(t) PROVE AttemptLedger' /\ LeaseInv'
  <2> DEFINE s == [r EXCEPT !.expired = TRUE]
  <2>1. s \in Row
    BY <1>2, RowUpdate
  <2>2. /\ s.status = r.status /\ s.stage = r.stage /\ s.checkpoint = r.checkpoint
        /\ s.attemptCount = r.attemptCount /\ s.current = r.current /\ s.version = r.version
        /\ s.owner = r.owner /\ s.cancelRequested = r.cancelRequested
    BY <1>2 DEF Row
  <2>3. task' = [task EXCEPT ![t] = s] /\ r.status = "running"
    BY <1>7 DEF LeaseExpires
  <2> HIDE DEF s
  <2>4. LedgerOf(s, list)
    BY <1>2, <1>4, <2>1, <2>2, <2>3, LedgerKeep
  <2>5. Succeeds(r, s)
    BY <1>2, <2>2 DEF Succeeds
  <2> QED
    BY <1>3, <1>7, <2>3, <2>4, <2>5, KeepsBothOne DEF LeaseExpires
<1>8. ASSUME NEW k \in Keys, Retry(t, k) PROVE AttemptLedger' /\ LeaseInv'
  <2> DEFINE s == Retried(r)  a == NewAttempt("manual-retry", "queued", r.stage)
  <2>1. r.status \notin Open /\ r.status # "running"
    BY <1>8 DEF Retry, Open
  <2>2. Closed(list)
    BY <1>2, <2>1, RestingClosed
  <2>3. a \in Attempt /\ a.status = "queued" /\ a.stage = r.stage
    BY <1>2, NewAttemptType DEF NewAttempt, AttemptReasons, AttemptStatuses
  <2>4. s \in Row
    BY <1>2, RetriedRow
  <2>5. /\ s.status = "queued" /\ s.stage = r.stage
        /\ s.attemptCount = r.attemptCount + 1 /\ s.current = r.attemptCount + 1
        /\ s.owner = r.owner /\ s.expired = r.expired /\ s.cancelRequested = FALSE
        /\ s.version = r.version + 1
    BY <1>2, RetriedColumns
  <2>6. task' = [task EXCEPT ![t] = s] /\ attempts' = [attempts EXCEPT ![t] = Append(list, a)]
    BY <1>8 DEF Retry
  <2> HIDE DEF s, a
  <2>7. LedgerOf(s, Append(list, a))
    BY <1>2, <1>4, <2>1, <2>2, <2>3, <2>4, <2>5, LedgerAppend
  <2>8. Succeeds(r, s)
    BY <1>2, <2>4, <2>5, GrownSucceeds
  <2> QED
    BY <1>8, <2>6, <2>7, <2>8, KeepsBothOne DEF Retry
<1>9. ASSUME CancelResting(t), worker' = worker PROVE AttemptLedger' /\ LeaseInv'
  <2> DEFINE s == CancelledRow(r)
             after == IF r.status = "queued" THEN Withdrawn(list, r.current) ELSE list
  <2>1. r.status \in {"queued", "paused", "waiting-confirmation"}
    BY <1>9 DEF CancelResting
  <2>2. s \in Row
    BY <1>2, CancelledRowType
  <2>3. /\ s.status = "cancelled" /\ s.stage = r.stage
        /\ s.attemptCount = r.attemptCount /\ s.current = r.current
        /\ s.owner = r.owner /\ s.expired = r.expired /\ s.cancelRequested = FALSE
        /\ s.version = r.version + 1
    BY <1>2, CancelledColumns
  <2>4. task' = [task EXCEPT ![t] = s] /\ attempts' = [attempts EXCEPT ![t] = after]
    BY <1>9 DEF CancelResting
  <2> HIDE DEF s
  <2>5. LedgerOf(s, after)
    <3>1. CASE r.status # "queued"
      BY <1>2, <1>4, <2>1, <2>2, <2>3, <3>1, LedgerKeep DEF Open
    <3>2. CASE r.status = "queued"
      <4> DEFINE a == [list[r.current] EXCEPT !.status = "cancelled"]
      <4>1. /\ list[r.current] \in Attempt /\ list[r.current].status = "queued"
            /\ list[r.current].stage = r.stage
        BY <1>2, <3>2 DEF LedgerOf
      <4>2. a.status = "cancelled" /\ a.stage = r.stage
        BY <4>1 DEF Attempt
      <4>3. after = [list EXCEPT ![r.current] = a]
        BY <3>2, <4>1 DEF Withdrawn
      <4> HIDE DEF a, list, r
      <4>4. LedgerOf(s, [list EXCEPT ![r.current] = a])
        BY <1>2, <1>4, <2>2, <2>3, <3>2, <4>2, LedgerReplace
      <4> QED  BY <4>3, <4>4
    <3> QED  BY <3>1, <3>2
  <2>6. Succeeds(r, s)
    BY <1>2, <2>2, <2>3, GrownSucceeds
  <2> HIDE DEF after
  <2> QED
    BY <1>9, <2>4, <2>5, <2>6, KeepsBothOne
<1>10. ASSUME CancelRunning(t), worker' = worker PROVE AttemptLedger' /\ LeaseInv'
  <2> DEFINE s == [r EXCEPT !.cancelRequested = TRUE]
  <2>1. s \in Row
    BY <1>2, RowUpdate
  <2>2. /\ s.status = r.status /\ s.stage = r.stage /\ s.checkpoint = r.checkpoint
        /\ s.attemptCount = r.attemptCount /\ s.current = r.current /\ s.version = r.version
        /\ s.owner = r.owner /\ s.expired = r.expired
    BY <1>2 DEF Row
  <2>3. task' = [task EXCEPT ![t] = s] /\ r.status = "running" /\ attempts' = attempts
    BY <1>10 DEF CancelRunning
  <2> HIDE DEF s
  <2>4. LedgerOf(s, list)
    BY <1>2, <1>4, <2>1, <2>2, <2>3, LedgerKeep
  <2>5. Succeeds(r, s)
    BY <1>2, <2>2 DEF Succeeds
  <2> QED
    BY <1>3, <1>10, <2>3, <2>4, <2>5, KeepsBothOne
<1>11. ASSUME NEW k \in Keys, Cancel(t, k) PROVE AttemptLedger' /\ LeaseInv'
  BY <1>9, <1>10, <1>11 DEF Cancel
<1>12. ASSUME UpdateProvider PROVE AttemptLedger' /\ LeaseInv'
  <2>1. ASSUME NEW u \in Tasks
        PROVE  LedgerOf(task'[u], attempts'[u]) /\ Succeeds(task[u], task'[u])
    <3>1. task'[u] = IF BlockedByProvider(task[u]) THEN DueRow(task[u]) ELSE task[u]
      BY <1>12 DEF UpdateProvider
    <3>2. attempts'[u] = attempts[u]
      BY <1>12 DEF UpdateProvider
    <3>3. /\ task[u] \in Row /\ attempts[u] \in Seq(Attempt)
          /\ LedgerOf(task[u], attempts[u]) /\ Succeeds(task[u], task[u])
      BY <1>1, LedgerIsPerTask, Stutters DEF TypeOK
    <3>4. LedgerOf(DueRow(task[u]), attempts[u])
      <4> DEFINE s == DueRow(task[u])
      <4>1. s \in Row
        BY <3>3, DueRowType
      <4>2. /\ s.status = task[u].status /\ s.stage = task[u].stage
            /\ s.attemptCount = task[u].attemptCount /\ s.current = task[u].current
            /\ s.owner = task[u].owner /\ s.expired = task[u].expired
            /\ s.cancelRequested = task[u].cancelRequested
        BY <3>3, DueColumns
      <4> HIDE DEF s
      <4>3. /\ task[u].owner # NoOwner <=> task[u].status = "running"
            /\ task[u].expired \/ task[u].cancelRequested => task[u].status = "running"
        BY <3>3 DEF LedgerOf
      <4>4. LedgerOf(s, attempts[u])
        BY <3>3, <4>1, <4>2, <4>3, LedgerKeep
      <4> QED  BY <4>4 DEF s
    <3>5. BlockedByProvider(task[u]) => Succeeds(task[u], DueRow(task[u]))
      BY <3>3, DueRowType, DueColumns, GrownSucceeds DEF BlockedByProvider
    <3> QED
      BY <3>1, <3>2, <3>3, <3>4, <3>5
  <2> QED
    BY <1>1, <1>12, <2>1, KeepsBoth DEF UpdateProvider
<1> QED
  BY <1>5, <1>6, <1>7, <1>8, <1>11, <1>12

\* The claim takes the snapshot of the row it has just written.
LEMMA ClaimKeeps ==
  ASSUME IInv, TypeOK', NEW w \in Workers, Claim(w)
  PROVE  AttemptLedger' /\ LeaseInv'
<1>1. TypeOK /\ AttemptLedger /\ LeaseInv
  BY DEF IInv, Typed
<1>2. PICK t \in Tasks :
        /\ Oldest(t)
        /\ task' = [task EXCEPT ![t] = ClaimedRow(t, w)]
        /\ attempts' = [attempts EXCEPT ![t] = ClaimedAttempts(t)]
        /\ worker' = [worker EXCEPT ![w] =
             [pc |-> "handling", beat |-> "waiting", outcome |-> "none",
              lease |-> [task |-> t, version |-> ClaimedRow(t, w).version,
                         attempt |-> ClaimedRow(t, w).current, stage |-> task[t].stage,
                         checkpoint |-> task[t].checkpoint]]]
  BY DEF Claim
<1> DEFINE r == task[t]  s == ClaimedRow(t, w)
           l == [task |-> t, version |-> s.version, attempt |-> s.current,
                 stage |-> r.stage, checkpoint |-> r.checkpoint]
<1>3. r \in Row /\ s \in Row
  BY <1>1, ClaimedRowType DEF TypeOK
<1>4. /\ s.status = "running" /\ s.stage = r.stage /\ s.checkpoint = r.checkpoint
      /\ s.version = r.version + 1
  BY <1>3, ClaimedColumns
<1>5. LedgerOf(s, ClaimedAttempts(t))
  BY <1>1, <1>2, LedgerClaimed DEF Oldest
<1>6. Succeeds(r, s)
  BY <1>3, <1>4, GrownSucceeds
<1>7. Fits(l, s)
  BY <1>3, <1>4, RowFields DEF Fits
<1>8. worker'[w].lease = l /\ \A v \in Workers : v # w => worker'[v].lease = worker[v].lease
  BY <1>1, <1>2 DEF TypeOK
<1>9. l.task = t
  OBVIOUS
<1>10. task' = [task EXCEPT ![t] = s]
  BY <1>2
<1> HIDE DEF r, s, l
<1>11. \A u \in Tasks : LedgerOf(task'[u], attempts'[u]) /\ Succeeds(task[u], task'[u])
  BY <1>1, <1>2, <1>5, <1>6, <1>10, Stutters DEF TypeOK, r
<1>12. AttemptLedger'
  BY <1>11 DEF AttemptLedger, LedgerOf, Open
<1>13. ASSUME NEW v \in Workers, worker'[v].lease # NoLease
       PROVE  Fits(worker'[v].lease, task'[worker'[v].lease.task])
  <2>1. CASE v = w
    <3>1. task'[t] = s
      BY <1>1, <1>10 DEF TypeOK
    <3> QED  BY <1>7, <1>8, <1>9, <2>1, <3>1
  <2>2. CASE v # w
    <3> DEFINE m == worker[v].lease
    <3>1. worker'[v].lease = m /\ m # NoLease /\ m \in Lease
      BY <1>1, <1>8, <1>13, <2>2, MemoryFields DEF TypeOK
    <3>2. m.task \in Tasks
      BY <3>1, LeaseFields
    <3>3. task[m.task] \in Row /\ task'[m.task] \in Row
      BY <1>1, <3>2 DEF TypeOK
    <3>4. Fits(m, task[m.task]) /\ Succeeds(task[m.task], task'[m.task])
      BY <1>1, <1>11, <3>1, <3>2 DEF LeaseInv
    <3> QED
      BY <3>1, <3>3, <3>4, SuccessorFits
  <2> QED  BY <2>1, <2>2
<1>14. ASSUME NEW u \in Tasks, task'[u].status = "absent" PROVE task'[u].version = 0
  BY <1>1, <1>11, <1>14 DEF LeaseInv, Succeeds
<1> QED
  BY <1>12, <1>13, <1>14 DEF LeaseInv

\* What a worker keeps of its lease in any step but its claim.
LEMMA LeaseKept ==
  ASSUME TypeOK, NEW w \in Workers, NEW m,
         worker' = [worker EXCEPT ![w] = m], m.lease = NoLease \/ m.lease = worker[w].lease
  PROVE  \A v \in Workers : worker'[v].lease = NoLease \/ worker'[v].lease = worker[v].lease
BY DEF TypeOK

LEMMA WorkerKeeps ==
  ASSUME IInv, TypeOK', NEW w \in Workers
  PROVE  /\ NoWork(w) => AttemptLedger' /\ LeaseInv'
         /\ BeatCheck(w) \/ BeatRenew(w) \/ BeatFails(w) => AttemptLedger' /\ LeaseInv'
         /\ HandlerFails(w) \/ FailsAfterCommit(w) \/ HandlerDelegates(w)
              => AttemptLedger' /\ LeaseInv'
         /\ Settle(w) \/ CheckCancel(w) \/ WorkerAbandons(w) => AttemptLedger' /\ LeaseInv'
<1>1. TypeOK /\ AttemptLedger /\ LeaseInv /\ worker[w] \in Memory
  BY DEF IInv, Typed, TypeOK
<1>2. Resting("joined").lease = NoLease
  BY DEF Resting
<1>3. /\ \A b : [worker[w] EXCEPT !.beat = b].lease = worker[w].lease
      /\ \A pc : [worker[w] EXCEPT !.pc = pc].lease = worker[w].lease
      /\ \A o : [worker[w] EXCEPT !.outcome = o].lease = worker[w].lease
  BY <1>1 DEF Memory
<1>4. ASSUME NoWork(w) \/ BeatCheck(w) \/ BeatRenew(w) \/ BeatFails(w) \/ HandlerFails(w)
              \/ FailsAfterCommit(w) \/ HandlerDelegates(w) \/ Settle(w) \/ CheckCancel(w)
              \/ WorkerAbandons(w)
      PROVE  \E m : worker' = [worker EXCEPT ![w] = m]
                    /\ (m.lease = NoLease \/ m.lease = worker[w].lease)
  <2>1. CASE NoWork(w) \/ WorkerAbandons(w)
    BY <1>2, <2>1 DEF NoWork, WorkerAbandons
  <2>2. CASE BeatCheck(w) \/ BeatRenew(w) \/ BeatFails(w)
    <3>1. PICK b : worker' = [worker EXCEPT ![w] = [worker[w] EXCEPT !.beat = b]]
      BY <2>2 DEF BeatCheck, BeatRenew, BeatFails
    <3> QED  BY <1>3, <3>1
  <2>3. CASE HandlerFails(w) \/ HandlerDelegates(w)
    <3>1. PICK o : worker' = [worker EXCEPT ![w] =
                                [worker[w] EXCEPT !.pc = "settling", !.outcome = o]]
      BY <2>3 DEF HandlerFails, HandlerDelegates
    <3> DEFINE m == [worker[w] EXCEPT !.pc = "settling", !.outcome = o]
    <3>2. m.lease = worker[w].lease
      BY <1>1 DEF Memory
    <3> HIDE DEF m
    <3> QED  BY <3>1, <3>2 DEF m
  <2>4. CASE FailsAfterCommit(w)
    BY <1>3, <2>4 DEF FailsAfterCommit
  <2>5. CASE Settle(w) \/ CheckCancel(w)
    <3>1. \/ worker' = [worker EXCEPT ![w] = Resting("joined")]
          \/ \E pc : worker' = [worker EXCEPT ![w] = [worker[w] EXCEPT !.pc = pc]]
      BY <2>5 DEF Settle, CheckCancel
    <3> QED  BY <1>2, <1>3, <3>1
  <2> QED  BY <1>4, <2>1, <2>2, <2>3, <2>4, <2>5
<1>5. ASSUME BeatRenew(w) PROVE AttemptLedger' /\ LeaseInv'
  <2>1. \A v \in Workers : worker'[v].lease = NoLease \/ worker'[v].lease = worker[v].lease
    BY <1>1, <1>4, <1>5, LeaseKept
  <2>2. CASE ~Holds(w)
    BY <1>5, <2>1, <2>2, KeepsBothNone DEF BeatRenew
  <2>3. CASE Holds(w)
    <3> DEFINE t == worker[w].lease.task  r == task[t]  list == attempts[t]
               s == [r EXCEPT !.expired = FALSE]
    <3>1. t \in Tasks /\ r \in Row /\ list \in Seq(Attempt)
      BY <1>1, <1>5, Leased DEF BeatRenew, Busy
    <3>2. LedgerOf(r, list)
      BY <1>1, <3>1, LedgerIsPerTask
    <3>3. s \in Row
      BY <3>1, RowUpdate
    <3>4. /\ s.status = r.status /\ s.stage = r.stage /\ s.checkpoint = r.checkpoint
          /\ s.attemptCount = r.attemptCount /\ s.current = r.current /\ s.version = r.version
          /\ s.owner = r.owner /\ s.cancelRequested = r.cancelRequested /\ s.expired = FALSE
      BY <3>1 DEF Row
    <3>5. task' = [task EXCEPT ![t] = s] /\ attempts' = [attempts EXCEPT ![t] = list]
      BY <1>1, <1>5, <2>3 DEF BeatRenew, TypeOK
    <3>6. /\ r.owner # NoOwner <=> r.status = "running"
          /\ r.expired \/ r.cancelRequested => r.status = "running"
      BY <3>2 DEF LedgerOf
    <3>7. LedgerOf(s, list)
      <4> HIDE DEF s, list, r
      <4> QED  BY <3>1, <3>2, <3>3, <3>4, <3>6, LedgerKeep
    <3>8. Succeeds(r, s)
      <4>1. r.version <= r.version
        BY <3>1, RowFields
      <4> QED  BY <3>4, <4>1 DEF Succeeds
    <3> HIDE DEF s, list, t
    <3> QED
      BY <2>1, <3>1, <3>5, <3>7, <3>8, KeepsBothOne
  <2> QED  BY <2>2, <2>3
<1>6. ASSUME NoWork(w) \/ BeatCheck(w) \/ BeatFails(w) \/ HandlerFails(w)
              \/ FailsAfterCommit(w) \/ HandlerDelegates(w) \/ Settle(w) \/ CheckCancel(w)
              \/ WorkerAbandons(w)
      PROVE  AttemptLedger' /\ LeaseInv'
  <2>1. \A v \in Workers : worker'[v].lease = NoLease \/ worker'[v].lease = worker[v].lease
    BY <1>1, <1>4, <1>6, LeaseKept
  <2>2. UNCHANGED <<task, attempts>>
    BY <1>6 DEF NoWork, BeatCheck, BeatFails, HandlerFails, FailsAfterCommit,
                HandlerDelegates, Settle, CheckCancel, WorkerAbandons, rows
  <2> QED
    BY <2>1, <2>2, KeepsBothNone
<1> QED
  BY <1>5, <1>6

LEMMA CommitKeeps ==
  ASSUME IInv, TypeOK', NEW w \in Workers
  PROVE  IdentificationCommit(w) \/ OrganizationCommit(w) => AttemptLedger' /\ LeaseInv'
<1> DEFINE l == worker[w].lease  t == l.task  r == task[t]  list == attempts[t]
<1>1. TypeOK /\ AttemptLedger /\ LeaseInv /\ worker[w] \in Memory
  BY DEF IInv, Typed, TypeOK
<1>2. ASSUME worker[w].pc \in Busy
      PROVE  /\ l # NoLease /\ t \in Tasks /\ r \in Row /\ list \in Seq(Attempt)
             /\ LedgerOf(r, list) /\ Fits(l, r)
  <2>1. l # NoLease /\ t \in Tasks /\ r \in Row /\ list \in Seq(Attempt)
    BY <1>1, <1>2, Leased DEF TypeOK
  <2> QED
    BY <1>1, <2>1, LedgerIsPerTask DEF LeaseInv
<1>3. ASSUME worker' = [worker EXCEPT ![w] = [@ EXCEPT !.pc = "settling", !.outcome = "committed"]]
      PROVE  \A v \in Workers : worker'[v].lease = NoLease \/ worker'[v].lease = worker[v].lease
  <2> DEFINE m == [worker[w] EXCEPT !.pc = "settling", !.outcome = "committed"]
  <2>1. m.lease = worker[w].lease
    BY <1>1 DEF Memory
  <2> HIDE DEF m
  <2> QED  BY <1>1, <1>3, <2>1, LeaseKept DEF m
<1>4. ASSUME IdentificationCommit(w) PROVE AttemptLedger' /\ LeaseInv'
  <2>1. worker[w].pc \in Busy /\ r.status = "running" /\ r.current = l.attempt
    BY <1>4 DEF IdentificationCommit, Busy, Authority
  <2>2. /\ l # NoLease /\ t \in Tasks /\ r \in Row /\ list \in Seq(Attempt)
        /\ LedgerOf(r, list)
    BY <1>2, <2>1
  <2>3. PICK x \in IdentificationOutcomes :
          /\ task' = [task EXCEPT ![t] = FinishedRow(r, x)]
          /\ attempts' = [attempts EXCEPT ![t] = Identified(list, l.attempt, x)]
    BY <1>4, <2>2 DEF IdentificationCommit
  <2>4. /\ EndingType(x) /\ x.attempt # "running" /\ x.status # "running"
        /\ x.attempt = "queued" <=> x.status = "queued"
    BY IdentificationEndings, IdentificationAttempts
  <2>5. \A v \in Workers : worker'[v].lease = NoLease \/ worker'[v].lease = worker[v].lease
    BY <1>3, <1>4 DEF IdentificationCommit
  <2> HIDE DEF l, t, r, list
  <2>6. LedgerOf(FinishedRow(r, x), Identified(list, r.current, x))
    BY <2>1, <2>2, <2>4, LedgerIdentified
  <2>7. FinishedRow(r, x) \in Row /\ x.status # "absent"
    BY <2>2, <2>4, FinishedRowType DEF EndingType, Closing, Statuses
  <2>8. Succeeds(r, FinishedRow(r, x))
    BY <2>2, <2>7, FinishedColumns, GrownSucceeds
  <2> QED
    BY <2>1, <2>2, <2>3, <2>5, <2>6, <2>8, KeepsBothOne DEF r, list
<1>5. ASSUME OrganizationCommit(w) PROVE AttemptLedger' /\ LeaseInv'
  <2>1. worker[w].pc \in Busy /\ r.status = "running" /\ r.version = l.version
    BY <1>5 DEF OrganizationCommit, Busy, Holds
  <2>2. /\ l # NoLease /\ t \in Tasks /\ r \in Row /\ list \in Seq(Attempt)
        /\ LedgerOf(r, list) /\ Fits(l, r)
    BY <1>2, <2>1
  <2>3. l.stage = r.stage /\ l.attempt = r.current
    BY <2>1, <2>2 DEF Fits
  <2>4. PICK x \in Moves(l.stage) :
          /\ task' = [task EXCEPT ![t] = MovedRow(r, Decide(r, x))]
          /\ attempts' = [attempts EXCEPT ![t] = MovedAttempts(list, l.attempt, Decide(r, x))]
    BY <1>5, <2>2 DEF OrganizationCommit
  <2>5. \A v \in Workers : worker'[v].lease = NoLease \/ worker'[v].lease = worker[v].lease
    BY <1>3, <1>5 DEF OrganizationCommit
  <2> HIDE DEF l, t, r, list
  <2>6. LedgerOf(MovedRow(r, Decide(r, x)), MovedAttempts(list, r.current, Decide(r, x)))
    BY <2>1, <2>2, <2>3, <2>4, LedgerMoved
  <2>7. Moving(Decide(r, x))
    BY <2>2, <2>4, MovesAreMoving, DecidedMove
  <2>8. MovedRow(r, Decide(r, x)) \in Row /\ Decide(r, x).status # "absent"
    BY <2>2, <2>7, MovedRowType DEF Moving, Closing, Statuses
  <2>9. Succeeds(r, MovedRow(r, Decide(r, x)))
    BY <2>2, <2>8, MovedColumns, GrownSucceeds
  <2> QED
    BY <2>2, <2>3, <2>4, <2>5, <2>6, <2>9, KeepsBothOne DEF r, list
<1> QED
  BY <1>4, <1>5

\* The worker's own transactions: each writes nothing, or ends the lease it holds.
LEMMA FinishKeeps ==
  ASSUME IInv, TypeOK', NEW w \in Workers
  PROVE  FinishCancelled(w) \/ FinishStageFailed(w) \/ FinishOutcome(w)
           => AttemptLedger' /\ LeaseInv'
<1> DEFINE l == worker[w].lease  t == l.task  r == task[t]  list == attempts[t]
<1>1. TypeOK /\ AttemptLedger /\ LeaseInv /\ DelegationInv /\ worker[w] \in Memory
  BY DEF IInv, Typed, TypeOK
<1>2. ASSUME worker[w].pc \in Busy
      PROVE  /\ l # NoLease /\ t \in Tasks /\ r \in Row /\ list \in Seq(Attempt)
             /\ l.stage \in Stages /\ l.checkpoint \in Checkpoints
             /\ LedgerOf(r, list)
             /\ Holds(w) => /\ r.status = "running" /\ l.stage = r.stage
                            /\ l.attempt = r.current
  <2>1. /\ l # NoLease /\ t \in Tasks /\ r \in Row /\ list \in Seq(Attempt)
        /\ l.stage \in Stages /\ l.checkpoint \in Checkpoints
    BY <1>1, <1>2, Leased DEF TypeOK
  <2>2. LedgerOf(r, list) /\ Fits(l, r)
    BY <1>1, <2>1, LedgerIsPerTask DEF LeaseInv
  <2>3. Holds(w) => r.status = "running" /\ r.version = l.version
    BY DEF Holds
  <2> QED  BY <2>1, <2>2, <2>3 DEF Fits
<1>3. ASSUME worker' = [worker EXCEPT ![w] = Resting("joined")]
      PROVE  \A v \in Workers : worker'[v].lease = NoLease \/ worker'[v].lease = worker[v].lease
  BY <1>1, <1>3, LeaseKept DEF Resting
<1>4. ASSUME worker[w].pc \in Busy, worker' = [worker EXCEPT ![w] = Resting("joined")],
             NEW x, EndingType(x), x.attempt \notin Open, x.status \notin Open,
             Holds(w) => x.stage = l.stage,
             FinishTerminal(w, x)
      PROVE  AttemptLedger' /\ LeaseInv'
  <2>1. CASE ~Holds(w)
    BY <1>3, <1>4, <2>1, KeepsBothNone DEF FinishTerminal, rows
  <2>2. CASE Holds(w)
    <3> DEFINE y == Ended(r, x)
    <3>1. /\ t \in Tasks /\ r \in Row /\ list \in Seq(Attempt) /\ LedgerOf(r, list)
          /\ r.status = "running" /\ l.attempt = r.current /\ x.stage = r.stage
      BY <1>2, <1>4, <2>2
    <3>2. EndingType(y)
      BY <1>4, <3>1, EndedType
    <3>3. y.attempt \notin Open /\ y.status \notin Open /\ y.stage = r.stage
      BY <1>4, <3>1 DEF Ended, Ending, Open
    <3>4. /\ task' = [task EXCEPT ![t] = FinishedRow(r, y)]
          /\ attempts' = [attempts EXCEPT ![t] = Close(list, l.attempt, y.attempt, y.failure)]
      BY <1>4, <2>2 DEF FinishTerminal
    <3> HIDE DEF y, l, t, r, list
    <3>5. LedgerOf(FinishedRow(r, y), Close(list, r.current, y.attempt, y.failure))
      BY <3>1, <3>2, <3>3, LedgerFinished
    <3>6. FinishedRow(r, y) \in Row /\ y.status # "absent"
      BY <3>1, <3>2, FinishedRowType DEF EndingType, Closing, Statuses
    <3>7. Succeeds(r, FinishedRow(r, y))
      BY <3>1, <3>6, FinishedColumns, GrownSucceeds, ZenonT(40)
    <3> QED
      BY <1>3, <1>4, <3>1, <3>4, <3>5, <3>7, KeepsBothOne DEF r, list
  <2> QED  BY <2>1, <2>2
<1>5. ASSUME worker[w].pc \in Busy, worker' = [worker EXCEPT ![w] = Resting("joined")],
             FinishIdentificationComplete(w)
      PROVE  AttemptLedger' /\ LeaseInv'
  <2>1. CASE ~Holds(w)
    BY <1>3, <1>5, <2>1, KeepsBothNone DEF FinishIdentificationComplete, rows
  <2>2. CASE Holds(w)
    <3> DEFINE x == Confirmed
    <3>1. /\ t \in Tasks /\ r \in Row /\ list \in Seq(Attempt) /\ LedgerOf(r, list)
          /\ r.status = "running" /\ l.attempt = r.current
      BY <1>2, <1>5, <2>2
    <3>2. x \in IdentificationOutcomes
      BY DEF IdentificationOutcomes
    <3>3. /\ EndingType(x) /\ x.attempt # "running" /\ x.status # "running"
          /\ x.attempt = "queued" <=> x.status = "queued"
      BY <3>2, IdentificationEndings, IdentificationAttempts
    <3>4. /\ task' = [task EXCEPT ![t] = FinishedRow(r, x)]
          /\ attempts' = [attempts EXCEPT ![t] = Identified(list, l.attempt, x)]
      BY <1>5, <2>2 DEF FinishIdentificationComplete
    <3> HIDE DEF x, l, t, r, list
    <3>5. LedgerOf(FinishedRow(r, x), Identified(list, r.current, x))
      BY <3>1, <3>3, LedgerIdentified
    <3>6. FinishedRow(r, x) \in Row /\ x.status # "absent"
      BY <3>1, <3>3, FinishedRowType DEF EndingType, Closing, Statuses
    <3>7. Succeeds(r, FinishedRow(r, x))
      BY <3>1, <3>6, FinishedColumns, GrownSucceeds, ZenonT(40)
    <3> QED
      BY <1>3, <1>5, <3>1, <3>4, <3>5, <3>7, KeepsBothOne DEF r, list
  <2> QED  BY <2>1, <2>2
<1>6. ASSUME FinishCancelled(w) PROVE AttemptLedger' /\ LeaseInv'
  <2> DEFINE x == Ending("cancelled", l.stage, "cancelled", "none", "none", "cancelled", "none")
  <2>1. worker[w].pc \in Busy /\ worker' = [worker EXCEPT ![w] = Resting("joined")]
    BY <1>6 DEF FinishCancelled, Busy
  <2>2. EndingType(x) /\ x.attempt \notin Open /\ x.status \notin Open /\ x.stage = l.stage
    BY <1>2, <2>1 DEF EndingType, Ending, Closing, Open, Statuses, Checkpoints, Reasons,
                      AttemptStatuses, Failures
  <2>3. FinishTerminal(w, x)
    BY <1>6 DEF FinishCancelled
  <2> HIDE DEF x
  <2> QED  BY <1>4, <2>1, <2>2, <2>3
<1>7. ASSUME FinishStageFailed(w) PROVE AttemptLedger' /\ LeaseInv'
  <2> DEFINE x == Ending("paused", l.stage, l.checkpoint, "none", "pending", "failed",
                         "stage-failed")
  <2>1. worker[w].pc \in Busy /\ worker' = [worker EXCEPT ![w] = Resting("joined")]
    BY <1>7 DEF FinishStageFailed, Busy
  <2>2. EndingType(x) /\ x.attempt \notin Open /\ x.status \notin Open /\ x.stage = l.stage
    BY <1>2, <2>1 DEF EndingType, Ending, Closing, Open, Statuses, Reasons,
                      AttemptStatuses, Failures
  <2>3. FinishTerminal(w, x)
    BY <1>7 DEF FinishStageFailed
  <2> HIDE DEF x
  <2> QED  BY <1>4, <2>1, <2>2, <2>3
<1>8. ASSUME FinishOutcome(w) PROVE AttemptLedger' /\ LeaseInv'
  <2> DEFINE x == Ending("paused", l.stage, "dependency-blocked", "provider", "pending",
                         "failed", "stage-failed")
  <2>1. worker[w].pc \in Busy /\ worker' = [worker EXCEPT ![w] = Resting("joined")]
    BY <1>8 DEF FinishOutcome, Busy
  <2>2. EndingType(x) /\ x.attempt \notin Open /\ x.status \notin Open /\ x.stage = l.stage
    BY <1>2, <2>1 DEF EndingType, Ending, Closing, Open, Statuses, Checkpoints, Reasons,
                      AttemptStatuses, Failures
  <2>3. /\ EndingType(NeedsReview) /\ NeedsReview.attempt \notin Open
        /\ NeedsReview.status \notin Open /\ NeedsReview.stage = "identification"
    BY IdentificationEndings DEF IdentificationOutcomes, NeedsReview, Ending, Open
  <2>4. \/ FinishIdentificationComplete(w)
        \/ worker[w].outcome = "waiting-confirmation" /\ FinishTerminal(w, NeedsReview)
        \/ FinishTerminal(w, x)
    BY <1>8 DEF FinishOutcome
  <2>5. worker[w].outcome = "waiting-confirmation" => l.stage = "identification"
    BY <1>1 DEF DelegationInv, Memory
  <2> HIDE DEF x
  <2> QED  BY <1>4, <1>5, <2>1, <2>2, <2>3, <2>4, <2>5
<1> QED
  BY <1>6, <1>7, <1>8

LEMMA DispatchKeeps ==
  ASSUME IInv, TypeOK', Dispatch
  PROVE  AttemptLedger' /\ LeaseInv'
<1>1. TypeOK /\ BatchInv /\ AttemptLedger /\ LeaseInv
  BY DEF IInv, Typed
<1>2. worker' = worker
  BY DEF Dispatch, DispatchFetch, DispatchApply, DispatchRefused, DispatchAudit, DispatchMark
<1>3. CASE UNCHANGED <<task, attempts>>
  BY <1>2, <1>3, KeepsBothNone
<1>4. CASE DispatchApply /\ ~Applied(Head(queue))
  <2> DEFINE d == Head(queue)  t == decision[d].task  r == task[t]  list == attempts[t]
             s == DecidedRow(r, d)  a == NewAttempt("manual-retry", "queued", s.stage)
  <2>1. Awaited(t) /\ ApplyAwaited(t, d)
    BY <1>4 DEF DispatchApply
  <2>2. t \in Tasks
    <3>1. runtime.left \in 1 .. Len(queue) /\ queue \in Seq(Decisions)
      BY <1>1, <1>4 DEF DispatchApply, Dispatching, BatchInv, TypeOK
    <3>2. Len(queue) > 0 /\ Head(queue) = queue[1]
      BY <3>1
    <3>3. decision[queue[1]].task \in Tasks
      BY <1>1, <3>1, <3>2 DEF BatchInv
    <3> QED  BY <3>2, <3>3
  <2>3. r \in Row /\ list \in Seq(Attempt) /\ LedgerOf(r, list)
    BY <1>1, <2>2, LedgerIsPerTask DEF TypeOK
  <2>4. r.status = "waiting-confirmation" /\ r.attemptCount = Len(list) /\ r.current = Len(list)
        /\ Len(list) > 0
    BY <2>1, <2>3, LedgerCurrent DEF Awaited
  <2>5. Closed(list)
    BY <2>3, <2>4, RestingClosed DEF Open
  <2>6. Superseded(list, r.current) = list
    <3>1. r.current \in 1 .. Len(list)
      BY <2>4
    <3>2. list[r.current].status \notin {"queued", "running"}
      BY <2>5, <3>1 DEF Closed, Open
    <3> QED  BY <3>2 DEF Superseded
  <2>7. s \in Row
    BY <2>3, DecidedRowType
  <2>8. /\ s.status = "queued"
        /\ s.attemptCount = r.attemptCount + 1 /\ s.current = r.attemptCount + 1
        /\ s.owner = NoOwner /\ s.expired = FALSE /\ s.cancelRequested = FALSE
        /\ s.version = r.version + 1
    BY <2>3, DecidedColumns
  <2>9. s.stage \in Stages
    BY <2>7, RowFields
  <2>10. a \in Attempt /\ a.status = "queued" /\ a.stage = s.stage
    BY <2>9, NewAttemptType DEF NewAttempt, AttemptReasons, AttemptStatuses
  <2>11. /\ task' = [task EXCEPT ![t] = s]
         /\ attempts' = [attempts EXCEPT ![t] = Append(Superseded(list, r.current), a)]
    BY <2>1 DEF ApplyAwaited
  <2> HIDE DEF d, t, r, list, s, a
  <2>12. LedgerOf(s, Append(list, a))
    BY <2>3, <2>4, <2>5, <2>7, <2>8, <2>10, LedgerAppend
  <2>13. Succeeds(r, s)
    BY <2>3, <2>7, <2>8, GrownSucceeds
  <2> QED
    BY <1>2, <2>2, <2>6, <2>11, <2>12, <2>13, KeepsBothOne DEF r
<1>5. DispatchApply /\ Applied(Head(queue)) => UNCHANGED <<task, attempts>>
  BY DEF DispatchApply, rows
<1>6. DispatchFetch \/ DispatchRefused \/ DispatchAudit \/ DispatchMark
        => UNCHANGED <<task, attempts>>
  BY DEF DispatchFetch, DispatchRefused, DispatchAudit, DispatchMark, rows
<1> QED
  BY <1>3, <1>4, <1>5, <1>6 DEF Dispatch

LEMMA RuntimeKeeps ==
  ASSUME IInv, TypeOK'
  PROVE  /\ Boot \/ StartServing \/ StartRound \/ EndRound \/ Crash
              => AttemptLedger' /\ LeaseInv'
         /\ ReclaimExpired => AttemptLedger' /\ LeaseInv'
<1>1. TypeOK /\ AttemptLedger /\ LeaseInv
  BY DEF IInv, Typed
<1>2. ASSUME Boot \/ StartServing \/ StartRound \/ EndRound \/ Crash
      PROVE  AttemptLedger' /\ LeaseInv'
  <2>1. UNCHANGED <<task, attempts>>
    BY <1>2 DEF Boot, StartServing, StartRound, EndRound, Crash, rows
  <2>2. \/ worker' = worker
        \/ \E pc : worker' = [w \in Workers |-> Resting(pc)]
    BY <1>2 DEF Boot, StartServing, StartRound, EndRound, Crash
  <2>3. \A w \in Workers : worker'[w].lease = NoLease \/ worker'[w].lease = worker[w].lease
    BY <2>2 DEF Resting
  <2> QED  BY <2>1, <2>3, KeepsBothNone
<1>3. ASSUME ReclaimExpired PROVE AttemptLedger' /\ LeaseInv'
  <2>1. ASSUME NEW t \in Tasks
        PROVE  LedgerOf(task'[t], attempts'[t]) /\ Succeeds(task[t], task'[t])
    <3> DEFINE r == task[t]  list == attempts[t]  s == RecoveringRow(r)
               closed == Close(list, r.current, "failed", "lease-lost")
               a == NewAttempt("lease-recovery", "queued", r.stage)
    <3>1. r \in Row /\ list \in Seq(Attempt) /\ LedgerOf(r, list) /\ Succeeds(r, r)
      BY <1>1, LedgerIsPerTask, Stutters DEF TypeOK
    <3>2. CASE ~Lapsed(t)
      BY <1>3, <3>1, <3>2 DEF ReclaimExpired
    <3>3. CASE Lapsed(t)
      <4>1. task'[t] = s /\ attempts'[t] = Append(closed, a)
        BY <1>3, <3>3 DEF ReclaimExpired
      <4>2. Closed(closed) /\ Len(closed) = Len(list) /\ closed \in Seq(Attempt)
        BY <3>1, <3>3, LostClosed, CloseType DEF Lapsed, AttemptStatuses, Failures
      <4>3. r.attemptCount = Len(list) /\ r.stage \in Stages
        BY <3>1, RowFields DEF LedgerOf
      <4>4. a \in Attempt /\ a.status = "queued" /\ a.stage = r.stage
        BY <4>3, NewAttemptType DEF NewAttempt, AttemptReasons, AttemptStatuses
      <4>5. s \in Row
        BY <3>1, RecoveringRowType
      <4>6. /\ s.status = "queued" /\ s.stage = r.stage
            /\ s.attemptCount = r.attemptCount + 1 /\ s.current = r.attemptCount + 1
            /\ s.owner = NoOwner /\ s.expired = FALSE /\ s.cancelRequested = FALSE
            /\ s.version = r.version + 1
        BY <3>1, RecoveringColumns
      <4> HIDE DEF r, list, s, closed, a
      <4>7. LedgerOf(s, Append(closed, a))
        BY <4>2, <4>3, <4>4, <4>5, <4>6, LedgerAppend
      <4>8. Succeeds(r, s)
        BY <3>1, <4>5, <4>6, GrownSucceeds
      <4> QED  BY <4>1, <4>7, <4>8 DEF r
    <3> QED  BY <3>2, <3>3
  <2>2. \A w \in Workers : worker'[w].lease = NoLease \/ worker'[w].lease = worker[w].lease
    BY <1>3 DEF ReclaimExpired
  <2> QED  BY <1>1, <2>1, <2>2, KeepsBoth
<1> QED
  BY <1>2, <1>3

\* Outcomes are left to the worker in one place only.
LEMMA DelegationKeeps ==
  ASSUME IInv, Next
  PROVE  DelegationInv'
<1>1. TypeOK /\ DelegationInv /\ "none" \notin Delegated /\ "committed" \notin Delegated
      /\ "error" \notin Delegated
  BY DelegatedAssumption DEF IInv, Typed
<1> DEFINE Good(m) == m.outcome \in Delegated => m.lease.stage = "identification"
<1>2. \A pc : Good(Resting(pc))
  BY <1>1 DEF Resting
<1>3. ASSUME worker' = worker PROVE DelegationInv'
  BY <1>1, <1>3 DEF DelegationInv
<1>4. ASSUME NEW pc, worker' = [w \in Workers |-> Resting(pc)] PROVE DelegationInv'
  BY <1>2, <1>4 DEF DelegationInv
<1>5. ASSUME NEW w \in Workers, NEW m, worker' = [worker EXCEPT ![w] = m], Good(m)
      PROVE  DelegationInv'
  BY <1>1, <1>5 DEF DelegationInv, TypeOK
<1>6. ASSUME NEW w \in Workers
      PROVE  /\ worker[w] \in Memory /\ Good(worker[w])
             /\ \A b : Good([worker[w] EXCEPT !.beat = b])
             /\ \A pc : Good([worker[w] EXCEPT !.pc = pc])
             /\ Good([worker[w] EXCEPT !.outcome = "error"])
             /\ Good([worker[w] EXCEPT !.pc = "settling", !.outcome = "error"])
             /\ Good([worker[w] EXCEPT !.pc = "settling", !.outcome = "committed"])
             /\ worker[w].lease.stage = "identification" =>
                  \A o : Good([worker[w] EXCEPT !.pc = "settling", !.outcome = o])
  <2>1. worker[w] \in Memory /\ Good(worker[w])
    BY <1>1 DEF TypeOK, DelegationInv
  <2> QED  BY <1>1, <2>1 DEF Memory
<1> HIDE DEF Good
<1>7. ASSUME NEW w \in Workers,
             \/ Claim(w) \/ NoWork(w)
             \/ BeatCheck(w) \/ BeatRenew(w) \/ BeatFails(w)
             \/ HandlerReturns(w) \/ FailsAfterCommit(w)
             \/ WorkerCloses(w) \/ WorkerAbandons(w)
      PROVE  \E m : worker' = [worker EXCEPT ![w] = m] /\ Good(m)
  <2>1. CASE Claim(w)
    <3>1. PICK l : worker' = [worker EXCEPT ![w] =
                     [pc |-> "handling", beat |-> "waiting", outcome |-> "none", lease |-> l]]
      BY <2>1 DEF Claim
    <3>2. Good([pc |-> "handling", beat |-> "waiting", outcome |-> "none", lease |-> l])
      BY <1>1 DEF Good
    <3> QED  BY <3>1, <3>2
  <2>2. CASE NoWork(w) \/ WorkerAbandons(w) \/ FinishCancelled(w) \/ FinishStageFailed(w)
             \/ FinishOutcome(w)
    BY <1>2, <2>2 DEF NoWork, WorkerAbandons, FinishCancelled, FinishStageFailed, FinishOutcome
  <2>3. CASE BeatCheck(w) \/ BeatRenew(w) \/ BeatFails(w)
    <3>1. PICK b : worker' = [worker EXCEPT ![w] = [worker[w] EXCEPT !.beat = b]]
      BY <2>3 DEF BeatCheck, BeatRenew, BeatFails
    <3> QED  BY <1>6, <3>1
  <2>4. CASE IdentificationCommit(w) \/ OrganizationCommit(w)
    BY <1>6, <2>4 DEF IdentificationCommit, OrganizationCommit
  <2>5. CASE HandlerFails(w)
    BY <1>6, <2>5 DEF HandlerFails
  <2>6. CASE FailsAfterCommit(w)
    BY <1>6, <2>6 DEF FailsAfterCommit
  <2>7. CASE HandlerDelegates(w)
    <3>1. PICK o : worker' = [worker EXCEPT ![w] =
                                [worker[w] EXCEPT !.pc = "settling", !.outcome = o]]
      BY <2>7 DEF HandlerDelegates
    <3>2. worker[w].lease.stage = "identification"
      BY <2>7 DEF HandlerDelegates
    <3> QED  BY <1>6, <3>1, <3>2
  <2>8. CASE Settle(w) \/ CheckCancel(w)
    <3>1. \/ worker' = [worker EXCEPT ![w] = Resting("joined")]
          \/ \E pc : worker' = [worker EXCEPT ![w] = [worker[w] EXCEPT !.pc = pc]]
      BY <2>8 DEF Settle, CheckCancel
    <3> QED  BY <1>2, <1>6, <3>1
  <2> QED
    BY <1>7, <2>1, <2>2, <2>3, <2>4, <2>5, <2>6, <2>7, <2>8 DEF HandlerReturns, WorkerCloses
<1>8. ASSUME \/ \E t \in Tasks : EnsureRevision(t) \/ RetryDue(t) \/ LeaseExpires(t)
             \/ \E t \in Tasks, k \in Keys : Retry(t, k) \/ Cancel(t, k)
             \/ \E t \in Tasks, d \in Decisions, kind \in {"reidentify", "planning"} :
                   AcceptDecision(d, t, kind)
             \/ UpdateProvider \/ Dispatch \/ Boot \/ ReclaimExpired \/ StartServing
             \/ EndRound
      PROVE  worker' = worker
  BY <1>8 DEF EnsureRevision, RetryDue, LeaseExpires, Retry, Cancel, AcceptDecision,
              UpdateProvider, Dispatch, DispatchFetch, DispatchApply, DispatchRefused,
              DispatchAudit, DispatchMark, Boot, ReclaimExpired, StartServing, EndRound
<1>9. ASSUME StartRound \/ Crash PROVE \E pc : worker' = [w \in Workers |-> Resting(pc)]
  BY <1>9 DEF StartRound, Crash
<1> QED
  BY <1>3, <1>4, <1>5, <1>7, <1>8, <1>9 DEF Next

LEMMA InitInv == Init => IInv
<1> SUFFICES ASSUME Init PROVE IInv
  OBVIOUS
<1>1. Typed
  BY InitTyped
<1>2. \A t \in Tasks : task[t] = Absent /\ attempts[t] = <<>>
  BY DEF Init
<1>3. LedgerOf(Absent, <<>>)
  BY DEF LedgerOf, Absent
<1>4. AttemptLedger
  BY <1>2, <1>3, LedgerIsPerTask
<1>5. \A w \in Workers : worker[w].lease = NoLease /\ worker[w].outcome = "none"
  BY DEF Init, Resting
<1>6. LeaseInv
  BY <1>2, <1>5 DEF LeaseInv, Absent
<1>7. DelegationInv
  BY <1>5, DelegatedAssumption DEF DelegationInv
<1> QED
  BY <1>1, <1>4, <1>6, <1>7 DEF IInv

LEMMA NextInv == IInv /\ [Next]_vars => IInv'
<1> SUFFICES ASSUME IInv, [Next]_vars PROVE IInv'
  OBVIOUS
<1>1. Typed' /\ TypeOK'
  BY NextTyped DEF IInv, Typed
<1>2. CASE UNCHANGED vars
  BY <1>1, <1>2 DEF IInv, vars, rows, review, AttemptLedger, LeaseInv, DelegationInv
<1>3. CASE Next
  <2>1. ASSUME NEW t \in Tasks, EnsureRevision(t) \/ RetryDue(t) \/ LeaseExpires(t)
        PROVE  AttemptLedger' /\ LeaseInv'
    BY <1>1, <2>1, RequestsKeep
  <2>2. ASSUME NEW t \in Tasks, NEW k \in Keys, Retry(t, k) \/ Cancel(t, k)
        PROVE  AttemptLedger' /\ LeaseInv'
    BY <1>1, <2>2, RequestsKeep
  <2>3. ASSUME NEW t \in Tasks, NEW d \in Decisions, NEW kind \in {"reidentify", "planning"},
               AcceptDecision(d, t, kind)
        PROVE  AttemptLedger' /\ LeaseInv'
    BY <1>1, <2>3, KeepsBothNone DEF AcceptDecision, rows
  <2>4. ASSUME UpdateProvider PROVE AttemptLedger' /\ LeaseInv'
    <3>1. PICK t \in Tasks : TRUE
      BY <2>4 DEF UpdateProvider
    <3> QED  BY <1>1, <2>4, <3>1, RequestsKeep
  <2>5. ASSUME NEW w \in Workers,
               \/ Claim(w) \/ NoWork(w)
               \/ BeatCheck(w) \/ BeatRenew(w) \/ BeatFails(w)
               \/ HandlerReturns(w) \/ FailsAfterCommit(w)
               \/ WorkerCloses(w) \/ WorkerAbandons(w)
        PROVE  AttemptLedger' /\ LeaseInv'
    BY <1>1, <2>5, ClaimKeeps, WorkerKeeps, CommitKeeps, FinishKeeps
       DEF HandlerReturns, WorkerCloses
  <2>6. ASSUME Dispatch PROVE AttemptLedger' /\ LeaseInv'
    BY <1>1, <2>6, DispatchKeeps
  <2>7. ASSUME Boot \/ ReclaimExpired \/ StartServing \/ StartRound \/ EndRound \/ Crash
        PROVE  AttemptLedger' /\ LeaseInv'
    BY <1>1, <2>7, RuntimeKeeps
  <2>8. AttemptLedger' /\ LeaseInv'
    BY <1>3, <2>1, <2>2, <2>3, <2>4, <2>5, <2>6, <2>7 DEF Next
  <2>9. DelegationInv'
    BY <1>3, DelegationKeeps
  <2> QED
    BY <1>1, <2>8, <2>9 DEF IInv
<1> QED
  BY <1>2, <1>3

\* The inductive invariant holds in every reachable state.
THEOREM Invariant == Spec => []IInv
BY InitInv, NextInv, PTL DEF Spec

\* Whatever takes over, recovers, retries, cancels, decides or finishes, the attempts of
\* a task stay a ledger of which the row is the last line (tasks/processing/store.rs).
THEOREM LedgerHolds == Spec => []AttemptLedger
<1>1. IInv => AttemptLedger
  BY DEF IInv
<1> QED
  BY <1>1, Invariant, PTL

\* A handler whose commit would be accepted works from a snapshot that is not stale
\* (the lease clone of worker.rs and the version condition of store.rs).
THEOREM SnapshotsAreCurrent == Spec => []SnapshotCurrent
<1>1. ASSUME IInv PROVE SnapshotCurrent
  <2>1. TypeOK /\ AttemptLedger /\ LeaseInv
    BY <1>1 DEF IInv, Typed
  <2> SUFFICES ASSUME NEW w \in Workers, Holds(w)
               PROVE  LET l == worker[w].lease  r == task[l.task] IN
                      /\ l.stage = r.stage /\ l.checkpoint = r.checkpoint
                      /\ l.attempt = r.current
                      /\ attempts[l.task][l.attempt].status = "running"
    BY DEF SnapshotCurrent
  <2> DEFINE l == worker[w].lease  r == task[l.task]
  <2>2. l # NoLease /\ r.status = "running" /\ r.version = l.version
    BY DEF Holds
  <2>3. l.task \in Tasks
    BY <2>1, <2>2, Leased DEF TypeOK
  <2>4. Fits(l, r) /\ LedgerOf(r, attempts[l.task]) /\ attempts[l.task] \in Seq(Attempt)
    BY <2>1, <2>2, <2>3, LedgerIsPerTask DEF LeaseInv, TypeOK
  <2>5. l.stage = r.stage /\ l.checkpoint = r.checkpoint /\ l.attempt = r.current
    BY <2>2, <2>4 DEF Fits
  <2>6. attempts[l.task][r.current].status = "running"
    <3>1. r.status = "running" /\ LedgerOf(r, attempts[l.task])
          /\ attempts[l.task] \in Seq(Attempt)
      BY <2>2, <2>4
    <3> HIDE DEF l, r
    <3> QED  BY <3>1, LedgerCurrent
  <2> QED  BY <2>5, <2>6
<1> QED
  BY <1>1, Invariant, PTL

=============================================================================
