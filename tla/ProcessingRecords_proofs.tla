---------------------- MODULE ProcessingRecords_proofs ----------------------
(***************************************************************************)
(* What is kept beside the rows of ProcessingTask agrees with them          *)
(* (RecordsAgree), the rows implement the fenced lease (LeaseSpec) and an   *)
(* accepted cancel binds, for any number of tasks, workers, requests and    *)
(* decisions.                                                               *)
(*                                                                         *)
(* The proof first says, once, how any step may change one row together     *)
(* with its attempts and its last event (Change), and then reads off that   *)
(* what each part of RecordsAgree needs.                                    *)
(***************************************************************************)
EXTENDS ProcessingTask_proofs, FunctionTheorems

-----------------------------------------------------------------------------
(***************************************************************************)
(* The inductive invariant.                                                *)
(***************************************************************************)

\* What the three row parts of RecordsAgree say of one row r, its attempts a and its last
\* event e.  Two facts are added: a running row has no reason (a heartbeat, a cancel and a
\* recovery announce none), and a row that shows as recovering never rests on a pause.
Past == {"file-operation", "nfo", "completion"}
Done == {"nfo", "completion"}

RowAgrees(r, a, e) ==
    /\ r.stage \in Past => r.plan
    /\ r.stage \in Done => r.result
    /\ r.catalog <=> r.status = "completed"
    /\ r.status = "completed" <=> r.checkpoint = "catalog-committed"
    /\ r.status = "waiting-confirmation" => r.stage = "identification"
    /\ r.status = "partial-success" => r.stage = "nfo"
    /\ r.recovering =>
          /\ r.current > 1
          /\ a[r.current].reason = "lease-recovery"
          /\ a[r.current - 1].failure = "lease-lost"
    /\ e.status = r.status /\ e.stage = r.stage /\ e.reason = r.reason
    /\ r.status = "running" => r.reason = "none"
    /\ r.recovering => r.status \in {"queued", "running", "cancelled"}

RowsAgree == \A t \in Tasks : RowAgrees(task[t], attempts[t], event[t])

\* The head of the queue is received before it is audited, and audited before it leaves;
\* no decision is queued twice.
QueueInv ==
    /\ audited \subseteq receipts /\ receipts \subseteq Accepted
    /\ Accepted \ Queued \subseteq audited
    /\ \A i, j \in 1 .. Len(queue) : queue[i] = queue[j] => i = j
    /\ runtime.step \in {"audit", "mark"} => Head(queue) \in receipts
    /\ runtime.step = "mark" => Head(queue) \in audited

Accounted(t) ==
    /\ IsFiniteSet(RetryKeys(t)) /\ IsFiniteSet(Received(t))
    /\ Cardinality(ManualAttempts(t)) = Cardinality(RetryKeys(t)) + Cardinality(Received(t))

AccountInv == \A t \in Tasks : Accounted(t)

RInv == IInv /\ RowsAgree /\ QueueInv /\ AccountInv

-----------------------------------------------------------------------------
(***************************************************************************)
(* How a step may change one row r, its attempts a and its event e into s,  *)
(* b and f.                                                                *)
(***************************************************************************)

\* The current attempt may change in place, but not its reason ...
Kept(a, b) ==
    /\ Len(b) = Len(a)
    /\ \A i \in 1 .. Len(a) : b[i].reason = a[i].reason
    /\ \A i \in 1 .. Len(a) : i # Len(a) => b[i] = a[i]

\* ... or one is added behind it.
Added(a, b, reason) ==
    /\ Len(b) = Len(a) + 1
    /\ \A i \in 1 .. Len(a) : b[i].reason = a[i].reason
    /\ b[Len(b)].reason = reason

SameReferences(r, s) == s.plan = r.plan /\ s.result = r.result /\ s.catalog = r.catalog
SamePlace(r, s) == s.stage = r.stage /\ s.checkpoint = r.checkpoint /\ SameReferences(r, s)

Told(s, f) == f.status = s.status /\ f.stage = s.stage /\ f.reason = s.reason

\* A column the records do not look at: the expiry, the cancel flag, the retry time.
Marked(r, a, e, s, b, f) ==
    /\ SamePlace(r, s) /\ s.status = r.status /\ s.reason = r.reason
    /\ s.recovering = r.recovering /\ s.current = r.current /\ b = a
    /\ \/ f = e
       \/ r.status = "running" /\ f.status = "running" /\ f.stage = r.stage /\ f.reason = "none"

Created(r, a, s, b) ==
    /\ Len(a) = 0 /\ Added(a, b, "initial")
    /\ s.status = "queued" /\ s.stage = "identification" /\ s.checkpoint = "pending"
    /\ ~s.recovering /\ ~s.plan /\ ~s.result /\ ~s.catalog

\* A claim: of a queued row, of a paused one, and of one whose lease was lost.
Taken(r, a, s, b) ==
    /\ SamePlace(r, s) /\ s.status = "running" /\ s.reason = "none"
    /\ \/ /\ r.status = "queued" /\ Kept(a, b)
          /\ s.recovering = r.recovering /\ s.current = r.current
       \/ /\ r.status = "paused" /\ Added(a, b, "dependency-recovery")
          /\ s.recovering = r.recovering
       \/ /\ r.status = "running" /\ Added(a, b, "lease-recovery")
          /\ b[Len(a)].failure = "lease-lost" /\ s.current = Len(b)

\* The end of a lease, by whatever transaction.
LetGo(r, a, s, b) ==
    /\ Kept(a, b) /\ r.status = "running" /\ s.status # "running" /\ ~s.recovering
    /\ s.status = "completed" <=> s.checkpoint = "catalog-committed"
    /\ s.catalog <=> s.status = "completed"
    /\ s.status = "waiting-confirmation" => s.stage = "identification"
    /\ s.status = "partial-success" => s.stage = "nfo"
    /\ s.stage \in Past => s.plan
    /\ s.stage \in Done => s.result

\* A request that withdraws a task nobody runs.
Dropped(r, a, s, b) ==
    /\ Kept(a, b) /\ r.status \in {"queued", "paused", "waiting-confirmation"}
    /\ s.status = "cancelled" /\ s.stage = r.stage /\ s.checkpoint = "cancelled"
    /\ SameReferences(r, s) /\ s.recovering = r.recovering /\ s.current = r.current

\* reclaim_expired.
Recovered(r, a, s, b) ==
    /\ r.status = "running" /\ SamePlace(r, s) /\ s.status = "queued"
    /\ Added(a, b, "lease-recovery") /\ b[Len(a)].failure = "lease-lost"
    /\ s.current = Len(b)

\* A retry that was requested, or a decision that sends the task back.
Asked(r, a, s, b) ==
    /\ Added(a, b, "manual-retry") /\ r.status # "completed"
    /\ s.status = "queued" /\ ~s.recovering /\ SameReferences(r, s)
    /\ \/ s.stage = r.stage /\ s.checkpoint = r.checkpoint
       \/ s.stage \in {"identification", "planning"}
          /\ s.checkpoint \in {"identification-complete", "pending"}

Unasked(r, a, e, s, b, f) ==
    \/ Marked(r, a, e, s, b, f)
    \/ /\ Told(s, f)
       /\ \/ Created(r, a, s, b) \/ Taken(r, a, s, b) \/ LetGo(r, a, s, b)
          \/ Dropped(r, a, s, b) \/ Recovered(r, a, s, b)

Change(r, a, e, s, b, f) ==
    Unasked(r, a, e, s, b, f) \/ (Told(s, f) /\ Asked(r, a, s, b))

\* Every change keeps the row's records in agreement.
LEMMA ChangeAgrees ==
  ASSUME NEW r \in Row, NEW a \in Seq(Attempt), NEW e, LedgerOf(r, a), RowAgrees(r, a, e),
         NEW s \in Row, NEW b \in Seq(Attempt), NEW f, Change(r, a, e, s, b, f),
         s.status = "running" => s.reason = "none"
  PROVE  RowAgrees(s, b, f)
<1>1. /\ r.current = Len(a) /\ Len(a) \in Nat /\ Len(b) \in Nat
      /\ r.status # "absent" => Len(a) > 0
      /\ r.recovering \in BOOLEAN /\ s.recovering \in BOOLEAN
  BY RowFields DEF LedgerOf
<1>2. CASE Marked(r, a, e, s, b, f)
  BY <1>2 DEF Marked, SamePlace, SameReferences, RowAgrees
<1>3. CASE Told(s, f) /\ Created(r, a, s, b)
  BY <1>3 DEF Told, Created, RowAgrees, Past, Done
<1>4. CASE Told(s, f) /\ Taken(r, a, s, b)
  <2>1. s.recovering => /\ s.current > 1
                        /\ b[s.current].reason = "lease-recovery"
                        /\ b[s.current - 1].failure = "lease-lost"
    <3>1. CASE r.status = "queued"
      <4>1. Kept(a, b) /\ s.recovering = r.recovering /\ s.current = r.current
        BY <1>4, <3>1 DEF Taken
      <4>2. r.recovering => r.current \in 1 .. Len(a) /\ r.current - 1 \in 1 .. Len(a)
                            /\ r.current - 1 # Len(a)
        BY <1>1 DEF RowAgrees
      <4> QED  BY <4>1, <4>2 DEF Kept, RowAgrees
    <3>2. CASE r.status = "paused"
      BY <1>4, <3>2 DEF Taken, RowAgrees
    <3>3. CASE r.status = "running"
      BY <1>1, <1>4, <3>3 DEF Taken, Added
    <3> QED  BY <1>4, <3>1, <3>2, <3>3 DEF Taken
  <2> QED
    BY <1>4, <2>1 DEF Told, Taken, SamePlace, SameReferences, RowAgrees
<1>5. CASE Told(s, f) /\ LetGo(r, a, s, b)
  BY <1>5 DEF Told, LetGo, RowAgrees
<1>6. CASE Told(s, f) /\ Dropped(r, a, s, b)
  <2>1. r.recovering => r.current \in 1 .. Len(a) /\ r.current - 1 \in 1 .. Len(a)
                        /\ r.current - 1 # Len(a)
    BY <1>1 DEF RowAgrees
  <2>2. s.recovering => /\ s.current > 1
                        /\ b[s.current].reason = "lease-recovery"
                        /\ b[s.current - 1].failure = "lease-lost"
    BY <1>6, <2>1 DEF Dropped, Kept, RowAgrees
  <2> QED  BY <1>6, <2>2 DEF Told, Dropped, SameReferences, RowAgrees
<1>7. CASE Told(s, f) /\ Recovered(r, a, s, b)
  <2>1. /\ s.current > 1
        /\ b[s.current].reason = "lease-recovery"
        /\ b[s.current - 1].failure = "lease-lost"
    BY <1>1, <1>7 DEF Recovered, Added
  <2> QED  BY <1>7, <2>1 DEF Told, Recovered, SamePlace, SameReferences, RowAgrees
<1>8. CASE Told(s, f) /\ Asked(r, a, s, b)
  BY <1>8 DEF Told, Asked, SameReferences, RowAgrees, Past, Done
<1> QED
  BY <1>2, <1>3, <1>4, <1>5, <1>6, <1>7, <1>8 DEF Change, Unasked


-----------------------------------------------------------------------------
(***************************************************************************)
(* The columns each write leaves, beyond those the ledger looks at.        *)
(***************************************************************************)

LEMMA FinishedRest ==
  ASSUME NEW r \in Row, NEW x
  PROVE  LET s == FinishedRow(r, x) IN
         /\ s.status = x.status /\ s.stage = x.stage /\ s.checkpoint = x.checkpoint
         /\ s.reason = x.reason /\ s.recovering = FALSE /\ SameReferences(r, s)
BY DEF FinishedRow, Released, Row, SameReferences

LEMMA MovedRest ==
  ASSUME NEW r \in Row, NEW x
  PROVE  LET s == MovedRow(r, x) IN
         /\ s.status = x.status /\ s.stage = x.stage /\ s.checkpoint = x.checkpoint
         /\ s.reason = x.reason /\ s.recovering = FALSE
         /\ s.plan = (r.plan \/ x.plan) /\ s.result = (r.result \/ x.result)
         /\ s.catalog = (r.catalog \/ x.catalog)
<1> DEFINE y == FinishedRow(r, x)
<1>1. /\ y.status = x.status /\ y.stage = x.stage /\ y.checkpoint = x.checkpoint
      /\ y.reason = x.reason /\ y.recovering = FALSE /\ SameReferences(r, y)
  BY FinishedRest
<1>2. DOMAIN y = DOMAIN r
  BY DEF FinishedRow, Released
<1>3. DOMAIN r = {"status", "stage", "checkpoint", "reason", "recovering", "attemptCount",
                  "current", "cancelRequested", "owner", "expired", "retry", "plan", "result",
                  "catalog", "version", "created"}
  BY DEF Row
<1> HIDE DEF y
<1> QED
  BY <1>1, <1>2, <1>3 DEF MovedRow, y, SameReferences

LEMMA RetriedRest ==
  ASSUME NEW r \in Row
  PROVE  LET s == Retried(r) IN
         SamePlace(r, s) /\ s.reason = "none" /\ s.recovering = FALSE
BY DEF Retried, Requeued, Row, SamePlace, SameReferences

LEMMA RecoveringRest ==
  ASSUME NEW r \in Row
  PROVE  LET s == RecoveringRow(r) IN SamePlace(r, s) /\ s.reason = r.reason
BY DEF RecoveringRow, Requeued, Row, SamePlace, SameReferences

LEMMA DecidedRest ==
  ASSUME NEW r \in Row, NEW d
  PROVE  LET s == DecidedRow(r, d) IN
         /\ s.stage \in {"identification", "planning"}
         /\ s.checkpoint \in {"identification-complete", "pending"}
         /\ s.reason = "none" /\ s.recovering = FALSE /\ SameReferences(r, s)
BY DEF DecidedRow, Requeued, Row, SameReferences

LEMMA CancelledRest ==
  ASSUME NEW r \in Row
  PROVE  LET s == CancelledRow(r) IN
         /\ s.checkpoint = "cancelled" /\ s.reason = "none"
         /\ s.recovering = r.recovering /\ SameReferences(r, s)
BY DEF CancelledRow, Row, SameReferences

LEMMA DueRest ==
  ASSUME NEW r \in Row
  PROVE  LET s == DueRow(r) IN
         SamePlace(r, s) /\ s.reason = r.reason /\ s.recovering = r.recovering
BY DEF DueRow, Row, SamePlace, SameReferences

LEMMA ClaimedRest ==
  ASSUME NEW t \in Tasks, NEW w \in Workers, task[t] \in Row
  PROVE  LET r == task[t]  s == ClaimedRow(t, w) IN
         /\ SamePlace(r, s) /\ s.reason = "none"
         /\ s.recovering = (r.recovering \/ r.status = "running")
BY DEF ClaimedRow, Row, SamePlace, SameReferences

LEMMA NewRest ==
  /\ NewRow.checkpoint = "pending" /\ NewRow.reason = "none" /\ NewRow.recovering = FALSE
  /\ NewRow.plan = FALSE /\ NewRow.result = FALSE /\ NewRow.catalog = FALSE
BY DEF NewRow, Absent

-----------------------------------------------------------------------------
(***************************************************************************)
(* The lists of attempts.                                                  *)
(***************************************************************************)

LEMMA KeptSelf == \A a \in Seq(Attempt) : Kept(a, a)
BY DEF Kept

LEMMA KeptReplace ==
  ASSUME NEW a \in Seq(Attempt), Len(a) > 0, NEW x, x.reason = a[Len(a)].reason
  PROVE  Kept(a, [a EXCEPT ![Len(a)] = x])
<1> DEFINE b == [a EXCEPT ![Len(a)] = x]
<1>1. Len(b) = Len(a) /\ b[Len(a)] = x /\ \A i \in 1 .. Len(a) : i # Len(a) => b[i] = a[i]
  OBVIOUS
<1> HIDE DEF b
<1>2. Kept(a, b)
  BY <1>1 DEF Kept
<1> QED  BY <1>2 DEF b

LEMMA KeptAppend ==
  ASSUME NEW a \in Seq(Attempt), NEW b \in Seq(Attempt), Kept(a, b), NEW x \in Attempt
  PROVE  /\ Added(a, Append(b, x), x.reason)
         /\ Len(a) > 0 => Append(b, x)[Len(a)] = b[Len(a)]
<1> DEFINE c == Append(b, x)
<1>1. Len(a) \in Nat /\ Len(b) = Len(a) /\ \A i \in 1 .. Len(a) : b[i].reason = a[i].reason
  BY DEF Kept
<1>2. Len(c) = Len(a) + 1 /\ c[Len(c)] = x /\ \A i \in 1 .. Len(a) : c[i] = b[i]
  BY <1>1
<1> HIDE DEF c
<1>3. Added(a, c, x.reason) /\ (Len(a) > 0 => c[Len(a)] = b[Len(a)])
  BY <1>1, <1>2 DEF Added
<1> QED  BY <1>3 DEF c

\* The attempt that loses its lease is closed with that failure.
LEMMA KeptClose ==
  ASSUME NEW a \in Seq(Attempt), Len(a) > 0, NEW status, NEW failure
  PROVE  /\ Kept(a, Close(a, Len(a), status, failure))
         /\ a[Len(a)].status = "running" =>
              Close(a, Len(a), status, failure)[Len(a)].failure = failure
<1> DEFINE x == [a[Len(a)] EXCEPT !.status = status, !.failure = failure]
<1>1. x.reason = a[Len(a)].reason /\ x.failure = failure
  <2>1. a[Len(a)] \in Attempt
    BY ListItem
  <2> QED  BY <2>1 DEF Attempt
<1> HIDE DEF x
<1>2. Kept(a, [a EXCEPT ![Len(a)] = x]) /\ [a EXCEPT ![Len(a)] = x][Len(a)] = x
  BY <1>1, KeptReplace
<1>3. Close(a, Len(a), status, failure) = IF a[Len(a)].status = "running"
                                           THEN [a EXCEPT ![Len(a)] = x] ELSE a
  BY DEF Close, x
<1> QED  BY <1>1, <1>2, <1>3, KeptSelf

LEMMA KeptWithdrawn ==
  ASSUME NEW a \in Seq(Attempt), Len(a) > 0
  PROVE  Kept(a, Withdrawn(a, Len(a)))
<1> DEFINE x == [a[Len(a)] EXCEPT !.status = "cancelled"]
<1>1. x.reason = a[Len(a)].reason
  BY ListItem DEF Attempt
<1> HIDE DEF x
<1>2. Kept(a, [a EXCEPT ![Len(a)] = x])
  BY <1>1, KeptReplace
<1> QED  BY <1>2, KeptSelf DEF Withdrawn, x

LEMMA KeptSuperseded ==
  ASSUME NEW a \in Seq(Attempt), Len(a) > 0
  PROVE  Kept(a, Superseded(a, Len(a)))
<1> DEFINE x == [a[Len(a)] EXCEPT !.status = "cancelled"]
<1>1. x.reason = a[Len(a)].reason
  BY ListItem DEF Attempt
<1> HIDE DEF x
<1>2. Kept(a, [a EXCEPT ![Len(a)] = x])
  BY <1>1, KeptReplace
<1> QED  BY <1>2, KeptSelf DEF Superseded, x

LEMMA KeptIdentified ==
  ASSUME NEW a \in Seq(Attempt), Len(a) > 0, NEW x
  PROVE  Kept(a, Identified(a, Len(a), x))
<1> DEFINE y == IdentifiedAttempt(a[Len(a)], x)
<1>1. y.reason = a[Len(a)].reason
  <2>1. a[Len(a)] \in Attempt
    BY ListItem
  <2> QED  BY <2>1 DEF Attempt, IdentifiedAttempt
<1> HIDE DEF y
<1>2. Kept(a, [a EXCEPT ![Len(a)] = y])
  BY <1>1, KeptReplace
<1> QED  BY <1>2 DEF Identified, y

LEMMA KeptMoved ==
  ASSUME NEW a \in Seq(Attempt), Len(a) > 0, NEW x, x.continue \in BOOLEAN
  PROVE  Kept(a, MovedAttempts(a, Len(a), x))
<1> DEFINE y == MovedAttempt(a[Len(a)], x)
<1>1. y.reason = a[Len(a)].reason
  <2>1. a[Len(a)] \in Attempt
    BY ListItem
  <2> QED  BY <2>1 DEF Attempt, MovedAttempt
<1> HIDE DEF y
<1>2. Kept(a, [a EXCEPT ![Len(a)] = y])
  BY <1>1, KeptReplace
<1> QED  BY <1>2, KeptSelf DEF MovedAttempts, y

-----------------------------------------------------------------------------
(***************************************************************************)
(* How a lease ends.                                                       *)
(***************************************************************************)

\* What a move brings: the next stage gets what it needs from the one before.
Brings(x, stage) ==
    /\ x.status \notin {"running", "waiting-confirmation"}
    /\ x.stage \in Past => x.plan \/ stage \in Past
    /\ x.stage \in Done => x.result \/ stage \in Done
    /\ x.catalog <=> x.status = "completed"
    /\ x.status = "completed" <=> x.checkpoint = "catalog-committed"
    /\ x.status = "partial-success" => x.stage = "nfo"
    /\ x.status = "completed" => ~x.continue
    /\ x.catalog \in BOOLEAN /\ x.continue \in BOOLEAN

LEMMA MovesBring ==
  ASSUME NEW stage, NEW x \in Moves(stage)
  PROVE  Brings(x, stage)
<1> USE DEF Past, Done
<1>1. \A y \in PlanningMoves : Brings(y, "planning")
  <2> SUFFICES ASSUME NEW y \in PlanningMoves PROVE Brings(y, "planning")
    OBVIOUS
  <2>1. CASE y = [Move("queued", "file-operation", "execution-authorized", "none", "none",
                       TRUE) EXCEPT !.plan = TRUE]
    BY <2>1 DEF Move, Brings
  <2>2. CASE y = [Move("paused", "planning", "planning-paused", "organization", "none",
                       FALSE) EXCEPT !.plan = TRUE]
    BY <2>2 DEF Move, Brings
  <2>3. CASE y = Move("paused", "planning", "planning-paused", "organization", "none", FALSE)
    BY <2>3 DEF Move, Brings
  <2> QED
    BY <2>1, <2>2, <2>3 DEF PlanningMoves
<1>2. \A y \in FileMoves : Brings(y, "file-operation")
  <2> SUFFICES ASSUME NEW y \in FileMoves PROVE Brings(y, "file-operation")
    OBVIOUS
  <2>1. CASE y = [Move("queued", "nfo", "nfo-pending", "none", "none", TRUE)
                    EXCEPT !.result = TRUE]
    BY <2>1 DEF Move, Brings
  <2>2. CASE y = [Move("queued", "completion", "local-result-prepared", "none", "none", TRUE)
                    EXCEPT !.result = TRUE]
    BY <2>2 DEF Move, Brings
  <2>3. CASE y = Move("paused", "file-operation", "file-operation-executing",
                      "organization", "pending", FALSE)
    BY <2>3 DEF Move, Brings
  <2>4. CASE y = Move("paused", "file-operation", "file-operation-manual-review",
                      "organization", "none", FALSE)
    BY <2>4 DEF Move, Brings
  <2>5. CASE y = [Move("paused", "file-operation", "file-operation-manual-review",
                       "organization", "none", FALSE) EXCEPT !.result = TRUE]
    BY <2>5 DEF Move, Brings
  <2> QED
    BY <2>1, <2>2, <2>3, <2>4, <2>5 DEF FileMoves
<1>3. \A y \in NfoMoves : Brings(y, "nfo")
  BY DEF NfoMoves, Move, Brings
<1>4. \A y \in CompletionMoves : Brings(y, "completion")
  BY DEF CompletionMoves, Move, Brings
<1>5. \/ stage = "planning" /\ x \in PlanningMoves
      \/ stage = "file-operation" /\ x \in FileMoves
      \/ stage = "nfo" /\ x \in NfoMoves
      \/ stage = "completion" /\ x \in CompletionMoves
  BY DEF Moves
<1> QED
  BY <1>1, <1>2, <1>3, <1>4, <1>5

\* A row that runs has no catalog entry yet.
LEMMA RunningPlain ==
  ASSUME NEW r, NEW a, NEW e, RowAgrees(r, a, e), r.status = "running"
  PROVE  ~r.catalog /\ r.checkpoint # "catalog-committed" /\ r.reason = "none"
BY DEF RowAgrees

LEMMA MoveLetsGo ==
  ASSUME NEW r \in Row, NEW a \in Seq(Attempt), NEW e, LedgerOf(r, a), RowAgrees(r, a, e),
         r.status = "running", NEW x0 \in Moves(r.stage)
  PROVE  LET x == Decide(r, x0)  s == MovedRow(r, x) IN
         LetGo(r, a, s, MovedAttempts(a, r.current, x))
<1> DEFINE x == Decide(r, x0)  s == MovedRow(r, x)
<1>1. Brings(x0, r.stage)
  BY MovesBring
<1>2. /\ x.status \notin {"running", "waiting-confirmation"}
      /\ x.stage \in Past => x.plan \/ r.stage \in Past
      /\ x.stage \in Done => x.result \/ r.stage \in Done
      /\ x.catalog <=> x.status = "completed"
      /\ x.status = "completed" <=> x.checkpoint = "catalog-committed"
      /\ x.status = "partial-success" => x.stage = "nfo"
      /\ x.continue \in BOOLEAN
  <2>1. CASE ~(r.cancelRequested /\ x0.continue)
    BY <1>1, <2>1 DEF Decide, Brings
  <2>2. CASE r.cancelRequested /\ x0.continue
    <3>1. Moving(x0)
      BY MovesAreMoving
    <3>2. /\ x.status = "cancelled" /\ x.stage = r.stage /\ x.checkpoint = "cancelled"
          /\ x.continue = FALSE /\ x.catalog = x0.catalog
      BY <2>2 DEF Decide
    <3>3. ~x0.catalog
      BY <1>1, <2>2 DEF Brings
    <3> QED  BY <3>2, <3>3
  <2> QED  BY <2>1, <2>2
<1> HIDE DEF x
<1>3. /\ s.status = x.status /\ s.stage = x.stage /\ s.checkpoint = x.checkpoint
      /\ s.recovering = FALSE
      /\ s.plan = (r.plan \/ x.plan) /\ s.result = (r.result \/ x.result)
      /\ s.catalog = (r.catalog \/ x.catalog)
  BY MovedRest
<1>4. Kept(a, MovedAttempts(a, r.current, x))
  BY <1>2, LedgerCurrent, KeptMoved
<1>5. ~r.catalog /\ (r.stage \in Past => r.plan) /\ (r.stage \in Done => r.result)
  BY DEF RowAgrees
<1> HIDE DEF s
<1>6. LetGo(r, a, s, MovedAttempts(a, r.current, x))
  BY <1>2, <1>3, <1>4, <1>5 DEF LetGo
<1> QED  BY <1>6 DEF x, s

\* An ending neither completes nor partly completes a task, and takes it no further than planning.
Ends(r, x) ==
    /\ x.status \notin {"running", "completed", "partial-success"}
    /\ x.checkpoint # "catalog-committed"
    /\ x.status = "waiting-confirmation" => x.stage = "identification"
    /\ x.stage \in {r.stage, "identification", "planning"}

LEMMA EndingLetsGo ==
  ASSUME NEW r \in Row, NEW a \in Seq(Attempt), NEW e, LedgerOf(r, a), RowAgrees(r, a, e),
         r.status = "running", NEW x, Ends(r, x), NEW b, Kept(a, b)
  PROVE  LetGo(r, a, FinishedRow(r, x), b)
<1> DEFINE s == FinishedRow(r, x)
<1>1. /\ s.status = x.status /\ s.stage = x.stage /\ s.checkpoint = x.checkpoint
      /\ s.recovering = FALSE /\ SameReferences(r, s)
  BY FinishedRest
<1>2. ~r.catalog /\ (r.stage \in Past => r.plan) /\ (r.stage \in Done => r.result)
  BY DEF RowAgrees
<1> HIDE DEF s
<1>3. LetGo(r, a, s, b)
  BY <1>1, <1>2 DEF LetGo, Ends, SameReferences, Past, Done
<1> QED  BY <1>3 DEF s

LEMMA IdentificationEnds ==
  ASSUME NEW r, NEW x \in IdentificationOutcomes
  PROVE  Ends(r, x)
BY DEF IdentificationOutcomes, Confirmed, NeedsReview, Blocked, RevisionChanged, Ending, Ends

-----------------------------------------------------------------------------
(***************************************************************************)
(* Every step changes each row in one of these ways.                       *)
(***************************************************************************)

Plain(t) == Unasked(task[t], attempts[t], event[t], task'[t], attempts'[t], event'[t])
ByRequest(t) == Told(task'[t], event'[t]) /\ Asked(task[t], attempts[t], task'[t], attempts'[t])

\* What is known of one row and its list.
LEMMA RowKnown ==
  ASSUME IInv, RowsAgree, NEW t \in Tasks
  PROVE  /\ task[t] \in Row /\ attempts[t] \in Seq(Attempt) /\ LedgerOf(task[t], attempts[t])
         /\ RowAgrees(task[t], attempts[t], event[t])
         /\ task[t].status # "absent" =>
              /\ task[t].current = Len(attempts[t]) /\ task[t].attemptCount = Len(attempts[t])
              /\ Len(attempts[t]) > 0 /\ Len(attempts[t]) \in Nat
         /\ task[t].status = "running" => attempts[t][Len(attempts[t])].status = "running"
<1>1. task[t] \in Row /\ attempts[t] \in Seq(Attempt) /\ LedgerOf(task[t], attempts[t])
  BY LedgerIsPerTask DEF IInv, Typed, TypeOK
<1>2. RowAgrees(task[t], attempts[t], event[t])
  BY DEF RowsAgree
<1> QED
  BY <1>1, <1>2, LedgerCurrent

LEMMA PlainSame ==
  ASSUME NEW t \in Tasks, task'[t] = task[t], attempts'[t] = attempts[t], event'[t] = event[t]
  PROVE  Plain(t)
BY DEF Plain, Unasked, Marked, SamePlace, SameReferences

LEMMA PlainNone ==
  ASSUME UNCHANGED rows, NEW t \in Tasks
  PROVE  Plain(t)
BY PlainSame DEF rows

\* A step that writes one row leaves the others as they are.
LEMMA PlainOne ==
  ASSUME TypeOK, NEW u \in Tasks, NEW s, NEW b, NEW f,
         task' = [task EXCEPT ![u] = s], attempts' = [attempts EXCEPT ![u] = b],
         event' = [event EXCEPT ![u] = f],
         Unasked(task[u], attempts[u], event[u], s, b, f), NEW t \in Tasks
  PROVE  Plain(t)
<1>1. CASE t = u
  <2>1. task'[u] = s /\ attempts'[u] = b /\ event'[u] = f
    BY DEF TypeOK
  <2> QED  BY <1>1, <2>1 DEF Plain
<1>2. CASE t # u
  BY <1>2, PlainSame DEF TypeOK
<1> QED  BY <1>1, <1>2

\* A step that marks one row, and announces nothing.
LEMMA PlainMark ==
  ASSUME TypeOK, NEW u \in Tasks, NEW s,
         task' = [task EXCEPT ![u] = s], attempts' = attempts, event' = event,
         SamePlace(task[u], s), s.status = task[u].status, s.reason = task[u].reason,
         s.recovering = task[u].recovering, s.current = task[u].current, NEW t \in Tasks
  PROVE  Plain(t)
<1>1. CASE t = u
  <2>1. task'[u] = s /\ attempts'[u] = attempts[u] /\ event'[u] = event[u]
    BY DEF TypeOK
  <2> QED  BY <1>1, <2>1 DEF Plain, Unasked, Marked
<1>2. CASE t # u
  BY <1>2, PlainSame DEF TypeOK
<1> QED  BY <1>1, <1>2

LEMMA MarksArePlain ==
  ASSUME IInv, RowsAgree, NEW t \in Tasks, NEW u \in Tasks
  PROVE  /\ RetryDue(u) \/ LeaseExpires(u) => Plain(t)
         /\ (\E w \in Workers : BeatRenew(w)) => Plain(t)
         /\ UpdateProvider => Plain(t)
         /\ CancelRunning(u) => Plain(t)
<1>1. TypeOK
  BY DEF IInv, Typed
<1>2. ASSUME NEW v \in Tasks
      PROVE  /\ \A x : LET s == [task[v] EXCEPT !.retry = x] IN
                  /\ SamePlace(task[v], s) /\ s.status = task[v].status /\ s.reason = task[v].reason
                  /\ s.recovering = task[v].recovering /\ s.current = task[v].current
             /\ \A x : LET s == [task[v] EXCEPT !.expired = x] IN
                  /\ SamePlace(task[v], s) /\ s.status = task[v].status /\ s.reason = task[v].reason
                  /\ s.recovering = task[v].recovering /\ s.current = task[v].current
             /\ \A x : LET s == [task[v] EXCEPT !.cancelRequested = x] IN
                  /\ SamePlace(task[v], s) /\ s.status = task[v].status /\ s.reason = task[v].reason
                  /\ s.recovering = task[v].recovering /\ s.current = task[v].current
  BY RowKnown DEF Row, SamePlace, SameReferences
<1>3. ASSUME RetryDue(u) PROVE Plain(t)
  <2> DEFINE s == [task[u] EXCEPT !.retry = "due"]
  <2>1. task' = [task EXCEPT ![u] = s] /\ attempts' = attempts /\ event' = event
    BY <1>3 DEF RetryDue
  <2>2. /\ SamePlace(task[u], s) /\ s.status = task[u].status /\ s.reason = task[u].reason
        /\ s.recovering = task[u].recovering /\ s.current = task[u].current
    BY <1>2
  <2> HIDE DEF s
  <2> QED  BY <1>1, <2>1, <2>2, PlainMark
<1>4. ASSUME LeaseExpires(u) PROVE Plain(t)
  <2> DEFINE s == [task[u] EXCEPT !.expired = TRUE]
  <2>1. task' = [task EXCEPT ![u] = s] /\ attempts' = attempts /\ event' = event
    BY <1>4 DEF LeaseExpires
  <2>2. /\ SamePlace(task[u], s) /\ s.status = task[u].status /\ s.reason = task[u].reason
        /\ s.recovering = task[u].recovering /\ s.current = task[u].current
    BY <1>2
  <2> HIDE DEF s
  <2> QED  BY <1>1, <2>1, <2>2, PlainMark
<1>5. ASSUME NEW w \in Workers, BeatRenew(w) PROVE Plain(t)
  <2>1. CASE ~Holds(w)
    BY <1>5, <2>1, PlainNone DEF BeatRenew, rows
  <2>2. CASE Holds(w)
    <3>1. PICK v \in Tasks : v = worker[w].lease.task
      BY <1>1, <1>5, Leased DEF BeatRenew, Busy
    <3> DEFINE s == [task[v] EXCEPT !.expired = FALSE]
    <3>2. task' = [task EXCEPT ![v] = s] /\ attempts' = attempts /\ event' = event
      BY <1>5, <2>2, <3>1 DEF BeatRenew
    <3>3. /\ SamePlace(task[v], s) /\ s.status = task[v].status /\ s.reason = task[v].reason
          /\ s.recovering = task[v].recovering /\ s.current = task[v].current
      BY <1>2
    <3> HIDE DEF s
    <3> QED  BY <1>1, <3>2, <3>3, PlainMark
  <2> QED  BY <2>1, <2>2
<1>6. ASSUME UpdateProvider PROVE Plain(t)
  <2>1. /\ task'[t] = IF BlockedByProvider(task[t]) THEN DueRow(task[t]) ELSE task[t]
        /\ attempts' = attempts /\ event' = event
    BY <1>6 DEF UpdateProvider
  <2>2. CASE BlockedByProvider(task[t])
    <3> DEFINE s == DueRow(task[t])
    <3>1. /\ SamePlace(task[t], s) /\ s.status = task[t].status /\ s.reason = task[t].reason
          /\ s.recovering = task[t].recovering /\ s.current = task[t].current
      BY RowKnown, DueRest, DueColumns
    <3>2. task'[t] = s
      BY <2>1, <2>2
    <3> HIDE DEF s
    <3> QED  BY <2>1, <3>1, <3>2 DEF Plain, Unasked, Marked
  <2>3. CASE ~BlockedByProvider(task[t])
    BY <2>1, <2>3, PlainSame
  <2> QED  BY <2>2, <2>3
<1>7. ASSUME CancelRunning(u) PROVE Plain(t)
  <2> DEFINE s == [task[u] EXCEPT !.cancelRequested = TRUE]
             f == [status |-> "running", stage |-> task[u].stage, recovering |-> FALSE,
                   reason |-> "none"]
  <2>1. /\ task' = [task EXCEPT ![u] = s] /\ attempts' = attempts /\ task[u].status = "running"
        /\ event' = [event EXCEPT ![u] = f]
    BY <1>7 DEF CancelRunning, Announce
  <2>2. /\ SamePlace(task[u], s) /\ s.status = task[u].status /\ s.reason = task[u].reason
        /\ s.recovering = task[u].recovering /\ s.current = task[u].current
    BY <1>2
  <2>3. f.status = "running" /\ f.stage = task[u].stage /\ f.reason = "none"
    OBVIOUS
  <2> HIDE DEF s, f
  <2>4. attempts' = [attempts EXCEPT ![u] = attempts[u]]
    BY <1>1, <2>1 DEF TypeOK
  <2>5. Unasked(task[u], attempts[u], event[u], s, attempts[u], f)
    BY <2>1, <2>2, <2>3 DEF Unasked, Marked
  <2> QED  BY <1>1, <2>1, <2>4, <2>5, PlainOne
<1> QED
  BY <1>3, <1>4, <1>5, <1>6, <1>7

LEMMA CreatedIsPlain ==
  ASSUME IInv, RowsAgree, NEW u \in Tasks, EnsureRevision(u), NEW t \in Tasks
  PROVE  Plain(t)
<1> DEFINE x == NewAttempt("initial", "queued", "identification")
           f == [status |-> "queued", stage |-> "identification", recovering |-> FALSE,
                 reason |-> "none"]
<1>1. /\ task' = [task EXCEPT ![u] = NewRow] /\ attempts' = [attempts EXCEPT ![u] = <<x>>]
      /\ event' = [event EXCEPT ![u] = f] /\ task[u].status = "absent"
  BY DEF EnsureRevision, Announce
<1>2. Len(attempts[u]) = 0
  BY <1>1, RowKnown DEF LedgerOf
<1>3. Added(attempts[u], <<x>>, "initial")
  <2>1. x.reason = "initial"
    BY DEF NewAttempt
  <2> HIDE DEF x
  <2>2. Len(<<x>>) = 1 /\ <<x>>[1] = x
    OBVIOUS
  <2> QED  BY <1>2, <2>1, <2>2 DEF Added
<1>4. Created(task[u], attempts[u], NewRow, <<x>>)
  BY <1>2, <1>3, NewColumns, NewRest DEF Created
<1>5. Told(NewRow, f)
  BY NewColumns, NewRest DEF Told
<1> HIDE DEF x, f
<1>6. Unasked(task[u], attempts[u], event[u], NewRow, <<x>>, f)
  BY <1>4, <1>5 DEF Unasked
<1> QED
  BY <1>1, <1>6, PlainOne DEF IInv, Typed

LEMMA ClaimIsPlain ==
  ASSUME IInv, RowsAgree, NEW w \in Workers, Claim(w), NEW t \in Tasks
  PROVE  Plain(t)
<1>1. PICK u \in Tasks :
        /\ Oldest(u)
        /\ task' = [task EXCEPT ![u] = ClaimedRow(u, w)]
        /\ attempts' = [attempts EXCEPT ![u] = ClaimedAttempts(u)]
        /\ Announce(u, "running", task[u].stage, ClaimedRow(u, w).recovering, "none")
  BY DEF Claim
<1> DEFINE r == task[u]  a == attempts[u]  s == ClaimedRow(u, w)  b == ClaimedAttempts(u)
           f == [status |-> "running", stage |-> r.stage, recovering |-> s.recovering,
                 reason |-> "none"]
<1>2. /\ r \in Row /\ a \in Seq(Attempt) /\ r.stage \in Stages
      /\ r.status \in {"queued", "paused", "running"}
      /\ r.current = Len(a) /\ r.attemptCount = Len(a) /\ Len(a) > 0 /\ Len(a) \in Nat
      /\ r.status = "running" => a[Len(a)].status = "running"
  BY <1>1, RowKnown, RowFields DEF Oldest, Claimable
<1>3. /\ SamePlace(r, s) /\ s.reason = "none" /\ s.status = "running"
      /\ s.recovering = (r.recovering \/ r.status = "running")
      /\ r.status = "queued" => s.current = r.current
      /\ r.status # "queued" => s.current = r.attemptCount + 1
  BY <1>2, ClaimedRest, ClaimedColumns
<1>4. r.status = "queued" => Kept(a, b)
  <2> SUFFICES ASSUME r.status = "queued" PROVE Kept(a, b)
    OBVIOUS
  <2> DEFINE x == [a[Len(a)] EXCEPT !.status = "running"]
  <2>1. b = [a EXCEPT ![Len(a)] = x]
    BY <1>2 DEF ClaimedAttempts
  <2>2. x.reason = a[Len(a)].reason
    BY <1>2, ListItem DEF Attempt
  <2> HIDE DEF x
  <2> QED  BY <1>2, <2>1, <2>2, KeptReplace
<1>5. ASSUME NEW reason \in AttemptReasons
      PROVE  LET x == NewAttempt(reason, "running", r.stage) IN x \in Attempt /\ x.reason = reason
  BY <1>2, NewAttemptType DEF NewAttempt, AttemptStatuses
<1>6. r.status = "paused" => Added(a, b, "dependency-recovery")
  <2> SUFFICES ASSUME r.status = "paused" PROVE Added(a, b, "dependency-recovery")
    OBVIOUS
  <2> DEFINE x == NewAttempt("dependency-recovery", "running", r.stage)
  <2>1. x \in Attempt /\ x.reason = "dependency-recovery"
    BY <1>5 DEF AttemptReasons
  <2>2. b = Append(a, x)
    BY DEF ClaimedAttempts
  <2> HIDE DEF x, a, b
  <2>3. Added(a, Append(a, x), x.reason)
    BY <1>2, <2>1, KeptSelf, KeptAppend
  <2> QED  BY <2>1, <2>2, <2>3
<1>7. r.status = "running" => /\ Added(a, b, "lease-recovery")
                              /\ b[Len(a)].failure = "lease-lost" /\ s.current = Len(b)
  <2> SUFFICES ASSUME r.status = "running"
               PROVE  /\ Added(a, b, "lease-recovery")
                      /\ b[Len(a)].failure = "lease-lost" /\ s.current = Len(b)
    OBVIOUS
  <2> DEFINE x == NewAttempt("lease-recovery", "running", r.stage)
             c == Close(a, Len(a), "failed", "lease-lost")
  <2>1. x \in Attempt /\ x.reason = "lease-recovery"
    BY <1>5 DEF AttemptReasons
  <2>2. b = Append(c, x)
    BY <1>2 DEF ClaimedAttempts
  <2>3. c \in Seq(Attempt) /\ Kept(a, c) /\ c[Len(a)].failure = "lease-lost"
    BY <1>2, KeptClose, CloseType DEF AttemptStatuses, Failures
  <2> HIDE DEF x, a, b, c, r, s
  <2>4. Added(a, Append(c, x), x.reason) /\ Append(c, x)[Len(a)] = c[Len(a)]
    BY <1>2, <2>1, <2>3, KeptAppend
  <2>5. Len(b) = Len(a) + 1
    BY <2>2, <2>4 DEF Added
  <2> QED  BY <1>2, <1>3, <2>1, <2>2, <2>3, <2>4, <2>5
<1>8. event' = [event EXCEPT ![u] = f]
  BY <1>1 DEF Announce
<1>9. Told(s, f)
  BY <1>3 DEF Told, SamePlace
<1> HIDE DEF r, a, s, b, f
<1>10. Taken(r, a, s, b)
  <2>1. r.recovering \in BOOLEAN
    BY <1>2, RowFields
  <2> QED  BY <1>2, <1>3, <1>4, <1>6, <1>7, <2>1 DEF Taken
<1>11. Unasked(r, a, event[u], s, b, f)
  BY <1>9, <1>10 DEF Unasked
<1> QED
  BY <1>1, <1>8, <1>11, PlainOne DEF IInv, Typed, r, a, s, b

\* An ending written over the row a worker runs.
LEMMA EndIsPlain ==
  ASSUME IInv, RowsAgree, NEW u \in Tasks, task[u].status = "running", NEW x, Ends(task[u], x),
         NEW b, Kept(attempts[u], b),
         task' = [task EXCEPT ![u] = FinishedRow(task[u], x)],
         attempts' = [attempts EXCEPT ![u] = b],
         Announce(u, x.status, x.stage, FALSE, x.reason), NEW t \in Tasks
  PROVE  Plain(t)
<1> DEFINE s == FinishedRow(task[u], x)
           f == [status |-> x.status, stage |-> x.stage, recovering |-> FALSE,
                 reason |-> x.reason]
<1>1. LetGo(task[u], attempts[u], s, b)
  BY RowKnown, EndingLetsGo
<1>2. Told(s, f)
  <2>1. s.status = x.status /\ s.stage = x.stage /\ s.reason = x.reason
    BY RowKnown, FinishedRest
  <2> QED  BY <2>1 DEF Told
<1>3. event' = [event EXCEPT ![u] = f] /\ task' = [task EXCEPT ![u] = s]
  BY DEF Announce
<1> HIDE DEF s, f
<1>4. Unasked(task[u], attempts[u], event[u], s, b, f)
  BY <1>1, <1>2 DEF Unasked
<1> QED
  BY <1>3, <1>4, PlainOne DEF IInv, Typed

LEMMA CommitIsPlain ==
  ASSUME IInv, RowsAgree, NEW w \in Workers, IdentificationCommit(w) \/ OrganizationCommit(w),
         NEW t \in Tasks
  PROVE  Plain(t)
<1>1. worker[w].pc \in Busy
  BY DEF IdentificationCommit, OrganizationCommit, Busy
<1>2. PICK u \in Tasks : u = worker[w].lease.task /\ worker[w].lease # NoLease
  BY <1>1, Leased, LeaseFields DEF IInv, Typed
<1> DEFINE l == worker[w].lease  r == task[u]  a == attempts[u]
<1>3. /\ r \in Row /\ a \in Seq(Attempt) /\ LedgerOf(r, a) /\ RowAgrees(r, a, event[u])
      /\ r.status = "running" => r.current = Len(a) /\ Len(a) > 0
      /\ Fits(l, r)
  BY <1>2, RowKnown DEF IInv, LeaseInv
<1>4. CASE IdentificationCommit(w)
  <2>1. r.status = "running" /\ r.current = l.attempt
    BY <1>2, <1>4 DEF IdentificationCommit, Authority
  <2>2. PICK x \in IdentificationOutcomes :
          /\ task' = [task EXCEPT ![u] = FinishedRow(r, x)]
          /\ attempts' = [attempts EXCEPT ![u] = Identified(a, l.attempt, x)]
          /\ Announce(u, x.status, x.stage, FALSE, x.reason)
    BY <1>2, <1>4 DEF IdentificationCommit
  <2>3. Ends(r, x)
    BY IdentificationEnds
  <2>4. Kept(a, Identified(a, l.attempt, x))
    BY <1>3, <2>1, KeptIdentified
  <2> QED  BY <2>1, <2>2, <2>3, <2>4, EndIsPlain
<1>5. CASE OrganizationCommit(w)
  <2>1. r.status = "running" /\ l.stage = r.stage /\ l.attempt = r.current
    BY <1>2, <1>3, <1>5 DEF OrganizationCommit, Holds, Fits
  <2>2. PICK x0 \in Moves(l.stage) : LET x == Decide(r, x0) IN
          /\ task' = [task EXCEPT ![u] = MovedRow(r, x)]
          /\ attempts' = [attempts EXCEPT ![u] = MovedAttempts(a, l.attempt, x)]
          /\ Announce(u, x.status, x.stage, FALSE, x.reason)
    BY <1>2, <1>5 DEF OrganizationCommit
  <2> DEFINE x == Decide(r, x0)  s == MovedRow(r, x)  b == MovedAttempts(a, r.current, x)
             f == [status |-> x.status, stage |-> x.stage, recovering |-> FALSE,
                   reason |-> x.reason]
  <2>3. LetGo(r, a, s, b)
    BY <1>3, <2>1, MoveLetsGo
  <2>4. s.status = x.status /\ s.stage = x.stage /\ s.reason = x.reason
    BY <1>3, MovedRest
  <2>5. /\ task' = [task EXCEPT ![u] = s] /\ attempts' = [attempts EXCEPT ![u] = b]
        /\ event' = [event EXCEPT ![u] = f]
    BY <2>1, <2>2 DEF Announce
  <2>6. Told(s, f)
    BY <2>4 DEF Told
  <2> HIDE DEF s, b, f
  <2>7. Unasked(r, a, event[u], s, b, f)
    BY <2>3, <2>6 DEF Unasked
  <2> QED  BY <2>5, <2>7, PlainOne DEF IInv, Typed
<1> QED  BY <1>4, <1>5

LEMMA FinishIsPlain ==
  ASSUME IInv, RowsAgree, NEW w \in Workers,
         FinishCancelled(w) \/ FinishStageFailed(w) \/ FinishOutcome(w), NEW t \in Tasks
  PROVE  Plain(t)
<1>1. worker[w].pc \in Busy
  BY DEF FinishCancelled, FinishStageFailed, FinishOutcome, Busy
<1>2. PICK u \in Tasks : u = worker[w].lease.task /\ worker[w].lease # NoLease
  BY <1>1, Leased, LeaseFields DEF IInv, Typed
<1> DEFINE l == worker[w].lease  r == task[u]  a == attempts[u]
<1>3. /\ r \in Row /\ a \in Seq(Attempt) /\ LedgerOf(r, a) /\ RowAgrees(r, a, event[u])
      /\ r.status = "running" => r.current = Len(a) /\ Len(a) > 0
      /\ Fits(l, r)
  BY <1>2, RowKnown DEF IInv, LeaseInv
<1>4. CASE ~Holds(w)
  BY <1>4, PlainNone
     DEF FinishCancelled, FinishStageFailed, FinishOutcome, FinishTerminal, FinishIdentificationComplete
<1>5. CASE Holds(w)
  <2>1. /\ r.status = "running" /\ l.stage = r.stage /\ l.attempt = r.current
        /\ l.checkpoint = r.checkpoint /\ r.checkpoint # "catalog-committed"
    BY <1>2, <1>3, <1>5, RunningPlain DEF Holds, Fits
  <2>2. ASSUME NEW x, Ends(r, x), x.stage = r.stage \/ x.status # "paused", FinishTerminal(w, x)
        PROVE  Plain(t)
    <3> DEFINE y == Ended(r, x)  b == Close(a, l.attempt, y.attempt, y.failure)
    <3>1. Ends(r, y)
      BY <2>2 DEF Ends, Ended, Ending
    <3>2. Kept(a, b)
      BY <1>3, <2>1, KeptClose
    <3>3. /\ task' = [task EXCEPT ![u] = FinishedRow(r, y)]
          /\ attempts' = [attempts EXCEPT ![u] = b]
          /\ Announce(u, y.status, y.stage, FALSE, y.reason)
      BY <1>2, <1>5, <2>2 DEF FinishTerminal
    <3> HIDE DEF y, b
    <3> QED  BY <2>1, <3>1, <3>2, <3>3, EndIsPlain
  <2>3. CASE FinishIdentificationComplete(w)
    <3>1. /\ task' = [task EXCEPT ![u] = FinishedRow(r, Confirmed)]
          /\ attempts' = [attempts EXCEPT ![u] = Identified(a, l.attempt, Confirmed)]
          /\ Announce(u, "queued", "planning", FALSE, "identification")
      BY <1>2, <1>5, <2>3 DEF FinishIdentificationComplete
    <3>2. /\ Confirmed.status = "queued" /\ Confirmed.stage = "planning"
          /\ Confirmed.reason = "identification" /\ Confirmed \in IdentificationOutcomes
      BY DEF Confirmed, Ending, IdentificationOutcomes
    <3>3. Ends(r, Confirmed)
      BY <3>2, IdentificationEnds
    <3>4. Kept(a, Identified(a, l.attempt, Confirmed))
      BY <1>3, <2>1, KeptIdentified
    <3> QED  BY <2>1, <3>1, <3>2, <3>3, <3>4, EndIsPlain
  <2>4. CASE FinishCancelled(w)
    <3> DEFINE x == Ending("cancelled", l.stage, "cancelled", "none", "none", "cancelled", "none")
    <3>1. Ends(r, x) /\ x.stage = r.stage
      BY <2>1 DEF Ending, Ends
    <3>2. FinishTerminal(w, x)
      BY <2>4 DEF FinishCancelled
    <3> HIDE DEF x
    <3> QED  BY <2>2, <3>1, <3>2
  <2>5. CASE FinishStageFailed(w)
    <3> DEFINE x == Ending("paused", l.stage, l.checkpoint, "none", "pending", "failed",
                           "stage-failed")
    <3>1. Ends(r, x) /\ x.stage = r.stage
      BY <2>1 DEF Ending, Ends
    <3>2. FinishTerminal(w, x)
      BY <2>5 DEF FinishStageFailed
    <3> HIDE DEF x
    <3> QED  BY <2>2, <3>1, <3>2
  <2>6. CASE FinishOutcome(w)
    <3> DEFINE x == Ending("paused", l.stage, "dependency-blocked", "provider", "pending",
                           "failed", "stage-failed")
    <3>1. Ends(r, x) /\ x.stage = r.stage
      BY <2>1 DEF Ending, Ends
    <3>2. Ends(r, NeedsReview) /\ NeedsReview.status # "paused"
      BY IdentificationEnds DEF IdentificationOutcomes, NeedsReview, Ending
    <3>3. \/ FinishIdentificationComplete(w) \/ FinishTerminal(w, NeedsReview)
          \/ FinishTerminal(w, x)
      BY <2>6 DEF FinishOutcome
    <3> HIDE DEF x
    <3> QED  BY <2>2, <2>3, <3>1, <3>2, <3>3
  <2> QED  BY <2>4, <2>5, <2>6
<1> QED  BY <1>4, <1>5

LEMMA DropIsPlain ==
  ASSUME IInv, RowsAgree, NEW u \in Tasks, CancelResting(u), NEW t \in Tasks
  PROVE  Plain(t)
<1> DEFINE r == task[u]  a == attempts[u]  s == CancelledRow(r)
           b == IF r.status = "queued" THEN Withdrawn(a, r.current) ELSE a
           f == [status |-> "cancelled", stage |-> r.stage, recovering |-> FALSE,
                 reason |-> "none"]
<1>1. /\ task' = [task EXCEPT ![u] = s] /\ attempts' = [attempts EXCEPT ![u] = b]
      /\ event' = [event EXCEPT ![u] = f]
      /\ r.status \in {"queued", "paused", "waiting-confirmation"}
  BY DEF CancelResting, Announce
<1>2. r \in Row /\ a \in Seq(Attempt) /\ r.current = Len(a) /\ Len(a) > 0
  BY <1>1, RowKnown
<1>3. Kept(a, b)
  BY <1>2, KeptSelf, KeptWithdrawn
<1>4. /\ s.status = "cancelled" /\ s.stage = r.stage /\ s.checkpoint = "cancelled"
      /\ s.reason = "none" /\ s.current = r.current
      /\ SameReferences(r, s) /\ s.recovering = r.recovering
  BY <1>2, CancelledRest, CancelledColumns
<1>5. Told(s, f)
  BY <1>4 DEF Told
<1> HIDE DEF r, a, s, b, f
<1>6. Dropped(r, a, s, b)
  BY <1>1, <1>3, <1>4 DEF Dropped
<1>7. Unasked(r, a, event[u], s, b, f)
  BY <1>5, <1>6 DEF Unasked
<1> QED
  BY <1>1, <1>7, PlainOne DEF IInv, Typed, r, a

LEMMA ReclaimIsPlain ==
  ASSUME IInv, RowsAgree, ReclaimExpired, NEW t \in Tasks
  PROVE  Plain(t)
<1> DEFINE r == task[t]  a == attempts[t]  s == RecoveringRow(r)
           c == Close(a, Len(a), "failed", "lease-lost")
           x == NewAttempt("lease-recovery", "queued", r.stage)
           f == [status |-> "queued", stage |-> r.stage, recovering |-> TRUE, reason |-> "none"]
<1>1. CASE ~Lapsed(t)
  BY <1>1, PlainSame DEF ReclaimExpired
<1>2. CASE Lapsed(t)
  <2>1. /\ r \in Row /\ a \in Seq(Attempt) /\ r.status = "running" /\ r.stage \in Stages
        /\ r.current = Len(a) /\ r.attemptCount = Len(a) /\ Len(a) > 0 /\ Len(a) \in Nat
        /\ a[Len(a)].status = "running" /\ r.reason = "none"
    BY <1>2, RowKnown, RowFields, RunningPlain DEF Lapsed
  <2>2. task'[t] = s /\ attempts'[t] = Append(c, x) /\ event'[t] = f
    BY <1>2, <2>1 DEF ReclaimExpired
  <2>3. /\ SamePlace(r, s) /\ s.reason = "none" /\ s.status = "queued"
        /\ s.current = r.attemptCount + 1
    BY <2>1, RecoveringRest, RecoveringColumns
  <2>4. x \in Attempt /\ x.reason = "lease-recovery"
    BY <2>1, NewAttemptType DEF NewAttempt, AttemptReasons, AttemptStatuses
  <2>5. c \in Seq(Attempt) /\ Kept(a, c) /\ c[Len(a)].failure = "lease-lost"
    BY <2>1, KeptClose, CloseType DEF AttemptStatuses, Failures
  <2>6. Told(s, f)
    BY <2>3 DEF Told, SamePlace
  <2> HIDE DEF r, a, s, c, x, f
  <2>7. Added(a, Append(c, x), x.reason) /\ Append(c, x)[Len(a)] = c[Len(a)]
    BY <2>1, <2>4, <2>5, KeptAppend
  <2>8. Len(Append(c, x)) = Len(a) + 1
    BY <2>7 DEF Added
  <2>9. Recovered(r, a, s, Append(c, x))
    BY <2>1, <2>3, <2>4, <2>5, <2>7, <2>8 DEF Recovered
  <2>10. Unasked(r, a, event[t], s, Append(c, x), f)
    BY <2>6, <2>9 DEF Unasked
  <2> QED  BY <2>2, <2>10 DEF Plain, r, a
<1> QED  BY <1>1, <1>2

\* A retry that was requested: the row it is about is asked for, the others stay.
LEMMA RetryIsAsked ==
  ASSUME IInv, RowsAgree, NEW u \in Tasks, NEW k \in Keys, Retry(u, k)
  PROVE  ByRequest(u) /\ \A t \in Tasks : t # u => Plain(t)
<1> DEFINE r == task[u]  a == attempts[u]  s == Retried(r)
           x == NewAttempt("manual-retry", "queued", r.stage)
           f == [status |-> "queued", stage |-> r.stage, recovering |-> FALSE, reason |-> "none"]
<1>1. /\ task' = [task EXCEPT ![u] = s] /\ attempts' = [attempts EXCEPT ![u] = Append(a, x)]
      /\ event' = [event EXCEPT ![u] = f] /\ r.status # "completed"
  BY DEF Retry, Announce
<1>2. r \in Row /\ a \in Seq(Attempt) /\ r.stage \in Stages
  BY RowKnown, RowFields
<1>3. x \in Attempt /\ x.reason = "manual-retry"
  BY <1>2, NewAttemptType DEF NewAttempt, AttemptReasons, AttemptStatuses
<1>4. SamePlace(r, s) /\ s.reason = "none" /\ s.recovering = FALSE /\ s.status = "queued"
  BY <1>2, RetriedRest, RetriedColumns
<1>5. Told(s, f)
  BY <1>4 DEF Told, SamePlace
<1> HIDE DEF r, a, s, x, f
<1>6. Added(a, Append(a, x), x.reason)
  BY <1>2, <1>3, KeptSelf, KeptAppend
<1>7. Asked(r, a, s, Append(a, x))
  BY <1>1, <1>3, <1>4, <1>6 DEF Asked, SamePlace
<1>8. task'[u] = s /\ attempts'[u] = Append(a, x) /\ event'[u] = f
  BY <1>1 DEF IInv, Typed, TypeOK
<1>9. ByRequest(u)
  BY <1>5, <1>7, <1>8 DEF ByRequest, r, a
<1>10. ASSUME NEW t \in Tasks, t # u PROVE Plain(t)
  BY <1>1, <1>10, PlainSame DEF IInv, Typed, TypeOK
<1> QED  BY <1>9, <1>10

\* The decision at the head of the batch is one about a task.
LEMMA HeadQueued ==
  ASSUME Typed, runtime.step \in {"apply", "audit", "mark"}
  PROVE  /\ Len(queue) > 0 /\ Head(queue) = queue[1] /\ Head(queue) \in Decisions
         /\ decision[Head(queue)].task \in Tasks /\ queue \in Seq(Decisions) /\ queue # <<>>
<1>1. runtime.left \in 1 .. Len(queue) /\ queue \in Seq(Decisions)
  BY DEF Typed, BatchInv, TypeOK
<1>2. Len(queue) > 0 /\ Head(queue) = queue[1] /\ Head(queue) \in Decisions /\ queue # <<>>
  BY <1>1
<1> QED
  BY <1>1, <1>2 DEF Typed, BatchInv

LEMMA ApplyIsAsked ==
  ASSUME IInv, RowsAgree, DispatchApply, ~Applied(Head(queue))
  PROVE  LET d == Head(queue)  u == decision[d].task IN
         /\ u \in Tasks /\ receipts' = receipts \cup {d}
         /\ ByRequest(u) /\ \A t \in Tasks : t # u => Plain(t)
<1> DEFINE d == Head(queue)  u == decision[d].task
           r == task[u]  a == attempts[u]  s == DecidedRow(r, d)
           c == Superseded(a, Len(a))
           x == NewAttempt("manual-retry", "queued", s.stage)
           f == [status |-> "queued", stage |-> s.stage, recovering |-> FALSE, reason |-> "none"]
<1>1. u \in Tasks
  BY HeadQueued DEF DispatchApply, Dispatching, IInv
<1>2. Awaited(u) /\ ApplyAwaited(u, d)
  BY DEF DispatchApply
<1>3. /\ r \in Row /\ a \in Seq(Attempt) /\ r.current = Len(a) /\ Len(a) > 0
      /\ r.status = "waiting-confirmation"
  BY <1>1, <1>2, RowKnown DEF Awaited
<1>4. /\ task' = [task EXCEPT ![u] = s] /\ attempts' = [attempts EXCEPT ![u] = Append(c, x)]
      /\ event' = [event EXCEPT ![u] = f] /\ receipts' = receipts \cup {d}
  BY <1>2, <1>3 DEF ApplyAwaited, Announce
<1>5. /\ s.stage \in {"identification", "planning"}
      /\ s.checkpoint \in {"identification-complete", "pending"}
      /\ s.reason = "none" /\ s.recovering = FALSE /\ SameReferences(r, s)
      /\ s.status = "queued"
  BY <1>3, DecidedRest, DecidedColumns
<1>6. x \in Attempt /\ x.reason = "manual-retry"
  <2>1. s.stage \in Stages
    BY <1>5 DEF Stages
  <2> HIDE DEF s
  <2> QED  BY <2>1, NewAttemptType DEF NewAttempt, AttemptReasons, AttemptStatuses
<1>7. c \in Seq(Attempt) /\ Kept(a, c)
  BY <1>3, KeptSuperseded, SupersededType
<1>8. Told(s, f)
  BY <1>5 DEF Told
<1> HIDE DEF d, u, r, a, s, c, x, f
<1>9. Added(a, Append(c, x), x.reason)
  BY <1>3, <1>6, <1>7, KeptAppend
<1>10. Asked(r, a, s, Append(c, x))
  BY <1>3, <1>5, <1>6, <1>9 DEF Asked
<1>11. task'[u] = s /\ attempts'[u] = Append(c, x) /\ event'[u] = f
  BY <1>1, <1>4 DEF IInv, Typed, TypeOK
<1>12. ByRequest(u)
  BY <1>8, <1>10, <1>11 DEF ByRequest, r, a
<1>13. ASSUME NEW t \in Tasks, t # u PROVE Plain(t)
  BY <1>4, <1>13, PlainSame DEF IInv, Typed, TypeOK
<1> QED  BY <1>1, <1>4, <1>12, <1>13 DEF u, d

\* Every other step of Next.
LEMMA RestIsPlain ==
  ASSUME IInv, RowsAgree, [Next]_vars,
         ~ \E u \in Tasks, k \in Keys : Retry(u, k),
         ~ (DispatchApply /\ ~Applied(Head(queue))), NEW t \in Tasks
  PROVE  Plain(t)
<1>1. ASSUME NEW u \in Tasks, EnsureRevision(u) \/ RetryDue(u) \/ LeaseExpires(u) PROVE Plain(t)
  BY <1>1, CreatedIsPlain, MarksArePlain
<1>2. ASSUME NEW u \in Tasks, NEW k \in Keys, Retry(u, k) \/ Cancel(u, k) PROVE Plain(t)
  BY <1>2, DropIsPlain, MarksArePlain DEF Cancel
<1>3. ASSUME NEW u \in Tasks, NEW d \in Decisions, NEW kind \in {"reidentify", "planning"},
             AcceptDecision(d, u, kind)
      PROVE  Plain(t)
  BY <1>3, PlainNone DEF AcceptDecision
<1>4. CASE UpdateProvider
  BY <1>4, MarksArePlain
<1>5. ASSUME NEW w \in Workers, Claim(w) \/ BeatRenew(w) PROVE Plain(t)
  BY <1>5, ClaimIsPlain, MarksArePlain
<1>6. ASSUME NEW w \in Workers,
             \/ NoWork(w) \/ BeatCheck(w) \/ BeatFails(w) \/ FailsAfterCommit(w)
             \/ WorkerAbandons(w) \/ HandlerFails(w) \/ HandlerDelegates(w) \/ Settle(w)
             \/ CheckCancel(w)
      PROVE  Plain(t)
  <2>1. UNCHANGED rows
    BY <1>6 DEF NoWork, BeatCheck, BeatFails, FailsAfterCommit, WorkerAbandons, HandlerFails,
                HandlerDelegates, Settle, CheckCancel
  <2> QED  BY <2>1, PlainNone
<1>7. ASSUME NEW w \in Workers, HandlerReturns(w) \/ WorkerCloses(w) PROVE Plain(t)
  BY <1>6, <1>7, CommitIsPlain, FinishIsPlain DEF HandlerReturns, WorkerCloses
<1>8. CASE Dispatch
  <2>1. UNCHANGED rows
    BY <1>8 DEF Dispatch, DispatchFetch, DispatchApply, DispatchRefused, DispatchAudit,
                DispatchMark
  <2> QED  BY <2>1, PlainNone
<1>9. CASE ReclaimExpired
  BY <1>9, ReclaimIsPlain
<1>10. CASE Boot \/ StartServing \/ StartRound \/ EndRound \/ Crash \/ UNCHANGED vars
  <2>1. UNCHANGED rows
    BY <1>10 DEF Boot, StartServing, StartRound, EndRound, Crash, vars, rows
  <2> QED  BY <2>1, PlainNone
<1> QED
  BY <1>1, <1>2, <1>3, <1>4, <1>5, <1>6, <1>7, <1>8, <1>9, <1>10 DEF Next

LEMMA RowsKeep ==
  ASSUME IInv, RowsAgree, [Next]_vars
  PROVE  RowsAgree'
<1>1. IInv'
  BY NextInv
<1>2. ASSUME NEW t \in Tasks PROVE Plain(t) \/ ByRequest(t)
  <2>1. CASE \E u \in Tasks, k \in Keys : Retry(u, k)
    BY <2>1, RetryIsAsked
  <2>2. CASE DispatchApply /\ ~Applied(Head(queue))
    BY <2>2, ApplyIsAsked
  <2> QED  BY <2>1, <2>2, RestIsPlain
<1> SUFFICES ASSUME NEW t \in Tasks PROVE RowAgrees(task'[t], attempts'[t], event'[t])
  BY DEF RowsAgree, RowAgrees, Past, Done
<1>3. Change(task[t], attempts[t], event[t], task'[t], attempts'[t], event'[t])
  BY <1>2 DEF Plain, ByRequest, Change
<1>4. task'[t] \in Row /\ attempts'[t] \in Seq(Attempt)
  BY <1>1 DEF IInv, Typed, TypeOK
<1>5. /\ task[t] \in Row /\ attempts[t] \in Seq(Attempt) /\ LedgerOf(task[t], attempts[t])
      /\ RowAgrees(task[t], attempts[t], event[t])
  BY RowKnown
<1>6. task'[t].status = "running" => task'[t].reason = "none"
  <2>1. CASE Marked(task[t], attempts[t], event[t], task'[t], attempts'[t], event'[t])
    BY <1>5, <2>1, RunningPlain DEF Marked
  <2>2. CASE ~Marked(task[t], attempts[t], event[t], task'[t], attempts'[t], event'[t])
    BY <1>3, <2>2 DEF Change, Unasked, Created, Taken, LetGo, Dropped, Recovered, Asked
  <2> QED  BY <2>1, <2>2
<1> HIDE DEF Change
<1> QED
  BY <1>3, <1>4, <1>5, <1>6, ChangeAgrees

-----------------------------------------------------------------------------
(***************************************************************************)
(* The queue of the decisions.                                             *)
(***************************************************************************)

\* A list without repetitions has as many members as it is long.
LEMMA DistinctCount ==
  ASSUME NEW S, NEW s \in Seq(S), \A i, j \in 1 .. Len(s) : s[i] = s[j] => i = j
  PROVE  Cardinality({s[i] : i \in 1 .. Len(s)}) = Len(s)
<1> DEFINE T == {s[i] : i \in 1 .. Len(s)}
           f == [i \in 1 .. Len(s) |-> s[i]]
<1>1. f \in Bijection(1 .. Len(s), T)
  <2>1. f \in [1 .. Len(s) -> T]
    OBVIOUS
  <2>2. \A i, j \in 1 .. Len(s) : f[i] = f[j] => i = j
    OBVIOUS
  <2>3. \A x \in T : \E i \in 1 .. Len(s) : f[i] = x
    OBVIOUS
  <2> HIDE DEF f, T
  <2> QED  BY <2>1, <2>2, <2>3, Fun_IsBij
<1>2. IsFiniteSet(1 .. Len(s)) /\ Cardinality(1 .. Len(s)) = Len(s)
  <2>1. Len(s) \in Nat /\ 1 \in Int
    OBVIOUS
  <2>2. Cardinality(1 .. Len(s)) = IF 1 > Len(s) THEN 0 ELSE Len(s) - 1 + 1
    BY <2>1, FS_Interval
  <2> QED  BY <2>1, <2>2, FS_Interval
<1>3. ExistsBijection(1 .. Len(s), T)
  BY <1>1 DEF ExistsBijection
<1> QED
  BY <1>2, <1>3, FS_Bijection

LEMMA QueueKeeps ==
  ASSUME IInv, RowsAgree, QueueInv, [Next]_vars
  PROVE  QueueInv'
<1> USE DEF QueueInv, Accepted, Queued
<1>1. /\ queue \in Seq(Decisions) /\ receipts \subseteq Decisions /\ audited \subseteq Decisions
      /\ \A i \in 1 .. Len(queue) : decision[queue[i]].task \in Tasks
      /\ decision \in [Decisions -> Verdict] /\ runtime \in Place
  BY DEF IInv, Typed, TypeOK, BatchInv
<1>2. CASE UNCHANGED <<review, runtime>>
  BY <1>2 DEF review
<1>3. ASSUME UNCHANGED review,
             runtime'.step \in {"fetch", "apply", "done"} \/ runtime'.step = runtime.step
      PROVE  QueueInv'
  BY <1>3 DEF review
<1>4. ASSUME NEW t \in Tasks, NEW d \in Decisions, NEW kind \in {"reidentify", "planning"},
             AcceptDecision(d, t, kind)
      PROVE  QueueInv'
  <2>1. /\ decision[d].task = NoTask /\ queue' = Append(queue, d)
        /\ receipts' = receipts /\ audited' = audited /\ runtime' = runtime
        /\ decision' = [decision EXCEPT ![d] = [task |-> t, case |-> reviewCase[t].id,
                                               kind |-> kind]]
    BY <1>4 DEF AcceptDecision
  <2>2. /\ Len(queue') = Len(queue) + 1 /\ queue'[Len(queue) + 1] = d
        /\ \A i \in 1 .. Len(queue) : queue'[i] = queue[i]
        /\ Len(queue) \in Nat
    BY <1>1, <2>1, AppendProperties
  <2>3. NoTask \notin Tasks
    BY TasksAssumption
  <2>4. /\ decision'[d].task = t
        /\ \A e \in Decisions : e # d => decision'[e] = decision[e]
    BY <1>1, <2>1
  <2>5. Accepted' = Accepted \cup {d}
    BY <2>3, <2>4
  <2>6. Queued' = Queued \cup {d}
    <3>1. \A x \in Queued' : x \in Queued \cup {d}
      <4> SUFFICES ASSUME NEW i \in 1 .. Len(queue') PROVE queue'[i] \in Queued \cup {d}
        OBVIOUS
      <4>1. i \in 1 .. Len(queue) \/ i = Len(queue) + 1
        BY <2>2
      <4> QED  BY <2>2, <4>1
    <3>2. \A x \in Queued \cup {d} : x \in Queued'
      <4>1. d \in Queued'
        BY <2>2
      <4>2. ASSUME NEW i \in 1 .. Len(queue) PROVE queue[i] \in Queued'
        <5>1. i \in 1 .. Len(queue')
          BY <2>2
        <5> QED  BY <2>2, <5>1
      <4> QED  BY <4>1, <4>2
    <3> QED  BY <3>1, <3>2
  <2>7. \A i, j \in 1 .. Len(queue') : queue'[i] = queue'[j] => i = j
    <3> SUFFICES ASSUME NEW i \in 1 .. Len(queue'), NEW j \in 1 .. Len(queue'),
                        queue'[i] = queue'[j]
                 PROVE  i = j
      OBVIOUS
    <3>1. \A n \in 1 .. Len(queue) : queue[n] # d
      BY <1>1, <2>1, <2>3
    <3>2. /\ i \in 1 .. Len(queue) \/ i = Len(queue) + 1
          /\ j \in 1 .. Len(queue) \/ j = Len(queue) + 1
      BY <2>2
    <3> QED  BY <2>2, <3>1, <3>2
  <2>8. runtime.step \in {"audit", "mark"} => Head(queue') = Head(queue)
    <3> SUFFICES ASSUME runtime.step \in {"audit", "mark"} PROVE Head(queue') = Head(queue)
      OBVIOUS
    <3>1. queue # <<>>
      BY HeadQueued DEF IInv
    <3> QED  BY <1>1, <2>1, <3>1, HeadTailAppend
  <2>9. receipts' \subseteq Accepted' /\ Accepted' \ Queued' \subseteq audited'
    BY <2>1, <2>5, <2>6
  <2> HIDE DEF Accepted, Queued
  <2> QED
    BY <2>1, <2>7, <2>8, <2>9
<1>5. CASE DispatchApply
  <2>1. /\ runtime.step = "apply" /\ runtime'.step = "audit"
        /\ UNCHANGED <<decision, queue, audited>>
    BY <1>1, <1>5 DEF DispatchApply, Dispatching, Place
  <2>2. Head(queue) \in Decisions /\ decision[Head(queue)].task \in Tasks
    BY <2>1, HeadQueued DEF IInv
  <2>3. Head(queue) \in Accepted
    BY <2>2, TasksAssumption
  <2>4. receipts' = receipts \cup {Head(queue)}
    <3>1. CASE Applied(Head(queue))
      BY <1>5, <3>1 DEF DispatchApply, Applied
    <3>2. CASE ~Applied(Head(queue))
      BY <1>5, <3>2, ApplyIsAsked
    <3> QED  BY <3>1, <3>2
  <2> QED  BY <2>1, <2>3, <2>4
<1>6. CASE DispatchAudit
  <2>1. /\ runtime.step = "audit" /\ runtime'.step = "mark"
        /\ audited' = audited \cup {Head(queue)} /\ UNCHANGED <<decision, queue, receipts>>
    BY <1>1, <1>6 DEF DispatchAudit, Dispatching, Place
  <2> QED  BY <2>1
<1>7. CASE DispatchMark
  <2>1. /\ runtime.step = "mark" /\ runtime'.step \in {"done", "apply"}
        /\ queue' = Tail(queue) /\ UNCHANGED <<decision, receipts, audited>>
    BY <1>1, <1>7 DEF DispatchMark, Dispatching, Place
  <2>2. Head(queue) = queue[1] /\ queue # <<>> /\ Len(queue) > 0
    BY <2>1, HeadQueued DEF IInv
  <2>3. /\ Len(queue') = Len(queue) - 1 /\ Len(queue) \in Nat
        /\ \A i \in 1 .. Len(queue') : queue'[i] = queue[i + 1]
    BY <1>1, <2>1, <2>2, HeadTailProperties
  <2>4. \A i, j \in 1 .. Len(queue') : queue'[i] = queue'[j] => i = j
    <3> SUFFICES ASSUME NEW i \in 1 .. Len(queue'), NEW j \in 1 .. Len(queue'),
                        queue'[i] = queue'[j]
                 PROVE  i = j
      OBVIOUS
    <3>1. i + 1 \in 1 .. Len(queue) /\ j + 1 \in 1 .. Len(queue) /\ queue[i + 1] = queue[j + 1]
      BY <2>3
    <3>2. i + 1 = j + 1
      BY <3>1
    <3> QED  BY <3>2
  <2>5. Queued \subseteq Queued' \cup {Head(queue)}
    <3> SUFFICES ASSUME NEW i \in 1 .. Len(queue), i # 1 PROVE queue[i] \in Queued'
      BY <2>2
    <3>1. i - 1 \in 1 .. Len(queue') /\ queue'[i - 1] = queue[i - 1 + 1] /\ i - 1 + 1 = i
      BY <2>3
    <3> QED  BY <3>1
  <2>6. Head(queue) \in audited
    BY <2>1
  <2>7. Accepted' = Accepted
    BY <2>1
  <2>8. Accepted' \ Queued' \subseteq audited'
    <3> HIDE DEF Accepted, Queued
    <3> QED  BY <2>1, <2>5, <2>6, <2>7
  <2>9. audited' \subseteq receipts' /\ receipts' \subseteq Accepted'
    BY <2>1
  <2> HIDE DEF Accepted, Queued
  <2> QED  BY <2>1, <2>4, <2>8, <2>9
<1>8. CASE DispatchFetch \/ DispatchRefused
  <2>1. CASE DispatchFetch
    <3> DEFINE step == IF queue = <<>> THEN "done" ELSE "apply"
    <3>1. UNCHANGED review /\ runtime' = [runtime EXCEPT !.left = Len(queue), !.step = step]
      BY <2>1 DEF DispatchFetch
    <3>2. runtime'.step = step
      BY <1>1, <3>1 DEF Place
    <3> QED  BY <1>3, <3>1, <3>2
  <2>2. CASE DispatchRefused
    <3>1. UNCHANGED review /\ runtime'.step \in {"fetch", "done"}
      BY <2>2 DEF DispatchRefused
    <3> QED  BY <1>3, <3>1
  <2> QED  BY <1>8, <2>1, <2>2
<1>9. CASE \/ Boot \/ ReclaimExpired \/ StartServing \/ StartRound \/ EndRound \/ Crash
  <2>1. UNCHANGED review /\ runtime'.step = "fetch"
    BY <1>9 DEF Boot, ReclaimExpired, StartServing, StartRound, EndRound, Crash, At
  <2> QED  BY <1>3, <2>1
<1>10. CASE UNCHANGED vars
  BY <1>2, <1>10 DEF vars
<1>11. ASSUME NEW t \in Tasks,
              \/ EnsureRevision(t) \/ RetryDue(t) \/ LeaseExpires(t)
              \/ \E k \in Keys : Retry(t, k) \/ Cancel(t, k)
       PROVE  QueueInv'
  <2>1. UNCHANGED <<review, runtime>>
    BY <1>11 DEF EnsureRevision, RetryDue, LeaseExpires, Retry, Cancel
  <2> QED  BY <1>2, <2>1
<1>12. CASE UpdateProvider
  <2>1. UNCHANGED <<review, runtime>>
    BY <1>12 DEF UpdateProvider
  <2> QED  BY <1>2, <2>1
<1>13. ASSUME NEW w \in Workers,
              \/ Claim(w) \/ NoWork(w) \/ BeatCheck(w) \/ BeatRenew(w) \/ BeatFails(w)
              \/ HandlerReturns(w) \/ FailsAfterCommit(w) \/ WorkerCloses(w) \/ WorkerAbandons(w)
       PROVE  QueueInv'
  <2>1. UNCHANGED <<decision, queue, receipts, audited, runtime>>
    BY <1>13 DEF Claim, NoWork, BeatCheck, BeatRenew, BeatFails, HandlerReturns,
       IdentificationCommit, OrganizationCommit, HandlerFails, HandlerDelegates,
       FailsAfterCommit, WorkerCloses, Settle, CheckCancel, FinishCancelled, FinishStageFailed,
       FinishOutcome, WorkerAbandons, review
  <2> QED  BY <2>1
<1> QED
  BY <1>4, <1>5, <1>6, <1>7, <1>8, <1>9, <1>10, <1>11, <1>12, <1>13 DEF Next, Dispatch

-----------------------------------------------------------------------------
(***************************************************************************)
(* The manual attempts and what asked for them.                            *)
(***************************************************************************)

ManualOf(a) == {i \in 1 .. Len(a) : a[i].reason = "manual-retry"}

LEMMA ManualKept ==
  ASSUME NEW r, NEW a \in Seq(Attempt), NEW e, NEW s, NEW b \in Seq(Attempt), NEW f,
         Unasked(r, a, e, s, b, f)
  PROVE  ManualOf(b) = ManualOf(a)
<1>1. CASE Kept(a, b)
  BY <1>1 DEF Kept, ManualOf
<1>2. ASSUME NEW reason, Added(a, b, reason), reason # "manual-retry"
      PROVE  ManualOf(b) = ManualOf(a)
  <2>1. Len(a) \in Nat /\ Len(b) = Len(a) + 1
    BY <1>2 DEF Added
  <2>2. \A i \in 1 .. Len(b) : i \in 1 .. Len(a) \/ i = Len(b)
    BY <2>1
  <2>3. \A i \in 1 .. Len(a) : i \in 1 .. Len(b)
    BY <2>1
  <2> QED  BY <1>2, <2>2, <2>3 DEF Added, ManualOf
<1>3. b = a \/ Kept(a, b) \/ \E reason : Added(a, b, reason) /\ reason # "manual-retry"
  BY DEF Unasked, Marked, Created, Taken, LetGo, Dropped, Recovered
<1> QED  BY <1>1, <1>2, <1>3

LEMMA ManualAdded ==
  ASSUME NEW r, NEW a \in Seq(Attempt), NEW s, NEW b \in Seq(Attempt), Asked(r, a, s, b)
  PROVE  ManualOf(b) = ManualOf(a) \cup {Len(a) + 1} /\ Len(a) + 1 \notin ManualOf(a)
<1>1. Len(a) \in Nat /\ Len(b) = Len(a) + 1 /\ b[Len(b)].reason = "manual-retry"
  BY DEF Asked, Added
<1>2. \A i \in 1 .. Len(b) : i \in 1 .. Len(a) \/ i = Len(a) + 1
  BY <1>1
<1>3. \A i \in 1 .. Len(a) : i \in 1 .. Len(b) /\ i # Len(a) + 1
  BY <1>1
<1>4. Len(a) + 1 \in 1 .. Len(b) /\ Len(a) + 1 \notin 1 .. Len(a)
  BY <1>1
<1>5. \A i \in 1 .. Len(a) : b[i].reason = a[i].reason
  BY DEF Asked, Added
<1> QED  BY <1>1, <1>2, <1>3, <1>4, <1>5 DEF ManualOf

\* The account of a task stays right when nothing is added, and when one attempt and one
\* key, or one attempt and one receipt, are.
LEMMA AccountSame ==
  ASSUME NEW t, Accounted(t), ManualAttempts(t)' = ManualAttempts(t),
         RetryKeys(t)' = RetryKeys(t), Received(t)' = Received(t)
  PROVE  Accounted(t)'
BY DEF Accounted

LEMMA AccountGrows ==
  ASSUME NEW t \in Tasks, TypeOK, Accounted(t), NEW i, NEW x,
         ManualAttempts(t)' = ManualAttempts(t) \cup {i}, i \notin ManualAttempts(t),
         \/ /\ RetryKeys(t)' = RetryKeys(t) \cup {x} /\ x \notin RetryKeys(t)
            /\ Received(t)' = Received(t)
         \/ /\ Received(t)' = Received(t) \cup {x} /\ x \notin Received(t)
            /\ RetryKeys(t)' = RetryKeys(t)
  PROVE  Accounted(t)'
<1>1. IsFiniteSet(ManualAttempts(t))
  <2>1. Len(attempts[t]) \in Nat
    BY DEF TypeOK
  <2>2. IsFiniteSet(1 .. Len(attempts[t]))
    BY <2>1, FS_Interval
  <2> QED  BY <2>2, FS_Subset DEF ManualAttempts
<1>2. /\ IsFiniteSet(RetryKeys(t)) /\ IsFiniteSet(Received(t))
      /\ Cardinality(ManualAttempts(t)) = Cardinality(RetryKeys(t)) + Cardinality(Received(t))
  BY DEF Accounted
<1>3. /\ Cardinality(ManualAttempts(t)) \in Nat /\ Cardinality(RetryKeys(t)) \in Nat
      /\ Cardinality(Received(t)) \in Nat
  BY <1>1, <1>2, FS_CardinalityType
<1>4. Cardinality(ManualAttempts(t) \cup {i}) = Cardinality(ManualAttempts(t)) + 1
  BY <1>1, FS_AddElement
<1>5. CASE /\ RetryKeys(t)' = RetryKeys(t) \cup {x} /\ x \notin RetryKeys(t)
           /\ Received(t)' = Received(t)
  <2>1. /\ IsFiniteSet(RetryKeys(t) \cup {x})
        /\ Cardinality(RetryKeys(t) \cup {x}) = Cardinality(RetryKeys(t)) + 1
    BY <1>2, <1>5, FS_AddElement
  <2> QED  BY <1>2, <1>3, <1>4, <1>5, <2>1 DEF Accounted
<1>6. CASE /\ Received(t)' = Received(t) \cup {x} /\ x \notin Received(t)
           /\ RetryKeys(t)' = RetryKeys(t)
  <2>1. /\ IsFiniteSet(Received(t) \cup {x})
        /\ Cardinality(Received(t) \cup {x}) = Cardinality(Received(t)) + 1
    BY <1>2, <1>6, FS_AddElement
  <2> QED  BY <1>2, <1>3, <1>4, <1>6, <2>1 DEF Accounted
<1> QED  BY <1>5, <1>6

\* Only a retry binds a retry key, and only the dispatch of a decision receives one.
LEMMA KeysStay ==
  ASSUME IInv, [Next]_vars, ~ \E u \in Tasks, k \in Keys : Retry(u, k), NEW t \in Tasks
  PROVE  RetryKeys(t)' = RetryKeys(t)
<1>1. CASE UNCHANGED binding
  BY <1>1 DEF RetryKeys
<1>2. ASSUME NEW u \in Tasks, NEW k \in Keys, Cancel(u, k)
      PROVE  RetryKeys(t)' = RetryKeys(t)
  <2>1. /\ binding[k] = Unbound /\ binding \in [Keys -> Binding \cup {Unbound}]
        /\ binding' = [binding EXCEPT ![k] = [action |-> "cancel", task |-> u]]
    BY <1>2 DEF Cancel, Fresh, IInv, Typed, TypeOK
  <2>2. /\ Unbound.action # [action |-> "retry", task |-> t].action
        /\ [action |-> "cancel", task |-> u].action # [action |-> "retry", task |-> t].action
    BY DEF Unbound
  <2>3. /\ binding[k] # [action |-> "retry", task |-> t]
        /\ binding'[k] # [action |-> "retry", task |-> t]
        /\ \A j \in Keys : j # k => binding'[j] = binding[j]
    BY <2>1, <2>2
  <2> QED  BY <2>3 DEF RetryKeys
<1>3. ASSUME NEW w \in Workers,
              \/ Claim(w) \/ NoWork(w) \/ BeatCheck(w) \/ BeatRenew(w) \/ BeatFails(w)
              \/ HandlerReturns(w) \/ FailsAfterCommit(w) \/ WorkerCloses(w) \/ WorkerAbandons(w)
      PROVE  UNCHANGED binding
  BY <1>3 DEF Claim, NoWork, BeatCheck, BeatRenew, BeatFails, HandlerReturns,
     IdentificationCommit, OrganizationCommit, HandlerFails, HandlerDelegates,
     FailsAfterCommit, WorkerCloses, Settle, CheckCancel, FinishCancelled, FinishStageFailed,
     FinishOutcome, WorkerAbandons
<1>4. CASE \/ Dispatch \/ Boot \/ ReclaimExpired \/ StartServing \/ StartRound \/ EndRound
           \/ Crash \/ UpdateProvider \/ UNCHANGED vars
  BY <1>1, <1>4 DEF Dispatch, DispatchFetch, DispatchApply, DispatchRefused, DispatchAudit,
     DispatchMark, Boot, ReclaimExpired, StartServing, StartRound, EndRound, Crash,
     UpdateProvider, vars
<1>5. ASSUME NEW u \in Tasks,
             \/ EnsureRevision(u) \/ RetryDue(u) \/ LeaseExpires(u)
             \/ \E d \in Decisions, kind \in {"reidentify", "planning"} :
                   AcceptDecision(d, u, kind)
      PROVE  UNCHANGED binding
  BY <1>5 DEF EnsureRevision, RetryDue, LeaseExpires, AcceptDecision
<1> QED
  BY <1>1, <1>2, <1>3, <1>4, <1>5 DEF Next

LEMMA ReceiptsStay ==
  ASSUME IInv, QueueInv, [Next]_vars, ~ (DispatchApply /\ ~Applied(Head(queue))), NEW t \in Tasks
  PROVE  Received(t)' = Received(t)
<1>1. CASE UNCHANGED <<decision, receipts>>
  BY <1>1 DEF Received
<1>2. ASSUME NEW d \in Decisions, NEW u \in Tasks, NEW kind \in {"reidentify", "planning"},
             AcceptDecision(d, u, kind)
      PROVE  Received(t)' = Received(t)
  <2>1. /\ decision[d].task = NoTask /\ receipts' = receipts
        /\ decision' = [decision EXCEPT ![d] = [task |-> u, case |-> reviewCase[u].id,
                                               kind |-> kind]]
        /\ decision \in [Decisions -> Verdict] /\ receipts \subseteq Decisions
    BY <1>2 DEF AcceptDecision, IInv, Typed, TypeOK
  <2>2. d \notin receipts
    BY <2>1 DEF QueueInv, Accepted
  <2>3. \A x \in receipts : decision'[x] = decision[x]
    BY <2>1, <2>2
  <2> QED  BY <2>1, <2>3 DEF Received
<1>3. ASSUME NEW w \in Workers,
              \/ Claim(w) \/ NoWork(w) \/ BeatCheck(w) \/ BeatRenew(w) \/ BeatFails(w)
              \/ HandlerReturns(w) \/ FailsAfterCommit(w) \/ WorkerCloses(w) \/ WorkerAbandons(w)
      PROVE  UNCHANGED <<decision, receipts>>
  BY <1>3 DEF Claim, NoWork, BeatCheck, BeatRenew, BeatFails, HandlerReturns,
     IdentificationCommit, OrganizationCommit, HandlerFails, HandlerDelegates,
     FailsAfterCommit, WorkerCloses, Settle, CheckCancel, FinishCancelled, FinishStageFailed,
     FinishOutcome, WorkerAbandons, review
<1>4. CASE \/ Dispatch \/ Boot \/ ReclaimExpired \/ StartServing \/ StartRound \/ EndRound
           \/ Crash \/ UpdateProvider \/ UNCHANGED vars
  BY <1>1, <1>4 DEF Dispatch, DispatchFetch, DispatchApply, DispatchRefused, DispatchAudit,
     DispatchMark, Boot, ReclaimExpired, StartServing, StartRound, EndRound, Crash,
     UpdateProvider, vars, review
<1>5. ASSUME NEW u \in Tasks,
             \/ EnsureRevision(u) \/ RetryDue(u) \/ LeaseExpires(u)
             \/ \E k \in Keys : Retry(u, k) \/ Cancel(u, k)
      PROVE  UNCHANGED <<decision, receipts>>
  BY <1>5 DEF EnsureRevision, RetryDue, LeaseExpires, Retry, Cancel, review
<1> QED
  BY <1>1, <1>2, <1>3, <1>4, <1>5 DEF Next

LEMMA AccountKeeps ==
  ASSUME IInv, RowsAgree, QueueInv, AccountInv, [Next]_vars
  PROVE  AccountInv'
<1> SUFFICES ASSUME NEW t \in Tasks PROVE Accounted(t)'
  BY DEF AccountInv
<1>1. Accounted(t) /\ TypeOK /\ TypeOK'
  BY NextInv DEF AccountInv, IInv, Typed
<1>2. attempts[t] \in Seq(Attempt) /\ attempts'[t] \in Seq(Attempt)
  BY <1>1 DEF TypeOK
<1>3. ManualAttempts(t) = ManualOf(attempts[t]) /\ ManualAttempts(t)' = ManualOf(attempts'[t])
  BY DEF ManualAttempts, ManualOf
<1>4. Plain(t) => ManualAttempts(t)' = ManualAttempts(t)
  BY <1>2, <1>3, ManualKept DEF Plain
<1>5. ByRequest(t) => \E i : /\ ManualAttempts(t)' = ManualAttempts(t) \cup {i}
                             /\ i \notin ManualAttempts(t)
  <2> SUFFICES ASSUME ByRequest(t)
               PROVE  \E i : /\ ManualAttempts(t)' = ManualAttempts(t) \cup {i}
                             /\ i \notin ManualAttempts(t)
    OBVIOUS
  <2> DEFINE n == Len(attempts[t]) + 1
  <2>1. ManualOf(attempts'[t]) = ManualOf(attempts[t]) \cup {n} /\ n \notin ManualOf(attempts[t])
    BY <1>2, ManualAdded DEF ByRequest
  <2> HIDE DEF n
  <2> QED  BY <1>3, <2>1
<1>6. ASSUME NEW u \in Tasks, NEW k \in Keys, Retry(u, k) PROVE Accounted(t)'
  <2>1. Received(t)' = Received(t)
    <3>1. UNCHANGED <<decision, receipts>>
      BY <1>6 DEF Retry, review
    <3> QED  BY <3>1 DEF Received
  <2>2. /\ binding[k] = Unbound /\ binding \in [Keys -> Binding \cup {Unbound}]
        /\ binding' = [binding EXCEPT ![k] = [action |-> "retry", task |-> u]]
    BY <1>1, <1>6 DEF Retry, Fresh, TypeOK
  <2>3. /\ Unbound.action # [action |-> "retry", task |-> t].action
        /\ [action |-> "retry", task |-> t].task = t /\ [action |-> "retry", task |-> u].task = u
    BY DEF Unbound
  <2>4. /\ binding[k] # [action |-> "retry", task |-> t]
        /\ binding'[k] = [action |-> "retry", task |-> u]
        /\ \A j \in Keys : j # k => binding'[j] = binding[j]
    BY <2>2, <2>3
  <2>5. CASE t = u
    <3>1. RetryKeys(t)' = RetryKeys(t) \cup {k} /\ k \notin RetryKeys(t)
      BY <2>4, <2>5 DEF RetryKeys
    <3>2. ByRequest(t)
      BY <1>6, <2>5, RetryIsAsked
    <3> QED  BY <1>1, <1>5, <2>1, <3>1, <3>2, AccountGrows
  <2>6. CASE t # u
    <3>1. binding'[k] # [action |-> "retry", task |-> t]
      BY <2>3, <2>4, <2>6
    <3>2. RetryKeys(t)' = RetryKeys(t)
      BY <2>4, <3>1 DEF RetryKeys
    <3>3. Plain(t)
      BY <1>6, <2>6, RetryIsAsked
    <3> QED  BY <1>1, <1>4, <2>1, <3>2, <3>3, AccountSame
  <2> QED  BY <2>5, <2>6
<1>7. CASE DispatchApply /\ ~Applied(Head(queue))
  <2> DEFINE d == Head(queue)  u == decision[d].task
  <2>1. /\ u \in Tasks /\ receipts' = receipts \cup {d}
        /\ ByRequest(u) /\ \A v \in Tasks : v # u => Plain(v)
    BY <1>7, ApplyIsAsked
  <2>2. UNCHANGED <<binding, decision>> /\ d \notin receipts
    BY <1>7 DEF DispatchApply, Applied
  <2>3. RetryKeys(t)' = RetryKeys(t)
    BY <2>2 DEF RetryKeys
  <2> HIDE DEF d
  <2>4. CASE t = u
    <3>1. Received(t)' = Received(t) \cup {d} /\ d \notin Received(t)
      BY <2>1, <2>2, <2>4 DEF Received
    <3> QED  BY <1>1, <1>5, <2>1, <2>3, <2>4, <3>1, AccountGrows
  <2>5. CASE t # u
    <3>1. Received(t)' = Received(t)
      BY <2>1, <2>2, <2>5 DEF Received
    <3> QED  BY <1>1, <1>4, <2>1, <2>3, <2>5, <3>1, AccountSame
  <2> QED  BY <2>4, <2>5
<1>8. CASE /\ ~ \E u \in Tasks, k \in Keys : Retry(u, k)
           /\ ~ (DispatchApply /\ ~Applied(Head(queue)))
  BY <1>1, <1>4, <1>8, RestIsPlain, KeysStay, ReceiptsStay, AccountSame
<1> QED  BY <1>6, <1>7, <1>8

-----------------------------------------------------------------------------
(***************************************************************************)
(* The theorem.                                                            *)
(***************************************************************************)

LEMMA InitRecords == Init => RInv
<1> SUFFICES ASSUME Init PROVE RInv
  OBVIOUS
<1>1. IInv
  BY InitInv
<1>2. RowsAgree
  BY DEF Init, RowsAgree, RowAgrees, Absent, Past, Done
<1>3. QueueInv
  BY DEF Init, QueueInv, Accepted, Queued
<1>4. AccountInv
  <2> SUFFICES ASSUME NEW t \in Tasks PROVE Accounted(t)
    BY DEF AccountInv
  <2>1. ManualAttempts(t) = {}
    BY DEF Init, ManualAttempts
  <2>2. RetryKeys(t) = {}
    <3>1. Unbound.action # [action |-> "retry", task |-> t].action
      BY DEF Unbound
    <3> QED  BY <3>1 DEF Init, RetryKeys
  <2>3. Received(t) = {}
    BY DEF Init, Received
  <2> QED  BY <2>1, <2>2, <2>3, FS_EmptySet DEF Accounted
<1> QED  BY <1>1, <1>2, <1>3, <1>4 DEF RInv

LEMMA NextRecords == RInv /\ [Next]_vars => RInv'
BY NextInv, RowsKeep, QueueKeeps, AccountKeeps DEF RInv

LEMMA RecordsImplied == RInv => RecordsAgree
<1> SUFFICES ASSUME RInv PROVE RecordsAgree
  OBVIOUS
<1>1. ManualAttemptsAccounted
  BY DEF RInv, AccountInv, Accounted, ManualAttemptsAccounted
<1>2. StageArtifacts
  BY DEF RInv, RowsAgree, RowAgrees, StageArtifacts, Past, Done
<1>3. RecoveringExplained
  BY DEF RInv, RowsAgree, RowAgrees, RecoveringExplained
<1>4. EventMirrorsRow
  BY DEF RInv, RowsAgree, RowAgrees, EventMirrorsRow
<1>5. DecisionLedger
  <2>1. queue \in Seq(Decisions) /\ (\A i, j \in 1 .. Len(queue) : queue[i] = queue[j] => i = j)
    BY DEF RInv, IInv, Typed, TypeOK, QueueInv
  <2>2. Cardinality(Queued) = Len(queue)
    BY <2>1, DistinctCount DEF Queued
  <2> QED  BY <2>2 DEF RInv, IInv, Typed, BatchInv, QueueInv, DecisionLedger
<1> QED  BY <1>1, <1>2, <1>3, <1>4, <1>5 DEF RecordsAgree

\* Whatever the workers, the requests, the decisions and the crashes do, and however many there
\* are: every manual attempt answers one key or one receipt, a stage has what it needs, a
\* recovery is explained by a lost lease, the last event says what the row says, and a decision
\* leaves the queue only when the task and the audit log have it (claim_next, control_task,
\* finish_organization_transition, reclaim_expired, dispatch_once of tasks/processing).
THEOREM RecordsHold == Spec => []RecordsAgree
<1>1. Spec => []RInv
  BY InitRecords, NextRecords, PTL DEF Spec
<1> QED
  BY <1>1, RecordsImplied, PTL

-----------------------------------------------------------------------------
(***************************************************************************)
(* The rows of processing tasks implement the fenced lease: every step is   *)
(* a step of FencedLease or changes no lease.  The identification commit    *)
(* looks at the owner and the attempt and never at the version, so what     *)
(* holds a worker back is that it has one lease at a time.  Last, what an   *)
(* accepted cancel forbids the worker of a running task.                    *)
(***************************************************************************)

\* A task that runs in the name of a worker that has a lease of it runs under that lease.
OwnersCurrent ==
    \A w \in Workers : worker[w].lease # NoLease =>
        LET l == worker[w].lease  r == task[l.task] IN
        r.status = "running" /\ r.owner = w => r.version = l.version

Numbered == \A t \in Tasks : task[t].status = "running" => task[t].version # 0

FInv == OwnersCurrent /\ Numbered

PInv == IInv /\ FInv

-----------------------------------------------------------------------------
(* Rows. *)

\* A row as far as the lease goes: held or not, by whom, under which number, lapsed or not.
SameHold(r, s) ==
    /\ s.version = r.version
    /\ s.status = "running" <=> r.status = "running"
    /\ r.status = "running" => s.owner = r.owner /\ s.expired = r.expired

\* A task that runs ran before, for the same worker and under the same number.
Continues(r, s) ==
    s.status = "running" => r.status = "running" /\ s.owner = r.owner /\ s.version = r.version

\* A row that nobody holds, before or after, at its next version.
Touched(r, s) ==
    r.status # "running" /\ s.status # "running" /\ s.version = r.version + 1

Lets(l, m) == m = NoLease \/ m = l

\* A step of the lease, or one that changes no lease.
LeaseStep == Leases!Next \/ UNCHANGED Leases!vars

\* What the invariant says of the types.
LEMMA Rowed ==
    ASSUME PInv
    PROVE  /\ TypeOK
           /\ \A t \in Tasks : task[t] \in Row /\ task[t].version \in Nat /\ task[t].expired \in BOOLEAN
           /\ \A w \in Workers : worker[w] \in Memory
           /\ \A w \in Workers : worker[w].lease # NoLease =>
                /\ worker[w].lease \in Lease
                /\ worker[w].lease.task \in Tasks /\ worker[w].lease.version \in Nat
<1>1. TypeOK
  BY DEF PInv, IInv, Typed
<1>2. \A t \in Tasks : task[t] \in Row /\ task[t].version \in Nat /\ task[t].expired \in BOOLEAN
  BY <1>1 DEF TypeOK, Row
<1>3. \A w \in Workers : worker[w] \in Memory
  BY <1>1 DEF TypeOK
<1> QED  BY <1>1, <1>2, <1>3, MemoryFields, LeaseFields

\* A write of one row.
LEMMA Written ==
    ASSUME TypeOK, NEW t \in Tasks, NEW s, task' = [task EXCEPT ![t] = s]
    PROVE  \A u \in Tasks : task'[u] = IF u = t THEN s ELSE task[u]
BY DEF TypeOK

\* The same of what one worker has in memory.
LEMMA Remembered ==
    ASSUME TypeOK, NEW w \in Workers, NEW m, worker' = [worker EXCEPT ![w] = m]
    PROVE  \A v \in Workers : worker'[v] = IF v = w THEN m ELSE worker[v]
BY DEF TypeOK

\* When nobody is given a lease and what runs ran before, the invariant stays.
LEMMA Continuing ==
    ASSUME PInv, \A t \in Tasks : Continues(task[t], task'[t]),
           \A w \in Workers : Lets(worker[w].lease, worker'[w].lease)
    PROVE  FInv'
<1>1. Numbered'
  BY DEF PInv, FInv, Numbered, Continues
<1>2. ASSUME NEW w \in Workers, worker'[w].lease # NoLease,
             task'[worker'[w].lease.task].status = "running",
             task'[worker'[w].lease.task].owner = w
      PROVE  task'[worker'[w].lease.task].version = worker'[w].lease.version
  <2> DEFINE l == worker[w].lease
  <2>1. worker'[w].lease = l /\ l # NoLease
    BY <1>2 DEF Lets
  <2>2. l.task \in Tasks
    BY <2>1, Rowed
  <2>3. task[l.task].status = "running" /\ task[l.task].owner = w
          /\ task'[l.task].version = task[l.task].version
    BY <1>2, <2>1, <2>2 DEF Continues
  <2> QED  BY <2>1, <2>3 DEF PInv, FInv, OwnersCurrent
<1>3. OwnersCurrent'
  BY <1>2 DEF OwnersCurrent
<1> QED  BY <1>1, <1>3 DEF FInv

-----------------------------------------------------------------------------
(* Kinds of steps. *)

\* Rows and workers go on as they were.
LEMMA NothingLeased ==
    ASSUME PInv, \A t \in Tasks : SameHold(task[t], task'[t]),
           \A w \in Workers : worker'[w].lease = worker[w].lease
    PROVE  FInv' /\ LeaseStep
<1>1. FInv'
  <2>1. \A t \in Tasks : Continues(task[t], task'[t])
    BY DEF SameHold, Continues
  <2> QED  BY <2>1, Continuing DEF Lets
<1>2. UNCHANGED Leases!vars
  <2>1. \A t \in Tasks : Lapsed(t)' = Lapsed(t)
    <3> SUFFICES ASSUME NEW t \in Tasks PROVE Lapsed(t)' = Lapsed(t)
      OBVIOUS
    <3>1. task[t].expired \in BOOLEAN
      BY Rowed
    <3> QED  BY <3>1 DEF SameHold, Lapsed
  <2>2. \A w \in Workers : TicketOf(w)' = TicketOf(w)
    BY DEF TicketOf
  <2> QED  BY <2>1, <2>2 DEF SameHold, Leases!vars
<1> QED  BY <1>1, <1>2 DEF LeaseStep

\* A worker gives its lease up, or goes on with it.
LEMMA LetsGo ==
    ASSUME PInv, \A t \in Tasks : SameHold(task[t], task'[t]),
           NEW w \in Workers, NEW m, worker' = [worker EXCEPT ![w] = m],
           Lets(worker[w].lease, m.lease)
    PROVE  FInv' /\ LeaseStep
<1>1. \A v \in Workers : worker'[v] = IF v = w THEN m ELSE worker[v]
  BY Rowed, Remembered
<1>2. FInv'
  <2>1. \A t \in Tasks : Continues(task[t], task'[t])
    BY DEF SameHold, Continues
  <2> QED  BY <1>1, <2>1, Continuing DEF Lets
<1>3. CASE m.lease = worker[w].lease
  BY <1>1, <1>3, NothingLeased
<1>4. CASE m.lease = NoLease
  <2>1. \A t \in Tasks : Lapsed(t)' = Lapsed(t)
    <3> SUFFICES ASSUME NEW t \in Tasks PROVE Lapsed(t)' = Lapsed(t)
      OBVIOUS
    <3>1. task[t].expired \in BOOLEAN
      BY Rowed
    <3> QED  BY <3>1 DEF SameHold, Lapsed
  <2>2. \A v \in Workers : TicketOf(v)' = IF v = w THEN [grant |-> 0] ELSE TicketOf(v)
    BY <1>1, <1>4 DEF TicketOf
  <2>3. Leases!Drop(w)
    BY <2>1, <2>2 DEF SameHold, Leases!Drop, Leases!NoTicket
  <2> QED  BY <1>2, <2>3 DEF LeaseStep, Leases!Next
<1> QED  BY <1>3, <1>4 DEF Lets

\* Rows that nobody holds go to their next version.
LEMMA Touches ==
    ASSUME PInv, UNCHANGED worker, NEW free \in SUBSET Tasks,
           \A t \in free : Touched(task[t], task'[t]),
           \A t \in Tasks \ free : SameHold(task[t], task'[t])
    PROVE  FInv' /\ LeaseStep
<1>1. FInv'
  <2>1. \A t \in Tasks : Continues(task[t], task'[t])
    BY DEF SameHold, Touched, Continues
  <2> QED  BY <2>1, Continuing DEF Lets
<1>2. \A t \in Tasks : Lapsed(t)' = Lapsed(t)
  <2> SUFFICES ASSUME NEW t \in Tasks PROVE Lapsed(t)' = Lapsed(t)
    OBVIOUS
  <2>1. task[t].expired \in BOOLEAN
    BY Rowed
  <2> QED  BY <2>1 DEF SameHold, Touched, Lapsed
<1>3. \A w \in Workers : TicketOf(w)' = TicketOf(w)
  BY DEF TicketOf
<1>4. Leases!Touch(free)
  BY <1>2, <1>3 DEF SameHold, Touched, Leases!Touch
<1> QED  BY <1>1, <1>4 DEF LeaseStep, Leases!Next

\* One of them, that is.
LEMMA TouchesOne ==
    ASSUME PInv, UNCHANGED worker, NEW t \in Tasks, NEW s,
           task' = [task EXCEPT ![t] = s], Touched(task[t], s)
    PROVE  FInv' /\ LeaseStep
<1>1. \A u \in Tasks : task'[u] = IF u = t THEN s ELSE task[u]
  BY Rowed, Written
<1>2. {t} \in SUBSET Tasks /\ \A u \in {t} : Touched(task[u], task'[u])
  BY <1>1
<1>3. \A u \in Tasks \ {t} : SameHold(task[u], task'[u])
  BY <1>1 DEF SameHold
<1> QED  BY <1>2, <1>3, Touches

\* Nobody but the holder is a valid one.
LEMMA Validity ==
    ASSUME PInv, NEW w \in Workers, NEW t \in Tasks, worker[w].lease # NoLease,
           worker[w].lease.task = t, task[t].status = "running",
           task[t].version = worker[w].lease.version
    PROVE  Leases!Valid(w, t)
<1> DEFINE holder == [u \in Tasks |-> IF task[u].status = "running" THEN task[u].version ELSE 0]
           ticket == [v \in Workers |-> TicketOf(v)]
<1>1. TicketOf(w) = [resource |-> t, grant |-> worker[w].lease.version]
  BY DEF TicketOf
<1>2. task[t].version # 0
  BY DEF PInv, FInv, Numbered
<1>3. /\ ticket[w] # [grant |-> 0] /\ ticket[w].resource = t
      /\ ticket[w].grant = holder[t] /\ holder[t] # 0
  BY <1>1, <1>2
<1> QED  BY <1>3 DEF Leases!Valid, Leases!NoTicket

\* The holder ends its task, at the next version, and forgets its lease at once or later.
LEMMA EndingsRelease ==
    ASSUME PInv, NEW w \in Workers, NEW t \in Tasks, worker[w].lease # NoLease,
           worker[w].lease.task = t, task[t].status = "running",
           task[t].version = worker[w].lease.version,
           task'[t].status # "running", task'[t].version = task[t].version + 1,
           \A u \in Tasks : u # t => task'[u] = task[u],
           Lets(worker[w].lease, worker'[w].lease),
           \A v \in Workers : v # w => worker'[v] = worker[v]
    PROVE  FInv' /\ LeaseStep
<1>1. FInv'
  <2>1. \A u \in Tasks : Continues(task[u], task'[u])
    BY DEF Continues
  <2> QED  BY <2>1, Continuing DEF Lets
<1>2. Leases!Finish(w, t)
  <2> DEFINE holder == [u \in Tasks |-> IF task[u].status = "running" THEN task[u].version ELSE 0]
             issued == [u \in Tasks |-> task[u].version]
             lapsed == [u \in Tasks |-> Lapsed(u)]
             ticket == [v \in Workers |-> TicketOf(v)]
  <2>1. Leases!Valid(w, t)
    BY Validity
  <2>2. holder' = [holder EXCEPT ![t] = 0]
    OBVIOUS
  <2>3. issued' = [issued EXCEPT ![t] = issued[t] + 1]
    OBVIOUS
  <2>4. lapsed' = [lapsed EXCEPT ![t] = FALSE]
    BY DEF Lapsed
  <2>5. ticket' \in {ticket, [ticket EXCEPT ![w] = [grant |-> 0]]}
    <3>1. CASE worker'[w].lease = worker[w].lease
      <4>1. \A v \in Workers : TicketOf(v)' = TicketOf(v)
        BY <3>1 DEF TicketOf
      <4> QED  BY <4>1
    <3>2. CASE worker'[w].lease = NoLease
      <4>1. \A v \in Workers : TicketOf(v)' = IF v = w THEN [grant |-> 0] ELSE TicketOf(v)
        BY <3>2 DEF TicketOf
      <4> QED  BY <4>1
    <3> QED  BY <3>1, <3>2 DEF Lets
  <2> QED
    BY <2>1, <2>2, <2>3, <2>4, <2>5 DEF Leases!Finish, Leases!NoTicket
<1> QED  BY <1>1, <1>2 DEF LeaseStep, Leases!Next

-----------------------------------------------------------------------------
(* Actions. *)

\* The administrator's requests, and new revisions, change only rows that nobody holds, or mark
\* a running one.
LEMMA RequestSteps ==
    ASSUME PInv
    PROVE  /\ \A t \in Tasks : EnsureRevision(t) => FInv' /\ LeaseStep
           /\ \A t \in Tasks, k \in Keys : Retry(t, k) \/ Cancel(t, k) => FInv' /\ LeaseStep
           /\ \A t \in Tasks, d \in Decisions, kind \in {"reidentify", "planning"} :
                AcceptDecision(d, t, kind) => FInv' /\ LeaseStep
           /\ UpdateProvider => FInv' /\ LeaseStep
<1>1. ASSUME NEW t \in Tasks, EnsureRevision(t) PROVE FInv' /\ LeaseStep
  <2>1. /\ UNCHANGED worker /\ task' = [task EXCEPT ![t] = NewRow]
        /\ task[t].status = "absent"
    BY <1>1 DEF EnsureRevision
  <2>2. task[t].version = 0
    BY <2>1 DEF PInv, IInv, LeaseInv
  <2>3. Touched(task[t], NewRow)
    BY <2>1, <2>2, NewColumns DEF Touched
  <2> QED  BY <2>1, <2>3, TouchesOne
<1>2. ASSUME NEW t \in Tasks, NEW k \in Keys, Retry(t, k) PROVE FInv' /\ LeaseStep
  <2>1. /\ UNCHANGED worker /\ task' = [task EXCEPT ![t] = Retried(task[t])]
        /\ task[t].status # "running"
    BY <1>2 DEF Retry
  <2>2. Touched(task[t], Retried(task[t]))
    BY <2>1, Rowed, RetriedColumns DEF Touched
  <2> QED  BY <2>1, <2>2, TouchesOne
<1>3. ASSUME NEW t \in Tasks, NEW k \in Keys, Cancel(t, k) PROVE FInv' /\ LeaseStep
  <2>1. UNCHANGED worker
    BY <1>3 DEF Cancel
  <2>2. CASE CancelResting(t)
    <3>1. task' = [task EXCEPT ![t] = CancelledRow(task[t])] /\ task[t].status # "running"
      BY <2>2 DEF CancelResting
    <3>2. Touched(task[t], CancelledRow(task[t]))
      BY <3>1, Rowed, CancelledColumns DEF Touched
    <3> QED  BY <2>1, <3>1, <3>2, TouchesOne
  <2>3. CASE CancelRunning(t)
    <3> DEFINE s == [task[t] EXCEPT !.cancelRequested = TRUE]
    <3>1. task' = [task EXCEPT ![t] = s]
      BY <2>3 DEF CancelRunning
    <3>2. SameHold(task[t], s)
      BY Rowed DEF SameHold, Row
    <3> HIDE DEF s
    <3>3. \A u \in Tasks : task'[u] = IF u = t THEN s ELSE task[u]
      BY <3>1, Rowed, Written
    <3>4. \A u \in Tasks : SameHold(task[u], task'[u])
      BY <3>2, <3>3 DEF SameHold
    <3> QED  BY <2>1, <3>4, NothingLeased
  <2> QED  BY <1>3, <2>2, <2>3 DEF Cancel
<1>4. ASSUME NEW t \in Tasks, NEW d \in Decisions, NEW kind \in {"reidentify", "planning"},
             AcceptDecision(d, t, kind)
      PROVE  FInv' /\ LeaseStep
  <2>1. UNCHANGED <<task, worker>>
    BY <1>4 DEF AcceptDecision, rows
  <2> QED  BY <2>1, NothingLeased DEF SameHold
<1>5. ASSUME UpdateProvider PROVE FInv' /\ LeaseStep
  <2> DEFINE free == {t \in Tasks : BlockedByProvider(task[t])}
  <2>1. UNCHANGED worker
    BY <1>5 DEF UpdateProvider
  <2>2. \A t \in free : Touched(task[t], task'[t])
    <3> SUFFICES ASSUME NEW t \in free PROVE Touched(task[t], task'[t])
      OBVIOUS
    <3>1. task'[t] = DueRow(task[t]) /\ task[t].status # "running"
      BY <1>5 DEF UpdateProvider, BlockedByProvider
    <3> QED  BY <3>1, Rowed, DueColumns DEF Touched
  <2>3. \A t \in Tasks \ free : SameHold(task[t], task'[t])
    BY <1>5 DEF UpdateProvider, SameHold
  <2>4. PICK f \in SUBSET Tasks : f = free
    OBVIOUS
  <2> HIDE DEF free
  <2> QED  BY <2>1, <2>2, <2>3, <2>4, Touches
<1> QED  BY <1>1, <1>2, <1>3, <1>4, <1>5

\* A claim is a grant under the next number.
LEMMA ClaimGrants ==
    ASSUME PInv, NEW w \in Workers, Claim(w)
    PROVE  FInv' /\ LeaseStep
<1>1. PICK t \in Tasks :
        /\ Oldest(t)
        /\ task' = [task EXCEPT ![t] = ClaimedRow(t, w)]
        /\ worker' = [worker EXCEPT ![w] =
             [pc |-> "handling", beat |-> "waiting", outcome |-> "none",
              lease |-> [task |-> t, version |-> ClaimedRow(t, w).version,
                         attempt |-> ClaimedRow(t, w).current, stage |-> task[t].stage,
                         checkpoint |-> task[t].checkpoint]]]
  BY DEF Claim
<1> DEFINE s == ClaimedRow(t, w)
           l == [task |-> t, version |-> s.version, attempt |-> s.current,
                 stage |-> task[t].stage, checkpoint |-> task[t].checkpoint]
           m == [pc |-> "handling", beat |-> "waiting", outcome |-> "none", lease |-> l]
<1>2. /\ s.status = "running" /\ s.owner = w /\ s.expired = FALSE
      /\ s.version = task[t].version + 1
  BY Rowed, ClaimedColumns
<1>3. m.lease = l /\ l.task = t /\ l.version = s.version /\ l # NoLease
  BY TasksAssumption DEF NoLease
<1>4. worker[w].lease = NoLease
  BY Rowed DEF Claim, TypeOK, Busy
<1>5. task[t].status # "running" \/ Lapsed(t)
  BY <1>1 DEF Oldest, Claimable, Lapsed
<1>6. task' = [task EXCEPT ![t] = s] /\ worker' = [worker EXCEPT ![w] = m]
  BY <1>1
<1> HIDE DEF s, l, m
<1>7. /\ \A u \in Tasks : task'[u] = IF u = t THEN s ELSE task[u]
      /\ \A v \in Workers : worker'[v] = IF v = w THEN m ELSE worker[v]
  <2>1. TypeOK
    BY Rowed
  <2>2. \A u \in Tasks : task'[u] = IF u = t THEN s ELSE task[u]
    BY <1>6, <2>1, Written
  <2>3. \A v \in Workers : worker'[v] = IF v = w THEN m ELSE worker[v]
    BY <1>6, <2>1, Remembered
  <2> QED  BY <2>2, <2>3
<1>8. FInv'
  <2>1. Numbered'
    BY <1>2, <1>7, Rowed DEF PInv, FInv, Numbered
  <2>2. ASSUME NEW v \in Workers, worker'[v].lease # NoLease,
               task'[worker'[v].lease.task].status = "running",
               task'[worker'[v].lease.task].owner = v
        PROVE  task'[worker'[v].lease.task].version = worker'[v].lease.version
    <3>1. CASE v = w
      BY <1>3, <1>7, <3>1
    <3>2. CASE v # w
      <4>1. worker'[v].lease = worker[v].lease
        BY <1>7, <3>2
      <4>2. worker[v].lease.task \in Tasks
        BY <2>2, <4>1, Rowed
      <4>3. worker[v].lease.task # t
        BY <1>2, <1>7, <2>2, <3>2, <4>1
      <4> QED  BY <1>7, <2>2, <4>1, <4>2, <4>3 DEF PInv, FInv, OwnersCurrent
    <3> QED  BY <3>1, <3>2
  <2>3. OwnersCurrent'
    BY <2>2 DEF OwnersCurrent
  <2> QED  BY <2>1, <2>3 DEF FInv
<1>9. Leases!Grant(w, t)
  <2> DEFINE holder == [u \in Tasks |-> IF task[u].status = "running" THEN task[u].version ELSE 0]
             issued == [u \in Tasks |-> task[u].version]
             lapsed == [u \in Tasks |-> Lapsed(u)]
             ticket == [v \in Workers |-> TicketOf(v)]
  <2>1. ticket[w] = [grant |-> 0] /\ (holder[t] = 0 \/ lapsed[t])
    BY <1>4, <1>5 DEF TicketOf
  <2>2. holder' = [holder EXCEPT ![t] = issued[t] + 1]
    BY <1>2, <1>7
  <2>3. issued' = [issued EXCEPT ![t] = issued[t] + 1]
    BY <1>2, <1>7
  <2>4. lapsed' = [lapsed EXCEPT ![t] = FALSE]
    BY <1>2, <1>7 DEF Lapsed
  <2>5. ticket' = [ticket EXCEPT ![w] = [resource |-> t, grant |-> issued[t] + 1]]
    <3>1. TicketOf(w)' = [resource |-> t, grant |-> issued[t] + 1]
      BY <1>2, <1>3, <1>7 DEF TicketOf
    <3>2. \A v \in Workers : v # w => TicketOf(v)' = TicketOf(v)
      BY <1>7 DEF TicketOf
    <3> QED  BY <3>1, <3>2
  <2> QED
    BY <2>1, <2>2, <2>3, <2>4, <2>5 DEF Leases!Grant, Leases!NoTicket
<1> QED  BY <1>8, <1>9 DEF LeaseStep, Leases!Next

\* What ends a lease ends the task, as far as the row says.
LEMMA EndsWith ==
    ASSUME PInv, NEW w \in Workers, NEW t \in Tasks, worker[w].lease # NoLease,
           worker[w].lease.task = t, task[t].status = "running",
           task[t].version = worker[w].lease.version,
           NEW s, task' = [task EXCEPT ![t] = s],
           s.status # "running", s.version = task[t].version + 1,
           NEW m, worker' = [worker EXCEPT ![w] = m], Lets(worker[w].lease, m.lease)
    PROVE  FInv' /\ LeaseStep
<1>1. TypeOK
  BY Rowed
<1>2. \A u \in Tasks : task'[u] = IF u = t THEN s ELSE task[u]
  BY <1>1, Written
<1>3. \A v \in Workers : worker'[v] = IF v = w THEN m ELSE worker[v]
  BY <1>1, Remembered
<1>4. task'[t].status # "running" /\ task'[t].version = task[t].version + 1
  BY <1>2
<1>5. Lets(worker[w].lease, worker'[w].lease)
  BY <1>3
<1>6. \A u \in Tasks : u # t => task'[u] = task[u]
  BY <1>2
<1>7. \A v \in Workers : v # w => worker'[v] = worker[v]
  BY <1>3
<1> QED  BY <1>4, <1>5, <1>6, <1>7, EndingsRelease

\* The heartbeat renews a lease that is still the worker's, and nothing else.
LEMMA BeatSteps ==
    ASSUME PInv, NEW w \in Workers, BeatCheck(w) \/ BeatRenew(w) \/ BeatFails(w)
    PROVE  FInv' /\ LeaseStep
<1>1. PICK b : worker' = [worker EXCEPT ![w] = [worker[w] EXCEPT !.beat = b]]
  BY DEF BeatCheck, BeatRenew, BeatFails
<1> DEFINE m == [worker[w] EXCEPT !.beat = b]
<1>2. m.lease = worker[w].lease
  BY Rowed DEF Memory
<1> HIDE DEF m
<1>3. \A v \in Workers : worker'[v].lease = worker[v].lease
  BY <1>1, <1>2, Rowed, Remembered DEF m
<1>4. CASE UNCHANGED task
  BY <1>3, <1>4, NothingLeased DEF SameHold
<1>5. CASE BeatRenew(w) /\ Holds(w)
  <2>1. PICK t \in Tasks : t = worker[w].lease.task
    BY <1>5, Rowed DEF Holds
  <2> DEFINE s == [task[t] EXCEPT !.expired = FALSE]
  <2>2. /\ worker[w].lease # NoLease /\ worker[w].lease.task = t
        /\ task[t].status = "running" /\ task[t].version = worker[w].lease.version
        /\ task' = [task EXCEPT ![t] = s]
    BY <1>5, <2>1 DEF BeatRenew, Holds
  <2>3. /\ s.status = task[t].status /\ s.version = task[t].version /\ s.owner = task[t].owner
        /\ s.expired = FALSE
    BY Rowed DEF Row
  <2> HIDE DEF s
  <2>4. \A u \in Tasks : task'[u] = IF u = t THEN s ELSE task[u]
    <3>1. TypeOK
      BY Rowed
    <3> QED  BY <2>2, <3>1, Written
  <2>5. FInv'
    <3>1. \A u \in Tasks : Continues(task[u], task'[u])
      BY <2>2, <2>3, <2>4 DEF Continues
    <3> QED  BY <1>3, <3>1, Continuing DEF Lets
  <2>6. Leases!Renew(w, t)
    <3> DEFINE holder == [u \in Tasks |-> IF task[u].status = "running" THEN task[u].version ELSE 0]
               issued == [u \in Tasks |-> task[u].version]
               lapsed == [u \in Tasks |-> Lapsed(u)]
               ticket == [v \in Workers |-> TicketOf(v)]
    <3>1. Leases!Valid(w, t)
      BY <2>2, Validity
    <3>2. holder' = holder /\ issued' = issued
      BY <2>2, <2>3, <2>4
    <3>3. lapsed' = [lapsed EXCEPT ![t] = FALSE]
      <4>1. task'[t].expired = FALSE
        BY <2>3, <2>4
      <4>2. \A u \in Tasks : u # t => task'[u] = task[u]
        BY <2>4
      <4>3. \A u \in Tasks : Lapsed(u)' = IF u = t THEN FALSE ELSE Lapsed(u)
        BY <4>1, <4>2 DEF Lapsed
      <4> QED  BY <4>3
    <3>4. ticket' = ticket
      BY <1>3 DEF TicketOf
    <3> QED  BY <3>1, <3>2, <3>3, <3>4 DEF Leases!Renew
  <2> QED  BY <2>5, <2>6 DEF LeaseStep, Leases!Next
<1>6. UNCHANGED task \/ (BeatRenew(w) /\ Holds(w))
  BY DEF BeatCheck, BeatRenew, BeatFails, rows
<1> QED  BY <1>4, <1>5, <1>6

\* A handler commits under the lease it has, or only returns.  The identification commit asks
\* for the owner and finds, by the invariant, the version too.
LEMMA HandlerSteps ==
    ASSUME PInv, NEW w \in Workers, HandlerReturns(w) \/ FailsAfterCommit(w)
    PROVE  FInv' /\ LeaseStep
<1> DEFINE l == worker[w].lease
           returned(o) == [worker[w] EXCEPT !.pc = "settling", !.outcome = o]
<1>1. \A o : returned(o).lease = l
  BY Rowed DEF Memory
<1>2. worker[w].pc = "handling" => l # NoLease /\ l.task \in Tasks
  <2>1. worker[w].pc = "handling" => worker[w].lease # NoLease
    BY Rowed DEF TypeOK, Busy
  <2> QED  BY <2>1, Rowed
<1>3. ASSUME IdentificationCommit(w) PROVE FInv' /\ LeaseStep
  <2>1. PICK t \in Tasks : t = l.task
    BY <1>2, <1>3 DEF IdentificationCommit
  <2>2. l # NoLease /\ task[t].status = "running" /\ task[t].owner = w
    BY <1>2, <1>3, <2>1 DEF IdentificationCommit, Authority
  <2>3. task[t].version = l.version
    BY <2>1, <2>2 DEF PInv, FInv, OwnersCurrent
  <2>4. PICK x \in IdentificationOutcomes : task' = [task EXCEPT ![t] = FinishedRow(task[t], x)]
    BY <1>3, <2>1 DEF IdentificationCommit
  <2>5. x.status # "running"
    BY <2>4, IdentificationAttempts
  <2>6. /\ FinishedRow(task[t], x).status # "running"
        /\ FinishedRow(task[t], x).version = task[t].version + 1
    BY <2>5, Rowed, FinishedColumns
  <2>7. worker' = [worker EXCEPT ![w] = returned("committed")]
    BY <1>3 DEF IdentificationCommit
  <2>8. Lets(worker[w].lease, returned("committed").lease)
    BY <1>1 DEF Lets
  <2> HIDE DEF returned
  <2> QED  BY <2>1, <2>2, <2>3, <2>4, <2>6, <2>7, <2>8, EndsWith
<1>4. ASSUME OrganizationCommit(w) PROVE FInv' /\ LeaseStep
  <2>1. PICK t \in Tasks : t = l.task
    BY <1>2, <1>4 DEF OrganizationCommit
  <2>2. l # NoLease /\ task[t].status = "running" /\ task[t].version = l.version
    BY <1>4, <2>1 DEF OrganizationCommit, Holds
  <2>3. PICK x \in Moves(l.stage) : task' = [task EXCEPT ![t] = MovedRow(task[t], Decide(task[t], x))]
    BY <1>4, <2>1 DEF OrganizationCommit
  <2>4. Decide(task[t], x).status # "running"
    <3>1. x.status # "running"
      BY MovesStay
    <3>2. CASE task[t].cancelRequested /\ x.continue
      <4>1. Decide(task[t], x).status = "cancelled"
        BY <3>2 DEF Decide
      <4> QED  BY <4>1
    <3> QED  BY <3>1, <3>2 DEF Decide
  <2>5. /\ MovedRow(task[t], Decide(task[t], x)).status # "running"
        /\ MovedRow(task[t], Decide(task[t], x)).version = task[t].version + 1
    BY <2>4, Rowed, MovedColumns
  <2>6. worker' = [worker EXCEPT ![w] = returned("committed")]
    BY <1>4 DEF OrganizationCommit
  <2>7. Lets(worker[w].lease, returned("committed").lease)
    BY <1>1 DEF Lets
  <2> HIDE DEF returned
  <2> QED  BY <2>1, <2>2, <2>3, <2>5, <2>6, <2>7, EndsWith
<1>5. ASSUME HandlerFails(w) \/ HandlerDelegates(w) PROVE FInv' /\ LeaseStep
  <2>1. PICK o : worker' = [worker EXCEPT ![w] = returned(o)]
    BY <1>5 DEF HandlerFails, HandlerDelegates
  <2>2. UNCHANGED task /\ returned(o).lease = l
    BY <1>1, <1>5 DEF HandlerFails, HandlerDelegates, rows
  <2> HIDE DEF returned
  <2> QED  BY <2>1, <2>2, LetsGo DEF SameHold, Lets
<1>6. ASSUME FailsAfterCommit(w) PROVE FInv' /\ LeaseStep
  <2> DEFINE m == [worker[w] EXCEPT !.outcome = "error"]
  <2>1. m.lease = l
    BY Rowed DEF Memory
  <2>2. UNCHANGED task /\ worker' = [worker EXCEPT ![w] = m]
    BY <1>6 DEF FailsAfterCommit, rows
  <2> HIDE DEF m
  <2> QED  BY <2>1, <2>2, LetsGo DEF SameHold, Lets
<1> QED  BY <1>3, <1>4, <1>5, <1>6 DEF HandlerReturns

\* Only a worker that still holds its task finishes it, and it forgets its lease either way.
LEMMA FinishSteps ==
    ASSUME PInv, NEW w \in Workers, FinishCancelled(w) \/ FinishStageFailed(w) \/ FinishOutcome(w)
    PROVE  FInv' /\ LeaseStep
<1> DEFINE l == worker[w].lease
<1>1. worker' = [worker EXCEPT ![w] = Resting("joined")] /\ Resting("joined").lease = NoLease
  BY DEF FinishCancelled, FinishStageFailed, FinishOutcome, Resting
<1>2. CASE UNCHANGED task
  BY <1>1, <1>2, LetsGo DEF SameHold, Lets
<1>3. ASSUME Holds(w), NEW t \in Tasks, t = l.task,
             NEW x, x.status # "running", task' = [task EXCEPT ![t] = FinishedRow(task[t], x)]
      PROVE  FInv' /\ LeaseStep
  <2>1. l # NoLease /\ task[t].status = "running" /\ task[t].version = l.version
    BY <1>3 DEF Holds
  <2>2. /\ FinishedRow(task[t], x).status # "running"
        /\ FinishedRow(task[t], x).version = task[t].version + 1
    BY <1>3, Rowed, FinishedColumns
  <2> QED  BY <1>1, <1>3, <2>1, <2>2, EndsWith DEF Lets
<1>4. ASSUME NEW x, x.status # "running", FinishTerminal(w, x) PROVE FInv' /\ LeaseStep
  <2>1. CASE ~Holds(w)
    BY <1>2, <1>4, <2>1 DEF FinishTerminal, rows
  <2>2. CASE Holds(w)
    <3>1. PICK t \in Tasks : t = l.task
      BY <2>2, Rowed DEF Holds
    <3>2. PICK y : y = Ended(task[t], x)
      OBVIOUS
    <3>3. task' = [task EXCEPT ![t] = FinishedRow(task[t], y)]
      BY <1>4, <2>2, <3>1, <3>2 DEF FinishTerminal
    <3>4. y.status # "running"
      BY <1>4, <3>2 DEF Ended, Ending
    <3> QED  BY <1>3, <2>2, <3>1, <3>3, <3>4
  <2> QED  BY <2>1, <2>2
<1>5. ASSUME FinishIdentificationComplete(w) PROVE FInv' /\ LeaseStep
  <2>1. CASE ~Holds(w)
    BY <1>2, <1>5, <2>1 DEF FinishIdentificationComplete, rows
  <2>2. CASE Holds(w)
    <3>1. PICK t \in Tasks : t = l.task
      BY <2>2, Rowed DEF Holds
    <3>2. task' = [task EXCEPT ![t] = FinishedRow(task[t], Confirmed)]
      BY <1>5, <2>2, <3>1 DEF FinishIdentificationComplete
    <3>3. Confirmed.status # "running"
      BY DEF Confirmed, Ending
    <3> QED  BY <1>3, <2>2, <3>1, <3>2, <3>3
  <2> QED  BY <2>1, <2>2
<1>6. CASE FinishCancelled(w)
  <2>1. PICK x : /\ x = Ending("cancelled", l.stage, "cancelled", "none", "none", "cancelled", "none")
                 /\ FinishTerminal(w, x)
    BY <1>6 DEF FinishCancelled
  <2>2. x.status # "running"
    BY <2>1 DEF Ending
  <2> QED  BY <1>4, <2>1, <2>2
<1>7. CASE FinishStageFailed(w)
  <2>1. PICK x : /\ x = Ending("paused", l.stage, l.checkpoint, "none", "pending", "failed",
                               "stage-failed")
                 /\ FinishTerminal(w, x)
    BY <1>7 DEF FinishStageFailed
  <2>2. x.status # "running"
    BY <2>1 DEF Ending
  <2> QED  BY <1>4, <2>1, <2>2
<1>8. CASE FinishOutcome(w)
  <2>1. \/ FinishIdentificationComplete(w)
        \/ \E x : x.status # "running" /\ FinishTerminal(w, x)
    <3>1. NeedsReview.status # "running"
      BY DEF NeedsReview, Ending
    <3>2. Ending("paused", l.stage, "dependency-blocked", "provider", "pending", "failed",
                 "stage-failed").status # "running"
      BY DEF Ending
    <3> QED  BY <1>8, <3>1, <3>2 DEF FinishOutcome
  <2> QED  BY <1>4, <1>5, <2>1
<1> QED  BY <1>6, <1>7, <1>8

\* What else a worker does changes no row, and may cost it its lease.
LEMMA RestingSteps ==
    ASSUME PInv, NEW w \in Workers,
           NoWork(w) \/ Settle(w) \/ CheckCancel(w) \/ WorkerAbandons(w)
    PROVE  FInv' /\ LeaseStep
<1>1. UNCHANGED task
  BY DEF NoWork, Settle, CheckCancel, WorkerAbandons, rows
<1>2. \/ worker' = [worker EXCEPT ![w] = Resting("joined")]
      \/ \E pc : worker' = [worker EXCEPT ![w] = [worker[w] EXCEPT !.pc = pc]]
  BY DEF NoWork, Settle, CheckCancel, WorkerAbandons
<1>3. \A pc : [worker[w] EXCEPT !.pc = pc].lease = worker[w].lease
  BY Rowed DEF Memory
<1>4. Resting("joined").lease = NoLease
  BY DEF Resting
<1>5. PICK m : worker' = [worker EXCEPT ![w] = m] /\ Lets(worker[w].lease, m.lease)
  BY <1>2, <1>3, <1>4 DEF Lets
<1> QED  BY <1>1, <1>5, LetsGo DEF SameHold

\* A decision that is applied changes a row that nobody holds.
LEMMA DispatchSteps == ASSUME PInv, Dispatch PROVE FInv' /\ LeaseStep
<1>1. UNCHANGED worker
  BY DEF Dispatch, DispatchFetch, DispatchApply, DispatchRefused, DispatchAudit, DispatchMark
<1>2. CASE UNCHANGED task
  BY <1>1, <1>2, NothingLeased DEF SameHold
<1>3. CASE DispatchApply /\ ~Applied(Head(queue))
  <2>1. PICK d : d = Head(queue)
    OBVIOUS
  <2>2. PICK t \in Tasks : t = decision[d].task
    <3>1. runtime.left \in 1 .. Len(queue) /\ queue \in Seq(Decisions)
      BY <1>3 DEF DispatchApply, Dispatching, PInv, IInv, Typed, BatchInv, TypeOK
    <3>2. Len(queue) > 0 /\ Head(queue) = queue[1]
      BY <3>1
    <3>3. decision[queue[1]].task \in Tasks
      BY <3>1, <3>2 DEF PInv, IInv, Typed, BatchInv
    <3> QED  BY <2>1, <3>2, <3>3
  <2>3. Awaited(t) /\ ApplyAwaited(t, d)
    BY <1>3, <2>1, <2>2 DEF DispatchApply
  <2>4. task[t].status # "running" /\ task' = [task EXCEPT ![t] = DecidedRow(task[t], d)]
    BY <2>3 DEF Awaited, ApplyAwaited
  <2>5. Touched(task[t], DecidedRow(task[t], d))
    BY <2>4, Rowed, DecidedColumns DEF Touched
  <2> QED  BY <1>1, <2>4, <2>5, TouchesOne
<1>4. UNCHANGED task \/ (DispatchApply /\ ~Applied(Head(queue)))
  BY DEF Dispatch, DispatchFetch, DispatchApply, DispatchRefused, DispatchAudit, DispatchMark, rows
<1> QED  BY <1>2, <1>3, <1>4

\* The clock makes retries due and leases lapse.
LEMMA ClockSteps ==
    ASSUME PInv, NEW t \in Tasks, RetryDue(t) \/ LeaseExpires(t)
    PROVE  FInv' /\ LeaseStep
<1>1. UNCHANGED worker
  BY DEF RetryDue, LeaseExpires
<1>2. CASE RetryDue(t)
  <2> DEFINE s == [task[t] EXCEPT !.retry = "due"]
  <2>1. task' = [task EXCEPT ![t] = s]
    BY <1>2 DEF RetryDue
  <2>2. SameHold(task[t], s)
    BY Rowed DEF SameHold, Row
  <2> HIDE DEF s
  <2>3. \A u \in Tasks : task'[u] = IF u = t THEN s ELSE task[u]
    BY <2>1, Rowed, Written
  <2>4. \A u \in Tasks : SameHold(task[u], task'[u])
    BY <2>2, <2>3 DEF SameHold
  <2> QED  BY <1>1, <2>4, NothingLeased
<1>3. CASE LeaseExpires(t)
  <2> DEFINE s == [task[t] EXCEPT !.expired = TRUE]
  <2>1. task[t].status = "running" /\ task' = [task EXCEPT ![t] = s]
    BY <1>3 DEF LeaseExpires
  <2>2. /\ s.status = task[t].status /\ s.version = task[t].version /\ s.owner = task[t].owner
        /\ s.expired = TRUE
    BY Rowed DEF Row
  <2> HIDE DEF s
  <2>3. \A u \in Tasks : task'[u] = IF u = t THEN s ELSE task[u]
    <3>1. TypeOK
      BY Rowed
    <3> QED  BY <2>1, <3>1, Written
  <2>4. FInv'
    <3>1. \A u \in Tasks : Continues(task[u], task'[u])
      BY <2>1, <2>2, <2>3 DEF Continues
    <3> QED  BY <1>1, <3>1, Continuing DEF Lets
  <2>5. Leases!Lapse(t)
    <3> DEFINE holder == [u \in Tasks |-> IF task[u].status = "running" THEN task[u].version ELSE 0]
               issued == [u \in Tasks |-> task[u].version]
               lapsed == [u \in Tasks |-> Lapsed(u)]
               ticket == [v \in Workers |-> TicketOf(v)]
    <3>1. holder[t] # 0
      BY <2>1 DEF PInv, FInv, Numbered
    <3>2. holder' = holder /\ issued' = issued
      BY <2>2, <2>3
    <3>3. lapsed' = [lapsed EXCEPT ![t] = TRUE]
      BY <2>1, <2>2, <2>3 DEF Lapsed
    <3>4. ticket' = ticket
      BY <1>1 DEF TicketOf
    <3> QED  BY <3>1, <3>2, <3>3, <3>4 DEF Leases!Lapse
  <2> QED  BY <2>4, <2>5 DEF LeaseStep, Leases!Next
<1> QED  BY <1>2, <1>3

\* The start of the process revokes every lapsed lease at once.
LEMMA ReclaimRevokes == ASSUME PInv, ReclaimExpired PROVE FInv' /\ LeaseStep
<1>1. /\ UNCHANGED worker
      /\ \A t \in Tasks : task'[t] = IF Lapsed(t) THEN RecoveringRow(task[t]) ELSE task[t]
  BY DEF ReclaimExpired
<1>2. ASSUME NEW t \in Tasks
      PROVE  /\ task'[t].status = "running" <=> task[t].status = "running" /\ ~Lapsed(t)
             /\ task'[t].version = IF Lapsed(t) THEN task[t].version + 1 ELSE task[t].version
             /\ ~Lapsed(t)'
             /\ Continues(task[t], task'[t])
  <2>1. CASE Lapsed(t)
    <3>1. /\ RecoveringRow(task[t]).status = "queued"
          /\ RecoveringRow(task[t]).version = task[t].version + 1
      BY Rowed, RecoveringColumns
    <3>2. task'[t].status = "queued" /\ task'[t].version = task[t].version + 1
      BY <1>1, <2>1, <3>1
    <3> QED  BY <2>1, <3>2 DEF Lapsed, Continues
  <2>2. CASE ~Lapsed(t)
    <3>1. task'[t] = task[t]
      BY <1>1, <2>2
    <3> QED  BY <2>2, <3>1 DEF Lapsed, Continues
  <2> QED  BY <2>1, <2>2
<1>3. FInv'
  BY <1>1, <1>2, Continuing DEF Lets
<1>4. Leases!RevokeLapsed
  <2>1. \A w \in Workers : TicketOf(w)' = TicketOf(w)
    BY <1>1 DEF TicketOf
  <2>2. \A t \in Tasks : Lapsed(t)' = FALSE
    <3> SUFFICES ASSUME NEW t \in Tasks PROVE Lapsed(t)' = FALSE
      OBVIOUS
    <3> QED  BY <1>2 DEF Lapsed
  <2> QED  BY <1>2, <2>1, <2>2 DEF Leases!RevokeLapsed
<1> QED  BY <1>3, <1>4 DEF LeaseStep, Leases!Next

\* The runtime moves on, or all workers begin anew, or die.
LEMMA RuntimeSteps ==
    ASSUME PInv, Boot \/ StartServing \/ StartRound \/ EndRound \/ Crash
    PROVE  FInv' /\ LeaseStep
<1>1. UNCHANGED task
  BY DEF Boot, StartServing, StartRound, EndRound, Crash, rows
<1>2. CASE UNCHANGED worker
  BY <1>1, <1>2, NothingLeased DEF SameHold
<1>3. ASSUME NEW pc, worker' = [w \in Workers |-> Resting(pc)] PROVE FInv' /\ LeaseStep
  <2>1. \A w \in Workers : worker'[w].lease = NoLease
    BY <1>3 DEF Resting
  <2>2. FInv'
    BY <1>1, <2>1, Continuing DEF Continues, Lets
  <2>3. \A w \in Workers : TicketOf(w)' = [grant |-> 0]
    BY <2>1 DEF TicketOf
  <2>4. \A t \in Tasks : Lapsed(t)' = Lapsed(t)
    BY <1>1 DEF Lapsed
  <2>5. Leases!Crash
    BY <1>1, <2>3, <2>4 DEF Leases!Crash, Leases!NoTicket
  <2> QED  BY <2>2, <2>5 DEF LeaseStep, Leases!Next
<1>4. UNCHANGED worker \/ \E pc : worker' = [w \in Workers |-> Resting(pc)]
  BY DEF Boot, StartServing, StartRound, EndRound, Crash
<1> QED  BY <1>2, <1>3, <1>4

-----------------------------------------------------------------------------
(* The specification. *)

\* Nothing is leased at first.
LEMMA LeaseInit == Init => FInv /\ Leases!Init
<1> SUFFICES ASSUME Init PROVE FInv /\ Leases!Init
  OBVIOUS
<1>1. /\ \A t \in Tasks : task[t].status = "absent" /\ task[t].version = 0
      /\ \A w \in Workers : worker[w].lease = NoLease
  BY DEF Init, Absent, Resting
<1>2. FInv
  BY <1>1 DEF FInv, OwnersCurrent, Numbered
<1>3. \A t \in Tasks : Lapsed(t) = FALSE
  BY <1>1 DEF Lapsed
<1>4. \A w \in Workers : TicketOf(w) = [grant |-> 0]
  BY <1>1 DEF TicketOf
<1>5. Leases!Init
  BY <1>1, <1>3, <1>4 DEF Leases!Init, Leases!NoTicket
<1> QED  BY <1>2, <1>5

\* Every step is one of the lease.
LEMMA LeaseNext == PInv /\ [Next]_vars => FInv' /\ LeaseStep
<1> SUFFICES ASSUME PInv, [Next]_vars PROVE FInv' /\ LeaseStep
  OBVIOUS
<1>1. CASE UNCHANGED vars
  BY <1>1, NothingLeased DEF vars, rows, SameHold
<1>2. ASSUME NEW w \in Workers,
             \/ Claim(w) \/ NoWork(w)
             \/ BeatCheck(w) \/ BeatRenew(w) \/ BeatFails(w)
             \/ HandlerReturns(w) \/ FailsAfterCommit(w)
             \/ WorkerCloses(w) \/ WorkerAbandons(w)
      PROVE  FInv' /\ LeaseStep
  BY <1>2, ClaimGrants, BeatSteps, HandlerSteps, FinishSteps, RestingSteps DEF WorkerCloses
<1>3. ASSUME NEW t \in Tasks, EnsureRevision(t) \/ RetryDue(t) \/ LeaseExpires(t)
      PROVE  FInv' /\ LeaseStep
  BY <1>3, RequestSteps, ClockSteps
<1> QED
  BY <1>1, <1>2, <1>3, RequestSteps, DispatchSteps, ReclaimRevokes, RuntimeSteps DEF Next

\* The invariant holds throughout.
LEMMA FencesHold == Spec => []PInv
<1>1. Init => FInv
  BY LeaseInit
<1>2. IInv /\ FInv /\ [Next]_vars => FInv'
  BY LeaseNext DEF PInv
<1> QED  BY <1>1, <1>2, Invariant, PTL DEF Spec, PInv

\* The processing tasks implement the fenced lease, for any number of tasks, workers, requests and
\* incidents: a worker that was taken over, by a claim or at the start of the process, can neither
\* renew nor finish (claim_next, renew, reclaim_expired and the finish_* of the task store, and the
\* identification commit, which checks the attempt in place of the version).
THEOREM WorkersAreFenced == Spec => LeaseSpec
<1>1. Init => Leases!Init
  BY LeaseInit
<1>2. PInv /\ [Next]_vars => [Leases!Next]_(Leases!vars)
  BY LeaseNext DEF LeaseStep
<1> QED
  BY <1>1, <1>2, FencesHold, PTL DEF Spec, LeaseSpec, Leases!Spec

-----------------------------------------------------------------------------
(* Accepted cancels.  Nothing in this build leaves its transition to the worker: *)
(* each handler commits by itself.                                               *)

\* Then a worker never gets to the two places where the outcome is still to be written.
Undelegated ==
    \A w \in Workers :
        /\ worker[w].pc \notin {"checking", "finishing"}
        /\ worker[w].pc = "settling" => worker[w].outcome \in {"committed", "error"}

\* What may become of a running task whose cancel was accepted.
Bound(r, s) ==
    r.status = "running" /\ r.cancelRequested =>
        /\ s.status = "queued" => s.recovering
        /\ s.status = "paused" => s.reason = "organization"
        /\ s.status # "waiting-confirmation"

\* A worker's memory after a step of its own.
LEMMA UndelegatedOne ==
    ASSUME PInv, Undelegated, NEW w \in Workers, NEW m, worker' = [worker EXCEPT ![w] = m],
           m.pc \notin {"checking", "finishing"},
           m.pc = "settling" => m.outcome \in {"committed", "error"}
    PROVE  Undelegated'
<1>1. TypeOK
  BY Rowed
<1>2. \A v \in Workers : worker'[v] = IF v = w THEN m ELSE worker[v]
  BY <1>1, Remembered
<1> QED  BY <1>2 DEF Undelegated

\* No step leads a worker there.
LEMMA UndelegatedNext ==
    ASSUME Delegated = {}, PInv, Undelegated, [Next]_vars
    PROVE  Undelegated'
<1>1. CASE UNCHANGED worker
  BY <1>1 DEF Undelegated
<1>2. ASSUME NEW w \in Workers, BeatCheck(w) \/ BeatRenew(w) \/ BeatFails(w) PROVE Undelegated'
  <2>1. PICK b : worker' = [worker EXCEPT ![w] = [worker[w] EXCEPT !.beat = b]]
    BY <1>2 DEF BeatCheck, BeatRenew, BeatFails
  <2> DEFINE m == [worker[w] EXCEPT !.beat = b]
  <2>2. m.pc = worker[w].pc /\ m.outcome = worker[w].outcome
    BY Rowed DEF Memory
  <2> HIDE DEF m
  <2>3. /\ m.pc \notin {"checking", "finishing"}
        /\ m.pc = "settling" => m.outcome \in {"committed", "error"}
    BY <2>2 DEF Undelegated
  <2> QED  BY <2>1, <2>3, UndelegatedOne DEF m
<1>3. ASSUME NEW w \in Workers, HandlerReturns(w) \/ FailsAfterCommit(w) PROVE Undelegated'
  <2> DEFINE Returned(o) == [worker[w] EXCEPT !.pc = "settling", !.outcome = o]
             late == [worker[w] EXCEPT !.outcome = "error"]
  <2>1. /\ \A o : Returned(o).pc = "settling" /\ Returned(o).outcome = o
        /\ late.pc = worker[w].pc /\ late.outcome = "error"
    BY Rowed DEF Memory
  <2>2. ~HandlerDelegates(w)
    BY <1>3 DEF HandlerDelegates
  <2>3. PICK m \in {Returned("committed"), Returned("error"), late} : worker' = [worker EXCEPT ![w] = m]
    BY <1>3, <2>2 DEF HandlerReturns, IdentificationCommit, OrganizationCommit, HandlerFails,
       FailsAfterCommit
  <2>4. /\ m.pc \notin {"checking", "finishing"}
        /\ m.pc = "settling" => m.outcome \in {"committed", "error"}
    <3>1. late.pc \notin {"checking", "finishing"}
      BY <2>1 DEF Undelegated
    <3> HIDE DEF Returned, late
    <3> QED  BY <2>1, <2>3, <3>1
  <2> QED  BY <2>3, <2>4, UndelegatedOne
<1>4. ASSUME NEW w \in Workers, Claim(w) \/ NoWork(w) \/ WorkerCloses(w) \/ WorkerAbandons(w)
      PROVE  Undelegated'
  <2>1. /\ ~CheckCancel(w) /\ ~FinishOutcome(w)
    BY DEF Undelegated, CheckCancel, FinishOutcome
  <2>2. \/ worker' = [worker EXCEPT ![w] = Resting("joined")]
        \/ \E pc \in {"cancelling", "pausing"} :
              worker' = [worker EXCEPT ![w] = [worker[w] EXCEPT !.pc = pc]]
        \/ \E l : worker' = [worker EXCEPT ![w] = [pc |-> "handling", beat |-> "waiting",
                                                   outcome |-> "none", lease |-> l]]
    <3>1. CASE Settle(w)
      <4>1. worker[w].outcome \in {"committed", "error"}
        BY <3>1 DEF Settle, Undelegated
      <4> DEFINE next == IF worker[w].beat = "cancelled" THEN "cancelling"
                         ELSE IF worker[w].beat = "lost" \/ worker[w].outcome = "committed" THEN "joined"
                         ELSE IF worker[w].outcome = "error" THEN "pausing"
                         ELSE "checking"
      <4>2. next \in {"cancelling", "joined", "pausing"}
        BY <4>1
      <4>3. worker' = [worker EXCEPT ![w] =
              IF next = "joined" THEN Resting("joined") ELSE [worker[w] EXCEPT !.pc = next]]
        BY <3>1 DEF Settle
      <4> HIDE DEF next
      <4> QED  BY <4>2, <4>3
    <3>2. CASE Claim(w)
      BY <3>2 DEF Claim
    <3>3. CASE NoWork(w) \/ FinishCancelled(w) \/ FinishStageFailed(w) \/ WorkerAbandons(w)
      BY <3>3 DEF NoWork, FinishCancelled, FinishStageFailed, WorkerAbandons
    <3> QED  BY <1>4, <2>1, <3>1, <3>2, <3>3 DEF WorkerCloses
  <2>3. PICK m : /\ worker' = [worker EXCEPT ![w] = m]
                 /\ m.pc \in {"joined", "cancelling", "pausing", "handling"}
    <3>1. Resting("joined").pc = "joined"
      BY DEF Resting
    <3>2. \A pc : [worker[w] EXCEPT !.pc = pc].pc = pc
      BY Rowed DEF Memory
    <3>3. CASE worker' = [worker EXCEPT ![w] = Resting("joined")]
      BY <3>1, <3>3
    <3>4. ASSUME NEW pc \in {"cancelling", "pausing"},
                 worker' = [worker EXCEPT ![w] = [worker[w] EXCEPT !.pc = pc]]
          PROVE  \E m : /\ worker' = [worker EXCEPT ![w] = m]
                        /\ m.pc \in {"joined", "cancelling", "pausing", "handling"}
      BY <3>2, <3>4
    <3>5. ASSUME NEW l, worker' = [worker EXCEPT ![w] = [pc |-> "handling", beat |-> "waiting",
                                                        outcome |-> "none", lease |-> l]]
          PROVE  \E m : /\ worker' = [worker EXCEPT ![w] = m]
                        /\ m.pc \in {"joined", "cancelling", "pausing", "handling"}
      <4> DEFINE n == [pc |-> "handling", beat |-> "waiting", outcome |-> "none", lease |-> l]
      <4>1. n.pc = "handling"
        OBVIOUS
      <4> HIDE DEF n
      <4> QED  BY <3>5, <4>1 DEF n
    <3> QED  BY <2>2, <3>3, <3>4, <3>5
  <2> QED  BY <2>3, UndelegatedOne
<1>5. ASSUME NEW pc \in {"ready", "joined"}, worker' = [w \in Workers |-> Resting(pc)]
      PROVE  Undelegated'
  BY <1>5 DEF Undelegated, Resting
<1>6. CASE Dispatch \/ Boot \/ ReclaimExpired \/ StartServing \/ EndRound
  <2>1. UNCHANGED worker
    BY <1>6 DEF Dispatch, DispatchFetch, DispatchApply, DispatchRefused, DispatchAudit, DispatchMark,
       Boot, ReclaimExpired, StartServing, EndRound
  <2> QED  BY <1>1, <2>1
<1>7. CASE StartRound \/ Crash
  BY <1>5, <1>7 DEF StartRound, Crash
<1>8. ASSUME NEW t \in Tasks,
             \/ EnsureRevision(t) \/ RetryDue(t) \/ LeaseExpires(t)
             \/ \E k \in Keys : Retry(t, k) \/ Cancel(t, k)
             \/ \E d \in Decisions, kind \in {"reidentify", "planning"} : AcceptDecision(d, t, kind)
      PROVE  Undelegated'
  BY <1>1, <1>8 DEF EnsureRevision, RetryDue, LeaseExpires, Retry, Cancel, AcceptDecision
<1>9. CASE UpdateProvider
  BY <1>1, <1>9 DEF UpdateProvider
<1>10. CASE UNCHANGED vars
  BY <1>1, <1>10 DEF vars
<1> QED
  BY <1>2, <1>3, <1>4, <1>6, <1>7, <1>8, <1>9, <1>10 DEF Next

\* A move that would go on is replaced by the cancel; the others keep to the bounds as they are.
LEMMA MovesBound ==
    ASSUME NEW r \in Row, NEW stage, NEW x \in Moves(stage)
    PROVE  Bound(r, MovedRow(r, Decide(r, x)))
<1>1. /\ x.continue <=> x.status = "queued"
      /\ x.status # "waiting-confirmation"
      /\ x.status = "paused" => x.reason = "organization"
  <2> DEFINE Good(y) == /\ y.status # "waiting-confirmation"
                        /\ y.status = "paused" => y.reason = "organization"
  <2>1. \A y \in PlanningMoves : Good(y)
    BY DEF PlanningMoves, Move
  <2>2. \A y \in FileMoves : Good(y)
    <3> SUFFICES ASSUME NEW y \in FileMoves PROVE Good(y)
      OBVIOUS
    <3>1. CASE y = [Move("queued", "nfo", "nfo-pending", "none", "none", TRUE)
                      EXCEPT !.result = TRUE]
      BY <3>1 DEF Move
    <3>2. CASE y = [Move("queued", "completion", "local-result-prepared", "none", "none", TRUE)
                      EXCEPT !.result = TRUE]
      BY <3>2 DEF Move
    <3>3. CASE y = Move("paused", "file-operation", "file-operation-executing",
                        "organization", "pending", FALSE)
      BY <3>3 DEF Move
    <3>4. CASE y = Move("paused", "file-operation", "file-operation-manual-review",
                        "organization", "none", FALSE)
      BY <3>4 DEF Move
    <3>5. CASE y = [Move("paused", "file-operation", "file-operation-manual-review",
                         "organization", "none", FALSE) EXCEPT !.result = TRUE]
      BY <3>5 DEF Move
    <3> HIDE DEF Good
    <3> QED  BY <3>1, <3>2, <3>3, <3>4, <3>5 DEF FileMoves
  <2>3. \A y \in NfoMoves : Good(y)
    BY DEF NfoMoves, Move
  <2>4. \A y \in CompletionMoves : Good(y)
    BY DEF CompletionMoves, Move
  <2>5. Good(x)
    <3> HIDE DEF Good
    <3> QED  BY <2>1, <2>2, <2>3, <2>4 DEF Moves
  <2> QED  BY <2>5, MovesStay
<1>2. ASSUME NEW y PROVE MovedRow(r, y).status = y.status /\ MovedRow(r, y).reason = y.reason
  BY DEF MovedRow, FinishedRow, Released, Row
<1>3. CASE r.cancelRequested /\ x.continue
  <2>1. Decide(r, x).status = "cancelled"
    BY <1>3 DEF Decide
  <2> QED  BY <1>2, <2>1 DEF Bound
<1>4. CASE r.cancelRequested /\ ~x.continue
  <2>1. Decide(r, x) = x
    BY <1>4 DEF Decide
  <2> QED  BY <1>1, <1>2, <1>4, <2>1 DEF Bound
<1> QED  BY <1>3, <1>4 DEF Bound

\* The worker's own endings meet the flag inside their transaction.
LEMMA EndingsBound ==
    ASSUME NEW r \in Row, NEW x, x.status \in {"cancelled", "paused"}
    PROVE  Bound(r, FinishedRow(r, Ended(r, x)))
<1>1. ASSUME NEW y PROVE FinishedRow(r, y).status = y.status
  BY FinishedColumns
<1>2. r.cancelRequested => Ended(r, x).status = "cancelled"
  BY DEF Ended, Ending
<1> QED  BY <1>1, <1>2 DEF Bound

\* Every step keeps within the bounds.
LEMMA CancelNext ==
    ASSUME Delegated = {}, PInv, Undelegated, [Next]_vars, NEW t \in Tasks
    PROVE  Bound(task[t], task'[t])
<1>1. CASE task[t].status # "running"
  BY <1>1 DEF Bound
<1>2. CASE task'[t].status = "running"
  BY <1>2 DEF Bound
<1>3. CASE task'[t] = task[t]
  BY <1>3 DEF Bound
<1>4. ASSUME NEW u \in Tasks, NEW s, task' = [task EXCEPT ![u] = s],
             task[u].status = "running" => Bound(task[u], s)
      PROVE  Bound(task[t], task'[t])
  BY <1>1, <1>3, <1>4, Rowed, Written
<1>5. ASSUME NEW u \in Tasks,
             \/ EnsureRevision(u) \/ RetryDue(u) \/ LeaseExpires(u)
             \/ \E k \in Keys : Retry(u, k) \/ Cancel(u, k)
             \/ \E d \in Decisions, kind \in {"reidentify", "planning"} : AcceptDecision(d, u, kind)
      PROVE  Bound(task[t], task'[t])
  <2>1. \/ task' = task
        \/ \E s : task' = [task EXCEPT ![u] = s] /\ task[u].status # "running"
        \/ task' = [task EXCEPT ![u] = [task[u] EXCEPT !.expired = TRUE]]
        \/ task' = [task EXCEPT ![u] = [task[u] EXCEPT !.cancelRequested = TRUE]]
    BY <1>5 DEF EnsureRevision, RetryDue, LeaseExpires, Retry, Cancel, CancelResting, CancelRunning,
       AcceptDecision, rows
  <2>2. ASSUME NEW s \in {[task[u] EXCEPT !.expired = TRUE], [task[u] EXCEPT !.cancelRequested = TRUE]}
        PROVE  task[u].status = "running" => Bound(task[u], s)
    <3>1. s.status = task[u].status
      BY Rowed DEF Row
    <3> QED  BY <3>1 DEF Bound
  <2>3. PICK s : task' = task \/ (task' = [task EXCEPT ![u] = s]
                                   /\ (task[u].status = "running" => Bound(task[u], s)))
    BY <2>1, <2>2
  <2> QED  BY <1>3, <1>4, <2>3
<1>6. CASE UpdateProvider
  BY <1>1, <1>3, <1>6 DEF UpdateProvider, BlockedByProvider
<1>7. ASSUME NEW w \in Workers, Claim(w) PROVE Bound(task[t], task'[t])
  <2>1. PICK u \in Tasks : task' = [task EXCEPT ![u] = ClaimedRow(u, w)]
    BY <1>7 DEF Claim
  <2>2. Bound(task[u], ClaimedRow(u, w))
    BY Rowed, ClaimedColumns DEF Bound
  <2> QED  BY <1>4, <2>1, <2>2
<1>8. ASSUME NEW w \in Workers, BeatRenew(w) PROVE Bound(task[t], task'[t])
  <2>1. CASE task' = task
    BY <1>3, <2>1
  <2>2. CASE Holds(w)
    <3>1. PICK u \in Tasks : u = worker[w].lease.task
      BY <2>2, Rowed DEF Holds
    <3> DEFINE s == [task[u] EXCEPT !.expired = FALSE]
    <3>2. task' = [task EXCEPT ![u] = s]
      BY <1>8, <2>2, <3>1 DEF BeatRenew
    <3>3. s.status = task[u].status
      BY Rowed DEF Row
    <3> HIDE DEF s
    <3> QED  BY <1>4, <3>2, <3>3 DEF Bound
  <2> QED  BY <1>8, <2>1, <2>2 DEF BeatRenew
<1>9. ASSUME NEW w \in Workers, IdentificationCommit(w) PROVE Bound(task[t], task'[t])
  <2>1. PICK u, s : /\ u \in Tasks /\ task' = [task EXCEPT ![u] = s] /\ u = worker[w].lease.task
    BY <1>9 DEF IdentificationCommit
  <2>2. ~task[u].cancelRequested
    BY <1>9, <2>1 DEF IdentificationCommit, Authority
  <2> QED  BY <1>4, <2>1, <2>2 DEF Bound
<1>10. ASSUME NEW w \in Workers, OrganizationCommit(w) PROVE Bound(task[t], task'[t])
  <2>1. PICK u \in Tasks, x \in Moves(worker[w].lease.stage) :
          task' = [task EXCEPT ![u] = MovedRow(task[u], Decide(task[u], x))]
    BY <1>10 DEF OrganizationCommit
  <2>2. Bound(task[u], MovedRow(task[u], Decide(task[u], x)))
    BY Rowed, MovesBound
  <2> QED  BY <1>4, <2>1, <2>2
<1>11. ASSUME NEW w \in Workers, FinishCancelled(w) \/ FinishStageFailed(w)
       PROVE  Bound(task[t], task'[t])
  <2>1. PICK x : x.status \in {"cancelled", "paused"} /\ FinishTerminal(w, x)
    <3>1. /\ Ending("cancelled", worker[w].lease.stage, "cancelled", "none", "none", "cancelled",
                    "none").status = "cancelled"
          /\ Ending("paused", worker[w].lease.stage, worker[w].lease.checkpoint, "none", "pending",
                    "failed", "stage-failed").status = "paused"
      BY DEF Ending
    <3> QED  BY <1>11, <3>1 DEF FinishCancelled, FinishStageFailed
  <2>2. CASE ~Holds(w)
    BY <1>3, <2>1, <2>2 DEF FinishTerminal, rows
  <2>3. CASE Holds(w)
    <3>1. PICK u \in Tasks : u = worker[w].lease.task
      BY <2>3, Rowed DEF Holds
    <3>2. task' = [task EXCEPT ![u] = FinishedRow(task[u], Ended(task[u], x))]
      BY <2>1, <2>3, <3>1 DEF FinishTerminal
    <3>3. Bound(task[u], FinishedRow(task[u], Ended(task[u], x)))
      BY <2>1, Rowed, EndingsBound
    <3> QED  BY <1>4, <3>2, <3>3
  <2> QED  BY <2>2, <2>3
<1>12. ASSUME NEW w \in Workers, HandlerReturns(w) \/ WorkerCloses(w) PROVE Bound(task[t], task'[t])
  <2>1. ~FinishOutcome(w)
    BY DEF Undelegated, FinishOutcome
  <2>2. HandlerFails(w) \/ HandlerDelegates(w) \/ Settle(w) \/ CheckCancel(w) => UNCHANGED task
    BY DEF HandlerFails, HandlerDelegates, Settle, CheckCancel, rows
  <2> QED  BY <1>3, <1>9, <1>10, <1>11, <1>12, <2>1, <2>2 DEF HandlerReturns, WorkerCloses
<1>13. ASSUME NEW w \in Workers,
              NoWork(w) \/ BeatCheck(w) \/ BeatFails(w) \/ FailsAfterCommit(w) \/ WorkerAbandons(w)
       PROVE  Bound(task[t], task'[t])
  BY <1>3, <1>13 DEF NoWork, BeatCheck, BeatFails, FailsAfterCommit, WorkerAbandons, rows
<1>14. CASE Dispatch
  <2>1. \/ task' = task
        \/ \E s : LET u == decision[Head(queue)].task IN
                  task' = [task EXCEPT ![u] = s] /\ task[u].status # "running"
    BY <1>14 DEF Dispatch, DispatchFetch, DispatchApply, DispatchRefused, DispatchAudit, DispatchMark,
       Awaited, ApplyAwaited, rows
  <2>2. task[t].status # "running" \/ task'[t] = task[t]
    BY <2>1, Rowed DEF TypeOK
  <2> QED  BY <1>1, <1>3, <2>2
<1>15. CASE ReclaimExpired
  <2>1. CASE Lapsed(t)
    <3>1. task'[t] = RecoveringRow(task[t])
      BY <1>15, <2>1 DEF ReclaimExpired
    <3>2. RecoveringRow(task[t]).status = "queued" /\ RecoveringRow(task[t]).recovering
      BY Rowed DEF RecoveringRow, Requeued, Row
    <3> QED  BY <3>1, <3>2 DEF Bound
  <2>2. CASE ~Lapsed(t)
    BY <1>3, <1>15, <2>2 DEF ReclaimExpired
  <2> QED  BY <2>1, <2>2
<1>16. CASE Boot \/ StartServing \/ StartRound \/ EndRound \/ Crash \/ UNCHANGED vars
  BY <1>3, <1>16 DEF Boot, StartServing, StartRound, EndRound, Crash, vars, rows
<1> QED
  BY <1>5, <1>6, <1>7, <1>8, <1>12, <1>13, <1>14, <1>15, <1>16 DEF Next

\* Once a running task's cancel is accepted, no commit of its worker hands it on or to the reviewer
\* and no failure pauses it for another try, save by a recovery or an organization pause: for any
\* number of tasks, workers and requests, of a build whose handlers commit by themselves (the
\* cancel flag in finish_organization_transition, finish_terminal_attempt and commit).
THEOREM CancelsBind == ASSUME Delegated = {} PROVE Spec => AcceptedCancelBinds
<1>1. Init => Undelegated
  BY DEF Init, Undelegated, Resting
<1>2. PInv /\ Undelegated /\ [Next]_vars => Undelegated'
  BY UndelegatedNext
<1>3. PInv /\ Undelegated /\ [Next]_vars =>
        [\A t \in Tasks :
            (task[t].status = "running" /\ task[t].cancelRequested) =>
                /\ task'[t].status = "queued" => task'[t].recovering
                /\ task'[t].status = "paused" => task'[t].reason = "organization"
                /\ task'[t].status # "waiting-confirmation"]_vars
  BY CancelNext DEF Bound
<1> QED
  BY <1>1, <1>2, <1>3, FencesHold, PTL DEF Spec, AcceptedCancelBinds
=============================================================================
