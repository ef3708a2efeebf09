--------------------------- MODULE Reconcile_proofs ---------------------------
(***************************************************************************)
(* Theorems about the intake of an inbox: with the coordinator between the *)
(* worker and the table, an inbox has at most one open reconcile scan, and *)
(* what ScanTask_proofs shows of the scan tasks by themselves goes on to   *)
(* hold.  A step of the intake is either one ScanTask could take by itself *)
(* or one that schedules: it leaves the rows alone but for those that      *)
(* leave their slots and the new one.                                      *)
(***************************************************************************)
EXTENDS Reconcile, ScanTask_proofs, FiniteSetTheorems, SequenceTheorems

Gone == {p \in Paths : disk[p] = NoFacts}

\* A slot is left alone, left by a scan that is over, or given to a new one.
SlotStays(t) == task'[t] = task[t] /\ (task[t].status \in Open => absent'[t] = absent[t])
SlotLeft(t) == task'[t] = Absent /\ task[t].status \notin Open
SlotTaken(t) ==
    /\ task[t] = Absent /\ Gone \subseteq absent'[t]
    /\ \E reason \in ScanReasons : task'[t] = NewRow(reason)

\* What the coordinator and the requests of automations do to the scan tasks.
Rescheduled ==
    /\ UNCHANGED <<files, binding, scan, root>>
    /\ task' = [t \in Tasks |-> task'[t]] /\ absent' \in [Tasks -> SUBSET Paths]
    /\ order' \subseteq Tasks \X Tasks
    /\ \A t \in Tasks : SlotStays(t) \/ SlotLeft(t) \/ SlotTaken(t)

\* What ScanTask_proofs keeps, and what types it leaves.
Kinds ==
    /\ old \subseteq Facts /\ requests \subseteq Paths \X Facts
    /\ order \subseteq Tasks \X Tasks
    /\ binding \in [Keys -> Bindings \cup {Unbound}]
    /\ \A w \in Workers : scan[w].version \in Nat
    /\ root \in [readable : BOOLEAN, available : BOOLEAN]
    /\ server \in {"down", "recovered", "up"}
    /\ spent \in [DOMAIN Limits -> Nat]

TellInv == RowsTell /\ SightingsKept /\ AbsencesKnown /\ ScansCover

-----------------------------------------------------------------------------
(* The tables when something is scheduled. *)

\* The order of what is kept is an order of slots.
LEMMA OrderKept ==
    ASSUME order \subseteq Tasks \X Tasks, NEW rows, NEW t \in Tasks
    PROVE  /\ OrderOf(rows) \subseteq Tasks \X Tasks
           /\ OrderOf(rows) \cup ((InUse(rows) \ {t}) \X {t}) \subseteq Tasks \X Tasks
BY DEF OrderOf, InUse

\* What is kept of a table, row by row.
LEMMA KeptRows ==
    ASSUME NEW rows, NEW active, NEW t \in Tasks
    PROVE  /\ Kept(rows, active)[t] = rows[t] \/ (Kept(rows, active)[t] = Absent /\ rows[t].status \notin Open)
           /\ t = active => Kept(rows, active)[t] = rows[t]
           /\ rows[t].status \in Open => Kept(rows, active)[t] = rows[t]
BY DEF Kept

\* A new row is queued, for its reason.
LEMMA NewRowReason ==
    ASSUME NEW reason \in ScanReasons
    PROVE  NewRow(reason).reason = reason /\ NewRow(reason).status = "queued"
<1> DEFINE opened == OpenAttempt(Absent, "initial", "queued")
           queued == [opened EXCEPT !.reason = reason, !.status = "queued", !.version = 1]
<1>1. Absent \in Rows
  BY DEF Absent, Rows, ScanReasons, ScanStatuses
<1>2. opened \in Rows
  <2>1. Row(opened, Absent.status, Absent.version, Absent.lapsed)
    BY <1>1, OpenAttemptRow DEF ScanStatuses
  <2> QED  BY <2>1 DEF Row
<1> HIDE DEF opened
<1>3. queued \in Rows /\ queued.reason = reason /\ queued.status = "queued"
  BY <1>2 DEF Rows, ScanStatuses
<1> HIDE DEF queued
<1>4. Announce(queued, "queued", FALSE).reason = reason
      /\ Announce(queued, "queued", FALSE).status = "queued"
  BY <1>3 DEF Announce, Rows
<1>5. NewRow(reason) = Announce(queued, "queued", FALSE)
  BY DEF NewRow, queued, opened
<1> QED  BY <1>4, <1>5

\* Scheduling a scan takes a free slot and may free others.
LEMMA StartedMoves ==
    ASSUME RowsInOrder, AbsencesKnown, Kinds, NEW t \in Tasks, NEW reason \in ScanReasons, NEW watched,
           Started(t, reason, watched), UNCHANGED <<files, binding, scan, root>>
    PROVE  /\ Rescheduled
           /\ task'[t] = NewRow(reason)
           /\ \A u \in Tasks : u # t => task'[u] = task[u] \/ task'[u].status = "absent"
<1> DEFINE rows == [task EXCEPT ![t] = NewRow(reason)]
           away == AbsentOf(task')
<1>1. \A u \in Tasks : rows[u] = IF u = t THEN NewRow(reason) ELSE task[u]
  BY DEF RowsInOrder
<1>2. /\ task[t] = Absent /\ task' = Kept(rows, t) /\ absent' = [away EXCEPT ![t] = Gone]
      /\ order' = OrderOf(task') \cup ((InUse(task') \ {t}) \X {t})
  BY DEF Started, Gone
<1>3. away = [u \in Tasks |-> away[u]]
      /\ \A u \in Tasks : away[u] \subseteq Paths /\ (task'[u].status \in Open => away[u] = absent[u])
  BY DEF AbsentOf, AbsencesKnown
<1>4. Gone \subseteq Paths
  BY DEF Gone
<1> HIDE DEF rows, away
<1>5. /\ absent' \in [Tasks -> SUBSET Paths]
      /\ \A u \in Tasks : absent'[u] = IF u = t THEN Gone ELSE away[u]
  BY <1>2, <1>3, <1>4
<1>6. task' = [u \in Tasks |-> task'[u]]
  BY <1>2 DEF Kept
<1>7. order' \subseteq Tasks \X Tasks
  BY <1>2, OrderKept DEF Kinds
<1>8. task'[t] = NewRow(reason)
  BY <1>1, <1>2, KeptRows
<1>9. ASSUME NEW u \in Tasks, u # t
      PROVE  /\ task'[u] = task[u] \/ (task'[u] = Absent /\ task[u].status \notin Open)
             /\ SlotStays(u) \/ SlotLeft(u)
  <2>1. rows[u] = task[u]
    BY <1>1, <1>9
  <2>2. task'[u] = task[u] \/ (task'[u] = Absent /\ task[u].status \notin Open)
    BY <1>2, <2>1, KeptRows
  <2>3. task'[u].status \in Open => absent'[u] = absent[u]
    BY <1>3, <1>5, <1>9
  <2> QED  BY <2>2, <2>3 DEF SlotStays, SlotLeft
<1>10. SlotTaken(t)
  BY <1>2, <1>5, <1>8 DEF SlotTaken
<1>11. \A u \in Tasks : u # t => task'[u] = task[u] \/ task'[u].status = "absent"
  BY <1>9 DEF Absent
<1> QED  BY <1>5, <1>6, <1>7, <1>8, <1>9, <1>10, <1>11 DEF Rescheduled

\* So does the end of a scan whose result is projected.
LEMMA KeptMoves ==
    ASSUME RowsInOrder, AbsencesKnown, Kinds, NEW active,
           task' = Kept(task, active), order' = OrderOf(task'), absent' = AbsentOf(task'),
           UNCHANGED <<files, binding, scan, root>>
    PROVE  Rescheduled
<1>1. absent' \in [Tasks -> SUBSET Paths]
      /\ \A u \in Tasks : task'[u].status \in Open => absent'[u] = absent[u]
  BY DEF AbsentOf, AbsencesKnown
<1>2. task' = [u \in Tasks |-> task'[u]]
  BY DEF Kept
<1>3. order' \subseteq Tasks \X Tasks
  BY DEF OrderOf, Kinds
<1>4. \A t \in Tasks : SlotStays(t) \/ SlotLeft(t)
  BY <1>1, KeptRows DEF SlotStays, SlotLeft
<1> QED  BY <1>1, <1>2, <1>3, <1>4 DEF Rescheduled

\* What leaves the tables alone reschedules nothing.
LEMMA TablesStay ==
    ASSUME RowsInOrder, AbsencesKnown, Kinds,
           UNCHANGED <<files, binding, scan, root, task, order, absent>>
    PROVE  Rescheduled
<1>1. task = [t \in Tasks |-> task[t]]
  BY DEF RowsInOrder
<1> QED  BY <1>1 DEF Rescheduled, SlotStays, Kinds, AbsencesKnown

\* Nothing is scheduled, or one scan.
LEMMA ScheduleMoves ==
    ASSUME RowsInOrder, AbsencesKnown, Kinds, NEW reason \in ScanReasons, NEW watched,
           Schedule(reason, watched), UNCHANGED <<files, binding, scan, root>>
    PROVE  Rescheduled
<1>1. CASE \E t \in Tasks : Started(t, reason, watched)
  BY <1>1, StartedMoves
<1>2. CASE UNCHANGED <<task, order, absent>>
  BY <1>2, TablesStay
<1> QED  BY <1>1, <1>2 DEF Schedule

-----------------------------------------------------------------------------
(* A step of the intake, and what it keeps of the scan tasks. *)

ScanStep == [ScanNext]_<<files, scans, absent, world>>

\* A step of the intake is one of the scan tasks, or it schedules.
LEMMA StepsSplit ==
    ASSUME RowsInOrder, AbsencesKnown, Kinds, [Next]_vars
    PROVE  ScanStep \/ Rescheduled
<1>1. CASE Scanning
  BY <1>1 DEF Scanning, ScanStep, ScanNext
<1>2. ASSUME NEW p \in Paths, NEW f \in Facts \cup {NoFacts}, Change(p, f) PROVE ScanStep
  BY <1>2 DEF Change, ScanStep, ScanNext
<1>3. CASE Unmount
  BY <1>3 DEF Unmount, ScanStep, ScanNext
<1>4. CASE Crash
  BY <1>4 DEF Crash, ScanStep, ScanNext
<1>5. CASE Watching
  BY <1>5, TablesStay DEF Watching, WatchEvent, WindowPasses, WatchError, NextReconcileComes, scans, world
<1>6. CASE Requests
  <2>1. ASSUME NEW enabled \in BOOLEAN, PutPolicy(enabled) PROVE Rescheduled
    BY <2>1, TablesStay DEF PutPolicy, scans
  <2>2. ASSUME NEW k \in AskKeys, Accept(k) PROVE Rescheduled
    <3>1. UNCHANGED <<files, binding, scan, root>>
      BY <2>2 DEF Accept
    <3>2. CASE UNCHANGED <<task, order, absent>>
      BY <3>1, <3>2, TablesStay
    <3>3. CASE \E t \in Tasks : Started(t, "watch_recovery", watch)
      BY <3>1, <3>3, StartedMoves DEF ScanReasons
    <3> QED  BY <2>2, <3>2, <3>3 DEF Accept
  <2>3. ASSUME NEW k \in AskKeys, RefreshTerminal(k) PROVE Rescheduled
    BY <2>3, TablesStay DEF RefreshTerminal, scans, world
  <2> QED  BY <1>6, <2>1, <2>2, <2>3 DEF Requests
<1>7. CASE Coordinate
  <2>1. CASE Refresh
    BY <2>1, KeptMoves DEF Refresh
  <2>2. CASE Drain \/ TickFails
    BY <2>2, TablesStay DEF Drain, TickFails, TickStill, scans
  <2>3. ASSUME TakeOverflow \/ DrainReady \/ DueInboxes PROVE Rescheduled
    <3>1. UNCHANGED <<files, binding, scan, root>>
      BY <2>3 DEF TakeOverflow, DrainReady, DueInboxes, world
    <3>2. CASE UNCHANGED <<task, order, absent>>
      BY <3>1, <3>2, TablesStay
    <3>3. CASE \E reason \in ScanReasons : Schedule(reason, watch)
      BY <3>1, <3>3, ScheduleMoves
    <3> QED  BY <2>3, <3>2, <3>3 DEF TakeOverflow, DrainReady, DueInboxes, ScanReasons
  <2> QED  BY <1>7, <2>1, <2>2, <2>3 DEF Coordinate
<1>8. CASE Startup
  <2>1. UNCHANGED <<files, binding, scan, root>>
    BY <1>8 DEF Startup
  <2>2. PICK watched : Schedule("startup", watched)
    BY <1>8 DEF Startup
  <2> QED  BY <2>1, <2>2, ScheduleMoves DEF ScanReasons
<1>9. CASE UNCHANGED vars
  BY <1>9 DEF vars, ScanStep
<1> QED  BY <1>1, <1>2, <1>3, <1>4, <1>5, <1>6, <1>7, <1>8, <1>9 DEF Next

\* Scheduling leaves the files, the scans in memory and what is known of them in order.
LEMMA RescheduledKeeps ==
    ASSUME LInv, TellInv, Rescheduled
    PROVE  LInv' /\ TellInv'
<1>1. FilesInOrder'
  BY FilesUntouched DEF LInv, SInv, FilesInOrder, Rescheduled, files
<1>2. ScansTyped' /\ FinishesEnded'
  BY ScansUntouched DEF LInv, SInv, Rescheduled, FinishesEnded
<1>3. ASSUME NEW t \in Tasks
      PROVE  /\ task'[t] \in Rows
             /\ task'[t].status # "absent" => task'[t].attempts # << >> /\ task'[t].version # 0
             /\ task'[t].lapsed => task'[t].status = "running"
             /\ task'[t] = Absent \/ RowTells(task'[t])
             /\ task'[t].status = "running" => task'[t] = task[t] /\ absent'[t] = absent[t]
             /\ task'[t].status \in Open => \A p \in Paths : disk[p] = NoFacts => p \in absent'[t]
  <2>1. CASE SlotStays(t)
    BY <2>1 DEF SlotStays, LInv, RowsInOrder, TellInv, RowsTell, AbsencesKnown, Open
  <2>2. CASE task'[t] = Absent
    <3>1. Absent \in Rows /\ Absent.status = "absent" /\ Absent.lapsed = FALSE
      BY DEF Absent, Rows, ScanReasons, ScanStatuses
    <3> QED  BY <2>2, <3>1 DEF Open
  <2>3. CASE SlotTaken(t)
    <3>1. PICK reason \in ScanReasons : task'[t] = NewRow(reason)
      BY <2>3 DEF SlotTaken
    <3>2. Row(task'[t], "queued", 1, FALSE) /\ RowTells(task'[t])
      BY <3>1, NewRowRow, NewRowTells
    <3> QED  BY <2>3, <3>2 DEF Row, SlotTaken, Gone
  <2> QED  BY <2>1, <2>2, <2>3 DEF Rescheduled, SlotLeft
<1>4. RowsInOrder'
  BY <1>3 DEF RowsInOrder, Rescheduled
<1>5. RowsTell'
  BY <1>3 DEF RowsTell
<1>6. SightingsKept'
  BY SightingsAge DEF TellInv, Rescheduled, files
<1>7. AbsencesKnown'
  BY <1>3 DEF AbsencesKnown, Rescheduled, files
<1>8. ASSUME NEW v \in Workers PROVE ScanCovers(v)'
  <2>1. \A t \in Tasks : task'[t].status = "running" /\ task'[t].owner = v =>
                            Grown(task[t], task'[t]) /\ absent[t] \subseteq absent'[t]
    BY <1>3 DEF Grown
  <2>2. scan'[v] = scan[v]
    BY DEF Rescheduled
  <2> QED  BY <2>1, <2>2, CoverStays DEF TellInv
<1> QED  BY <1>1, <1>2, <1>4, <1>5, <1>6, <1>7, <1>8 DEF LInv, SInv, TellInv, ScansCover

-----------------------------------------------------------------------------
(* Types. *)

\* What is asked of processing is asked of a file with facts.
LEMMA RequestsTyped ==
    ASSUME requests \subseteq Paths \X Facts, NEW seen \in [Paths -> Facts \cup {NoFacts}],
           ObserveAll(seen)
    PROVE  requests' \subseteq Paths \X Facts
<1> DEFINE found == {p \in Paths : seen[p] # NoFacts}
           asked(p) == IF tracked[p].current = seen[p] THEN RequestsOf(p, tracked'[p]) ELSE {}
<1>1. ASSUME NEW p \in found PROVE asked(p) \subseteq Paths \X Facts
  <2>1. p \in Paths /\ seen[p] \in Facts
    OBVIOUS
  <2>2. tracked'[p].current = seen[p]
    BY <2>1 DEF ObserveAll, Observed
  <2> QED  BY <2>1, <2>2 DEF RequestsOf
<1>2. requests' = requests \cup UNION {asked(p) : p \in found}
  BY DEF ObserveAll
<1> HIDE DEF found, asked
<1> QED  BY <1>1, <1>2

\* An incident is counted.
LEMMA SpendTyped ==
    ASSUME spent \in [DOMAIN Limits -> Nat], NEW what, Spend(what)
    PROVE  spent' \in [DOMAIN Limits -> Nat]
BY DEF Spend

\* The version a worker has is one of a row.
LEMMA VersionKept ==
    ASSUME ScansTyped, \A w \in Workers : scan[w].version \in Nat,
           NEW w \in Workers, NEW s, s.version \in Nat, scan' = [scan EXCEPT ![w] = s]
    PROVE  \A v \in Workers : scan'[v].version \in Nat
<1>1. \A v \in Workers : scan'[v] = IF v = w THEN s ELSE scan[v]
  BY DEF ScansTyped
<1> QED  BY <1>1

\* A thought of a worker is of the version it had, or of none.
LEMMA ThoughtVersions ==
    ASSUME ScansTyped, Kinds, NEW w \in Workers,
           Walk(w) \/ Write(w) \/ HeartbeatFails(w) \/ Decide(w) \/ Finish(w)
    PROVE  \A v \in Workers : scan'[v].version \in Nat
<1> DEFINE s == scan[w]
           Same(r) == r.version = s.version \/ r.version = 0
<1>1. PICK version : s \in ScansAt(version)
  BY DEF ScansTyped, IsScan
<1>2. NoScan.version = 0
  BY DEF NoScan
<1>3. \A verdict, cancelled :
        /\ Same(Stopped(s, verdict))
        /\ Same([Stopped(s, verdict) EXCEPT !.cancelled = cancelled])
  BY <1>1, <1>2 DEF Stopped, NoScan, ScansAt
<1>4. Same(Written(s))
  BY <1>1, <1>2 DEF Written, ScansAt
<1>5. \E r : Same(r) /\ scan' = [scan EXCEPT ![w] = r]
  <2>1. CASE Walk(w)
    BY <1>1, <2>1 DEF Walk, OpenScanSource, WalkFails, Flush, WalkEnds, Look, LookFails, Think, Go, ScansAt
  <2>2. CASE CheckCancel(w)
    <3>1. Same([s EXCEPT !.at = "record"])
      BY <1>1 DEF ScansAt
    <3> QED  BY <1>3, <2>2, <3>1 DEF CheckCancel, Think, Go
  <2>3. CASE RecordObservations(w)
    BY <1>3, <1>4, <2>3 DEF RecordObservations, Think, Go
  <2>4. CASE RecordFails(w)
    BY <1>3, <2>4 DEF RecordFails, Go
  <2>5. CASE HeartbeatFails(w)
    <3>1. Same([s EXCEPT !.at = "batch", !.then = "abandon"])
      BY <1>1 DEF ScansAt
    <3> QED  BY <1>2, <2>5, <3>1 DEF HeartbeatFails, Go
  <2>6. CASE Decide(w)
    <3>1. \A status, code : Same([s EXCEPT !.at = "finish", !.status = status, !.rootCode = code])
      BY <1>1 DEF ScansAt
    <3>2. s.verdict \in {"none", "ok", "root", "error", "lost"} /\ s.cancelled \in BOOLEAN
      BY <1>1 DEF ScansAt
    <3> QED  BY <1>2, <2>6, <3>1, <3>2 DEF Decide, Think, Go
  <2>7. CASE Finish(w)
    BY <1>2, <2>7 DEF Finish
  <2> QED  BY <2>1, <2>2, <2>3, <2>4, <2>5, <2>6, <2>7 DEF Write
<1>6. PICK r : Same(r) /\ scan' = [scan EXCEPT ![w] = r]
  BY <1>5
<1>7. r.version \in Nat
  BY <1>6 DEF Kinds
<1> HIDE DEF Same
<1> QED  BY <1>6, <1>7, VersionKept DEF Kinds

\* The steps of the scan tasks keep these types.
LEMMA KindsOfScans ==
    ASSUME LInv, Kinds, ScanStep
    PROVE  Kinds'
<1>0. ScansTyped /\ RowsInOrder
  BY DEF LInv, SInv
<1>1. CASE Requested
  <2>1. PICK k \in Keys, t \in Tasks : Create(k, t) \/ Retry(k, t) \/ RequestCancel(k, t)
    BY <1>1 DEF Requested
  <2>2. PICK action \in {"scan.create", "scan.retry", "scan.cancel"} : Bind(k, action, t)
    BY <2>1 DEF Create, Retry, RequestCancel
  <2>3. [action |-> action, task |-> t] \in Bindings
    BY DEF Bindings
  <2>4. binding' \in [Keys -> Bindings \cup {Unbound}]
    BY <2>2, <2>3 DEF Bind, Kinds
  <2>5. order' \subseteq Tasks \X Tasks
    BY <2>1 DEF Create, Insert, InUse, Retry, RequestCancel, Kinds
  <2>6. spent' \in [DOMAIN Limits -> Nat]
    BY <2>2, SpendTyped DEF Bind, Kinds
  <2> QED  BY <2>2, <2>4, <2>5, <2>6 DEF Bind, files, Kinds
<1>2. CASE TimePasses
  <2>1. ASSUME NEW p \in Paths, Rests(p)
        PROVE  UNCHANGED <<old, requests>> /\ UNCHANGED <<scans, world>>
    BY <2>1 DEF Rests, IntervalPasses
  <2>2. ASSUME NEW f \in Facts, Grows(f)
        PROVE  old' \subseteq Facts /\ UNCHANGED requests /\ UNCHANGED <<scans, world>>
    BY <2>2 DEF Grows, Ages, Kinds
  <2> QED  BY <1>2, <2>1, <2>2 DEF TimePasses, scans, world, Kinds
<1>3. CASE ReclaimExpired \/ Serves \/ InboxRead \/ Remounted
  BY <1>3 DEF ReclaimExpired, Serves, InboxRead, Remounted, files, scans, Kinds
<1>4. CASE Unmounted
  BY <1>4, SpendTyped DEF Unmounted, files, scans, Kinds
<1>5. CASE Died
  <2>1. NoScan.version = 0
    BY DEF NoScan
  <2>2. \A w \in Workers : scan'[w].version \in Nat
    BY <1>5, <2>1 DEF Died
  <2> QED  BY <1>5, <2>2, SpendTyped DEF Died, files, Kinds
<1>6. ASSUME NEW w \in Workers, Worker(w)
      PROVE  /\ old' \subseteq Facts /\ requests' \subseteq Paths \X Facts
             /\ UNCHANGED <<order, binding, root, server>>
             /\ \A v \in Workers : scan'[v].version \in Nat
             /\ spent' \in [DOMAIN Limits -> Nat]
  <2> DEFINE s == scan[w]
  <2>1. CASE \E t \in Tasks : Claim(w, t)
    <3>1. PICK t \in Tasks : Claim(w, t)
      BY <2>1
    <3> DEFINE r == [NoScan EXCEPT !.at = "opening", !.task = t, !.version = task[t].version + 1]
    <3>2. scan' = [scan EXCEPT ![w] = r]
      BY <3>1 DEF Claim
    <3>3. r.version = task[t].version + 1 /\ task[t].version \in Nat
      BY <1>0 DEF NoScan, RowsInOrder, Rows
    <3> HIDE DEF r
    <3>4. \A v \in Workers : scan'[v].version \in Nat
      BY <1>0, <3>2, <3>3, VersionKept DEF Kinds
    <3> QED  BY <3>1, <3>4 DEF Claim, files, world, Kinds
  <2>2. CASE Walk(w) \/ Write(w) \/ HeartbeatFails(w) \/ Decide(w) \/ Finish(w)
    <3>1. \A v \in Workers : scan'[v].version \in Nat
      BY <1>0, <2>2, ThoughtVersions
    <3>2. spent' \in [DOMAIN Limits -> Nat] /\ UNCHANGED <<order, binding, root, server>>
      BY <2>2, SpendTyped DEF Walk, OpenScanSource, Look, LookFails, WalkFails, Flush, WalkEnds, Write,
         CheckCancel, RecordObservations, RecordFails, HeartbeatFails, Decide, Finish, Think, Go, world,
         Kinds
    <3>3. CASE UNCHANGED files
      BY <3>1, <3>2, <3>3 DEF files, Kinds
    <3>4. CASE MarkUnseenMissing(NotInBatch(s.task))
      BY <3>1, <3>2, <3>4 DEF MarkUnseenMissing, Kinds
    <3>5. CASE ObserveAll(s.pending.files)
      <4>1. PICK version : s \in ScansAt(version)
        BY <1>0 DEF ScansTyped, IsScan
      <4>2. s.pending.files \in [Paths -> Facts \cup {NoFacts}]
        BY <4>1 DEF ScansAt
      <4>3. requests' \subseteq Paths \X Facts
        BY <3>5, <4>2, RequestsTyped DEF Kinds
      <4> QED  BY <3>1, <3>2, <3>5, <4>3 DEF ObserveAll, Kinds
    <3> QED  BY <2>2, <3>3, <3>4, <3>5 DEF Walk, OpenScanSource, Look, LookFails, WalkFails, Flush,
                WalkEnds, Write, CheckCancel, RecordObservations, RecordFails, HeartbeatFails, Decide,
                Finish, Think
  <2> QED  BY <1>6, <2>1, <2>2 DEF Worker
<1>7. ASSUME NEW t \in Tasks, LeaseExpires(t) PROVE Kinds'
  BY <1>7, SpendTyped DEF LeaseExpires, files, Kinds
<1>8. ASSUME NEW p \in Paths, NEW f \in Facts \cup {NoFacts}, Changed(p, f) PROVE Kinds'
  BY <1>8, SpendTyped DEF Changed, scans, Kinds
<1>9. CASE UNCHANGED <<files, scans, absent, world>>
  BY <1>9 DEF files, scans, world, Kinds
<1> QED  BY <1>1, <1>2, <1>3, <1>4, <1>5, <1>6, <1>7, <1>8, <1>9 DEF ScanStep, ScanNext, Kinds

\* So do those of the coordinator.
LEMMA KindsOfScheduling ==
    ASSUME Kinds, Rescheduled, [Next]_vars, ~ScanStep PROVE Kinds'
<1>1. spent' \in [DOMAIN Limits -> Nat] /\ server' \in {"down", "recovered", "up"}
  <2>1. CASE Watching
    BY <2>1, SpendTyped DEF Watching, WatchEvent, WindowPasses, WatchError, NextReconcileComes, world, Kinds
  <2>2. CASE Requests
    BY <2>2, SpendTyped DEF Requests, PutPolicy, Accept, RefreshTerminal, world, Kinds
  <2>3. CASE Refresh
    BY <2>3, SpendTyped DEF Refresh, Refreshed, ReplaceSucceeds, ReplaceFails, Kinds
  <2>4. CASE Drain \/ TakeOverflow \/ DrainReady \/ DueInboxes \/ TickFails
    BY <2>4, SpendTyped DEF Drain, TickStill, TakeOverflow, DrainReady, DueInboxes, TickFails, world, Kinds
  <2>5. CASE Startup
    BY <2>5, SpendTyped DEF Startup, ReplaceSucceeds, ReplaceFails, Kinds
  <2>6. CASE Scanning \/ Unmount \/ Crash \/ UNCHANGED vars
        \/ \E p \in Paths, f \in Facts \cup {NoFacts} : Change(p, f)
    BY <2>6 DEF Scanning, Unmount, Crash, Change, vars, ScanStep, ScanNext
  <2> QED  BY <2>1, <2>2, <2>3, <2>4, <2>5, <2>6 DEF Next, Coordinate
<1> QED  BY <1>1 DEF Rescheduled, Kinds, files

\* What the watch state and the requests of automations are made of.
Watches == [health : Healths, listening : BOOLEAN, enabled : BOOLEAN, due : BOOLEAN,
            active : Tasks \cup {NoTask}, error : {"none", "watcher", "reconcile"}]

WatchTyped == watch \in Watches

AsksTyped == ask \in [AskKeys -> Asks]

\* A watch state whose scan is projected, or not yet.
LEMMA SettledWatch ==
    ASSUME NEW watched \in Watches
    PROVE  /\ Settled(watched) \in Watches
           /\ \/ Settled(watched).active = watched.active
              \/ /\ Settled(watched).active = NoTask /\ watched.active # NoTask
                 /\ task[watched.active].status \notin Open
<1>1. \A r : /\ Projected(watched, r) \in Watches
             /\ Projected(watched, r).active = NoTask
  BY DEF Projected, Watches, Healths
<1> QED  BY <1>1 DEF Settled

\* A watcher that does not work changes nothing else.
LEMMA UnavailableWatch ==
    ASSUME NEW watched \in Watches
    PROVE  /\ WatcherUnavailable(watched) \in Watches
           /\ WatcherUnavailable(watched).active = watched.active
BY DEF WatcherUnavailable, Watches, Healths

\* What scheduling does to the watch state: it may point to a new scan.
LEMMA StartedWatch ==
    ASSUME NEW watched \in Watches, NEW t \in Tasks, NEW reason, Started(t, reason, watched)
    PROVE  watch' \in Watches /\ watch'.active = t
BY DEF Started, Watches

\* So it stays one.
LEMMA ScheduledWatch ==
    ASSUME NEW watched \in Watches, NEW reason, Schedule(reason, watched)
    PROVE  watch' \in Watches
BY StartedWatch DEF Schedule

\* Refreshing settles a watch state that points where it pointed before.
LEMMA RefreshedWatch ==
    ASSUME WatchTyped, Target \in BOOLEAN
    PROVE  /\ [watch EXCEPT !.listening = Target] \in Watches
           /\ [watch EXCEPT !.listening = Target].active = watch.active
           /\ WatcherUnavailable(watch) \in Watches
           /\ WatcherUnavailable(watch).active = watch.active
BY UnavailableWatch DEF WatchTyped, Watches

\* Whether the inbox should be watched.
LEMMA TargetIsBoolean ==
    ASSUME WatchTyped, root \in [readable : BOOLEAN, available : BOOLEAN]
    PROVE  Target \in BOOLEAN
BY DEF Target

\* The watch state keeps its type.
LEMMA WatchNext ==
    ASSUME WatchTyped, root \in [readable : BOOLEAN, available : BOOLEAN], [Next]_vars
    PROVE  WatchTyped'
<1>1. watch \in Watches
  BY DEF WatchTyped
<1>2. SUFFICES watch' \in Watches
  BY DEF WatchTyped, Watches
<1>4. CASE Watching
  BY <1>1, <1>4 DEF Watching, WatchEvent, WindowPasses, WatchError, NextReconcileComes, Watches
<1>5. CASE Requests
  <2>1. ASSUME NEW enabled \in BOOLEAN, PutPolicy(enabled) PROVE watch' \in Watches
    BY <1>1, <2>1 DEF PutPolicy, Watches, Healths
  <2>2. ASSUME NEW k \in AskKeys, Accept(k) PROVE watch' \in Watches
    BY <1>1, <2>2, StartedWatch DEF Accept
  <2>3. ASSUME NEW k \in AskKeys, RefreshTerminal(k) PROVE watch' \in Watches
    BY <1>1, <2>3 DEF RefreshTerminal
  <2> QED  BY <1>5, <2>1, <2>2, <2>3 DEF Requests
<1>6. CASE Coordinate
  <2>1. CASE Refresh
    BY <2>1, RefreshedWatch, SettledWatch, TargetIsBoolean DEF Refresh, Refreshed
  <2>2. CASE Drain
    BY <1>1, <2>2 DEF Drain, Watches, Healths
  <2>3. CASE TakeOverflow \/ DrainReady \/ DueInboxes \/ TickFails
    BY <1>1, <2>3, ScheduledWatch DEF TakeOverflow, DrainReady, DueInboxes, TickFails
  <2> QED  BY <1>6, <2>1, <2>2, <2>3 DEF Coordinate
<1>7. CASE Startup
  BY <1>7, RefreshedWatch, SettledWatch, ScheduledWatch, TargetIsBoolean DEF Startup
<1>8. CASE Scanning \/ Unmount \/ Crash \/ UNCHANGED vars
      \/ \E p \in Paths, f \in Facts \cup {NoFacts} : Change(p, f)
  BY <1>1, <1>8 DEF Scanning, Still, Unmount, Crash, Change, vars
<1> QED  BY <1>4, <1>5, <1>6, <1>7, <1>8 DEF Next

\* So do the requests of automations.
LEMMA AsksNext ==
    ASSUME AsksTyped, [Next]_vars
    PROVE  AsksTyped'
<1>1. ASSUME NEW k \in AskKeys, NEW t \in Tasks,
             ask' = [ask EXCEPT ![k] = [task |-> t, status |-> "accepted"]]
      PROVE  AsksTyped'
  <2>1. [task |-> t, status |-> "accepted"] \in Asks
    BY DEF Asks
  <2> QED  BY <1>1, <2>1 DEF AsksTyped
<1>2. ASSUME NEW k \in AskKeys, Accept(k) PROVE AsksTyped'
  BY <1>1, <1>2 DEF Accept, OpenReconciles
<1>3. ASSUME NEW k \in AskKeys, RefreshTerminal(k) PROVE AsksTyped'
  <2>1. \A status \in {"completed", "failed"} : [ask[k] EXCEPT !.status = status] \in Asks
    BY DEF AsksTyped, Asks
  <2>2. PICK status \in {"completed", "failed"} : ask' = [ask EXCEPT ![k].status = status]
    BY <1>3 DEF RefreshTerminal
  <2> QED  BY <2>1, <2>2 DEF AsksTyped
<1>4. CASE UNCHANGED ask
  BY <1>4 DEF AsksTyped
<1>5. CASE Scanning \/ Watching \/ Coordinate \/ Unmount \/ Startup \/ Crash \/ UNCHANGED vars
      \/ (\E p \in Paths, f \in Facts \cup {NoFacts} : Change(p, f))
      \/ (\E enabled \in BOOLEAN : PutPolicy(enabled))
  BY <1>4, <1>5 DEF Scanning, Still, Watching, WatchEvent, WindowPasses, WatchError, NextReconcileComes,
     Coordinate, Refresh, Drain, TickStill, TakeOverflow, DrainReady, DueInboxes, TickFails, Unmount,
     Startup, Crash, vars, Change, PutPolicy
<1> QED  BY <1>2, <1>3, <1>5 DEF Next, Requests

Pending == {p \in Paths : pending[p] # "none"}

\* The coalescer takes a hint only while it has room for the path.
LEMMA HintPut ==
    ASSUME pending \in [Paths -> {"none", "fresh", "ready"}], IsFiniteSet(Pending),
           Cardinality(Pending) < CoalescerCapacity,
           NEW p \in Paths, pending[p] = "none", pending' = [pending EXCEPT ![p] = "fresh"]
    PROVE  IsFiniteSet(Pending)' /\ (Cardinality(Pending) <= CoalescerCapacity)'
<1>1. Pending' = Pending \cup {p} /\ p \notin Pending
  BY DEF Pending
<1>2. IsFiniteSet(Pending \cup {p}) /\ Cardinality(Pending \cup {p}) = Cardinality(Pending) + 1
  BY <1>1, FS_AddElement
<1>3. Cardinality(Pending) \in Nat
  BY FS_CardinalityType
<1> HIDE DEF Pending
<1> QED  BY <1>1, <1>2, <1>3, ReconcileAssumption

\* Fewer paths are no more than there is room for.
LEMMA HintsLeave ==
    ASSUME IsFiniteSet(Pending), Cardinality(Pending) <= CoalescerCapacity, NEW rest,
           rest \subseteq Pending
    PROVE  IsFiniteSet(rest) /\ Cardinality(rest) <= CoalescerCapacity
<1>1. IsFiniteSet(rest) /\ Cardinality(rest) <= Cardinality(Pending)
  BY FS_Subset
<1>2. Cardinality(rest) \in Nat /\ Cardinality(Pending) \in Nat
  BY <1>1, FS_CardinalityType
<1> QED  BY <1>1, <1>2, ReconcileAssumption

\* The coalescer stays within its bound.
PendingBounded ==
    /\ pending \in [Paths -> {"none", "fresh", "ready"}]
    /\ IsFiniteSet(Pending) /\ Cardinality(Pending) <= CoalescerCapacity

\* Hints that are taken or forgotten only make room.
LEMMA HintsDropped ==
    ASSUME PendingBounded, pending' \in [Paths -> {"none", "fresh", "ready"}],
           \A p \in Paths : pending'[p] # "none" => pending[p] # "none"
    PROVE  PendingBounded'
<1>1. Pending' \subseteq Pending
  BY DEF Pending
<1>2. (IsFiniteSet(Pending) /\ Cardinality(Pending) <= CoalescerCapacity)'
  BY <1>1, HintsLeave DEF PendingBounded
<1> QED  BY <1>2 DEF PendingBounded

\* Whatever happens to the hints.
LEMMA PendingNext ==
    ASSUME PendingBounded, channel \in Seq(Paths), [Next]_vars
    PROVE  PendingBounded'
<1>1. CASE UNCHANGED pending
  BY <1>1 DEF PendingBounded, Pending
<1>2. CASE pending' = NoHints
  BY <1>2, HintsDropped DEF NoHints
<1>3. CASE pending' = [p \in Paths |-> IF pending[p] = "ready" THEN "none" ELSE pending[p]]
  BY <1>3, HintsDropped DEF PendingBounded
<1>4. ASSUME NEW p \in Paths, WindowPasses(p) PROVE PendingBounded'
  BY <1>4, HintsDropped DEF WindowPasses, PendingBounded
<1>5. CASE Drain
  <2> DEFINE p == Head(channel)
  <2>1. p \in Paths
    BY <1>5, HeadTailProperties DEF Drain
  <2>2. CASE pending' = [pending EXCEPT ![p] = "fresh"] /\ pending[p] = "none"
             /\ Cardinality(Pending) < CoalescerCapacity
    <3>1. (IsFiniteSet(Pending) /\ Cardinality(Pending) <= CoalescerCapacity)'
      BY <2>1, <2>2, HintPut DEF PendingBounded
    <3>2. pending' \in [Paths -> {"none", "fresh", "ready"}]
      BY <2>1, <2>2 DEF PendingBounded
    <3> QED  BY <3>1, <3>2 DEF PendingBounded
  <2> QED  BY <1>1, <1>5, <2>2 DEF Drain, Pending
<1>6. CASE DrainReady
  BY <1>3, <1>6 DEF DrainReady
<1>7. CASE TakeOverflow
  BY <1>1, <1>2, <1>7 DEF TakeOverflow
<1>8. CASE TickFails
  BY <1>1, <1>2, <1>3, <1>8 DEF TickFails
<1>9. CASE Crash
  BY <1>2, <1>9 DEF Crash
<1>10. CASE Scanning \/ Requests \/ Refresh \/ DueInboxes \/ Unmount \/ Startup \/ WatchError
       \/ NextReconcileComes \/ UNCHANGED vars \/ (\E p \in Paths : WatchEvent(p))
       \/ (\E p \in Paths, f \in Facts \cup {NoFacts} : Change(p, f))
  BY <1>1, <1>10 DEF Scanning, Still, Requests, PutPolicy, Accept, RefreshTerminal, Refresh, DueInboxes,
     Unmount, Startup, WatchError, NextReconcileComes, vars, watching, WatchEvent, Change
<1> QED  BY <1>4, <1>5, <1>6, <1>7, <1>8, <1>9, <1>10 DEF Next, Coordinate, Watching

\* The channel holds what it has room for.
ChannelBounded == channel \in Seq(Paths) /\ Len(channel) <= ChannelCapacity

LEMMA ChannelNext ==
    ASSUME ChannelBounded, [Next]_vars
    PROVE  ChannelBounded'
<1>1. CASE UNCHANGED channel
  BY <1>1 DEF ChannelBounded
<1>2. CASE channel # << >> /\ channel' = Tail(channel)
  BY <1>2, HeadTailProperties, ReconcileAssumption DEF ChannelBounded
<1>3. CASE channel' = << >>
  BY <1>3, ReconcileAssumption DEF ChannelBounded
<1>4. ASSUME NEW p \in Paths, WatchEvent(p) PROVE ChannelBounded'
  <2>1. CASE channel' = Append(channel, p) /\ Len(channel) < ChannelCapacity
    BY <2>1, AppendProperties, ReconcileAssumption DEF ChannelBounded
  <2> QED  BY <1>1, <1>4, <2>1 DEF WatchEvent
<1>5. CASE Drain \/ TickFails \/ Crash
  BY <1>1, <1>2, <1>3, <1>5 DEF Drain, TickFails, Crash
<1>6. CASE Scanning \/ Requests \/ Refresh \/ TakeOverflow \/ DrainReady \/ DueInboxes \/ Unmount
      \/ Startup \/ WatchError \/ NextReconcileComes \/ UNCHANGED vars
      \/ (\E p \in Paths : WindowPasses(p))
      \/ (\E p \in Paths, f \in Facts \cup {NoFacts} : Change(p, f))
  BY <1>1, <1>6 DEF Scanning, Still, Requests, PutPolicy, Accept, RefreshTerminal, Refresh, TakeOverflow,
     DrainReady, DueInboxes, Unmount, Startup, WatchError, NextReconcileComes, vars, watching,
     WindowPasses, Change
<1> QED  BY <1>4, <1>5, <1>6 DEF Next, Coordinate, Watching

\* What the watcher believes, and where the tick is.
WatcherTyped ==
    /\ os \in [watched : BOOLEAN, kernel : BOOLEAN]
    /\ unreported \subseteq Paths /\ overflow \in BOOLEAN /\ tick \in Ticks

LEMMA WatcherNext ==
    ASSUME WatcherTyped, WatchTyped, root \in [readable : BOOLEAN, available : BOOLEAN], [Next]_vars
    PROVE  WatcherTyped'
<1>0. Target \in BOOLEAN
  BY TargetIsBoolean
<1>11. [watched |-> Target, kernel |-> Target] \in [watched : BOOLEAN, kernel : BOOLEAN]
  BY <1>0
<1>12. ReplaceSucceeds \/ ReplaceFails =>
          os' \in [watched : BOOLEAN, kernel : BOOLEAN] /\ overflow' \in BOOLEAN
  <2>1. CASE ReplaceSucceeds
    <3>1. os' = os \/ os' = [watched |-> Target, kernel |-> Target]
      BY <2>1, Zenon DEF ReplaceSucceeds
    <3>2. UNCHANGED overflow
      BY <2>1, Zenon DEF ReplaceSucceeds
    <3> QED  BY <1>11, <3>1, <3>2 DEF WatcherTyped
  <2>2. CASE ReplaceFails
    <3>1. os' = os /\ overflow' = TRUE
      BY <2>2, Zenon DEF ReplaceFails
    <3> QED  BY <3>1 DEF WatcherTyped
  <2> QED  BY <2>1, <2>2
<1>1. CASE UNCHANGED <<os, unreported, overflow, tick>>
  BY <1>1 DEF WatcherTyped
<1>2. CASE Watching
  BY <1>2 DEF Watching, WatchEvent, WindowPasses, WatchError, NextReconcileComes, watching, WatcherTyped
<1>3. CASE Scanning \/ Requests \/ UNCHANGED vars
  BY <1>1, <1>3 DEF Scanning, Still, Requests, PutPolicy, Accept, RefreshTerminal, vars, watching
<1>4. CASE Refresh
  <2>1. UNCHANGED unreported /\ tick' = "drain"
    BY <1>4 DEF Refresh, At
  <2> QED  BY <1>4, <1>12, <2>1 DEF Refresh, Refreshed, WatcherTyped, Ticks
<1>5. CASE Drain
  BY <1>5 DEF Drain, At, WatcherTyped, Ticks
<1>6. CASE TakeOverflow \/ DrainReady \/ DueInboxes \/ TickFails
  BY <1>6 DEF TakeOverflow, DrainReady, DueInboxes, TickFails, At, WatcherTyped, Ticks
<1>7. CASE Startup
  BY <1>7, <1>12 DEF Startup, WatcherTyped
<1>8. CASE Unmount
  BY <1>8 DEF Unmount, WatcherTyped
<1>9. CASE Crash
  BY <1>9 DEF Crash, NoWatch, WatcherTyped, Ticks
<1>10. ASSUME NEW p \in Paths, NEW f \in Facts \cup {NoFacts}, Change(p, f) PROVE WatcherTyped'
  BY <1>10 DEF Change, Report, WatcherTyped
<1> QED  BY <1>2, <1>3, <1>4, <1>5, <1>6, <1>7, <1>8, <1>9, <1>10 DEF Next, Coordinate

-----------------------------------------------------------------------------
(* One reconcile scan. *)

\* The row goes on as no reconcile scan that was not open before.
Calm(r, q) ==
    q.reason = "manual" \/ (q.reason = r.reason /\ (q.status \in Open => r.status \in Open))

\* What is written to a row keeps its reason.
LEMMA ReasonsStay ==
    ASSUME NEW r \in Rows, NEW status, NEW recovering
    PROVE  /\ Announce(r, status, recovering).reason = r.reason
           /\ CloseAttempt(r, status).reason = r.reason
           /\ \A reason : OpenAttempt(r, reason, status).reason = r.reason
BY DEF Announce, CloseAttempt, OpenAttempt, Rows

\* A row that is claimed is the scan it was.
LEMMA ClaimedCalm ==
    ASSUME NEW r \in Rows, r.attempts # << >>, NEW w \in Workers
    PROVE  Claimed(r, w).reason = r.reason
<1> DEFINE taken == r.status = "running"
           started == IF taken THEN OpenAttempt(CloseAttempt(r, "failed"), "recovery", "running")
                      ELSE [r EXCEPT !.attempts[Current(r)].status = "running"]
           recovering == taken \/ r.recovering
           claimed == [started EXCEPT !.status = "running", !.recovering = recovering, !.owner = w,
                            !.lapsed = FALSE, !.version = @ + 1]
<1>1. started \in Rows /\ started.reason = r.reason
  <2>1. Row(CloseAttempt(r, "failed"), r.status, r.version, r.lapsed)
    BY CloseAttemptRow DEF ScanStatuses
  <2>2. CloseAttempt(r, "failed") \in Rows
    BY <2>1 DEF Row
  <2>3. Row(OpenAttempt(CloseAttempt(r, "failed"), "recovery", "running"), r.status, r.version, r.lapsed)
    BY <2>1, <2>2, OpenAttemptRow DEF Row, ScanStatuses
  <2>4. OpenAttempt(CloseAttempt(r, "failed"), "recovery", "running").reason = r.reason
    BY <2>2, ReasonsStay
  <2>5. Row([r EXCEPT !.attempts[Current(r)].status = "running"], r.status, r.version, r.lapsed)
    BY AttemptRow DEF ScanStatuses
  <2>6. [r EXCEPT !.attempts[Current(r)].status = "running"].reason = r.reason
    BY DEF Rows
  <2> QED  BY <2>3, <2>4, <2>5, <2>6 DEF Row
<1>2. recovering \in BOOLEAN
  BY DEF Rows
<1> HIDE DEF started, recovering
<1>3. Announce(claimed, "running", recovering).reason = started.reason
  BY <1>1 DEF Announce, Rows
<1> HIDE DEF claimed
<1>4. Claimed(r, w) = Announce(claimed, "running", recovering)
  BY DEF Claimed, claimed, started, recovering
<1> QED  BY <1>1, <1>3, <1>4

\* So is one that is given back.
LEMMA ReclaimedCalm ==
    ASSUME NEW r \in Rows, r.attempts # << >>
    PROVE  Reclaimed(r).reason = r.reason
<1> DEFINE opened == OpenAttempt(CloseAttempt(r, "failed"), "recovery", "queued")
           back == [opened EXCEPT !.status = "queued", !.recovering = TRUE, !.owner = NoOwner,
                        !.lapsed = FALSE, !.version = @ + 1]
<1>1. Row(CloseAttempt(r, "failed"), r.status, r.version, r.lapsed)
  BY CloseAttemptRow DEF ScanStatuses
<1>2. CloseAttempt(r, "failed") \in Rows
  BY <1>1 DEF Row
<1>3. Row(opened, r.status, r.version, r.lapsed)
  BY <1>1, <1>2, OpenAttemptRow DEF Row, ScanStatuses
<1>4. opened \in Rows /\ opened.reason = r.reason
  BY <1>2, <1>3, ReasonsStay DEF Row
<1> HIDE DEF opened
<1>5. Announce(back, "queued", TRUE).reason = opened.reason
  BY <1>4 DEF Announce, Rows
<1> HIDE DEF back
<1>6. Reclaimed(r) = Announce(back, "queued", TRUE)
  BY DEF Reclaimed, back, opened
<1> QED  BY <1>4, <1>5, <1>6

\* One that is finished is not open.
LEMMA FinishedCalm ==
    ASSUME NEW r \in Rows, r.attempts # << >>, NEW s, s.status \in Ended, s.rootCode \in BOOLEAN
    PROVE  Calm(r, FinishedRow(r, s))
<1> DEFINE closed == CloseAttempt(r, s.status)
           over == [closed EXCEPT !.status = s.status, !.recovering = FALSE, !.cancel = FALSE,
                        !.owner = NoOwner, !.version = @ + 1, !.rootFailed = @ \/ s.rootCode]
<1>1. Row(closed, r.status, r.version, r.lapsed)
  BY CloseAttemptRow DEF ScanStatuses, Ended
<1>2. closed \in Rows /\ closed.reason = r.reason
  BY <1>1, ReasonsStay DEF Row
<1> HIDE DEF closed
<1>3. Announce(over, s.status, FALSE).reason = closed.reason
  BY <1>2 DEF Announce, Rows
<1> HIDE DEF over
<1>4. FinishedRow(r, s) = Announce(over, s.status, FALSE)
  BY DEF FinishedRow, over, closed
<1>5. FinishedRow(r, s).reason = r.reason
  BY <1>2, <1>3, <1>4
<1>6. FinishedRow(r, s).status = s.status
  BY FinishedRowRow DEF Row
<1> QED  BY <1>5, <1>6 DEF Calm, Ended, Open

\* One that is held, or written to, is as open as before.
LEMMA HeldCalm ==
    ASSUME NEW r \in Rows
    PROVE  /\ Calm(r, r) /\ Calm(r, [r EXCEPT !.lapsed = TRUE])
           /\ \A batch : Calm(r, Recorded(r, batch))
BY DEF Calm, Recorded, Rows

\* What users ask for is manual.
LEMMA RequestedCalm ==
    ASSUME RowsInOrder, Requested, NEW u \in Tasks
    PROVE  Calm(task[u], task'[u])
<1>1. PICK k \in Keys, t \in Tasks : Create(k, t) \/ Retry(k, t) \/ RequestCancel(k, t)
  BY DEF Requested
<1>2. \A r : task' = [task EXCEPT ![t] = r] => task'[u] = IF u = t THEN r ELSE task[u]
  BY DEF RowsInOrder
<1>3. task[u] \in Rows /\ task[t] \in Rows
  BY DEF RowsInOrder
<1>4. Calm(task[u], task[u])
  BY DEF Calm
<1>5. CASE Create(k, t)
  <2>1. task' = [task EXCEPT ![t] = NewRow("manual")]
    BY <1>5 DEF Create, Insert
  <2>2. NewRow("manual").reason = "manual"
    BY NewRowReason DEF ScanReasons
  <2> QED  BY <1>2, <1>4, <2>1, <2>2 DEF Calm
<1>6. CASE Retry(k, t)
  <2> DEFINE r == task[t]
             opened == OpenAttempt(r, "manual_retry", "queued")
             back == [opened EXCEPT !.status = "queued", !.recovering = FALSE, !.cancel = FALSE,
                            !.version = @ + 1]
             again == Announce(back, "queued", FALSE)
  <2>1. r.reason = "manual" /\ r.status \in {"failed", "partial-success"}
        /\ task' = [task EXCEPT ![t] = again]
    BY <1>6 DEF Retry
  <2>2. r.attempts # << >>
    BY <2>1 DEF RowsInOrder
  <2>3. Row(opened, r.status, r.version, r.lapsed)
    BY <1>3, <2>2, OpenAttemptRow DEF ScanStatuses
  <2>4. opened \in Rows /\ opened.reason = "manual"
    BY <1>3, <2>1, <2>3, ReasonsStay DEF Row
  <2> HIDE DEF opened
  <2>6. again.reason = "manual"
    BY <2>4 DEF Announce, Rows
  <2> HIDE DEF again
  <2> QED  BY <1>2, <1>4, <2>1, <2>6 DEF Calm
<1>7. CASE RequestCancel(k, t)
  <2> DEFINE r == task[t]
             closed == CloseAttempt(r, "cancelled")
             over == [closed EXCEPT !.status = "cancelled", !.cancel = FALSE, !.version = @ + 1]
             marked == [r EXCEPT !.cancel = TRUE]
             q == IF r.status = "queued" THEN Announce(over, "cancelled", r.recovering)
                  ELSE Announce(marked, "running", r.recovering)
  <2>1. r.reason = "manual" /\ r.status \in Open /\ task' = [task EXCEPT ![t] = q]
    BY <1>7 DEF RequestCancel
  <2>2. r.attempts # << >>
    BY <2>1 DEF RowsInOrder, Open
  <2>3. Row(closed, r.status, r.version, r.lapsed)
    BY <1>3, <2>2, CloseAttemptRow DEF ScanStatuses
  <2>4. closed \in Rows /\ closed.reason = "manual"
    BY <1>3, <2>1, <2>3, ReasonsStay DEF Row
  <2> HIDE DEF closed
  <2>5. Announce(over, "cancelled", r.recovering).reason = "manual"
    BY <2>4 DEF Announce, Rows
  <2>6. Announce(marked, "running", r.recovering).reason = "manual"
    BY <1>3, <2>1 DEF Announce, Rows
  <2> HIDE DEF over, marked
  <2>7. q.reason = "manual"
    BY <2>5, <2>6
  <2> HIDE DEF q
  <2> QED  BY <1>2, <1>4, <2>1, <2>7 DEF Calm
<1> QED  BY <1>1, <1>5, <1>6, <1>7

\* One row is replaced by one that is calm.
LEMMA CalmPut ==
    ASSUME RowsInOrder, NEW t \in Tasks, NEW r, Calm(task[t], r), task' = [task EXCEPT ![t] = r]
    PROVE  \A u \in Tasks : Calm(task[u], task'[u])
<1>1. \A u \in Tasks : task'[u] = IF u = t THEN r ELSE task[u]
  BY DEF RowsInOrder
<1> QED  BY <1>1 DEF Calm

\* The scan tasks by themselves open no reconcile scan.
LEMMA ScansCalm ==
    ASSUME LInv, ScanStep
    PROVE  \A u \in Tasks : Calm(task[u], task'[u])
<1> DEFINE AllCalm == \A u \in Tasks : Calm(task[u], task'[u])
<1>0. RowsInOrder /\ ScansTyped
  BY DEF LInv, SInv
<1>1. UNCHANGED task => AllCalm
  BY DEF Calm
<1>2. Requested => AllCalm
  BY <1>0, RequestedCalm
<1> HIDE DEF AllCalm
<1>3. \A t \in Tasks : /\ task[t] \in Rows
                       /\ task[t].status # "absent" => task[t].attempts # << >>
  BY <1>0 DEF RowsInOrder
<1>4. CASE ReclaimExpired
  <2>1. ASSUME NEW u \in Tasks PROVE Calm(task[u], task'[u])
    <3>1. CASE task'[u] = task[u]
      BY <3>1 DEF Calm
    <3>2. CASE task'[u] = Reclaimed(task[u]) /\ task[u].status = "running"
      <4>1. Reclaimed(task[u]).reason = task[u].reason
        BY <1>3, <3>2, ReclaimedCalm
      <4> QED  BY <3>2, <4>1 DEF Calm, Open
    <3> QED  BY <1>4, <3>1, <3>2 DEF ReclaimExpired
  <2> QED  BY <2>1 DEF AllCalm
<1>5. ASSUME NEW t \in Tasks, LeaseExpires(t) PROVE AllCalm
  <2>1. Calm(task[t], [task[t] EXCEPT !.lapsed = TRUE])
    BY <1>3, HeldCalm
  <2>2. task' = [task EXCEPT ![t] = [task[t] EXCEPT !.lapsed = TRUE]]
    BY <1>5 DEF LeaseExpires
  <2> QED  BY <1>0, <2>1, <2>2, CalmPut DEF AllCalm
<1>6. ASSUME NEW w \in Workers, NEW t \in Tasks, Claim(w, t) PROVE AllCalm
  <2>1. task[t].status \in Open /\ task' = [task EXCEPT ![t] = Claimed(task[t], w)]
    BY <1>6 DEF Claim, Oldest, Claimable, Open
  <2>2. Claimed(task[t], w).reason = task[t].reason
    BY <1>3, <2>1, ClaimedCalm DEF Open
  <2>3. Calm(task[t], Claimed(task[t], w))
    BY <2>1, <2>2 DEF Calm
  <2> QED  BY <1>0, <2>1, <2>3, CalmPut DEF AllCalm
<1>7. ASSUME NEW w \in Workers, RecordObservations(w) PROVE AllCalm
  <2> DEFINE t == scan[w].task
  <2>1. CASE UNCHANGED task
    BY <1>1, <2>1
  <2>2. CASE Holds(w) /\ task' = [task EXCEPT ![t] = Recorded(task[t], scan[w].pending)]
    <3>1. t \in Tasks
      <4>1. PICK version : scan[w] \in ScansAt(version)
        BY <1>0 DEF ScansTyped, IsScan
      <4> QED  BY <2>2, <4>1 DEF Holds, ScansAt
    <3>2. Calm(task[t], Recorded(task[t], scan[w].pending))
      BY <1>3, <3>1, HeldCalm
    <3> QED  BY <1>0, <2>2, <3>1, <3>2, CalmPut DEF AllCalm
  <2> QED  BY <1>7, <2>1, <2>2 DEF RecordObservations, Think, Go
<1>8. ASSUME NEW w \in Workers, Finish(w) PROVE AllCalm
  <2> DEFINE s == scan[w]
             t == s.task
  <2>1. CASE UNCHANGED task
    BY <1>1, <2>1
  <2>2. CASE Holds(w) /\ task' = [task EXCEPT ![t] = FinishedRow(task[t], s)]
    <3>1. t \in Tasks /\ s.rootCode \in BOOLEAN
      <4>1. PICK version : scan[w] \in ScansAt(version)
        BY <1>0 DEF ScansTyped, IsScan
      <4> QED  BY <2>2, <4>1 DEF Holds, ScansAt
    <3>2. s.status \in Ended
      BY <1>8 DEF Finish, LInv, FinishesEnded
    <3>3. task[t].attempts # << >>
      BY <1>3, <2>2, <3>1 DEF Holds
    <3>4. Calm(task[t], FinishedRow(task[t], s))
      BY <1>3, <3>1, <3>2, <3>3, FinishedCalm
    <3> QED  BY <1>0, <2>2, <3>1, <3>4, CalmPut DEF AllCalm
  <2> QED  BY <1>8, <2>1, <2>2 DEF Finish
<1>9. ASSUME NEW w \in Workers, Walk(w) \/ CheckCancel(w) \/ RecordFails(w) \/ HeartbeatFails(w) \/ Decide(w)
      PROVE  UNCHANGED task
  BY <1>9 DEF Walk, OpenScanSource, Look, LookFails, WalkFails, Flush, WalkEnds, CheckCancel, RecordFails,
     HeartbeatFails, Decide, Think, Go
<1>10. ASSUME TimePasses \/ Serves \/ Unmounted \/ Remounted \/ InboxRead \/ Died
              \/ (\E p \in Paths, f \in Facts \cup {NoFacts} : Changed(p, f))
              \/ UNCHANGED <<files, scans, absent, world>>
       PROVE  UNCHANGED task
  BY <1>10 DEF TimePasses, Rests, Grows, Serves, Unmounted, Remounted, InboxRead, Died, Changed, scans
<1> QED  BY <1>1, <1>2, <1>4, <1>5, <1>6, <1>7, <1>8, <1>9, <1>10
         DEF ScanStep, ScanNext, Worker, Write, AllCalm

\* Whoever schedules the reconcile scan points the watch state to it; and only the end of a scan
\* takes the pointer away.
LEMMA StartedIsOne ==
    ASSUME RowsInOrder, AbsencesKnown, Kinds, OpenReconciles = {}, NEW t \in Tasks,
           NEW reason \in ScanReasons \ {"manual"}, NEW watched \in Watches,
           Started(t, reason, watched), UNCHANGED <<files, binding, scan, root>>
    PROVE  OneReconcile'
<1>1. task'[t] = NewRow(reason)
      /\ \A u \in Tasks : u # t => task'[u] = task[u] \/ task'[u].status = "absent"
  BY StartedMoves
<1>2. OpenReconciles' \subseteq {t}
  BY <1>1 DEF OpenReconciles, Open
<1>3. watch'.active = t
  BY StartedWatch
<1> QED  BY <1>2, <1>3 DEF OneReconcile

LEMMA ScheduledIsOne ==
    ASSUME RowsInOrder, AbsencesKnown, Kinds, NEW reason \in ScanReasons \ {"manual"},
           NEW watched \in Watches, \A t \in OpenReconciles : OpenReconciles = {t} /\ watched.active = t,
           Schedule(reason, watched), UNCHANGED <<files, binding, scan, root>>
    PROVE  OneReconcile'
<1>1. CASE OpenReconciles = {} /\ \E t \in Tasks : Started(t, reason, watched)
  BY <1>1, StartedIsOne
<1>2. CASE watch' = watched /\ UNCHANGED task
  BY <1>2 DEF OneReconcile, OpenReconciles
<1> QED  BY <1>1, <1>2 DEF Schedule

LEMMA OneReconcileNext ==
    ASSUME LInv, AbsencesKnown, Kinds, WatchTyped, OneReconcile, [Next]_vars
    PROVE  OneReconcile'
<1>0. /\ RowsInOrder /\ watch \in Watches
      /\ \A t \in OpenReconciles : OpenReconciles = {t} /\ watch.active = t
  BY DEF LInv, WatchTyped, OneReconcile
<1>1. ASSUME UNCHANGED task, watch'.active = watch.active PROVE OneReconcile'
  BY <1>1 DEF OneReconcile, OpenReconciles
<1>2. ASSUME ScanStep, UNCHANGED watch PROVE OneReconcile'
  <2>1. OpenReconciles' \subseteq OpenReconciles
    BY <1>2, ScansCalm DEF Calm, OpenReconciles
  <2> QED  BY <1>2, <2>1 DEF OneReconcile
<1>3. CASE Scanning \/ Unmount \/ Crash \/ UNCHANGED vars
      \/ (\E p \in Paths, f \in Facts \cup {NoFacts} : Change(p, f))
  BY <1>2, <1>3 DEF Scanning, Still, Unmount, Crash, Change, vars, ScanStep, ScanNext
<1>4. CASE Watching
  BY <1>0, <1>1, <1>4 DEF Watching, WatchEvent, WindowPasses, WatchError, NextReconcileComes, scans, Watches
<1>5. CASE Requests
  <2>1. ASSUME NEW enabled \in BOOLEAN, PutPolicy(enabled) PROVE OneReconcile'
    BY <1>0, <1>1, <2>1 DEF PutPolicy, scans, Watches
  <2>2. ASSUME NEW k \in AskKeys, Accept(k) PROVE OneReconcile'
    <3>1. CASE UNCHANGED <<task, watch>>
      BY <1>1, <3>1
    <3>2. CASE OpenReconciles = {} /\ \E t \in Tasks : Started(t, "watch_recovery", watch)
      BY <1>0, <2>2, <3>2, StartedIsOne DEF Accept, ScanReasons
    <3> QED  BY <2>2, <3>1, <3>2 DEF Accept
  <2>3. ASSUME NEW k \in AskKeys, RefreshTerminal(k) PROVE OneReconcile'
    BY <1>1, <2>3 DEF RefreshTerminal, scans
  <2> QED  BY <1>5, <2>1, <2>2, <2>3 DEF Requests
<1>6. \A watched \in Watches : watched.active = watch.active =>
        /\ Settled(watched) \in Watches
        /\ \A t \in OpenReconciles : OpenReconciles = {t} /\ Settled(watched).active = t
  BY <1>0, SettledWatch DEF OpenReconciles
<1>7. CASE Refresh
  <2>1. \A t \in OpenReconciles : OpenReconciles = {t} /\ watch'.active = t
    BY <1>6, <1>7, RefreshedWatch, TargetIsBoolean DEF Refresh, Refreshed, Kinds
  <2>2. OpenReconciles' \subseteq OpenReconciles
    <3>1. task' = Kept(task, watch'.active)
      BY <1>7 DEF Refresh
    <3>2. \A t \in Tasks : task'[t] = task[t] \/ task'[t] = Absent
      BY <3>1, KeptRows
    <3> QED  BY <3>2 DEF OpenReconciles, Absent, Open
  <2> QED  BY <2>1, <2>2 DEF OneReconcile
<1>8. CASE Drain
  BY <1>0, <1>1, <1>8 DEF Drain, TickStill, scans, Watches
<1>9. CASE TickFails
  BY <1>1, <1>9 DEF TickFails, scans
<1>10. CASE TakeOverflow \/ DrainReady \/ DueInboxes
  <2>1. UNCHANGED <<files, binding, scan, root>>
    BY <1>10 DEF TakeOverflow, DrainReady, DueInboxes, world
  <2>2. CASE UNCHANGED <<task, watch>>
    BY <1>1, <2>2
  <2>3. CASE \E reason \in ScanReasons \ {"manual"} : Schedule(reason, watch)
    BY <1>0, <2>1, <2>3, ScheduledIsOne
  <2> QED  BY <1>10, <2>2, <2>3 DEF TakeOverflow, DrainReady, DueInboxes, ScanReasons
<1>11. CASE Startup
  <2>1. UNCHANGED <<files, binding, scan, root>>
    BY <1>11 DEF Startup
  <2>2. PICK watched \in Watches : watched.active = watch.active /\ Schedule("startup", Settled(watched))
    BY <1>11, RefreshedWatch, TargetIsBoolean DEF Startup, Kinds
  <2> QED  BY <1>0, <1>6, <2>1, <2>2, ScheduledIsOne DEF ScanReasons
<1> QED  BY <1>3, <1>4, <1>5, <1>7, <1>8, <1>9, <1>10, <1>11 DEF Next, Coordinate

-----------------------------------------------------------------------------
(* The theorems. *)

IntakeTyped ==
    Kinds /\ WatchTyped /\ PendingBounded /\ ChannelBounded /\ WatcherTyped /\ AsksTyped

\* What every step of the intake keeps.
IInv == LInv /\ TellInv /\ IntakeTyped /\ OneReconcile

LEMMA IntakeInit == Init => IInv
<1> SUFFICES ASSUME Init PROVE IInv
  OBVIOUS
<1>1. ScanInit
  BY DEF Init
<1>2. LInv
  BY <1>1, ScanInitInv, LeaseInit DEF LInv
<1>3. TellInv
  BY <1>1, FirstSightings, FirstCover DEF TellInv, RowsTell, ScanInit
<1>4. Kinds
  <2>1. NoScan.version = 0
    BY DEF NoScan
  <2>2. \A w \in Workers : scan[w].version \in Nat
    BY <1>1, <2>1 DEF ScanInit
  <2> QED  BY <1>1, <2>2 DEF ScanInit, FilesInit, Kinds
<1>5. WatchTyped /\ WatcherTyped /\ AsksTyped
  BY DEF Init, WatchTyped, Watches, Healths, WatcherTyped, NoWatch, Ticks, AsksTyped, Asks
<1>6. ChannelBounded
  BY ReconcileAssumption DEF Init, ChannelBounded
<1>7. PendingBounded
  <2>1. Pending = {}
    BY DEF Init, NoHints, Pending
  <2> QED  BY <2>1, FS_EmptySet, ReconcileAssumption DEF Init, NoHints, PendingBounded
<1>8. OpenReconciles = {}
  BY <1>1 DEF ScanInit, OpenReconciles, Absent
<1> QED  BY <1>2, <1>3, <1>4, <1>5, <1>6, <1>7, <1>8 DEF IInv, IntakeTyped, OneReconcile

LEMMA IntakeNext == IInv /\ [Next]_vars => IInv'
<1> SUFFICES ASSUME IInv, [Next]_vars PROVE IInv'
  OBVIOUS
<1>1. /\ LInv /\ TellInv /\ Kinds /\ RowsInOrder /\ AbsencesKnown
      /\ root \in [readable : BOOLEAN, available : BOOLEAN]
  BY DEF IInv, IntakeTyped, LInv, TellInv, Kinds
<1>2. LInv' /\ TellInv' /\ Kinds'
  <2>1. CASE ScanStep
    <3>1. SInv' /\ RowsInOrder' /\ FinishesEnded'
      BY <1>1, <2>1, ScanNextInv, LeaseNext DEF LInv, ScanStep
    <3>2. RowsTell'
      BY <1>1, <2>1, NextTells DEF TellInv, ScanStep
    <3>3. SightingsKept' /\ AbsencesKnown' /\ ScansCover'
      BY <1>1, <2>1, EarnedNext, AbsenceNext DEF LInv, TellInv, ScanStep
    <3>4. Kinds'
      BY <1>1, <2>1, KindsOfScans
    <3> QED  BY <3>1, <3>2, <3>3, <3>4 DEF LInv, TellInv
  <2>2. CASE ~ScanStep
    <3>1. Rescheduled
      BY <1>1, <2>2, StepsSplit
    <3> QED  BY <1>1, <2>2, <3>1, RescheduledKeeps, KindsOfScheduling
  <2> QED  BY <2>1, <2>2
<1>3. WatchTyped' /\ AsksTyped'
  BY <1>1, WatchNext, AsksNext DEF IInv, IntakeTyped
<1>4. PendingBounded' /\ ChannelBounded'
  BY PendingNext, ChannelNext DEF IInv, IntakeTyped, ChannelBounded
<1>5. WatcherTyped'
  BY <1>1, WatcherNext DEF IInv, IntakeTyped
<1>6. OneReconcile'
  BY <1>1, OneReconcileNext DEF IInv, IntakeTyped
<1> QED  BY <1>2, <1>3, <1>4, <1>5, <1>6 DEF IInv, IntakeTyped

LEMMA IntakeHolds == Spec => []IInv
BY IntakeInit, IntakeNext, PTL DEF Spec

\* What a worker has in memory, at the version of a row.
LEMMA ScansHaveTypes ==
    ASSUME ScansTyped, \A w \in Workers : scan[w].version \in Nat
    PROVE  scan \in [Workers -> Scans]
<1>1. ASSUME NEW w \in Workers PROVE scan[w] \in Scans
  <2>1. PICK version : scan[w] \in ScansAt(version)
    BY DEF ScansTyped, IsScan
  <2>2. version \in Nat
    BY <2>1 DEF ScansAt
  <2> QED  BY <2>1, <2>2 DEF ScansAt, Scans
<1>2. scan = [w \in Workers |-> scan[w]]
  BY DEF ScansTyped
<1> HIDE DEF Scans
<1> QED  BY <1>1, <1>2

\* Rows, hints and requests have their shapes, the queues of hints stay within their capacities,
\* and however hints, overflows, due times, startups and automations race, an inbox has at most
\* one open reconcile scan and its watch state points to it: for any number of tasks, workers,
\* keys and paths (schedule_reconcile_in_tx, refresh_completed and WatchCoalescer of discovery).
THEOREM IntakeStaysInOrder == Spec => []IntakeInvariant
<1>1. IInv => IntakeInvariant
  <2> SUFFICES ASSUME IInv PROVE IntakeInvariant
    OBVIOUS
  <2>1. FilesTypeOK
    BY DEF IInv, LInv, SInv, FilesInOrder, TellInv, SightingsKept, IntakeTyped, Kinds, FilesTypeOK
  <2>2. scan \in [Workers -> Scans]
    BY ScansHaveTypes DEF IInv, LInv, SInv, IntakeTyped, Kinds
  <2>3. ScanTypeOK
    BY <2>1, <2>2 DEF IInv, LInv, RowsInOrder, TellInv, AbsencesKnown, IntakeTyped, Kinds, ScanTypeOK
  <2>4. TypeOK
    BY <2>3 DEF IInv, IntakeTyped, WatchTyped, Watches, PendingBounded, Pending, ChannelBounded,
       WatcherTyped, AsksTyped, TypeOK
  <2> QED  BY <2>4 DEF IInv, IntakeInvariant
<1> QED  BY <1>1, IntakeHolds, PTL

\* With the coordinator scheduling scans of its own, the attempts of a task still tell its whole
\* story, and its last event what the row says.
THEOREM IntakeRecordsHold == Spec => []ScanRecordsAgree
<1>1. IInv => ScanRecordsAgree
  BY RecordsOfRows DEF IInv, TellInv
<1> QED  BY <1>1, IntakeHolds, PTL

\* With the coordinator scheduling scans of its own, a file is still taken for gone only by a
\* scan that completed, and only when it was away at some moment of that scan.
THEOREM IntakeMissesOnlyAbsent == Spec => MissingWasAbsent
<1>1. IInv /\ [Next]_vars =>
        [\A p \in Paths : (tracked'[p].missing /\ ~tracked[p].missing) =>
            \E t \in Tasks : /\ task[t].status = "running" /\ task'[t].status = "completed"
                             /\ p \in absent[t]]_<<files, task, absent>>
  <2> SUFFICES ASSUME IInv, [Next]_vars PROVE MarksOnlyAbsent
    BY DEF MarksOnlyAbsent
  <2>1. LInv /\ RowsInOrder /\ AbsencesKnown /\ ScansCover /\ Kinds
    BY DEF IInv, LInv, TellInv, IntakeTyped
  <2>2. CASE ScanStep
    BY <2>1, <2>2, AbsenceNext DEF ScanStep
  <2>3. CASE Rescheduled
    BY <2>3 DEF Rescheduled, files, MarksOnlyAbsent
  <2> QED  BY <2>1, <2>2, <2>3, StepsSplit
<1> QED  BY <1>1, IntakeHolds, PTL DEF Spec, MissingWasAbsent

\* And processing is still asked only for files that were observed long enough.
THEOREM IntakeAsksOnlyEarned == Spec => RequestsAreEarned
<1>1. IInv /\ [Next]_vars =>
        [\A r \in requests' \ requests :
            /\ sighting[r[1]] = [facts |-> r[2], lasting |-> TRUE]
            /\ r[2] \in old
            /\ r[1] \notin Auxiliary]_files
  <2> SUFFICES ASSUME IInv, [Next]_vars, requests' # requests
               PROVE  \A r \in requests' \ requests :
                        /\ sighting[r[1]] = [facts |-> r[2], lasting |-> TRUE]
                        /\ r[2] \in old
                        /\ r[1] \notin Auxiliary
    OBVIOUS
  <2>1. SInv /\ RowsInOrder /\ AbsencesKnown /\ SightingsKept /\ Kinds
    BY DEF IInv, LInv, TellInv, IntakeTyped
  <2>2. ScanStep
    BY <2>1, StepsSplit DEF Rescheduled, files
  <2> QED  BY <2>1, <2>2, EarnedNext DEF ScanStep
<1> QED  BY <1>1, IntakeHolds, PTL DEF Spec, RequestsAreEarned
=============================================================================
