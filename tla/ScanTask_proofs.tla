--------------------------- MODULE ScanTask_proofs --------------------------
(* Whatever becomes of scans, their workers and the process, for any number of  *)
(* each: the revisions of a path stay in order (files are only written by a     *)
(* batch and by the end of a complete scan, which take what the walk saw), the  *)
(* rows implement the fenced lease, and what is kept beside a row agrees with   *)
(* it.                                                                          *)
EXTENDS ScanTask, TLAPS

Live == {"observing", "stable", "skipped-auxiliary"}

\* One tracked file: at most its current revision is alive, and its current revision is alive or
\* missing, never superseded and never one that was not seen; so it lives again when it is seen.
InOrder(t) ==
    \A f \in Facts :
        /\ t.revision[f].status \in Live <=> t.current = f /\ ~t.missing
        /\ t.current = f => t.revision[f].status \in Live \cup {"missing"}

FilesInOrder ==
    /\ disk \in [Paths -> Facts \cup {NoFacts}]
    /\ tracked \in [Paths -> TrackedFiles]
    /\ \A p \in Paths : InOrder(tracked[p])

\* What a worker has in memory, at whatever version of its task.
ScansAt(version) ==
    [at : Walking \cup {"idle", "decide", "finish"}, task : Tasks \cup {NoTask},
     version : {version}, todo : SUBSET Paths,
     pending : [files : [Paths -> Facts \cup {NoFacts}], errors : SUBSET Paths],
     cancelled : BOOLEAN, then : {"walk", "ok", "root", "abandon"},
     verdict : {"none", "ok", "root", "error", "lost"},
     status : ScanStatuses, rootCode : BOOLEAN]

IsScan(s) == \E version : s \in ScansAt(version)

ScansTyped ==
    /\ scan = [w \in Workers |-> scan[w]]
    /\ \A w \in Workers : IsScan(scan[w])

SInv == FilesInOrder /\ ScansTyped

-----------------------------------------------------------------------------
(* Files. *)

\* A revision seen again stays alive, or comes back when it was missing.
LEMMA AdvancedIsLive ==
    ASSUME NEW p, NEW f, NEW r \in Revisions, r.status \in Live \cup {"missing"}
    PROVE  Advanced(p, f, r) \in Revisions /\ Advanced(p, f, r).status \in Live
BY DEF Advanced, FirstStatus, Revisions, RevisionStatuses, Live

\* An observation makes what was seen the one revision alive.
LEMMA ObservedInOrder ==
    ASSUME NEW p \in Paths, NEW f \in Facts, tracked[p] \in TrackedFiles, InOrder(tracked[p])
    PROVE  Observed(p, f) \in TrackedFiles /\ InOrder(Observed(p, f))
<1> DEFINE t == tracked[p]
           o == Observed(p, f)
<1>1. o.current = f /\ o.missing = FALSE
  BY DEF Observed
<1>2. t.revision \in [Facts -> Revisions]
  BY DEF TrackedFiles
<1>3. CASE t.current = f
  <2>1. t.revision[f].status \in Live \cup {"missing"} /\ t.revision[f] \in Revisions
    BY <1>2, <1>3 DEF InOrder
  <2>2. Advanced(p, f, t.revision[f]) \in Revisions /\ Advanced(p, f, t.revision[f]).status \in Live
    BY <2>1, AdvancedIsLive
  <2>3. o.revision = [t.revision EXCEPT ![f] = Advanced(p, f, @)]
    BY <1>3 DEF Observed
  <2>4. \A g \in Facts : g # f => o.revision[g] = t.revision[g] /\ t.revision[g].status \notin Live
    BY <1>2, <1>3, <2>3 DEF InOrder
  <2>5. o.revision[f] = Advanced(p, f, t.revision[f]) /\ o.revision \in [Facts -> Revisions]
    BY <1>2, <2>2, <2>3
  <2>6. o \in TrackedFiles
    BY <2>5 DEF Observed, TrackedFiles
  <2> HIDE DEF o, t
  <2>7. InOrder(o)
    BY <1>1, <2>2, <2>4, <2>5 DEF InOrder
  <2> QED  BY <2>6, <2>7 DEF o
<1>4. CASE t.current # f
  <2>1. o.revision = [g \in Facts |-> CASE g = f -> CreatedOrReactivated(p)
                                        [] g = t.current -> Superseded(t.revision[g])
                                        [] OTHER -> t.revision[g]]
    BY <1>4 DEF Observed
  <2>2. CreatedOrReactivated(p) \in Revisions /\ CreatedOrReactivated(p).status \in Live
    BY DEF CreatedOrReactivated, FirstStatus, Revisions, RevisionStatuses, Live
  <2>3. \A r \in Revisions : Superseded(r) \in Revisions /\ Superseded(r).status \notin Live
    BY DEF Superseded, Revisions, RevisionStatuses, Live
  <2>4. \A g \in Facts : g # f => o.revision[g] \in Revisions /\ o.revision[g].status \notin Live
    BY <1>2, <1>4, <2>1, <2>3 DEF InOrder
  <2>5. o.revision[f] \in Revisions /\ o.revision[f].status \in Live
    <3>1. o.revision[f] = CreatedOrReactivated(p)
      BY <1>4, <2>1
    <3> QED  BY <2>2, <3>1
  <2>6. o.revision \in [Facts -> Revisions]
    BY <2>1, <2>4, <2>5
  <2>7. o \in TrackedFiles
    BY <1>4, <2>1, <2>6 DEF Observed, TrackedFiles
  <2> HIDE DEF o, t
  <2>8. InOrder(o)
    BY <1>1, <2>4, <2>5 DEF InOrder
  <2> QED  BY <2>7, <2>8 DEF o
<1> QED  BY <1>3, <1>4

\* A file that is found missing has no revision alive.
LEMMA MissedInOrder ==
    ASSUME NEW t \in TrackedFiles, InOrder(t), NoFacts \notin Facts
    PROVE  Missed(t) \in TrackedFiles /\ InOrder(Missed(t))
<1>1. CASE t.current = NoFacts
  BY <1>1 DEF Missed
<1>2. CASE t.current # NoFacts
  <2> DEFINE c == t.current
             gone == [t.revision[c] EXCEPT !.status = "missing", !.rested = FALSE]
             m == Missed(t)
  <2>1. c \in Facts /\ t.revision \in [Facts -> Revisions]
    BY <1>2 DEF TrackedFiles
  <2>2. gone \in Revisions /\ gone.status = "missing"
    BY <2>1 DEF Revisions, RevisionStatuses
  <2>3. /\ m.current = c /\ m.missing = TRUE
        /\ m.revision = [t.revision EXCEPT ![c] = gone]
        /\ m \in TrackedFiles
    BY <1>2, <2>1, <2>2 DEF Missed, TrackedFiles
  <2>4. \A g \in Facts : g # c => m.revision[g] = t.revision[g] /\ t.revision[g].status \notin Live
    BY <2>1, <2>3 DEF InOrder
  <2>5. m.revision[c] = gone
    BY <2>1, <2>3
  <2>6. "missing" \notin Live
    BY DEF Live
  <2> HIDE DEF c, gone, m
  <2>7. InOrder(m)
    BY <2>2, <2>3, <2>4, <2>5, <2>6 DEF InOrder
  <2> QED  BY <2>3, <2>7 DEF m
<1> QED  BY <1>1, <1>2

\* The files of a batch keep all files in order.
LEMMA ObserveAllKeeps ==
    ASSUME FilesInOrder, NEW seen \in [Paths -> Facts \cup {NoFacts}], ObserveAll(seen)
    PROVE  FilesInOrder'
<1>1. \A p \in Paths : tracked'[p] = IF seen[p] # NoFacts THEN Observed(p, seen[p]) ELSE tracked[p]
  BY DEF ObserveAll
<1>2. ASSUME NEW p \in Paths PROVE tracked'[p] \in TrackedFiles /\ InOrder(tracked'[p])
  <2>1. tracked[p] \in TrackedFiles /\ InOrder(tracked[p])
    BY DEF FilesInOrder
  <2>2. CASE seen[p] # NoFacts
    <3>1. seen[p] \in Facts
      BY <2>2
    <3> QED  BY <1>1, <2>1, <2>2, <3>1, ObservedInOrder
  <2>3. CASE seen[p] = NoFacts
    BY <1>1, <2>1, <2>3
  <2> QED  BY <2>2, <2>3
<1>3. tracked' = [p \in Paths |-> tracked'[p]]
  BY DEF ObserveAll
<1>4. \A p \in Paths : InOrder(tracked[p])'
  BY <1>2 DEF InOrder
<1>5. tracked' \in [Paths -> TrackedFiles]
  BY <1>2, <1>3
<1> QED  BY <1>4, <1>5 DEF FilesInOrder, ObserveAll

\* The end of a complete scan keeps them too.
LEMMA MarkUnseenMissingKeeps ==
    ASSUME FilesInOrder, NEW unseen, MarkUnseenMissing(unseen)
    PROVE  FilesInOrder'
<1>1. \A p \in Paths : tracked'[p] = IF p \in unseen THEN Missed(tracked[p]) ELSE tracked[p]
  BY DEF MarkUnseenMissing
<1>2. ASSUME NEW p \in Paths PROVE tracked'[p] \in TrackedFiles /\ InOrder(tracked'[p])
  <2>1. tracked[p] \in TrackedFiles /\ InOrder(tracked[p])
    BY DEF FilesInOrder
  <2> QED  BY <1>1, <2>1, MissedInOrder, FilesAssumption
<1>3. tracked' = [p \in Paths |-> tracked'[p]]
  BY DEF MarkUnseenMissing
<1>4. \A p \in Paths : InOrder(tracked[p])'
  BY <1>2 DEF InOrder
<1>5. tracked' \in [Paths -> TrackedFiles]
  BY <1>2, <1>3
<1> QED  BY <1>4, <1>5 DEF FilesInOrder, MarkUnseenMissing

\* Time changes what a revision waits for, not its status.
LEMMA IntervalKeeps ==
    ASSUME FilesInOrder, NEW p \in Paths, IntervalPasses(p)
    PROVE  FilesInOrder'
<1> DEFINE t == tracked[p]
           rested == [f \in Facts |-> [t.revision[f] EXCEPT !.rested = t.revision[f].status = "observing"]]
<1>1. t \in TrackedFiles /\ t.revision \in [Facts -> Revisions] /\ InOrder(t)
  BY DEF FilesInOrder, TrackedFiles
<1>2. \A f \in Facts : rested[f] \in Revisions /\ rested[f].status = t.revision[f].status
  BY <1>1 DEF Revisions
<1>3. tracked' = [tracked EXCEPT ![p] = [t EXCEPT !.revision = rested]]
  BY DEF IntervalPasses
<1>4. /\ [t EXCEPT !.revision = rested] \in TrackedFiles
      /\ [t EXCEPT !.revision = rested].revision = rested
      /\ [t EXCEPT !.revision = rested].current = t.current
      /\ [t EXCEPT !.revision = rested].missing = t.missing
  <2>1. rested \in [Facts -> Revisions]
    BY <1>2
  <2> HIDE DEF rested
  <2> QED  BY <1>1, <2>1 DEF TrackedFiles
<1>5. InOrder([t EXCEPT !.revision = rested])
  <2> HIDE DEF rested, t
  <2> QED  BY <1>1, <1>2, <1>4 DEF InOrder
<1> HIDE DEF rested
<1>6. tracked' \in [Paths -> TrackedFiles]
  BY <1>3, <1>4 DEF FilesInOrder
<1>7. ASSUME NEW q \in Paths PROVE InOrder(tracked'[q])
  BY <1>3, <1>5 DEF FilesInOrder
<1>8. \A q \in Paths : InOrder(tracked[q])'
  BY <1>7 DEF InOrder
<1> QED  BY <1>6, <1>8 DEF FilesInOrder, IntervalPasses

\* What does not write revisions leaves them in order, whatever happens on the disk.
LEMMA FilesUntouched ==
    ASSUME FilesInOrder, UNCHANGED tracked, disk' \in [Paths -> Facts \cup {NoFacts}]
    PROVE  FilesInOrder'
BY DEF FilesInOrder, InOrder

-----------------------------------------------------------------------------
(* Workers. *)

\* A worker that thinks of another scan leaves the other workers theirs.
LEMMA ScanReplaced ==
    ASSUME ScansTyped, NEW w \in Workers, NEW s, IsScan(s), scan' = [scan EXCEPT ![w] = s]
    PROVE  ScansTyped'
<1>1. \A v \in Workers : scan'[v] = IF v = w THEN s ELSE scan[v]
  BY DEF ScansTyped
<1>2. scan' = [v \in Workers |-> scan'[v]]
  BY DEF ScansTyped
<1>3. \A v \in Workers : IsScan(scan'[v])
  BY <1>1 DEF ScansTyped
<1> QED  BY <1>2, <1>3 DEF ScansTyped, IsScan, ScansAt

\* A step that is no worker's leaves their scans.
LEMMA ScansUntouched == ASSUME ScansTyped, UNCHANGED scan PROVE ScansTyped'
BY DEF ScansTyped, IsScan, ScansAt

\* A worker may have nothing in memory.
LEMMA NoScanIsScan == IsScan(NoScan)
<1>1. NothingPending \in [files : [Paths -> Facts \cup {NoFacts}], errors : SUBSET Paths]
  BY DEF NothingPending
<1>2. NoScan \in ScansAt(0)
  BY <1>1 DEF NoScan, ScansAt, Walking, ScanStatuses
<1> QED  BY <1>2 DEF IsScan

\* A scan that is stopped is still one.
LEMMA StoppedIsScan ==
    ASSUME NEW s, IsScan(s), NEW verdict \in {"error", "lost"}, NEW cancelled \in BOOLEAN
    PROVE  /\ IsScan(Stopped(s, verdict))
           /\ IsScan([Stopped(s, verdict) EXCEPT !.cancelled = cancelled])
<1>1. PICK version : s \in ScansAt(version)
  BY DEF IsScan
<1>2. CASE s.then = "abandon"
  <2>1. PICK v : NoScan \in ScansAt(v)
    BY NoScanIsScan DEF IsScan
  <2>2. [NoScan EXCEPT !.cancelled = cancelled] \in ScansAt(v)
    BY <2>1 DEF ScansAt
  <2> QED  BY <1>2, <2>1, <2>2 DEF Stopped, IsScan
<1>3. CASE s.then # "abandon"
  <2>1. Stopped(s, verdict) \in ScansAt(version)
    BY <1>1, <1>3 DEF Stopped, ScansAt
  <2>2. [Stopped(s, verdict) EXCEPT !.cancelled = cancelled] \in ScansAt(version)
    BY <2>1 DEF ScansAt
  <2> QED  BY <2>1, <2>2 DEF IsScan
<1> QED  BY <1>2, <1>3

\* So is one whose batch is written.
LEMMA WrittenIsScan == ASSUME NEW s, IsScan(s) PROVE IsScan(Written(s))
<1>1. PICK version : s \in ScansAt(version)
  BY DEF IsScan
<1>2. NothingPending \in [files : [Paths -> Facts \cup {NoFacts}], errors : SUBSET Paths]
  BY DEF NothingPending
<1>3. CASE s.then = "abandon"
  BY <1>3, NoScanIsScan DEF Written
<1>4. CASE s.then # "abandon"
  <2>1. Written(s) \in ScansAt(version)
    BY <1>1, <1>2, <1>4 DEF Written, ScansAt, Walking
  <2> QED  BY <2>1 DEF IsScan
<1> QED  BY <1>3, <1>4

\* A claim is a new scan.
LEMMA ClaimKeeps ==
    ASSUME SInv, NEW w \in Workers, NEW t \in Tasks, Claim(w, t)
    PROVE  SInv'
<1> DEFINE s == [NoScan EXCEPT !.at = "opening", !.task = t, !.version = task[t].version + 1]
<1>1. PICK v : NoScan \in ScansAt(v)
  BY NoScanIsScan DEF IsScan
<1>2. s \in ScansAt(task[t].version + 1)
  BY <1>1 DEF ScansAt, Walking
<1>3. IsScan(s) /\ scan' = [scan EXCEPT ![w] = s]
  BY <1>2 DEF IsScan, Claim
<1>4. ScansTyped'
  <2> HIDE DEF s
  <2> QED  BY <1>3, ScanReplaced DEF SInv
<1>5. FilesInOrder'
  BY FilesUntouched DEF SInv, FilesInOrder, Claim, files
<1> QED  BY <1>4, <1>5 DEF SInv

\* The walk adds what is on the disk to what is pending, and no more.
LEMMA WalkKeeps == ASSUME SInv, NEW w \in Workers, Walk(w) PROVE SInv'
<1> DEFINE s == scan[w]
<1>1. PICK version : s \in ScansAt(version)
  BY DEF SInv, ScansTyped, IsScan
<1>2. FilesInOrder'
  BY FilesUntouched DEF SInv, FilesInOrder, Walk, OpenScanSource, WalkFails, Flush, WalkEnds, Look,
     LookFails, Think, files
<1>3. \E r : IsScan(r) /\ scan' = [scan EXCEPT ![w] = r]
  <2>1. CASE OpenScanSource(w)
    <3>1. [s EXCEPT !.at = "walking", !.todo = Paths] \in ScansAt(version)
      BY <1>1 DEF ScansAt, Walking
    <3>2. [s EXCEPT !.at = "finish", !.status = "failed", !.rootCode = TRUE] \in ScansAt(version)
      BY <1>1 DEF ScansAt, ScanStatuses
    <3> QED  BY <2>1, <3>1, <3>2 DEF OpenScanSource, Think, Go, IsScan
  <2>2. CASE WalkFails(w)
    <3>1. [s EXCEPT !.at = "batch", !.then = "root"] \in ScansAt(version)
      BY <1>1 DEF ScansAt, Walking
    <3> QED  BY <2>2, <3>1 DEF WalkFails, Think, Go, IsScan
  <2>3. CASE Flush(w)
    <3>1. [s EXCEPT !.at = "batch", !.then = "walk"] \in ScansAt(version)
      BY <1>1 DEF ScansAt, Walking
    <3> QED  BY <2>3, <3>1 DEF Flush, Think, Go, IsScan
  <2>4. CASE WalkEnds(w)
    <3>1. [s EXCEPT !.at = "batch", !.then = "ok"] \in ScansAt(version)
      BY <1>1 DEF ScansAt, Walking
    <3> QED  BY <2>4, <3>1 DEF WalkEnds, Think, Go, IsScan
  <2>5. ASSUME NEW p \in Paths, Look(w, p) PROVE \E r : IsScan(r) /\ scan' = [scan EXCEPT ![w] = r]
    <3>1. disk[p] \in Facts \cup {NoFacts}
      BY DEF SInv, FilesInOrder
    <3>2. [s EXCEPT !.todo = @ \ {p}, !.pending.files[p] = disk[p]] \in ScansAt(version)
      BY <1>1, <3>1 DEF ScansAt
    <3> QED  BY <2>5, <3>2 DEF Look, Think, Go, IsScan
  <2>6. ASSUME NEW p \in Paths, LookFails(w, p)
        PROVE  \E r : IsScan(r) /\ scan' = [scan EXCEPT ![w] = r]
    <3>1. [s EXCEPT !.todo = @ \ {p}, !.pending.errors = @ \cup {p}] \in ScansAt(version)
      BY <1>1 DEF ScansAt
    <3> QED  BY <2>6, <3>1 DEF LookFails, Go, IsScan
  <2> QED  BY <2>1, <2>2, <2>3, <2>4, <2>5, <2>6 DEF Walk
<1> QED  BY <1>2, <1>3, ScanReplaced DEF SInv

\* A batch is written from what the walk of this worker found.
LEMMA WriteKeeps == ASSUME SInv, NEW w \in Workers, Write(w) PROVE SInv'
<1> DEFINE s == scan[w]
<1>1. IsScan(s)
  BY DEF SInv, ScansTyped
<1>2. PICK version : s \in ScansAt(version)
  BY <1>1 DEF IsScan
<1>3. CASE CheckCancel(w)
  <2>1. [s EXCEPT !.at = "record"] \in ScansAt(version)
    BY <1>2 DEF ScansAt, Walking
  <2>2. IsScan([Stopped(s, "error") EXCEPT !.cancelled = s.then # "abandon"])
    <3>1. (s.then # "abandon") \in BOOLEAN
      OBVIOUS
    <3> HIDE DEF s
    <3> QED  BY <1>1, <3>1, StoppedIsScan
  <2>3. \E r : IsScan(r) /\ scan' = [scan EXCEPT ![w] = r]
    BY <1>3, <2>1, <2>2 DEF CheckCancel, Think, Go, IsScan
  <2>4. FilesInOrder'
    BY <1>3, FilesUntouched DEF SInv, FilesInOrder, CheckCancel, Think, files
  <2> QED  BY <2>3, <2>4, ScanReplaced DEF SInv
<1>4. CASE RecordObservations(w)
  <2>1. CASE ~Holds(w) \/ task[s.task].cancel
    <3>1. IsScan(Stopped(s, IF Holds(w) THEN "error" ELSE "lost"))
      BY <1>1, StoppedIsScan
    <3>2. scan' = [scan EXCEPT ![w] = Stopped(s, IF Holds(w) THEN "error" ELSE "lost")]
      BY <1>4, <2>1 DEF RecordObservations, Think, Go
    <3>3. FilesInOrder'
      BY <1>4, <2>1, FilesUntouched DEF SInv, FilesInOrder, RecordObservations, Think, files
    <3> QED  BY <3>1, <3>2, <3>3, ScanReplaced DEF SInv
  <2>2. CASE ~(~Holds(w) \/ task[s.task].cancel)
    <3>1. s.pending.files \in [Paths -> Facts \cup {NoFacts}]
      BY <1>2 DEF ScansAt
    <3>2. scan' = [scan EXCEPT ![w] = Written(s)] /\ ObserveAll(s.pending.files)
      BY <1>4, <2>2 DEF RecordObservations
    <3>3. FilesInOrder'
      BY <3>1, <3>2, ObserveAllKeeps DEF SInv
    <3> QED  BY <1>1, <3>2, <3>3, WrittenIsScan, ScanReplaced DEF SInv
  <2> QED  BY <2>1, <2>2
<1>5. CASE RecordFails(w)
  <2>1. scan' = [scan EXCEPT ![w] = Stopped(s, "error")]
    BY <1>5 DEF RecordFails, Go
  <2>2. FilesInOrder'
    BY <1>5, FilesUntouched DEF SInv, FilesInOrder, RecordFails, files
  <2> QED  BY <1>1, <2>1, <2>2, StoppedIsScan, ScanReplaced DEF SInv
<1> QED  BY <1>3, <1>4, <1>5 DEF Write

\* The worker stops, decides or finishes; the end of a complete scan marks what it did not see.
LEMMA EndKeeps ==
    ASSUME SInv, NEW w \in Workers, HeartbeatFails(w) \/ Decide(w) \/ Finish(w)
    PROVE  SInv'
<1> DEFINE s == scan[w]
<1>1. PICK version : s \in ScansAt(version)
  BY DEF SInv, ScansTyped, IsScan
<1>2. CASE HeartbeatFails(w)
  <2>1. [s EXCEPT !.at = "batch", !.then = "abandon"] \in ScansAt(version)
    BY <1>1 DEF ScansAt, Walking
  <2>2. \E r : IsScan(r) /\ scan' = [scan EXCEPT ![w] = r]
    BY <1>2, <2>1, NoScanIsScan DEF HeartbeatFails, Go, IsScan
  <2>3. FilesInOrder'
    BY <1>2, FilesUntouched DEF SInv, FilesInOrder, HeartbeatFails, files
  <2> QED  BY <2>2, <2>3, ScanReplaced DEF SInv
<1>3. CASE Decide(w)
  <2> DEFINE To(status, code) == [s EXCEPT !.at = "finish", !.status = status, !.rootCode = code]
  <2>1. \A status \in ScanStatuses, code \in BOOLEAN : To(status, code) \in ScansAt(version)
    BY <1>1 DEF ScansAt
  <2>2. IsScan(To("failed", TRUE)) /\ IsScan(To("cancelled", FALSE)) /\ IsScan(To("completed", FALSE))
            /\ IsScan(To("partial-success", FALSE)) /\ IsScan(To("failed", FALSE))
    BY <2>1 DEF IsScan, ScanStatuses
  <2>3. PICK r : /\ scan' = [scan EXCEPT ![w] = r]
                 /\ r \in {To("failed", TRUE), To("cancelled", FALSE), To("completed", FALSE),
                           To("partial-success", FALSE), To("failed", FALSE), NoScan}
    BY <1>3 DEF Decide, Think, Go
  <2>4. FilesInOrder'
    BY <1>3, FilesUntouched DEF SInv, FilesInOrder, Decide, Think, files
  <2> QED  BY <2>2, <2>3, <2>4, NoScanIsScan, ScanReplaced DEF SInv
<1>4. CASE Finish(w)
  <2>1. scan' = [scan EXCEPT ![w] = NoScan]
    BY <1>4 DEF Finish
  <2>2. FilesInOrder'
    <3>1. CASE UNCHANGED files
      BY <3>1, FilesUntouched DEF SInv, FilesInOrder, files
    <3>2. CASE \E unseen : MarkUnseenMissing(unseen)
      BY <3>2, MarkUnseenMissingKeeps DEF SInv
    <3>3. UNCHANGED files \/ \E unseen : MarkUnseenMissing(unseen)
      BY <1>4 DEF Finish
    <3> QED  BY <3>1, <3>2, <3>3
  <2> QED  BY <2>1, <2>2, NoScanIsScan, ScanReplaced DEF SInv
<1> QED  BY <1>2, <1>3, <1>4

-----------------------------------------------------------------------------
(* The specification. *)

\* No file is tracked at first, and no worker scans.
LEMMA ScanInitInv == ScanInit => SInv
<1> SUFFICES ASSUME ScanInit PROVE SInv
  OBVIOUS
<1>1. \A f \in Facts : NoRevision \in Revisions /\ NoRevision.status \notin Live /\ f # NoFacts
  BY FilesAssumption DEF NoRevision, Revisions, RevisionStatuses, Live
<1>2. Untracked \in TrackedFiles
  BY <1>1 DEF Untracked, TrackedFiles
<1>3. InOrder(Untracked)
  BY <1>1 DEF Untracked, InOrder
<1>4. FilesInOrder
  BY <1>2, <1>3 DEF ScanInit, FilesInit, FilesInOrder
<1>5. ScansTyped
  <2>1. scan = [w \in Workers |-> NoScan]
    BY DEF ScanInit
  <2> QED  BY <2>1, NoScanIsScan DEF ScansTyped
<1> QED  BY <1>4, <1>5 DEF SInv

\* Every step keeps the invariant.
LEMMA ScanNextInv == SInv /\ [ScanNext]_<<files, scans, absent, world>> => SInv'
<1> SUFFICES ASSUME SInv, [ScanNext]_<<files, scans, absent, world>> PROVE SInv'
  OBVIOUS
<1>1. ASSUME UNCHANGED <<files, scan>> PROVE SInv'
  BY <1>1, FilesUntouched, ScansUntouched DEF SInv, FilesInOrder, files
<1>2. CASE Requested
  BY <1>1, <1>2 DEF Requested, Create, Retry, RequestCancel, Bind
<1>3. CASE TimePasses
  <2>1. UNCHANGED scan
    BY <1>3 DEF TimePasses, Rests, Grows, scans
  <2>2. FilesInOrder'
    <3>1. ASSUME NEW p \in Paths, Rests(p) PROVE FilesInOrder'
      BY <3>1, IntervalKeeps DEF Rests, SInv
    <3>2. ASSUME NEW f \in Facts, Grows(f) PROVE FilesInOrder'
      BY <3>2, FilesUntouched DEF Grows, Ages, SInv, FilesInOrder
    <3> QED  BY <1>3, <3>1, <3>2 DEF TimePasses
  <2> QED  BY <2>1, <2>2, ScansUntouched DEF SInv
<1>4. CASE ReclaimExpired \/ Serves \/ Unmounted \/ Remounted \/ InboxRead
  BY <1>1, <1>4 DEF ReclaimExpired, Serves, Unmounted, Remounted, InboxRead, scans
<1>5. ASSUME NEW w \in Workers, Worker(w) PROVE SInv'
  BY <1>5, ClaimKeeps, WalkKeeps, WriteKeeps, EndKeeps DEF Worker
<1>6. ASSUME NEW t \in Tasks, LeaseExpires(t) PROVE SInv'
  BY <1>1, <1>6 DEF LeaseExpires
<1>7. ASSUME NEW p \in Paths, NEW f \in Facts \cup {NoFacts}, Changed(p, f) PROVE SInv'
  <2>1. disk' \in [Paths -> Facts \cup {NoFacts}] /\ UNCHANGED <<tracked, scan>>
    BY <1>7 DEF Changed, scans, SInv, FilesInOrder
  <2> QED  BY <2>1, FilesUntouched, ScansUntouched DEF SInv
<1>8. CASE Died
  <2>1. scan' = [w \in Workers |-> NoScan] /\ UNCHANGED files
    BY <1>8 DEF Died
  <2>2. ScansTyped'
    <3>1. \A w \in Workers : IsScan(scan'[w])
      BY <2>1, NoScanIsScan
    <3> QED  BY <2>1, <3>1 DEF ScansTyped, IsScan, ScansAt
  <2> QED  BY <2>1, <2>2, FilesUntouched DEF SInv, FilesInOrder, files
<1>9. CASE UNCHANGED <<files, scans, absent, world>>
  BY <1>1, <1>9 DEF scans
<1> QED  BY <1>2, <1>3, <1>4, <1>5, <1>6, <1>7, <1>8, <1>9 DEF ScanNext

\* So it holds throughout.
LEMMA ScansStayInOrder == ScanSpec => []SInv
BY ScanInitInv, ScanNextInv, PTL DEF ScanSpec

\* Of the revisions of a file at most the current one is alive, and none of a file that is missing:
\* for any files and facts, any number of tasks and workers, and whatever fails or takes over
\* (observe_in_connection and mark_unseen_missing keep it, and nothing else writes revisions).
THEOREM OneRevisionLives == ScanSpec => []OneLiveRevision
<1>1. SInv => OneLiveRevision
  BY DEF SInv, FilesInOrder, InOrder, OneLiveRevision, Live
<1> QED  BY <1>1, ScansStayInOrder, PTL

-----------------------------------------------------------------------------
(* The lease: every step is a step of FencedLease or changes no lease. *)


Ended == {"completed", "partial-success", "failed", "cancelled"}

RowsInOrder ==
    /\ task \in [Tasks -> Rows]
    /\ \A t \in Tasks :
        /\ task[t].status # "absent" => task[t].attempts # << >> /\ task[t].version # 0
        /\ task[t].lapsed => task[t].status = "running"

\* A scan that is about to finish knows what its task will be.
FinishesEnded == \A w \in Workers : scan[w].at = "finish" => scan[w].status \in Ended

LInv == SInv /\ RowsInOrder /\ FinishesEnded

-----------------------------------------------------------------------------
(* Rows. *)

\* A row in use, with the columns of the lease as given.
Row(r, status, version, lapsed) ==
    /\ r \in Rows /\ r.attempts # << >>
    /\ r.status = status /\ r.version = version /\ r.lapsed = lapsed

\* What is announced is no column of the lease.
LEMMA AnnounceRow ==
    ASSUME NEW r \in Rows, r.attempts # << >>, NEW status \in ScanStatuses, NEW recovering \in BOOLEAN
    PROVE  Row(Announce(r, status, recovering), r.status, r.version, r.lapsed)
BY DEF Announce, Row, Rows

\* Nor is an attempt that opens.
LEMMA OpenAttemptRow ==
    ASSUME NEW r \in Rows, NEW reason \in {"initial", "manual_retry", "recovery"},
           NEW status \in ScanStatuses
    PROVE  /\ Row(OpenAttempt(r, reason, status), r.status, r.version, r.lapsed)
           /\ OpenAttempt(r, reason, status).recovering = r.recovering
<1> DEFINE a == [reason |-> reason, status |-> status]
           more == Append(r.attempts, a)
<1>1. a \in ScanAttempt
  BY DEF ScanAttempt
<1>2. r.attempts \in Seq(ScanAttempt)
  BY DEF Rows
<1>3. more \in Seq(ScanAttempt) /\ more # << >>
  BY <1>1, <1>2
<1>4. OpenAttempt(r, reason, status) = [r EXCEPT !.attempts = more, !.errors = {}]
  BY DEF OpenAttempt
<1> HIDE DEF more
<1> QED  BY <1>3, <1>4 DEF Row, Rows

\* Nor is one whose status changes.
LEMMA AttemptRow ==
    ASSUME NEW r \in Rows, r.attempts # << >>, NEW status \in ScanStatuses
    PROVE  /\ Row([r EXCEPT !.attempts[Current(r)].status = status], r.status, r.version, r.lapsed)
           /\ [r EXCEPT !.attempts[Current(r)].status = status].recovering = r.recovering
<1> DEFINE i == Len(r.attempts)
           changed == [r.attempts EXCEPT ![i] = [r.attempts[i] EXCEPT !.status = status]]
<1>1. r.attempts \in Seq(ScanAttempt) /\ i \in 1 .. Len(r.attempts)
  BY DEF Rows
<1>2. [r.attempts[i] EXCEPT !.status = status] \in ScanAttempt
  <2>1. PICK a \in ScanAttempt : r.attempts[i] = a
    BY <1>1
  <2>2. [a EXCEPT !.status = status] \in ScanAttempt
    BY DEF ScanAttempt
  <2> QED  BY <2>1, <2>2
<1>3. changed \in Seq(ScanAttempt) /\ Len(changed) = Len(r.attempts)
  BY <1>1, <1>2
<1>4. changed # << >>
  BY <1>1, <1>3
<1>5. [r EXCEPT !.attempts[Current(r)].status = status] = [r EXCEPT !.attempts = changed]
  BY DEF Current
<1> HIDE DEF changed
<1> QED  BY <1>3, <1>4, <1>5 DEF Row, Rows

\* Or one that closes.
LEMMA CloseAttemptRow ==
    ASSUME NEW r \in Rows, r.attempts # << >>, NEW status \in ScanStatuses
    PROVE  /\ Row(CloseAttempt(r, status), r.status, r.version, r.lapsed)
           /\ CloseAttempt(r, status).recovering = r.recovering
BY AttemptRow DEF CloseAttempt, Row

\* A new task is queued at version 1, with nothing leased.
LEMMA NewRowRow ==
    ASSUME NEW reason \in ScanReasons PROVE Row(NewRow(reason), "queued", 1, FALSE)
<1>1. Absent \in Rows /\ Absent.version = 0 /\ Absent.lapsed = FALSE
  BY DEF Absent, Rows, ScanReasons, ScanStatuses
<1> DEFINE opened == OpenAttempt(Absent, "initial", "queued")
           queued == [opened EXCEPT !.reason = reason, !.status = "queued", !.version = 1]
<1>2. Row(opened, Absent.status, Absent.version, Absent.lapsed)
  BY <1>1, OpenAttemptRow DEF ScanStatuses
<1>3. queued \in Rows /\ queued.attempts # << >>
          /\ queued.status = "queued" /\ queued.version = 1 /\ queued.lapsed = FALSE
  <2> HIDE DEF opened
  <2> QED  BY <1>1, <1>2 DEF Row, Rows, ScanReasons, ScanStatuses
<1>4. Row(Announce(queued, "queued", FALSE), "queued", 1, FALSE)
  <2> HIDE DEF queued
  <2> QED  BY <1>3, AnnounceRow DEF ScanStatuses
<1> QED  BY <1>4 DEF NewRow

\* A claim takes a row at the next version.
LEMMA ClaimedRow ==
    ASSUME NEW r \in Rows, r.attempts # << >>, NEW w \in Workers
    PROVE  Row(Claimed(r, w), "running", r.version + 1, FALSE)
<1> DEFINE taken == r.status = "running"
           started == IF taken THEN OpenAttempt(CloseAttempt(r, "failed"), "recovery", "running")
                      ELSE [r EXCEPT !.attempts[Current(r)].status = "running"]
           recovering == taken \/ r.recovering
           held == [started EXCEPT !.status = "running", !.recovering = recovering, !.owner = w,
                                   !.lapsed = FALSE, !.version = @ + 1]
<1>1. started \in Rows /\ started.attempts # << >> /\ started.version = r.version
  <2>1. CASE taken
    <3>1. Row(CloseAttempt(r, "failed"), r.status, r.version, r.lapsed)
      BY CloseAttemptRow DEF ScanStatuses
    <3>2. Row(OpenAttempt(CloseAttempt(r, "failed"), "recovery", "running"), r.status, r.version, r.lapsed)
      BY <3>1, OpenAttemptRow DEF ScanStatuses, Row
    <3> QED  BY <2>1, <3>2 DEF Row
  <2>2. CASE ~taken
    <3>1. Row([r EXCEPT !.attempts[Current(r)].status = "running"], r.status, r.version, r.lapsed)
      BY AttemptRow DEF ScanStatuses
    <3> QED  BY <2>2, <3>1 DEF Row
  <2> QED  BY <2>1, <2>2
<1>2. recovering \in BOOLEAN
  BY DEF Rows
<1> HIDE DEF started, recovering
<1>3. held \in Rows /\ held.attempts # << >> /\ held.status = "running"
          /\ held.version = r.version + 1 /\ held.lapsed = FALSE
  <2>1. started.version + 1 \in Nat /\ "running" \in ScanStatuses /\ w \in Workers \cup {NoOwner}
    BY <1>1 DEF Rows, ScanStatuses
  <2>2. held \in Rows
    BY <1>1, <1>2, <2>1 DEF Rows
  <2>3. held.attempts = started.attempts /\ held.status = "running"
            /\ held.version = started.version + 1 /\ held.lapsed = FALSE
    BY <1>1 DEF Rows
  <2> QED  BY <1>1, <2>2, <2>3
<1>4. Row(Announce(held, "running", recovering), "running", r.version + 1, FALSE)
  <2> HIDE DEF held
  <2> QED  BY <1>2, <1>3, AnnounceRow DEF ScanStatuses
<1> QED  BY <1>4 DEF Claimed, held, started, recovering

\* A row taken back at the start of the process is queued at the next version.
LEMMA ReclaimedRow ==
    ASSUME NEW r \in Rows, r.attempts # << >>
    PROVE  Row(Reclaimed(r), "queued", r.version + 1, FALSE)
<1> DEFINE opened == OpenAttempt(CloseAttempt(r, "failed"), "recovery", "queued")
           queued == [opened EXCEPT !.status = "queued", !.recovering = TRUE, !.owner = NoOwner,
                                    !.lapsed = FALSE, !.version = @ + 1]
<1>1. Row(CloseAttempt(r, "failed"), r.status, r.version, r.lapsed)
  BY CloseAttemptRow DEF ScanStatuses
<1>2. opened \in Rows /\ opened.attempts # << >> /\ opened.version = r.version
  BY <1>1, OpenAttemptRow DEF ScanStatuses, Row
<1> HIDE DEF opened
<1>3. queued \in Rows /\ queued.attempts # << >> /\ queued.status = "queued"
          /\ queued.version = r.version + 1 /\ queued.lapsed = FALSE
  <2>1. opened.version + 1 \in Nat /\ "queued" \in ScanStatuses /\ NoOwner \in Workers \cup {NoOwner}
    BY <1>2 DEF Rows, ScanStatuses
  <2>2. queued \in Rows
    BY <1>2, <2>1 DEF Rows
  <2>3. queued.attempts = opened.attempts /\ queued.status = "queued"
            /\ queued.version = opened.version + 1 /\ queued.lapsed = FALSE
    BY <1>2 DEF Rows
  <2> QED  BY <1>2, <2>2, <2>3
<1>4. Row(Announce(queued, "queued", TRUE), "queued", r.version + 1, FALSE)
  <2> HIDE DEF queued
  <2> QED  BY <1>3, AnnounceRow DEF ScanStatuses
<1> QED  BY <1>4 DEF Reclaimed, queued, opened

\* A row that is finished ends at the next version.
LEMMA FinishedRowRow ==
    ASSUME NEW r \in Rows, r.attempts # << >>, NEW s, s.status \in Ended, s.rootCode \in BOOLEAN
    PROVE  Row(FinishedRow(r, s), s.status, r.version + 1, r.lapsed)
<1> DEFINE closed == CloseAttempt(r, s.status)
           ended == [closed EXCEPT !.status = s.status, !.recovering = FALSE, !.cancel = FALSE,
                        !.owner = NoOwner, !.version = @ + 1, !.rootFailed = @ \/ s.rootCode]
<1>1. s.status \in ScanStatuses
  BY DEF Ended, ScanStatuses
<1>2. closed \in Rows /\ closed.attempts # << >> /\ closed.version = r.version /\ closed.lapsed = r.lapsed
  BY <1>1, CloseAttemptRow DEF Row
<1> HIDE DEF closed
<1>3. (closed.rootFailed \/ s.rootCode) \in BOOLEAN
  BY <1>2 DEF Rows
<1>4. ended \in Rows /\ ended.attempts # << >> /\ ended.status = s.status
          /\ ended.version = r.version + 1 /\ ended.lapsed = r.lapsed
  <2>1. closed.version + 1 \in Nat /\ NoOwner \in Workers \cup {NoOwner}
    BY <1>2 DEF Rows
  <2>2. ended \in Rows
    BY <1>1, <1>2, <1>3, <2>1 DEF Rows
  <2>3. ended.attempts = closed.attempts /\ ended.status = s.status
            /\ ended.version = closed.version + 1 /\ ended.lapsed = closed.lapsed
    BY <1>2 DEF Rows
  <2> QED  BY <1>2, <2>2, <2>3
<1>5. Row(Announce(ended, s.status, FALSE), s.status, r.version + 1, r.lapsed)
  <2> HIDE DEF ended
  <2> QED  BY <1>1, <1>4, AnnounceRow
<1> QED  BY <1>5 DEF FinishedRow, ended, closed

\* A batch changes no column of the lease.
LEMMA RecordedRow ==
    ASSUME NEW r \in Rows, r.attempts # << >>,
           NEW pending \in [files : [Paths -> Facts \cup {NoFacts}], errors : SUBSET Paths]
    PROVE  Row(Recorded(r, pending), r.status, r.version, r.lapsed)
<1> DEFINE seen == [p \in Paths |-> IF pending.files[p] # NoFacts THEN Current(r) ELSE r.seen[p]]
<1>1. Current(r) \in Nat
  BY DEF Current, Rows
<1>2. seen \in [Paths -> Nat] /\ r.errors \cup pending.errors \in SUBSET Paths
  BY <1>1 DEF Rows
<1>3. Recorded(r, pending) = [r EXCEPT !.seen = seen, !.errors = r.errors \cup pending.errors]
  BY DEF Recorded
<1> HIDE DEF seen
<1> QED  BY <1>2, <1>3 DEF Row, Rows

\* A retry is a new attempt of a row at its next version, queued again.
LEMMA RetriedRow ==
    ASSUME NEW r \in Rows, r.attempts # << >>
    PROVE  Row(Announce([OpenAttempt(r, "manual_retry", "queued") EXCEPT !.status = "queued",
                            !.recovering = FALSE, !.cancel = FALSE, !.version = @ + 1],
                        "queued", FALSE),
               "queued", r.version + 1, r.lapsed)
<1> DEFINE opened == OpenAttempt(r, "manual_retry", "queued")
           queued == [opened EXCEPT !.status = "queued", !.recovering = FALSE, !.cancel = FALSE,
                                    !.version = @ + 1]
<1>1. opened \in Rows /\ opened.attempts # << >> /\ opened.version = r.version /\ opened.lapsed = r.lapsed
  BY OpenAttemptRow DEF ScanStatuses, Row
<1> HIDE DEF opened
<1>2. queued \in Rows
  <2>1. opened.version + 1 \in Nat /\ "queued" \in ScanStatuses
    BY <1>1 DEF Rows, ScanStatuses
  <2> QED  BY <1>1, <2>1 DEF Rows
<1>3. queued.attempts = opened.attempts /\ queued.status = "queued"
          /\ queued.version = opened.version + 1 /\ queued.lapsed = opened.lapsed
  BY <1>1 DEF Rows
<1>4. Row(Announce(queued, "queued", FALSE), "queued", r.version + 1, r.lapsed)
  <2> HIDE DEF queued
  <2> QED  BY <1>1, <1>2, <1>3, AnnounceRow DEF ScanStatuses
<1> QED  BY <1>4 DEF queued, opened

\* A queued row that is cancelled ends at its next version.
LEMMA CancelledRow ==
    ASSUME NEW r \in Rows, r.attempts # << >>
    PROVE  Row(Announce([CloseAttempt(r, "cancelled") EXCEPT !.status = "cancelled",
                            !.cancel = FALSE, !.version = @ + 1], "cancelled", r.recovering),
               "cancelled", r.version + 1, r.lapsed)
<1> DEFINE closed == CloseAttempt(r, "cancelled")
           ended == [closed EXCEPT !.status = "cancelled", !.cancel = FALSE, !.version = @ + 1]
<1>1. closed \in Rows /\ closed.attempts # << >> /\ closed.version = r.version /\ closed.lapsed = r.lapsed
  BY CloseAttemptRow DEF ScanStatuses, Row
<1> HIDE DEF closed
<1>2. ended \in Rows
  <2>1. closed.version + 1 \in Nat /\ "cancelled" \in ScanStatuses
    BY <1>1 DEF Rows, ScanStatuses
  <2> QED  BY <1>1, <2>1 DEF Rows
<1>3. ended.attempts = closed.attempts /\ ended.status = "cancelled"
          /\ ended.version = closed.version + 1 /\ ended.lapsed = closed.lapsed
  BY <1>1 DEF Rows
<1>4. r.recovering \in BOOLEAN
  BY DEF Rows
<1>5. Row(Announce(ended, "cancelled", r.recovering), "cancelled", r.version + 1, r.lapsed)
  <2> HIDE DEF ended
  <2> QED  BY <1>1, <1>2, <1>3, <1>4, AnnounceRow DEF ScanStatuses
<1> QED  BY <1>5 DEF ended, closed

\* A running row is only marked.
LEMMA MarkedRow ==
    ASSUME NEW r \in Rows, r.attempts # << >>
    PROVE  Row(Announce([r EXCEPT !.cancel = TRUE], "running", r.recovering),
               r.status, r.version, r.lapsed)
<1> DEFINE marked == [r EXCEPT !.cancel = TRUE]
<1>1. marked \in Rows /\ marked.attempts = r.attempts /\ marked.status = r.status
          /\ marked.version = r.version /\ marked.lapsed = r.lapsed
  BY DEF Rows
<1>2. r.recovering \in BOOLEAN
  BY DEF Rows
<1> HIDE DEF marked
<1>3. Row(Announce(marked, "running", r.recovering), r.status, r.version, r.lapsed)
  BY <1>1, <1>2, AnnounceRow DEF ScanStatuses
<1> QED  BY <1>3 DEF marked

-----------------------------------------------------------------------------
(* Steps. *)

\* A step of the lease, or one that changes no lease.
LeaseStep == ScanLeases!Next \/ UNCHANGED ScanLeases!vars

\* Leases are the same when the three columns are, and tickets are when workers keep their task.
SameLeases ==
    \A t \in Tasks : /\ task'[t].status = task[t].status
                     /\ task'[t].version = task[t].version
                     /\ task'[t].lapsed = task[t].lapsed

SameTickets ==
    \A w \in Workers : scan'[w].task = scan[w].task /\ scan'[w].version = scan[w].version

\* A step that leaves both stutters.
LEMMA NoLeaseChanges == ASSUME SameLeases, SameTickets PROVE LeaseStep
<1>1. UNCHANGED ScanLeases!vars
  BY DEF SameLeases, SameTickets, ScanLeases!vars
<1> QED  BY <1>1 DEF LeaseStep

\* A worker that forgets its scan drops its ticket.
LEMMA ForgettingDrops ==
    ASSUME ScansTyped, SameLeases, NEW w \in Workers,
           NEW s, s.task = NoTask, scan' = [scan EXCEPT ![w] = s]
    PROVE  LeaseStep
<1>1. \A v \in Workers : scan'[v] = IF v = w THEN s ELSE scan[v]
  BY DEF ScansTyped
<1>2. ScanLeases!Drop(w)
  BY <1>1 DEF SameLeases, ScanLeases!Drop, ScanLeases!NoTicket
<1> QED  BY <1>2 DEF LeaseStep, ScanLeases!Next

\* A worker that goes on with its scan, or forgets it, is good for the lease and the invariant.
LEMMA ScanGoesOn ==
    ASSUME LInv, SameLeases, NEW w \in Workers, NEW s, scan' = [scan EXCEPT ![w] = s],
           s.task = NoTask \/ (s.task = scan[w].task /\ s.version = scan[w].version),
           s.at = "finish" => s.status \in Ended
    PROVE  LeaseStep /\ FinishesEnded'
<1>1. \A v \in Workers : scan'[v] = IF v = w THEN s ELSE scan[v]
  BY DEF LInv, SInv, ScansTyped
<1>2. FinishesEnded'
  BY <1>1 DEF LInv, FinishesEnded
<1>3. CASE s.task = NoTask
  BY <1>2, <1>3, ForgettingDrops DEF LInv, SInv
<1>4. CASE s.task = scan[w].task /\ s.version = scan[w].version
  <2>1. SameTickets
    BY <1>1, <1>4 DEF SameTickets
  <2> QED  BY <1>2, <2>1, NoLeaseChanges
<1> QED  BY <1>3, <1>4

\* A row is replaced by one whose lapsed lease, if any, is that of a running task.
LEMMA RowReplaced ==
    ASSUME RowsInOrder, NEW t \in Tasks, NEW r, NEW status, NEW version, NEW lapsed,
           Row(r, status, version, lapsed), version # 0, lapsed => status = "running",
           task' = [task EXCEPT ![t] = r]
    PROVE  /\ RowsInOrder'
           /\ \A u \in Tasks : task'[u] = IF u = t THEN r ELSE task[u]
<1>1. \A u \in Tasks : task'[u] = IF u = t THEN r ELSE task[u]
  BY DEF RowsInOrder
<1>2. task' \in [Tasks -> Rows]
  BY DEF RowsInOrder, Row
<1>3. RowsInOrder'
  BY <1>1, <1>2 DEF RowsInOrder, Row
<1> QED  BY <1>1, <1>3

\* A request changes a row that nobody holds, at its next version.
LEMMA RequestTouches ==
    ASSUME LInv, NEW t \in Tasks, task[t].status # "running",
           NEW r, NEW status \in {"queued", "cancelled"},
           Row(r, status, task[t].version + 1, task[t].lapsed),
           task' = [task EXCEPT ![t] = r], UNCHANGED scan
    PROVE  RowsInOrder' /\ LeaseStep
<1>1. task[t].version \in Nat /\ task[t].lapsed = FALSE
  BY DEF LInv, RowsInOrder, Rows
<1>2. task[t].version + 1 # 0
  BY <1>1
<1>3. /\ RowsInOrder'
      /\ \A u \in Tasks : task'[u] = IF u = t THEN r ELSE task[u]
  BY <1>1, <1>2, RowReplaced DEF LInv
<1>4. ScanLeases!Touch({t})
  BY <1>3 DEF ScanLeases!Touch, Row
<1>5. {t} \in SUBSET Tasks
  OBVIOUS
<1> QED  BY <1>3, <1>4, <1>5 DEF LeaseStep, ScanLeases!Next

\* Whoever asks, for a scan, its retry or its end.
LEMMA RequestSteps == ASSUME LInv, Requested PROVE RowsInOrder' /\ LeaseStep /\ UNCHANGED scan
<1>1. UNCHANGED scan
  BY DEF Requested, Create, Retry, RequestCancel, Bind
<1>2. ASSUME NEW t \in Tasks, task[t].status # "absent"
      PROVE  task[t] \in Rows /\ task[t].attempts # << >> /\ task[t].version # 0
  BY <1>2 DEF LInv, RowsInOrder
<1>3. ASSUME NEW k \in Keys, NEW t \in Tasks, Create(k, t) PROVE RowsInOrder' /\ LeaseStep
  <2>1. task[t] = Absent /\ task' = [task EXCEPT ![t] = NewRow("manual")]
    BY <1>3 DEF Create, Insert
  <2>2. task[t].status = "absent" /\ task[t].version = 0 /\ task[t].lapsed = FALSE
    BY <2>1 DEF Absent
  <2>3. Row(NewRow("manual"), "queued", task[t].version + 1, task[t].lapsed)
    <3>1. task[t].version + 1 = 1
      BY <2>2
    <3> QED  BY <2>2, <3>1, NewRowRow DEF Row, ScanReasons
  <2> QED  BY <1>1, <2>1, <2>2, <2>3, RequestTouches
<1>4. ASSUME NEW k \in Keys, NEW t \in Tasks, Retry(k, t) PROVE RowsInOrder' /\ LeaseStep
  <2> DEFINE r == task[t]
             again == Announce([OpenAttempt(r, "manual_retry", "queued") EXCEPT !.status = "queued",
                                    !.recovering = FALSE, !.cancel = FALSE, !.version = @ + 1],
                               "queued", FALSE)
  <2>1. r.status \in {"failed", "partial-success"} /\ task' = [task EXCEPT ![t] = again]
    BY <1>4 DEF Retry
  <2>2. Row(again, "queued", task[t].version + 1, task[t].lapsed)
    BY <1>2, <2>1, RetriedRow
  <2> HIDE DEF again
  <2> QED  BY <1>1, <2>1, <2>2, RequestTouches
<1>5. ASSUME NEW k \in Keys, NEW t \in Tasks, RequestCancel(k, t) PROVE RowsInOrder' /\ LeaseStep
  <2> DEFINE r == task[t]
  <2>1. r.status \in Open
    BY <1>5 DEF RequestCancel
  <2>2. r \in Rows /\ r.attempts # << >> /\ r.version # 0
    BY <1>2, <2>1 DEF Open
  <2>3. CASE r.status = "queued"
    <3> DEFINE ended == Announce([CloseAttempt(r, "cancelled") EXCEPT !.status = "cancelled",
                                    !.cancel = FALSE, !.version = @ + 1], "cancelled", r.recovering)
    <3>1. task' = [task EXCEPT ![t] = ended]
      BY <1>5, <2>3 DEF RequestCancel
    <3>2. Row(ended, "cancelled", task[t].version + 1, task[t].lapsed)
      BY <2>2, CancelledRow
    <3> HIDE DEF ended
    <3> QED  BY <1>1, <2>3, <3>1, <3>2, RequestTouches
  <2>4. CASE r.status = "running"
    <3> DEFINE marked == Announce([r EXCEPT !.cancel = TRUE], "running", r.recovering)
    <3>1. task' = [task EXCEPT ![t] = marked]
      BY <1>5, <2>4 DEF RequestCancel
    <3>2. Row(marked, r.status, r.version, r.lapsed)
      BY <2>2, MarkedRow
    <3> HIDE DEF marked
    <3>3. RowsInOrder' /\ \A u \in Tasks : task'[u] = IF u = t THEN marked ELSE task[u]
      BY <2>2, <2>4, <3>1, <3>2, RowReplaced DEF LInv
    <3>4. SameLeases /\ SameTickets
      BY <1>1, <3>2, <3>3 DEF SameLeases, SameTickets, Row
    <3> QED  BY <3>3, <3>4, NoLeaseChanges
  <2> QED  BY <2>1, <2>3, <2>4 DEF Open
<1> QED  BY <1>1, <1>3, <1>4, <1>5 DEF Requested

\* A claim is a grant under the next number.
LEMMA ClaimGrants ==
    ASSUME LInv, NEW w \in Workers, NEW t \in Tasks, Claim(w, t)
    PROVE  RowsInOrder' /\ FinishesEnded' /\ LeaseStep
<1> DEFINE s == [NoScan EXCEPT !.at = "opening", !.task = t, !.version = task[t].version + 1]
<1>1. s.at = "opening" /\ s.task = t /\ s.version = task[t].version + 1 /\ NoScan.task = NoTask
  BY DEF NoScan
<1>2. /\ scan[w] = NoScan /\ task' = [task EXCEPT ![t] = Claimed(task[t], w)]
      /\ scan' = [scan EXCEPT ![w] = s]
  BY DEF Claim
<1>3. task[t].status = "queued" \/ (task[t].status = "running" /\ task[t].lapsed)
  BY DEF Claim, Oldest, Claimable
<1>4. task[t] \in Rows /\ task[t].attempts # << >> /\ task[t].version \in Nat
  BY <1>3 DEF LInv, RowsInOrder, Rows
<1>5. Row(Claimed(task[t], w), "running", task[t].version + 1, FALSE)
  BY <1>4, ClaimedRow
<1>6. /\ RowsInOrder'
      /\ \A u \in Tasks : task'[u] = IF u = t THEN Claimed(task[t], w) ELSE task[u]
  <2>1. task[t].version + 1 # 0
    BY <1>4
  <2> QED  BY <1>2, <1>5, <2>1, RowReplaced DEF LInv
<1> HIDE DEF s
<1>7. \A v \in Workers : scan'[v] = IF v = w THEN s ELSE scan[v]
  BY <1>2 DEF LInv, SInv, ScansTyped
<1>8. FinishesEnded'
  BY <1>1, <1>7 DEF LInv, FinishesEnded
<1>9. ScanLeases!Grant(w, t)
  <2>1. NoTask # t
    BY TasksAssumption
  <2>2. task'[t].status = "running" /\ task'[t].version = task[t].version + 1 /\ task'[t].lapsed = FALSE
    BY <1>5, <1>6 DEF Row
  <2>3. \A u \in Tasks : u # t => task'[u] = task[u]
    BY <1>6
  <2> DEFINE holder == [u \in Tasks |-> IF task[u].status = "running" THEN task[u].version ELSE 0]
             issued == [u \in Tasks |-> task[u].version]
             lapsed == [u \in Tasks |-> task[u].lapsed]
             ticket == [v \in Workers |-> IF scan[v].task = NoTask THEN [grant |-> 0]
                                          ELSE [resource |-> scan[v].task, grant |-> scan[v].version]]
  <2>4. ticket[w] = [grant |-> 0] /\ (holder[t] = 0 \/ lapsed[t])
    BY <1>1, <1>2, <1>3
  <2>5. holder' = [holder EXCEPT ![t] = issued[t] + 1]
    BY <2>2, <2>3
  <2>6. issued' = [issued EXCEPT ![t] = issued[t] + 1]
    BY <2>2, <2>3
  <2>7. lapsed' = [lapsed EXCEPT ![t] = FALSE]
    BY <2>2, <2>3
  <2>8. ticket' = [ticket EXCEPT ![w] = [resource |-> t, grant |-> issued[t] + 1]]
    BY <1>1, <1>7, <2>1
  <2> QED
    BY <2>4, <2>5, <2>6, <2>7, <2>8 DEF ScanLeases!Grant, ScanLeases!NoTicket
<1> QED  BY <1>6, <1>8, <1>9 DEF LeaseStep, ScanLeases!Next

\* What a scan may become while its worker keeps it or forgets it.
GoesOn(s, r) ==
    /\ r.task = NoTask \/ (r.task = s.task /\ r.version = s.version)
    /\ r.at = "finish" => r.status \in Ended

\* A worker that only thinks writes no row.
LEMMA ThinkingSteps ==
    ASSUME LInv, NEW w \in Workers, UNCHANGED task,
           NEW r, scan' = [scan EXCEPT ![w] = r], GoesOn(scan[w], r)
    PROVE  RowsInOrder' /\ FinishesEnded' /\ LeaseStep
<1>1. SameLeases
  BY DEF SameLeases
<1>2. RowsInOrder'
  BY DEF LInv, RowsInOrder
<1> QED  BY <1>1, <1>2, ScanGoesOn DEF GoesOn

\* A scan that is stopped decides what its task will be later, or is forgotten.
LEMMA StoppedGoesOn ==
    ASSUME NEW s, IsScan(s), NEW verdict, NEW cancelled
    PROVE  /\ GoesOn(s, Stopped(s, verdict))
           /\ s.then # "abandon" => GoesOn(s, [Stopped(s, verdict) EXCEPT !.cancelled = cancelled])
<1>1. PICK version : s \in ScansAt(version)
  BY DEF IsScan
<1>2. CASE s.then = "abandon"
  BY <1>2 DEF GoesOn, Stopped, NoScan
<1>3. CASE s.then # "abandon"
  BY <1>1, <1>3 DEF GoesOn, Stopped, ScansAt
<1> QED  BY <1>2, <1>3

\* The walk writes no row, and a root that is gone makes it fail.
LEMMA WalkSteps ==
    ASSUME LInv, NEW w \in Workers, Walk(w)
    PROVE  RowsInOrder' /\ FinishesEnded' /\ LeaseStep
<1> DEFINE s == scan[w]
<1>1. PICK version : s \in ScansAt(version)
  BY DEF LInv, SInv, ScansTyped, IsScan
<1>2. UNCHANGED task
  BY DEF Walk, OpenScanSource, WalkFails, Flush, WalkEnds, Look, LookFails, Think, Go
<1>3. \E r : scan' = [scan EXCEPT ![w] = r] /\ GoesOn(s, r)
  <2>1. CASE OpenScanSource(w)
    <3>1. GoesOn(s, [s EXCEPT !.at = "walking", !.todo = Paths])
      BY <1>1 DEF GoesOn, ScansAt
    <3>2. GoesOn(s, [s EXCEPT !.at = "finish", !.status = "failed", !.rootCode = TRUE])
      BY <1>1 DEF GoesOn, ScansAt, Ended
    <3> QED  BY <2>1, <3>1, <3>2 DEF OpenScanSource, Think, Go
  <2>2. CASE WalkFails(w)
    <3>1. GoesOn(s, [s EXCEPT !.at = "batch", !.then = "root"])
      BY <1>1 DEF GoesOn, ScansAt
    <3> QED  BY <2>2, <3>1 DEF WalkFails, Think, Go
  <2>3. CASE Flush(w)
    <3>1. GoesOn(s, [s EXCEPT !.at = "batch", !.then = "walk"])
      BY <1>1 DEF GoesOn, ScansAt
    <3> QED  BY <2>3, <3>1 DEF Flush, Think, Go
  <2>4. CASE WalkEnds(w)
    <3>1. GoesOn(s, [s EXCEPT !.at = "batch", !.then = "ok"])
      BY <1>1 DEF GoesOn, ScansAt
    <3> QED  BY <2>4, <3>1 DEF WalkEnds, Think, Go
  <2>5. ASSUME NEW p \in Paths, Look(w, p)
        PROVE  \E r : scan' = [scan EXCEPT ![w] = r] /\ GoesOn(s, r)
    <3>1. GoesOn(s, [s EXCEPT !.todo = @ \ {p}, !.pending.files[p] = disk[p]])
      BY <1>1, <2>5 DEF GoesOn, ScansAt, Look
    <3> QED  BY <2>5, <3>1 DEF Look, Think, Go
  <2>6. ASSUME NEW p \in Paths, LookFails(w, p)
        PROVE  \E r : scan' = [scan EXCEPT ![w] = r] /\ GoesOn(s, r)
    <3>1. GoesOn(s, [s EXCEPT !.todo = @ \ {p}, !.pending.errors = @ \cup {p}])
      BY <1>1, <2>6 DEF GoesOn, ScansAt, LookFails
    <3> QED  BY <2>6, <3>1 DEF LookFails, Go
  <2> QED  BY <2>1, <2>2, <2>3, <2>4, <2>5, <2>6 DEF Walk
<1> QED  BY <1>2, <1>3, ThinkingSteps

\* A batch changes no column of the lease.
LEMMA WriteSteps ==
    ASSUME LInv, NEW w \in Workers, Write(w)
    PROVE  RowsInOrder' /\ FinishesEnded' /\ LeaseStep
<1> DEFINE s == scan[w]
<1>1. IsScan(s)
  BY DEF LInv, SInv, ScansTyped
<1>2. PICK version : s \in ScansAt(version)
  BY <1>1 DEF IsScan
<1>3. CASE CheckCancel(w)
  <2>1. GoesOn(s, [s EXCEPT !.at = "record"])
    BY <1>2 DEF GoesOn, ScansAt
  <2>2. GoesOn(s, [Stopped(s, "error") EXCEPT !.cancelled = s.then # "abandon"])
    <3>1. CASE s.then = "abandon"
      <4>1. [NoScan EXCEPT !.cancelled = FALSE].task = NoTask
                /\ [NoScan EXCEPT !.cancelled = FALSE].at = "idle"
        BY DEF NoScan
      <4> QED  BY <3>1, <4>1 DEF Stopped, GoesOn
    <3>2. CASE s.then # "abandon"
      <4> HIDE DEF s
      <4> QED  BY <1>1, <3>2, StoppedGoesOn
    <3> QED  BY <3>1, <3>2
  <2>3. \E r : scan' = [scan EXCEPT ![w] = r] /\ GoesOn(s, r)
    BY <1>3, <2>1, <2>2 DEF CheckCancel, Think, Go
  <2> QED  BY <1>3, <2>3, ThinkingSteps DEF CheckCancel, Think, Go
<1>4. CASE RecordFails(w)
  <2>1. scan' = [scan EXCEPT ![w] = Stopped(s, "error")] /\ UNCHANGED task
    BY <1>4 DEF RecordFails, Go
  <2> QED  BY <1>1, <2>1, StoppedGoesOn, ThinkingSteps
<1>5. CASE RecordObservations(w)
  <2>1. CASE ~Holds(w) \/ task[s.task].cancel
    <3>1. /\ scan' = [scan EXCEPT ![w] = Stopped(s, IF Holds(w) THEN "error" ELSE "lost")]
          /\ UNCHANGED task
      BY <1>5, <2>1 DEF RecordObservations, Think, Go
    <3> QED  BY <1>1, <3>1, StoppedGoesOn, ThinkingSteps
  <2>2. CASE ~(~Holds(w) \/ task[s.task].cancel)
    <3> DEFINE t == s.task
               r == Recorded(task[t], s.pending)
    <3>1. /\ task' = [task EXCEPT ![t] = r] /\ scan' = [scan EXCEPT ![w] = Written(s)]
          /\ t \in Tasks /\ task[t].status = "running"
      BY <1>2, <1>5, <2>2 DEF RecordObservations, Holds, ScansAt
    <3>2. task[t] \in Rows /\ task[t].attempts # << >> /\ task[t].version # 0
      BY <3>1 DEF LInv, RowsInOrder
    <3>3. Row(r, task[t].status, task[t].version, task[t].lapsed)
      BY <1>2, <3>2, RecordedRow DEF ScansAt
    <3>4. GoesOn(s, Written(s))
      <4>1. CASE s.then = "abandon"
        BY <4>1 DEF GoesOn, Written, NoScan
      <4>2. CASE s.then # "abandon"
        BY <1>2, <4>2 DEF GoesOn, Written, ScansAt
      <4> QED  BY <4>1, <4>2
    <3> HIDE DEF r
    <3>5. RowsInOrder' /\ \A u \in Tasks : task'[u] = IF u = t THEN r ELSE task[u]
      BY <3>1, <3>2, <3>3, RowReplaced DEF LInv
    <3>6. SameLeases
      BY <3>3, <3>5 DEF SameLeases, Row
    <3> QED  BY <3>1, <3>4, <3>5, <3>6, ScanGoesOn DEF GoesOn
  <2> QED  BY <2>1, <2>2
<1> QED  BY <1>3, <1>4, <1>5 DEF Write

\* The worker stops, or knows what its task will be.
LEMMA DecisionSteps ==
    ASSUME LInv, NEW w \in Workers, HeartbeatFails(w) \/ Decide(w)
    PROVE  RowsInOrder' /\ FinishesEnded' /\ LeaseStep
<1> DEFINE s == scan[w]
<1>1. PICK version : s \in ScansAt(version)
  BY DEF LInv, SInv, ScansTyped, IsScan
<1>2. GoesOn(s, NoScan)
  BY DEF GoesOn, NoScan
<1>3. CASE HeartbeatFails(w)
  <2>1. GoesOn(s, [s EXCEPT !.at = "batch", !.then = "abandon"])
    BY <1>1 DEF GoesOn, ScansAt
  <2>2. \E r : scan' = [scan EXCEPT ![w] = r] /\ GoesOn(s, r)
    BY <1>2, <1>3, <2>1 DEF HeartbeatFails, Go
  <2> QED  BY <1>3, <2>2, ThinkingSteps DEF HeartbeatFails, Go
<1>4. CASE Decide(w)
  <2> DEFINE To(status, code) == [s EXCEPT !.at = "finish", !.status = status, !.rootCode = code]
  <2>1. \A status \in Ended, code \in BOOLEAN : GoesOn(s, To(status, code))
    BY <1>1 DEF GoesOn, ScansAt
  <2>2. GoesOn(s, To("failed", TRUE)) /\ GoesOn(s, To("cancelled", FALSE))
            /\ GoesOn(s, To("completed", FALSE)) /\ GoesOn(s, To("partial-success", FALSE))
            /\ GoesOn(s, To("failed", FALSE))
    BY <2>1 DEF Ended
  <2>3. PICK r : /\ scan' = [scan EXCEPT ![w] = r]
                 /\ r \in {To("failed", TRUE), To("cancelled", FALSE), To("completed", FALSE),
                           To("partial-success", FALSE), To("failed", FALSE), NoScan}
    BY <1>4 DEF Decide, Think, Go
  <2>4. GoesOn(s, r)
    BY <1>2, <2>2, <2>3
  <2> QED  BY <1>4, <2>3, <2>4, ThinkingSteps DEF Decide, Think, Go
<1> QED  BY <1>3, <1>4

\* A worker that still holds its task finishes it; one that was taken over drops its ticket.
LEMMA FinishSteps ==
    ASSUME LInv, NEW w \in Workers, Finish(w)
    PROVE  RowsInOrder' /\ FinishesEnded' /\ LeaseStep
<1> DEFINE s == scan[w]
<1>1. PICK version : s \in ScansAt(version)
  BY DEF LInv, SInv, ScansTyped, IsScan
<1>2. s.at = "finish" /\ s.status \in Ended /\ scan' = [scan EXCEPT ![w] = NoScan]
  BY DEF Finish, LInv, FinishesEnded
<1>3. GoesOn(s, NoScan)
  BY DEF GoesOn, NoScan
<1>4. CASE ~Holds(w)
  BY <1>2, <1>3, <1>4, ThinkingSteps DEF Finish
<1>5. CASE Holds(w)
  <2>0. PICK t \in Tasks : t = s.task
    BY <1>1, <1>5 DEF Holds, ScansAt
  <2> DEFINE r == FinishedRow(task[t], s)
  <2>1. /\ s.task = t /\ t # NoTask /\ task[t].status = "running" /\ task[t].version = s.version
        /\ task[t].lapsed = FALSE
        /\ task' = [task EXCEPT ![t] = r]
    BY <1>5, <2>0, TasksAssumption DEF Holds, Finish, LInv, RowsInOrder, Rows
  <2>2. task[t] \in Rows /\ task[t].attempts # << >> /\ task[t].version # 0 /\ task[t].version \in Nat
    BY <2>1 DEF LInv, RowsInOrder, Rows
  <2>3. Row(r, s.status, task[t].version + 1, FALSE)
    <3>1. s.rootCode \in BOOLEAN
      BY <1>1 DEF ScansAt
    <3>2. Row(r, s.status, task[t].version + 1, task[t].lapsed)
      BY <1>2, <2>2, <3>1, FinishedRowRow
    <3> QED  BY <2>1, <3>2
  <2> HIDE DEF r
  <2>4. RowsInOrder' /\ \A u \in Tasks : task'[u] = IF u = t THEN r ELSE task[u]
    <3>1. task[t].version + 1 # 0
      BY <2>2
    <3> QED  BY <2>1, <2>3, <3>1, RowReplaced DEF LInv
  <2>5. \A v \in Workers : scan'[v] = IF v = w THEN NoScan ELSE scan[v]
    BY <1>2 DEF LInv, SInv, ScansTyped
  <2>6. NoScan.task = NoTask /\ NoScan.at # "finish"
    BY DEF NoScan
  <2>7. FinishesEnded'
    BY <2>5, <2>6 DEF LInv, FinishesEnded
  <2>8. task'[t].status # "running" /\ task'[t].version = task[t].version + 1 /\ task'[t].lapsed = FALSE
    BY <1>2, <2>3, <2>4 DEF Row, Ended
  <2>9. ScanLeases!Finish(w, t)
    <3> DEFINE holder == [u \in Tasks |-> IF task[u].status = "running" THEN task[u].version ELSE 0]
               issued == [u \in Tasks |-> task[u].version]
               lapsed == [u \in Tasks |-> task[u].lapsed]
               ticket == [v \in Workers |-> IF scan[v].task = NoTask THEN [grant |-> 0]
                                            ELSE [resource |-> scan[v].task, grant |-> scan[v].version]]
    <3>1. ScanLeases!Valid(w, t)
      <4>1. ticket[w] = [resource |-> t, grant |-> s.version]
        BY <2>1
      <4>2. ticket[w] # [grant |-> 0] /\ ticket[w].resource = t /\ ticket[w].grant = holder[t]
                /\ holder[t] # 0
        BY <2>1, <2>2, <4>1
      <4> QED  BY <4>2 DEF ScanLeases!Valid, ScanLeases!NoTicket
    <3>2. holder' = [holder EXCEPT ![t] = 0]
      BY <2>4, <2>8
    <3>3. lapsed' = [lapsed EXCEPT ![t] = FALSE]
      BY <2>4, <2>8
    <3>4. issued' = [issued EXCEPT ![t] = issued[t] + 1]
      BY <2>4, <2>8
    <3>5. ticket' = [ticket EXCEPT ![w] = [grant |-> 0]]
      BY <2>5, <2>6
    <3> QED
      BY <3>1, <3>2, <3>3, <3>4, <3>5 DEF ScanLeases!Finish, ScanLeases!NoTicket
  <2> QED  BY <2>1, <2>4, <2>7, <2>9 DEF LeaseStep, ScanLeases!Next
<1> QED  BY <1>4, <1>5

\* The start of the process revokes every lapsed lease at once.
LEMMA ReclaimRevokes ==
    ASSUME LInv, ReclaimExpired
    PROVE  RowsInOrder' /\ FinishesEnded' /\ LeaseStep
<1>1. /\ UNCHANGED scan
      /\ task' = [t \in Tasks |-> IF task[t].status = "running" /\ task[t].lapsed
                                  THEN Reclaimed(task[t]) ELSE task[t]]
  BY DEF ReclaimExpired
<1>2. ASSUME NEW t \in Tasks, task[t].lapsed
      PROVE  /\ task'[t] \in Rows /\ task'[t].attempts # << >>
             /\ task'[t].status = "queued" /\ task[t].status = "running"
             /\ task'[t].version = task[t].version + 1 /\ task'[t].version # 0
             /\ task'[t].lapsed = FALSE
  <2>1. task[t].status = "running" /\ task[t] \in Rows /\ task[t].attempts # << >>
    BY <1>2 DEF LInv, RowsInOrder
  <2>2. task'[t] = Reclaimed(task[t])
    BY <1>1, <1>2, <2>1
  <2>3. Row(task'[t], "queued", task[t].version + 1, FALSE)
    BY <2>1, <2>2, ReclaimedRow
  <2>4. task[t].version \in Nat
    BY <2>1 DEF Rows
  <2> QED  BY <2>1, <2>3, <2>4 DEF Row
<1>3. ASSUME NEW t \in Tasks, ~task[t].lapsed
      PROVE  task'[t] = task[t] /\ task[t] \in Rows /\ task[t].lapsed = FALSE
  BY <1>1, <1>3 DEF LInv, RowsInOrder, Rows
<1>4. task' = [t \in Tasks |-> task'[t]]
  BY <1>1
<1>5. RowsInOrder'
  <2>1. ASSUME NEW t \in Tasks
        PROVE  /\ task'[t] \in Rows
               /\ task'[t].status # "absent" => task'[t].attempts # << >> /\ task'[t].version # 0
               /\ task'[t].lapsed => task'[t].status = "running"
    <3>1. CASE task[t].lapsed
      BY <1>2, <3>1
    <3>2. CASE ~task[t].lapsed
      BY <1>3, <3>2 DEF LInv, RowsInOrder
    <3> QED  BY <3>1, <3>2
  <2> QED  BY <1>4, <2>1 DEF RowsInOrder
<1>6. FinishesEnded'
  BY <1>1 DEF LInv, FinishesEnded
<1>7. ScanLeases!RevokeLapsed
  <2>1. ASSUME NEW t \in Tasks
        PROVE  /\ task'[t].status = "running" <=> task[t].status = "running" /\ ~task[t].lapsed
               /\ task'[t].version = IF task[t].lapsed THEN task[t].version + 1 ELSE task[t].version
               /\ task'[t].lapsed = FALSE
    <3>1. CASE task[t].lapsed
      BY <1>2, <3>1
    <3>2. CASE ~task[t].lapsed
      BY <1>3, <3>2
    <3> QED  BY <3>1, <3>2
  <2> QED  BY <1>1, <2>1 DEF ScanLeases!RevokeLapsed
<1> QED  BY <1>5, <1>6, <1>7 DEF LeaseStep, ScanLeases!Next

\* Time passes over a lease.
LEMMA ExpirySteps ==
    ASSUME LInv, NEW t \in Tasks, LeaseExpires(t)
    PROVE  RowsInOrder' /\ FinishesEnded' /\ LeaseStep
<1> DEFINE r == [task[t] EXCEPT !.lapsed = TRUE]
<1>1. task[t].status = "running" /\ task' = [task EXCEPT ![t] = r] /\ UNCHANGED scan
  BY DEF LeaseExpires
<1>2. task[t] \in Rows /\ task[t].attempts # << >> /\ task[t].version # 0
  BY <1>1 DEF LInv, RowsInOrder
<1>3. Row(r, "running", task[t].version, TRUE)
  BY <1>1, <1>2 DEF Row, Rows
<1> HIDE DEF r
<1>4. RowsInOrder' /\ \A u \in Tasks : task'[u] = IF u = t THEN r ELSE task[u]
  BY <1>1, <1>2, <1>3, RowReplaced DEF LInv
<1>5. FinishesEnded'
  BY <1>1 DEF LInv, FinishesEnded
<1>6. ScanLeases!Lapse(t)
  <2> DEFINE holder == [u \in Tasks |-> IF task[u].status = "running" THEN task[u].version ELSE 0]
             issued == [u \in Tasks |-> task[u].version]
             lapsed == [u \in Tasks |-> task[u].lapsed]
             ticket == [v \in Workers |-> IF scan[v].task = NoTask THEN [grant |-> 0]
                                          ELSE [resource |-> scan[v].task, grant |-> scan[v].version]]
  <2>1. r.status = task[t].status /\ r.version = task[t].version /\ r.lapsed = TRUE
    BY <1>1, <1>3 DEF Row
  <2>2. \A u \in Tasks : task'[u].status = task[u].status /\ task'[u].version = task[u].version
    BY <1>4, <2>1
  <2>3. holder[t] # 0
    BY <1>1, <1>2
  <2>4. UNCHANGED holder
    BY <2>2
  <2>5. UNCHANGED issued
    BY <2>2
  <2>6. UNCHANGED ticket
    BY <1>1
  <2>7. lapsed' = [lapsed EXCEPT ![t] = TRUE]
    BY <1>4, <2>1
  <2> QED  BY <2>3, <2>4, <2>5, <2>6, <2>7 DEF ScanLeases!Lapse
<1> QED  BY <1>4, <1>5, <1>6 DEF LeaseStep, ScanLeases!Next

\* The process dies with all tickets.
LEMMA DeathSteps ==
    ASSUME LInv, Died
    PROVE  RowsInOrder' /\ FinishesEnded' /\ LeaseStep
<1>1. UNCHANGED task /\ scan' = [w \in Workers |-> NoScan]
  BY DEF Died
<1>2. NoScan.task = NoTask /\ NoScan.at = "idle"
  BY DEF NoScan
<1>3. RowsInOrder'
  BY <1>1 DEF LInv, RowsInOrder
<1>4. FinishesEnded'
  BY <1>1, <1>2 DEF FinishesEnded
<1>5. ScanLeases!Crash
  BY <1>1, <1>2 DEF ScanLeases!Crash, ScanLeases!NoTicket
<1> QED  BY <1>3, <1>4, <1>5 DEF LeaseStep, ScanLeases!Next

-----------------------------------------------------------------------------
(* The specification. *)

\* Nothing is leased at first.
LEMMA LeaseInit == ScanInit => RowsInOrder /\ FinishesEnded /\ ScanLeases!Init
<1> SUFFICES ASSUME ScanInit PROVE RowsInOrder /\ FinishesEnded /\ ScanLeases!Init
  OBVIOUS
<1>1. task = [t \in Tasks |-> Absent] /\ scan = [w \in Workers |-> NoScan]
  BY DEF ScanInit
<1>2. Absent \in Rows /\ Absent.status = "absent" /\ Absent.version = 0 /\ Absent.lapsed = FALSE
  BY DEF Absent, Rows, ScanReasons, ScanStatuses
<1>3. NoScan.task = NoTask /\ NoScan.at = "idle"
  BY DEF NoScan
<1>4. RowsInOrder /\ FinishesEnded
  BY <1>1, <1>2, <1>3 DEF RowsInOrder, FinishesEnded
<1>5. ScanLeases!Init
  BY <1>1, <1>2, <1>3 DEF ScanLeases!Init, ScanLeases!NoTicket
<1> QED  BY <1>4, <1>5

\* Every step is one of the lease.
LEMMA LeaseNext ==
    LInv /\ [ScanNext]_<<files, scans, absent, world>> => RowsInOrder' /\ FinishesEnded' /\ LeaseStep
<1> SUFFICES ASSUME LInv, [ScanNext]_<<files, scans, absent, world>>
             PROVE  RowsInOrder' /\ FinishesEnded' /\ LeaseStep
  OBVIOUS
<1>1. ASSUME UNCHANGED <<task, scan>> PROVE RowsInOrder' /\ FinishesEnded' /\ LeaseStep
  <2>1. RowsInOrder' /\ FinishesEnded'
    BY <1>1 DEF LInv, RowsInOrder, FinishesEnded
  <2>2. SameLeases /\ SameTickets
    BY <1>1 DEF SameLeases, SameTickets
  <2> QED  BY <2>1, <2>2, NoLeaseChanges
<1>2. CASE Requested
  <2>1. RowsInOrder' /\ LeaseStep /\ UNCHANGED scan
    BY <1>2, RequestSteps
  <2>2. FinishesEnded'
    BY <2>1 DEF LInv, FinishesEnded
  <2> QED  BY <2>1, <2>2
<1>3. CASE TimePasses \/ Serves \/ Unmounted \/ Remounted \/ InboxRead
  BY <1>1, <1>3 DEF TimePasses, Rests, Grows, Serves, Unmounted, Remounted, InboxRead, scans
<1>4. CASE ReclaimExpired
  BY <1>4, ReclaimRevokes
<1>5. ASSUME NEW w \in Workers, Worker(w) PROVE RowsInOrder' /\ FinishesEnded' /\ LeaseStep
  BY <1>5, ClaimGrants, WalkSteps, WriteSteps, DecisionSteps, FinishSteps DEF Worker
<1>6. ASSUME NEW t \in Tasks, LeaseExpires(t) PROVE RowsInOrder' /\ FinishesEnded' /\ LeaseStep
  BY <1>6, ExpirySteps
<1>7. ASSUME NEW p \in Paths, NEW f \in Facts \cup {NoFacts}, Changed(p, f)
      PROVE  RowsInOrder' /\ FinishesEnded' /\ LeaseStep
  BY <1>1, <1>7 DEF Changed, scans
<1>8. CASE Died
  BY <1>8, DeathSteps
<1>9. CASE UNCHANGED <<files, scans, absent, world>>
  BY <1>1, <1>9 DEF scans
<1> QED  BY <1>2, <1>3, <1>4, <1>5, <1>6, <1>7, <1>8, <1>9 DEF ScanNext

FencedBatch ==
    \A t \in Tasks : TakesBatch(task[t], task'[t]) =>
        \E w \in Workers : scan'[w] # scan[w] /\ ScanLeases!Valid(w, t) /\ ~task[t].lapsed

\* One row is replaced: it counts the write, or keeps what the batches put there.
LEMMA NoBatchTaken ==
    ASSUME RowsInOrder, NEW t \in Tasks, NEW r, task' = [task EXCEPT ![t] = r],
           r.version = task[t].version + 1 \/ (r.seen = task[t].seen /\ r.errors = task[t].errors)
    PROVE  FencedBatch
<1>1. \A u \in Tasks : task[u].version \in Nat /\ task'[u] = IF u = t THEN r ELSE task[u]
  BY DEF RowsInOrder, Rows
<1> QED  BY <1>1 DEF FencedBatch, TakesBatch

\* Requests of users write no batch.
LEMMA RequestsTakeNone == ASSUME LInv, Requested PROVE FencedBatch
<1>0. \A t \in Tasks : task[t].status # "absent" => task[t] \in Rows /\ task[t].attempts # << >>
  BY DEF LInv, RowsInOrder
<1>1. ASSUME NEW k \in Keys, NEW t \in Tasks, Create(k, t) PROVE FencedBatch
  <2>1. task[t] = Absent /\ task' = [task EXCEPT ![t] = NewRow("manual")]
    BY <1>1 DEF Create, Insert
  <2>2. NewRow("manual").version = 1 /\ task[t].version = 0
    BY <2>1, NewRowRow DEF Row, ScanReasons, Absent
  <2>3. NewRow("manual").version = task[t].version + 1
    BY <2>2
  <2> QED  BY <2>1, <2>3, NoBatchTaken DEF LInv
<1>2. ASSUME NEW k \in Keys, NEW t \in Tasks, Retry(k, t) PROVE FencedBatch
  <2> DEFINE r == task[t]
             again == Announce([OpenAttempt(r, "manual_retry", "queued") EXCEPT !.status = "queued",
                                    !.recovering = FALSE, !.cancel = FALSE, !.version = @ + 1],
                               "queued", FALSE)
  <2>1. r.status \in {"failed", "partial-success"} /\ task' = [task EXCEPT ![t] = again]
    BY <1>2 DEF Retry
  <2>2. r \in Rows /\ r.attempts # << >>
    BY <1>0, <2>1
  <2>3. Row(again, "queued", task[t].version + 1, task[t].lapsed)
    BY <2>2, RetriedRow
  <2> HIDE DEF again
  <2> QED  BY <2>1, <2>3, NoBatchTaken DEF LInv, Row
<1>3. ASSUME NEW k \in Keys, NEW t \in Tasks, RequestCancel(k, t) PROVE FencedBatch
  <2> DEFINE r == task[t]
             ended == Announce([CloseAttempt(r, "cancelled") EXCEPT !.status = "cancelled",
                                    !.cancel = FALSE, !.version = @ + 1], "cancelled", r.recovering)
             marked == Announce([r EXCEPT !.cancel = TRUE], "running", r.recovering)
  <2>1. r \in Rows /\ r.attempts # << >>
    BY <1>0, <1>3 DEF RequestCancel, Open
  <2>2. task' = [task EXCEPT ![t] = ended] \/ task' = [task EXCEPT ![t] = marked]
    BY <1>3 DEF RequestCancel
  <2>3. Row(ended, "cancelled", r.version + 1, r.lapsed)
    BY <2>1, CancelledRow
  <2>4. marked.seen = r.seen /\ marked.errors = r.errors
    BY <2>1 DEF Announce, Rows
  <2> HIDE DEF ended, marked
  <2> QED  BY <2>2, <2>3, <2>4, NoBatchTaken DEF LInv, Row
<1> QED  BY <1>1, <1>2, <1>3 DEF Requested

\* A batch that is written.
LEMMA RecordIsFenced == ASSUME LInv, NEW w \in Workers, RecordObservations(w) PROVE FencedBatch
<1> DEFINE s == scan[w]
<1>1. CASE ~Holds(w) \/ task[s.task].cancel
  BY <1>1 DEF RecordObservations, Think, Go, FencedBatch, TakesBatch
<1>2. CASE Holds(w) /\ ~task[s.task].cancel
  <2>1. /\ s.at = "record" /\ scan' = [scan EXCEPT ![w] = Written(s)]
        /\ task' = [task EXCEPT ![s.task] = Recorded(task[s.task], s.pending)]
    BY <1>2 DEF RecordObservations
  <2>2. \E version : s \in ScansAt(version)
    BY DEF LInv, SInv, ScansTyped, IsScan
  <2>3. Written(s).at # "record"
    BY <2>2 DEF Written, ScansAt, NoScan
  <2>4. s.task \in Tasks /\ s.task # NoTask /\ task[s.task].status = "running" /\ ~task[s.task].lapsed
        /\ task[s.task].version = s.version
    BY <1>2, <2>2 DEF Holds, ScansAt
  <2>5. s.version # 0
    BY <2>4 DEF LInv, RowsInOrder
  <2>6. ScanLeases!Valid(w, s.task)
    BY <2>4, <2>5 DEF ScanLeases!Valid, ScanLeases!NoTicket
  <2>7. scan'[w] # scan[w]
    BY <2>1, <2>3 DEF LInv, SInv, ScansTyped
  <2>8. \A t \in Tasks : t # s.task => task'[t] = task[t]
    BY <2>1 DEF LInv, RowsInOrder
  <2> QED  BY <2>4, <2>6, <2>7, <2>8 DEF FencedBatch, TakesBatch
<1> QED  BY <1>1, <1>2

\* Every step: nothing but a batch adds to a row and leaves its version.
LEMMA BatchNext ==
    LInv /\ [ScanNext]_<<files, scans, absent, world>> => FencedBatch
<1> SUFFICES ASSUME LInv, [ScanNext]_<<files, scans, absent, world>> PROVE FencedBatch
  OBVIOUS
<1>0. \A t \in Tasks : task[t].status # "absent" => task[t] \in Rows /\ task[t].attempts # << >>
  BY DEF LInv, RowsInOrder
<1>1. ASSUME UNCHANGED task PROVE FencedBatch
  BY <1>1 DEF FencedBatch, TakesBatch
<1>2. CASE ReclaimExpired
  <2>1. \A t \in Tasks : task'[t] = IF task[t].status = "running" /\ task[t].lapsed
                                    THEN Reclaimed(task[t]) ELSE task[t]
    BY <1>2 DEF ReclaimExpired
  <2>2. ASSUME NEW t \in Tasks, task[t].status = "running" PROVE Reclaimed(task[t]).version # task[t].version
    <3>1. task[t] \in Rows /\ task[t].attempts # << >> /\ task[t].version \in Nat
      BY <1>0, <2>2 DEF Rows
    <3>2. Reclaimed(task[t]).version = task[t].version + 1
      BY <2>2, <3>1, ReclaimedRow DEF Row
    <3> QED  BY <3>1, <3>2
  <2> QED  BY <2>1, <2>2 DEF FencedBatch, TakesBatch
<1>3. ASSUME NEW w \in Workers, NEW t \in Tasks, Claim(w, t) PROVE FencedBatch
  <2>1. task[t].status # "absent" /\ task' = [task EXCEPT ![t] = Claimed(task[t], w)]
    BY <1>3 DEF Claim, Oldest, Claimable
  <2>2. Claimed(task[t], w).version = task[t].version + 1
    BY <1>0, <2>1, ClaimedRow DEF Row
  <2> QED  BY <2>1, <2>2, NoBatchTaken DEF LInv
<1>4. ASSUME NEW w \in Workers, Finish(w) PROVE FencedBatch
  <2> DEFINE s == scan[w]
  <2>1. CASE ~Holds(w)
    BY <1>1, <1>4, <2>1 DEF Finish
  <2>2. CASE Holds(w)
    <3>1. task' = [task EXCEPT ![s.task] = FinishedRow(task[s.task], s)] /\ s.at = "finish"
      BY <1>4, <2>2 DEF Finish
    <3>2. \E version : s \in ScansAt(version)
      BY DEF LInv, SInv, ScansTyped, IsScan
    <3>3. s.task \in Tasks /\ task[s.task].status = "running" /\ s.status \in Ended
      BY <2>2, <3>1, <3>2 DEF Holds, ScansAt, LInv, FinishesEnded
    <3>4. FinishedRow(task[s.task], s).version = task[s.task].version + 1
      BY <1>0, <3>2, <3>3, FinishedRowRow DEF Row, ScansAt
    <3> QED  BY <3>1, <3>3, <3>4, NoBatchTaken DEF LInv
  <2> QED  BY <2>1, <2>2
<1>5. ASSUME NEW w \in Workers, Worker(w) PROVE FencedBatch
  <2>1. CASE Walk(w) \/ HeartbeatFails(w) \/ Decide(w) \/ CheckCancel(w) \/ RecordFails(w)
    <3>1. Walk(w) => UNCHANGED task
      <4>1. OpenScanSource(w) \/ WalkFails(w) \/ Flush(w) \/ WalkEnds(w) => UNCHANGED task
        BY DEF OpenScanSource, WalkFails, Flush, WalkEnds, Think, Go
      <4>2. ASSUME NEW p \in Paths, Look(w, p) \/ LookFails(w, p) PROVE UNCHANGED task
        BY <4>2 DEF Look, LookFails, Think, Go
      <4> QED  BY <4>1, <4>2 DEF Walk
    <3>2. HeartbeatFails(w) \/ RecordFails(w) => UNCHANGED task
      BY DEF HeartbeatFails, RecordFails, Go
    <3>3. Decide(w) => UNCHANGED task
      BY DEF Decide, Think, Go
    <3>4. CheckCancel(w) => UNCHANGED task
      BY DEF CheckCancel, Think, Go
    <3> QED  BY <1>1, <2>1, <3>1, <3>2, <3>3, <3>4
  <2> QED  BY <1>3, <1>4, <1>5, <2>1, RecordIsFenced DEF Worker, Write
<1>6. ASSUME NEW t \in Tasks, LeaseExpires(t) PROVE FencedBatch
  <2> DEFINE r == [task[t] EXCEPT !.lapsed = TRUE]
  <2>1. task[t].status = "running" /\ task' = [task EXCEPT ![t] = r]
    BY <1>6 DEF LeaseExpires
  <2>2. r.seen = task[t].seen /\ r.errors = task[t].errors
    BY <1>0, <2>1 DEF Rows
  <2> HIDE DEF r
  <2> QED  BY <2>1, <2>2, NoBatchTaken DEF LInv
<1>7. CASE TimePasses \/ Serves \/ Unmounted \/ Remounted \/ InboxRead \/ Died
  BY <1>1, <1>7 DEF TimePasses, Rests, Grows, Serves, Unmounted, Remounted, InboxRead, Died, scans
<1>8. ASSUME NEW p \in Paths, NEW f \in Facts \cup {NoFacts}, Changed(p, f) PROVE FencedBatch
  BY <1>1, <1>8 DEF Changed, scans
<1>9. CASE UNCHANGED <<files, scans, absent, world>>
  BY <1>1, <1>9 DEF scans
<1> QED  BY <1>2, <1>5, <1>6, <1>7, <1>8, <1>9, RequestsTakeNone DEF ScanNext

\* The scan tasks implement the fenced lease, for any number of workers, tasks, files and requests:
\* whoever was taken over, by a claim or at the start of the process, can neither finish its task
\* nor write a batch to it, nor have its ticket become good again (claim_next, reclaim_expired,
\* record_observations and finish of tasks/store.rs).
THEOREM ScansAreFenced == ScanSpec => ScanLeaseSpec
<1>1. ScanInit => ScanLeases!Init
  BY LeaseInit
<1>2. ScanSpec => [](RowsInOrder /\ FinishesEnded)
  <2>1. ScanInit => RowsInOrder /\ FinishesEnded
    BY LeaseInit
  <2>2. SInv /\ RowsInOrder /\ FinishesEnded /\ [ScanNext]_<<files, scans, absent, world>>
            => (RowsInOrder /\ FinishesEnded)'
    BY LeaseNext DEF LInv
  <2> QED  BY <2>1, <2>2, ScansStayInOrder, PTL DEF ScanSpec
<1>3. SInv /\ RowsInOrder /\ FinishesEnded /\ [ScanNext]_<<files, scans, absent, world>>
          => [ScanLeases!Next]_(ScanLeases!vars)
  BY LeaseNext DEF LInv, LeaseStep
<1>4. SInv /\ RowsInOrder /\ FinishesEnded /\ [ScanNext]_<<files, scans, absent, world>>
          => [\A t \in Tasks : TakesBatch(task[t], task'[t]) =>
                \E w \in Workers : /\ scan'[w] # scan[w]
                                   /\ ScanLeases!Valid(w, t) /\ ~task[t].lapsed]_<<task, scan>>
  BY BatchNext DEF LInv, FencedBatch
<1>5. ScanSpec => ScanLeases!Spec
  BY <1>1, <1>2, <1>3, ScansStayInOrder, PTL DEF ScanSpec, ScanLeases!Spec
<1>6. ScanSpec => BatchesAreFenced
  BY <1>2, <1>4, ScansStayInOrder, PTL DEF ScanSpec, BatchesAreFenced
<1> QED  BY <1>5, <1>6 DEF ScanLeaseSpec

-----------------------------------------------------------------------------
(* What is kept beside a row. *)

\* The attempts of a task whose row has the given status.
Story(a, status) ==
    /\ a # << >> /\ a[Len(a)].status = status
    /\ a[1].reason = "initial"
    /\ \A i \in 1..(Len(a) - 1) :
        /\ a[i].status \in {"failed", "partial-success"}
        /\ a[i + 1].reason = "manual_retry" \/ (a[i + 1].reason = "recovery" /\ a[i].status = "failed")

\* A row in use agrees with its attempts and with its last event.
RowTells(r) ==
    /\ Story(r.attempts, r.status)
    /\ r.event = [status |-> r.status, recovering |-> r.recovering]

RowsTell == \A t \in Tasks : task[t] = Absent \/ RowTells(task[t])

\* The property is that of every row.
LEMMA RecordsOfRows == RowsTell => ScanRecordsAgree
<1> SUFFICES ASSUME RowsTell PROVE ScanRecordsAgree
  OBVIOUS
<1>1. ScanAttemptLedger
  BY DEF RowsTell, RowTells, Story, ScanAttemptLedger
<1>2. LastEventTellsRow
  <2>1. Absent.event = [status |-> Absent.status, recovering |-> Absent.recovering]
    BY DEF Absent
  <2> QED  BY <2>1 DEF RowsTell, RowTells, LastEventTellsRow
<1> QED  BY <1>1, <1>2 DEF ScanRecordsAgree

\* A story goes on after an attempt that failed, or left files out when the user asks.
LEMMA StoryGoesOn ==
    ASSUME NEW a \in Seq(ScanAttempt), NEW last, Story(a, last), NEW next \in ScanAttempt,
           \/ next.reason = "manual_retry" /\ last \in {"failed", "partial-success"}
           \/ next.reason = "recovery" /\ last = "failed"
    PROVE  Story(Append(a, next), next.status)
<1> DEFINE n == Len(a)
           more == Append(a, next)
<1>1. n \in Nat /\ n >= 1
  BY DEF Story
<1>2. /\ Len(more) = n + 1 /\ more[n + 1] = next /\ more # << >>
      /\ \A i \in 1 .. n : more[i] = a[i]
  OBVIOUS
<1> HIDE DEF more
<1>3. a[n].status = last /\ a[1].reason = "initial"
  BY DEF Story
<1>4. more[1].reason = "initial"
  BY <1>1, <1>2, <1>3
<1>5. ASSUME NEW i \in 1 .. n
      PROVE  /\ more[i].status \in {"failed", "partial-success"}
             /\ \/ more[i + 1].reason = "manual_retry"
                \/ more[i + 1].reason = "recovery" /\ more[i].status = "failed"
  <2>1. CASE i = n
    BY <1>2, <1>3, <2>1
  <2>2. CASE i # n
    <3>1. i \in 1 .. (n - 1) /\ i + 1 \in 1 .. n
      BY <1>1, <2>2
    <3> QED  BY <1>2, <3>1 DEF Story
  <2> QED  BY <2>1, <2>2
<1>6. Len(more) - 1 = n
  BY <1>1, <1>2
<1> QED  BY <1>2, <1>4, <1>5, <1>6 DEF Story, more

\* The last attempt comes to whatever its task comes to.
LEMMA StoryEnds ==
    ASSUME NEW a \in Seq(ScanAttempt), NEW last, Story(a, last), NEW status
    PROVE  Story([a EXCEPT ![Len(a)] = [a[Len(a)] EXCEPT !.status = status]], status)
<1> DEFINE n == Len(a)
           b == [a EXCEPT ![n] = [a[n] EXCEPT !.status = status]]
<1>1. n \in Nat /\ n >= 1 /\ a[n] \in ScanAttempt
  BY DEF Story
<1>2. PICK x \in ScanAttempt : x = a[n]
  BY <1>1
<1>3. [x EXCEPT !.status = status].status = status /\ [x EXCEPT !.status = status].reason = x.reason
  BY DEF ScanAttempt
<1>4. b[n].status = status /\ b[n].reason = a[n].reason
  BY <1>1, <1>2, <1>3
<1>5. \A i \in 1 .. n : i # n => b[i] = a[i]
  BY <1>1
<1>6. Len(b) = n /\ b # << >>
  BY <1>1
<1> HIDE DEF b
<1>7. b[1].reason = "initial"
  BY <1>1, <1>4, <1>5 DEF Story
<1>8. ASSUME NEW i \in 1 .. (n - 1)
      PROVE  /\ b[i].status \in {"failed", "partial-success"}
             /\ \/ b[i + 1].reason = "manual_retry"
                \/ b[i + 1].reason = "recovery" /\ b[i].status = "failed"
  <2>1. i \in 1 .. n /\ i + 1 \in 1 .. n /\ i # n
    BY <1>1
  <2>2. b[i] = a[i] /\ b[i + 1].reason = a[i + 1].reason
    BY <1>4, <1>5, <2>1
  <2> QED  BY <2>2 DEF Story
<1> QED  BY <1>4, <1>6, <1>7, <1>8 DEF Story, b

\* The event that is announced is the last one, and nothing else changes.
LEMMA AnnouncedTells ==
    ASSUME NEW r \in Rows, NEW status, NEW recovering, Story(r.attempts, status),
           r.status = status, r.recovering = recovering
    PROVE  RowTells(Announce(r, status, recovering))
<1> DEFINE told == Announce(r, status, recovering)
<1>1. /\ told.attempts = r.attempts /\ told.status = r.status /\ told.recovering = r.recovering
      /\ told.event = [status |-> status, recovering |-> recovering]
  BY DEF Announce, Rows
<1> HIDE DEF told
<1> QED  BY <1>1 DEF RowTells, told

\* An attempt that opens after the last one.
LEMMA OpenedTells ==
    ASSUME NEW r \in Rows, NEW last, Story(r.attempts, last), NEW status \in ScanStatuses,
           NEW reason \in {"manual_retry", "recovery"},
           last = "failed" \/ (reason = "manual_retry" /\ last = "partial-success")
    PROVE  LET o == OpenAttempt(r, reason, status)
           IN  o \in Rows /\ Story(o.attempts, status) /\ o.recovering = r.recovering
<1> DEFINE next == [reason |-> reason, status |-> status]
           o == OpenAttempt(r, reason, status)
<1>1. next \in ScanAttempt /\ next.reason = reason /\ next.status = status
  BY DEF ScanAttempt
<1>2. r.attempts \in Seq(ScanAttempt) /\ r.attempts # << >>
  BY DEF Rows, Story
<1>3. o.attempts = Append(r.attempts, next)
  BY DEF OpenAttempt, Rows
<1>4. o \in Rows /\ o.recovering = r.recovering
  BY <1>2, OpenAttemptRow DEF Row
<1> HIDE DEF next, o
<1>5. Story(Append(r.attempts, next), next.status)
  BY <1>1, <1>2, StoryGoesOn
<1> QED  BY <1>1, <1>3, <1>4, <1>5 DEF o

\* The last attempt, at whatever status it gets.
LEMMA AttemptTells ==
    ASSUME NEW r \in Rows, NEW last, Story(r.attempts, last), NEW status \in ScanStatuses
    PROVE  LET c == [r EXCEPT !.attempts[Current(r)].status = status]
           IN  c \in Rows /\ Story(c.attempts, status) /\ c.recovering = r.recovering
<1> DEFINE n == Len(r.attempts)
           c == [r EXCEPT !.attempts[Current(r)].status = status]
<1>1. r.attempts \in Seq(ScanAttempt) /\ r.attempts # << >>
  BY DEF Rows, Story
<1>2. c.attempts = [r.attempts EXCEPT ![n] = [r.attempts[n] EXCEPT !.status = status]]
  BY DEF Current, Rows
<1>3. c \in Rows /\ c.recovering = r.recovering
  BY <1>1, AttemptRow DEF Row
<1> HIDE DEF c
<1>4. Story([r.attempts EXCEPT ![n] = [r.attempts[n] EXCEPT !.status = status]], status)
  BY <1>1, StoryEnds
<1> QED  BY <1>2, <1>3, <1>4 DEF c

\* An open attempt is closed.
LEMMA ClosedTells ==
    ASSUME NEW r \in Rows, NEW last \in Open, Story(r.attempts, last), NEW status \in ScanStatuses
    PROVE  LET c == CloseAttempt(r, status)
           IN  c \in Rows /\ Story(c.attempts, status) /\ c.recovering = r.recovering
<1>1. r.attempts[Current(r)].status \in Open
  BY DEF Story, Current
<1>2. CloseAttempt(r, status) = [r EXCEPT !.attempts[Current(r)].status = status]
  BY <1>1 DEF CloseAttempt
<1> QED  BY <1>2, AttemptTells

\* A new task has one attempt.
LEMMA NewRowTells == ASSUME NEW reason \in ScanReasons PROVE RowTells(NewRow(reason))
<1> DEFINE opened == OpenAttempt(Absent, "initial", "queued")
           queued == [opened EXCEPT !.reason = reason, !.status = "queued", !.version = 1]
           next == [reason |-> "initial", status |-> "queued"]
<1>1. Absent \in Rows /\ Absent.attempts = << >> /\ Absent.recovering = FALSE
  BY DEF Absent, Rows, ScanReasons, ScanStatuses
<1>2. opened.attempts = <<next>> /\ opened.recovering = FALSE
  BY <1>1 DEF OpenAttempt, Absent
<1>3. Story(<<next>>, "queued")
  <2> DEFINE a == <<next>>
  <2>1. a # << >> /\ Len(a) = 1 /\ a[1] = next
    OBVIOUS
  <2>2. next.status = "queued" /\ next.reason = "initial"
    OBVIOUS
  <2> HIDE DEF a, next
  <2>3. 1 .. (Len(a) - 1) = {}
    BY <2>1
  <2> QED  BY <2>1, <2>2, <2>3 DEF Story, a
<1>4. opened \in Rows
  <2>1. /\ opened = [Absent EXCEPT !.attempts = <<next>>, !.errors = {}]
        /\ <<next>> \in Seq(ScanAttempt)
    BY <1>1 DEF OpenAttempt, ScanAttempt, ScanStatuses
  <2> HIDE DEF opened, next
  <2> QED  BY <1>1, <2>1 DEF Rows
<1> HIDE DEF opened, next
<1>5. queued \in Rows
  BY <1>4 DEF Rows, ScanReasons, ScanStatuses
<1>6. queued.attempts = opened.attempts /\ queued.status = "queued"
          /\ queued.recovering = opened.recovering
  BY <1>4 DEF Rows
<1> HIDE DEF queued
<1>7. RowTells(Announce(queued, "queued", FALSE))
  BY <1>2, <1>3, <1>5, <1>6, AnnouncedTells
<1>8. NewRow(reason) = Announce(queued, "queued", FALSE)
  BY DEF NewRow, queued, opened
<1> QED  BY <1>7, <1>8

\* A retry of the user follows an attempt that failed or left files out.
LEMMA RetriedTells ==
    ASSUME NEW r \in Rows, RowTells(r), r.status \in {"failed", "partial-success"}
    PROVE  RowTells(Announce([OpenAttempt(r, "manual_retry", "queued") EXCEPT !.status = "queued",
                                !.recovering = FALSE, !.cancel = FALSE, !.version = @ + 1],
                             "queued", FALSE))
<1> DEFINE opened == OpenAttempt(r, "manual_retry", "queued")
           queued == [opened EXCEPT !.status = "queued", !.recovering = FALSE, !.cancel = FALSE,
                                    !.version = @ + 1]
<1>1. opened \in Rows /\ Story(opened.attempts, "queued")
  BY OpenedTells DEF RowTells, ScanStatuses
<1> HIDE DEF opened
<1>2. queued \in Rows
  <2>1. opened.version + 1 \in Nat /\ "queued" \in ScanStatuses
    BY <1>1 DEF Rows, ScanStatuses
  <2> QED  BY <1>1, <2>1 DEF Rows
<1>3. queued.attempts = opened.attempts /\ queued.status = "queued" /\ queued.recovering = FALSE
  BY <1>1 DEF Rows
<1> HIDE DEF queued
<1>4. RowTells(Announce(queued, "queued", FALSE))
  BY <1>1, <1>2, <1>3, AnnouncedTells
<1> QED  BY <1>4 DEF queued, opened

\* A queued task that is cancelled ends with its attempt.
LEMMA CancelledTells ==
    ASSUME NEW r \in Rows, RowTells(r), r.status = "queued"
    PROVE  RowTells(Announce([CloseAttempt(r, "cancelled") EXCEPT !.status = "cancelled",
                                !.cancel = FALSE, !.version = @ + 1], "cancelled", r.recovering))
<1> DEFINE closed == CloseAttempt(r, "cancelled")
           ended == [closed EXCEPT !.status = "cancelled", !.cancel = FALSE, !.version = @ + 1]
<1>1. closed \in Rows /\ Story(closed.attempts, "cancelled") /\ closed.recovering = r.recovering
  BY ClosedTells DEF RowTells, ScanStatuses, Open
<1> HIDE DEF closed
<1>2. ended \in Rows
  <2>1. closed.version + 1 \in Nat /\ "cancelled" \in ScanStatuses
    BY <1>1 DEF Rows, ScanStatuses
  <2> QED  BY <1>1, <2>1 DEF Rows
<1>3. ended.attempts = closed.attempts /\ ended.status = "cancelled"
          /\ ended.recovering = closed.recovering
  BY <1>1 DEF Rows
<1> HIDE DEF ended
<1>4. RowTells(Announce(ended, "cancelled", r.recovering))
  BY <1>1, <1>2, <1>3, AnnouncedTells
<1> QED  BY <1>4 DEF ended, closed

\* A running task that is marked runs on.
LEMMA MarkedTells ==
    ASSUME NEW r \in Rows, RowTells(r), r.status = "running"
    PROVE  RowTells(Announce([r EXCEPT !.cancel = TRUE], "running", r.recovering))
<1> DEFINE marked == [r EXCEPT !.cancel = TRUE]
<1>1. marked \in Rows
  BY DEF Rows
<1>2. marked.attempts = r.attempts /\ marked.status = r.status /\ marked.recovering = r.recovering
  BY DEF Rows
<1> HIDE DEF marked
<1>3. RowTells(Announce(marked, "running", r.recovering))
  BY <1>1, <1>2, AnnouncedTells DEF RowTells
<1> QED  BY <1>3 DEF marked

\* A claim starts the attempt that waits, or gives up one whose worker is gone and opens another.
LEMMA ClaimedTells ==
    ASSUME NEW r \in Rows, RowTells(r), r.status \in {"queued", "running"}, NEW w \in Workers
    PROVE  RowTells(Claimed(r, w))
<1> DEFINE taken == r.status = "running"
           started == IF taken THEN OpenAttempt(CloseAttempt(r, "failed"), "recovery", "running")
                      ELSE [r EXCEPT !.attempts[Current(r)].status = "running"]
           recovering == taken \/ r.recovering
           held == [started EXCEPT !.status = "running", !.recovering = recovering, !.owner = w,
                                   !.lapsed = FALSE, !.version = @ + 1]
<1>1. started \in Rows /\ Story(started.attempts, "running")
  <2>1. CASE taken
    <3>1. PICK c \in Rows : c = CloseAttempt(r, "failed") /\ Story(c.attempts, "failed")
      BY ClosedTells DEF RowTells, ScanStatuses, Open
    <3>2. OpenAttempt(c, "recovery", "running") \in Rows
              /\ Story(OpenAttempt(c, "recovery", "running").attempts, "running")
      BY <3>1, OpenedTells DEF ScanStatuses
    <3> QED  BY <2>1, <3>1, <3>2
  <2>2. CASE ~taken
    <3> DEFINE c == [r EXCEPT !.attempts[Current(r)].status = "running"]
    <3>1. c \in Rows /\ Story(c.attempts, "running")
      BY AttemptTells DEF RowTells, ScanStatuses
    <3>2. started = c
      BY <2>2
    <3> QED  BY <3>1, <3>2
  <2> QED  BY <2>1, <2>2
<1>2. recovering \in BOOLEAN
  BY DEF Rows
<1> HIDE DEF started, recovering
<1>3. held \in Rows
  <2>1. started.version + 1 \in Nat /\ "running" \in ScanStatuses /\ w \in Workers \cup {NoOwner}
    BY <1>1 DEF Rows, ScanStatuses
  <2> QED  BY <1>1, <1>2, <2>1 DEF Rows
<1>4. held.attempts = started.attempts /\ held.status = "running" /\ held.recovering = recovering
  BY <1>1 DEF Rows
<1> HIDE DEF held
<1>5. RowTells(Announce(held, "running", recovering))
  BY <1>1, <1>3, <1>4, AnnouncedTells
<1> QED  BY <1>5 DEF Claimed, held, started, recovering

\* A task that is taken back waits with an attempt of its own.
LEMMA ReclaimedTells ==
    ASSUME NEW r \in Rows, RowTells(r), r.status = "running"
    PROVE  RowTells(Reclaimed(r))
<1> DEFINE opened == OpenAttempt(CloseAttempt(r, "failed"), "recovery", "queued")
           queued == [opened EXCEPT !.status = "queued", !.recovering = TRUE, !.owner = NoOwner,
                                    !.lapsed = FALSE, !.version = @ + 1]
<1>1. opened \in Rows /\ Story(opened.attempts, "queued")
  <2>1. PICK c \in Rows : c = CloseAttempt(r, "failed") /\ Story(c.attempts, "failed")
    BY ClosedTells DEF RowTells, ScanStatuses, Open
  <2> QED  BY <2>1, OpenedTells DEF ScanStatuses
<1> HIDE DEF opened
<1>2. queued \in Rows
  <2>1. opened.version + 1 \in Nat /\ "queued" \in ScanStatuses /\ NoOwner \in Workers \cup {NoOwner}
    BY <1>1 DEF Rows, ScanStatuses
  <2> QED  BY <1>1, <2>1 DEF Rows
<1>3. queued.attempts = opened.attempts /\ queued.status = "queued" /\ queued.recovering = TRUE
  BY <1>1 DEF Rows
<1> HIDE DEF queued
<1>4. RowTells(Announce(queued, "queued", TRUE))
  BY <1>1, <1>2, <1>3, AnnouncedTells
<1> QED  BY <1>4 DEF Reclaimed, queued, opened

\* A task that is finished ends with its attempt.
LEMMA FinishedTells ==
    ASSUME NEW r \in Rows, RowTells(r), r.status = "running",
           NEW s, s.status \in Ended, s.rootCode \in BOOLEAN
    PROVE  RowTells(FinishedRow(r, s))
<1> DEFINE closed == CloseAttempt(r, s.status)
           ended == [closed EXCEPT !.status = s.status, !.recovering = FALSE, !.cancel = FALSE,
                        !.owner = NoOwner, !.version = @ + 1, !.rootFailed = @ \/ s.rootCode]
<1>1. s.status \in ScanStatuses
  BY DEF Ended, ScanStatuses
<1>2. closed \in Rows /\ Story(closed.attempts, s.status)
  BY <1>1, ClosedTells DEF RowTells, Open
<1> HIDE DEF closed
<1>3. ended \in Rows
  <2>1. (closed.rootFailed \/ s.rootCode) \in BOOLEAN
    BY <1>2 DEF Rows
  <2>2. closed.version + 1 \in Nat /\ NoOwner \in Workers \cup {NoOwner}
    BY <1>2 DEF Rows
  <2> QED  BY <1>1, <1>2, <2>1, <2>2 DEF Rows
<1>4. ended.attempts = closed.attempts /\ ended.status = s.status /\ ended.recovering = FALSE
  BY <1>2 DEF Rows
<1> HIDE DEF ended
<1>5. RowTells(Announce(ended, s.status, FALSE))
  BY <1>2, <1>3, <1>4, AnnouncedTells
<1> QED  BY <1>5 DEF FinishedRow, ended, closed

\* A batch adds to what the attempt saw, and time takes its lease away: neither is told.
LEMMA HeldTells ==
    ASSUME NEW r \in Rows, RowTells(r)
    PROVE  /\ RowTells([r EXCEPT !.lapsed = TRUE])
           /\ \A pending : RowTells(Recorded(r, pending))
<1>1. ASSUME NEW q, q.attempts = r.attempts, q.status = r.status, q.recovering = r.recovering,
             q.event = r.event
      PROVE  RowTells(q)
  BY <1>1 DEF RowTells
<1>2. RowTells([r EXCEPT !.lapsed = TRUE])
  <2> DEFINE q == [r EXCEPT !.lapsed = TRUE]
  <2>1. q.attempts = r.attempts /\ q.status = r.status /\ q.recovering = r.recovering
            /\ q.event = r.event
    BY DEF Rows
  <2> HIDE DEF q
  <2>2. RowTells(q)
    BY <1>1, <2>1
  <2> QED  BY <2>2 DEF q
<1>3. ASSUME NEW pending PROVE RowTells(Recorded(r, pending))
  <2> DEFINE q == Recorded(r, pending)
  <2>1. q.attempts = r.attempts /\ q.status = r.status /\ q.recovering = r.recovering
            /\ q.event = r.event
    BY DEF Recorded, Rows
  <2> HIDE DEF q
  <2>2. RowTells(q)
    BY <1>1, <2>1
  <2> QED  BY <2>2 DEF q
<1> QED  BY <1>2, <1>3

\* A row that tells is put in its place.
LEMMA RowPut ==
    ASSUME RowsInOrder, RowsTell, NEW t, NEW r, RowTells(r), task' = [task EXCEPT ![t] = r]
    PROVE  RowsTell'
<1>1. \A u \in Tasks : task'[u] = IF u = t THEN r ELSE task[u]
  BY DEF RowsInOrder
<1>2. ASSUME NEW u \in Tasks PROVE task'[u] = Absent \/ RowTells(task'[u])
  <2>1. CASE u = t
    BY <1>1, <2>1
  <2>2. CASE u # t
    <3>1. task'[u] = task[u]
      BY <1>1, <2>2
    <3> QED  BY <3>1 DEF RowsTell
  <2> QED  BY <2>1, <2>2
<1> QED  BY <1>2 DEF RowsTell

\* A row in use is well formed and tells.
LEMMA RowInUse ==
    ASSUME LInv, RowsTell, NEW t \in Tasks, task[t].status # "absent"
    PROVE  task[t] \in Rows /\ RowTells(task[t])
<1>1. Absent.status = "absent"
  BY DEF Absent
<1> QED  BY <1>1 DEF LInv, RowsInOrder, RowsTell

\* The requests of users.
LEMMA RequestsTell == ASSUME LInv, RowsTell, Requested PROVE RowsTell'
<1>1. ASSUME NEW k \in Keys, NEW t \in Tasks, Create(k, t) PROVE RowsTell'
  <2>1. task' = [task EXCEPT ![t] = NewRow("manual")]
    BY <1>1 DEF Create, Insert
  <2> QED  BY <2>1, NewRowTells, RowPut DEF LInv, ScanReasons
<1>2. ASSUME NEW k \in Keys, NEW t \in Tasks, Retry(k, t) PROVE RowsTell'
  <2> DEFINE r == task[t]
             again == Announce([OpenAttempt(r, "manual_retry", "queued") EXCEPT !.status = "queued",
                                    !.recovering = FALSE, !.cancel = FALSE, !.version = @ + 1],
                               "queued", FALSE)
  <2>1. r.status \in {"failed", "partial-success"} /\ task' = [task EXCEPT ![t] = again]
    BY <1>2 DEF Retry
  <2>2. r \in Rows /\ RowTells(r)
    BY <2>1, RowInUse
  <2>3. RowTells(again)
    BY <2>1, <2>2, RetriedTells
  <2> HIDE DEF again
  <2> QED  BY <2>1, <2>3, RowPut DEF LInv
<1>3. ASSUME NEW k \in Keys, NEW t \in Tasks, RequestCancel(k, t) PROVE RowsTell'
  <2> DEFINE r == task[t]
             ended == Announce([CloseAttempt(r, "cancelled") EXCEPT !.status = "cancelled",
                                    !.cancel = FALSE, !.version = @ + 1], "cancelled", r.recovering)
             marked == Announce([r EXCEPT !.cancel = TRUE], "running", r.recovering)
  <2>1. r.status \in Open /\ task' = [task EXCEPT ![t] = IF r.status = "queued" THEN ended ELSE marked]
    BY <1>3 DEF RequestCancel
  <2>2. r \in Rows /\ RowTells(r)
    BY <2>1, RowInUse DEF Open
  <2>3. r.status = "queued" => RowTells(ended)
    BY <2>2, CancelledTells
  <2>4. r.status = "running" => RowTells(marked)
    BY <2>2, MarkedTells
  <2> HIDE DEF ended, marked, r
  <2>5. RowTells(IF r.status = "queued" THEN ended ELSE marked)
    <3>1. CASE r.status = "queued"
      BY <2>3, <3>1
    <3>2. CASE r.status # "queued"
      BY <2>1, <2>4, <3>2 DEF Open
    <3> QED  BY <3>1, <3>2
  <2> QED  BY <2>1, <2>5, RowPut DEF LInv
<1> QED  BY <1>1, <1>2, <1>3 DEF Requested

\* The workers: only a claim, a batch and the end of a scan write the row.
LEMMA WorkersTell == ASSUME LInv, RowsTell, NEW w \in Workers, Worker(w) PROVE RowsTell'
<1> DEFINE s == scan[w]
<1>1. ASSUME UNCHANGED task PROVE RowsTell'
  BY <1>1 DEF RowsTell
<1>2. PICK version : s \in ScansAt(version)
  BY DEF LInv, SInv, ScansTyped, IsScan
<1>3. ASSUME Holds(w)
      PROVE  s.task \in Tasks /\ task[s.task] \in Rows /\ RowTells(task[s.task])
             /\ task[s.task].status = "running"
  <2>1. s.task \in Tasks /\ task[s.task].status = "running"
    BY <1>2, <1>3 DEF Holds, ScansAt
  <2> QED  BY <2>1, RowInUse
<1>4. ASSUME NEW t \in Tasks, Claim(w, t) PROVE RowsTell'
  <2>1. task[t].status \in {"queued", "running"} /\ task' = [task EXCEPT ![t] = Claimed(task[t], w)]
    BY <1>4 DEF Claim, Oldest, Claimable
  <2>2. task[t] \in Rows /\ RowTells(task[t])
    BY <2>1, RowInUse
  <2>3. RowTells(Claimed(task[t], w))
    BY <2>1, <2>2, ClaimedTells
  <2> QED  BY <2>1, <2>3, RowPut DEF LInv
<1>5. CASE Walk(w)
  BY <1>1, <1>5 DEF Walk, OpenScanSource, WalkFails, Flush, WalkEnds, Look, LookFails, Think, Go
<1>6. CASE RecordObservations(w)
  <2>1. CASE UNCHANGED task
    BY <1>1, <2>1
  <2>2. CASE Holds(w) /\ task' = [task EXCEPT ![s.task] = Recorded(task[s.task], s.pending)]
    <3>1. RowTells(Recorded(task[s.task], s.pending))
      BY <1>3, <2>2, HeldTells
    <3> QED  BY <2>2, <3>1, RowPut DEF LInv
  <2> QED  BY <1>6, <2>1, <2>2 DEF RecordObservations, Think, Go
<1>7. CASE CheckCancel(w) \/ RecordFails(w) \/ HeartbeatFails(w) \/ Decide(w)
  BY <1>1, <1>7 DEF CheckCancel, RecordFails, HeartbeatFails, Decide, Think, Go
<1>8. CASE Finish(w)
  <2>1. CASE UNCHANGED task
    BY <1>1, <2>1
  <2>2. CASE Holds(w) /\ task' = [task EXCEPT ![s.task] = FinishedRow(task[s.task], s)]
    <3>1. s.status \in Ended /\ s.rootCode \in BOOLEAN
      BY <1>2, <1>8 DEF Finish, LInv, FinishesEnded, ScansAt
    <3>2. RowTells(FinishedRow(task[s.task], s))
      BY <1>3, <2>2, <3>1, FinishedTells
    <3> QED  BY <2>2, <3>2, RowPut DEF LInv
  <2> QED  BY <1>8, <2>1, <2>2 DEF Finish
<1> QED  BY <1>4, <1>5, <1>6, <1>7, <1>8 DEF Worker, Write

\* Every step leaves rows that tell.
LEMMA NextTells ==
    LInv /\ RowsTell /\ [ScanNext]_<<files, scans, absent, world>> => RowsTell'
<1> SUFFICES ASSUME LInv, RowsTell, [ScanNext]_<<files, scans, absent, world>> PROVE RowsTell'
  OBVIOUS
<1>1. ASSUME UNCHANGED task PROVE RowsTell'
  BY <1>1 DEF RowsTell
<1>2. CASE TimePasses \/ Serves \/ Unmounted \/ Remounted \/ InboxRead
  BY <1>1, <1>2 DEF TimePasses, Rests, Grows, Serves, Unmounted, Remounted, InboxRead, scans
<1>3. CASE ReclaimExpired
  <2>1. \A t \in Tasks :
            task'[t] = IF task[t].status = "running" /\ task[t].lapsed THEN Reclaimed(task[t])
                       ELSE task[t]
    BY <1>3 DEF ReclaimExpired
  <2>2. ASSUME NEW t \in Tasks PROVE task'[t] = Absent \/ RowTells(task'[t])
    <3>1. CASE task[t].status = "running" /\ task[t].lapsed
      <4>1. task[t] \in Rows /\ RowTells(task[t])
        BY <3>1, RowInUse
      <4> QED  BY <2>1, <3>1, <4>1, ReclaimedTells
    <3>2. CASE ~(task[t].status = "running" /\ task[t].lapsed)
      <4>1. task'[t] = task[t]
        BY <2>1, <3>2
      <4> QED  BY <4>1 DEF RowsTell
    <3> QED  BY <3>1, <3>2
  <2> QED  BY <2>2 DEF RowsTell
<1>4. ASSUME NEW t \in Tasks, LeaseExpires(t) PROVE RowsTell'
  <2>1. task[t].status = "running" /\ task' = [task EXCEPT ![t] = [task[t] EXCEPT !.lapsed = TRUE]]
    BY <1>4 DEF LeaseExpires
  <2>2. RowTells([task[t] EXCEPT !.lapsed = TRUE])
    BY <2>1, RowInUse, HeldTells
  <2> QED  BY <2>1, <2>2, RowPut DEF LInv
<1>5. ASSUME NEW p \in Paths, NEW f \in Facts \cup {NoFacts}, Changed(p, f) PROVE RowsTell'
  BY <1>1, <1>5 DEF Changed, scans
<1>6. CASE Died
  BY <1>1, <1>6 DEF Died
<1>7. CASE UNCHANGED <<files, scans, absent, world>>
  BY <1>1, <1>7 DEF scans
<1> QED
  BY <1>2, <1>3, <1>4, <1>5, <1>6, <1>7, RequestsTell, WorkersTell DEF ScanNext

\* What is kept beside the row of a scan agrees with it, for any number of scans, workers and
\* restarts: the attempts tell how the task came to its status, the last one is the only one that
\* may be open, and the last event told its subscribers that status (create, retry, cancel,
\* claim_next, reclaim_expired and finish of tasks/store.rs, each with its two side tables).
THEOREM ScanRecordsHold == ScanSpec => []ScanRecordsAgree
<1>1. ScanInit => LInv /\ RowsTell
  BY LeaseInit, ScanInitInv DEF LInv, ScanInit, RowsTell
<1>2. SInv /\ RowsInOrder /\ FinishesEnded /\ RowsTell /\ [ScanNext]_<<files, scans, absent, world>>
          => (RowsInOrder /\ FinishesEnded /\ RowsTell)'
  BY LeaseNext, NextTells DEF LInv
<1>3. RowsTell => ScanRecordsAgree
  BY RecordsOfRows
<1> QED  BY <1>1, <1>2, <1>3, ScansStayInOrder, PTL DEF ScanSpec, LInv

-----------------------------------------------------------------------------
(* What is asked of processing was earned. *)

\* A file is seen with the facts of its current revision, unless it is missing; what rested or
\* counted to two lasted; and a stable revision is old and of a file that is no sample.
SightingKept(p, t, seen, aged) ==
    /\ seen.facts = IF t.missing THEN NoFacts ELSE t.current
    /\ \A f \in Facts : LET r == t.revision[f] IN
        /\ r.status \in {"observing", "stable"} => p \notin Auxiliary
        /\ r.status = "observing" /\ (r.rested \/ r.matching = 2) => seen.lasting
        /\ r.status = "stable" => seen.lasting /\ f \in aged

SightingsKept ==
    /\ sighting \in [Paths -> Sightings]
    /\ \A p \in Paths : SightingKept(p, tracked[p], sighting[p], old)

\* An observation keeps them, and a revision it finds stable has earned it.
LEMMA ObservedKept ==
    ASSUME FilesInOrder, SightingsKept, NEW p \in Paths, NEW f \in Facts
    PROVE  /\ Sighted(p, f) \in Sightings
           /\ SightingKept(p, Observed(p, f), Sighted(p, f), old)
           /\ tracked[p].current = f /\ Observed(p, f).revision[f].status = "stable" =>
                /\ sighting[p] = [facts |-> f, lasting |-> TRUE]
                /\ f \in old /\ p \notin Auxiliary
<1> DEFINE t == tracked[p]
           o == Observed(p, f)
           g == sighting[p]
           s == Sighted(p, f)
<1>1. t \in TrackedFiles /\ t.revision \in [Facts -> Revisions] /\ InOrder(t)
  BY DEF FilesInOrder, TrackedFiles
<1>2. g \in Sightings /\ SightingKept(p, t, g, old)
  BY DEF SightingsKept
<1>3. s \in Sightings /\ s.facts = f /\ (g.facts = f => s = g)
  BY <1>2 DEF Sighted, Sightings
<1>4. o.current = f /\ o.missing = FALSE /\ InOrder(o) /\ o \in TrackedFiles
  BY <1>1, ObservedInOrder DEF Observed
<1>5. \A h \in Facts : h # f => o.revision[h].status \notin {"observing", "stable"}
  BY <1>4 DEF InOrder, Live
<1>6. f # NoFacts
  BY FilesAssumption
<1> DEFINE now == o.revision[f]
<1>7. /\ now.status \in {"observing", "stable"} => p \notin Auxiliary
      /\ now.status = "observing" /\ (now.rested \/ now.matching = 2) => s.lasting
      /\ now.status = "stable" => s.lasting /\ f \in old
      /\ t.current = f /\ now.status = "stable" => g.facts = f /\ g.lasting
  <2>1. CASE t.current = f
    <3> DEFINE r == t.revision[f]
    <3>1. r \in Revisions /\ r.status \in Live \cup {"missing"}
      BY <1>1, <2>1 DEF InOrder
    <3>2. now = Advanced(p, f, r)
      BY <1>1, <2>1 DEF Observed
    <3>3. r.status \in Live <=> ~t.missing
      BY <1>1, <2>1 DEF InOrder
    <3> HIDE DEF now, r
    <3>4. CASE r.status = "missing"
      <4>1. now.status = FirstStatus(p) /\ now.matching = 1 /\ now.rested = FALSE
        <5>1. now = [status |-> IF FirstStatus(p) = "observing" /\ 1 = 2 /\ f \in old
                                THEN "stable" ELSE FirstStatus(p),
                     matching |-> 1, rested |-> FALSE]
          BY <3>2, <3>4 DEF Advanced
        <5> QED  BY <5>1
      <4> QED  BY <4>1 DEF FirstStatus
    <3>5. CASE r.status = "skipped-auxiliary"
      <4>1. now.status = "skipped-auxiliary"
        BY <3>2, <3>5 DEF Advanced
      <4> QED  BY <4>1
    <3>6. CASE r.status \in {"observing", "stable"}
      <4>1. ~t.missing /\ g.facts = f /\ s = g
        BY <1>2, <1>3, <2>1, <3>3, <3>6 DEF Live, SightingKept
      <4>2. /\ p \notin Auxiliary
            /\ r.status = "observing" /\ (r.rested \/ r.matching = 2) => g.lasting
            /\ r.status = "stable" => g.lasting /\ f \in old
        BY <1>2, <3>6 DEF SightingKept, r
      <4>3. CASE r.status = "stable"
        <5>1. now.status = "stable"
          BY <3>2, <4>3 DEF Advanced
        <5> QED  BY <4>1, <4>2, <4>3, <5>1
      <4>4. CASE r.status = "observing"
        <5>1. /\ now.status \in {"observing", "stable"}
              /\ now.status = "stable" => f \in old /\ (r.rested \/ r.matching = 2)
              /\ now.rested = FALSE
              /\ now.matching = 2 => r.rested \/ r.matching = 2
          BY <3>1, <3>2, <4>4 DEF Advanced, Revisions
        <5> QED  BY <4>1, <4>2, <4>4, <5>1
      <4> QED  BY <3>6, <4>3, <4>4
    <3> QED  BY <3>1, <3>4, <3>5, <3>6 DEF Live
  <2>2. CASE t.current # f
    <3>1. now = CreatedOrReactivated(p)
      BY <2>2 DEF Observed
    <3>2. now.status = FirstStatus(p) /\ now.matching = 1 /\ now.rested = FALSE
      BY <3>1 DEF CreatedOrReactivated
    <3> HIDE DEF now
    <3> QED  BY <2>2, <3>2 DEF FirstStatus
  <2> QED  BY <2>1, <2>2
<1> HIDE DEF o, s, t, g
<1>8. SightingKept(p, o, s, old)
  <2>1. s.facts = IF o.missing THEN NoFacts ELSE o.current
    BY <1>3, <1>4
  <2>2. ASSUME NEW h \in Facts
        PROVE  /\ o.revision[h].status \in {"observing", "stable"} => p \notin Auxiliary
               /\ o.revision[h].status = "observing" /\ (o.revision[h].rested \/ o.revision[h].matching = 2)
                    => s.lasting
               /\ o.revision[h].status = "stable" => s.lasting /\ h \in old
    <3>1. CASE h = f
      BY <1>7, <3>1
    <3>2. CASE h # f
      BY <1>5, <3>2
    <3> QED  BY <3>1, <3>2
  <2> QED  BY <2>1, <2>2 DEF SightingKept
<1>9. t.current = f /\ now.status = "stable" =>
            g = [facts |-> f, lasting |-> TRUE] /\ f \in old /\ p \notin Auxiliary
  BY <1>2, <1>7 DEF Sightings
<1> QED  BY <1>3, <1>8, <1>9 DEF o, s, t, g

\* So does a file that is found missing.
LEMMA MissedKept ==
    ASSUME FilesInOrder, SightingsKept, NEW p \in Paths
    PROVE  SightingKept(p, Missed(tracked[p]), Unseen, old)
<1> DEFINE t == tracked[p]
           m == Missed(t)
<1>1. t \in TrackedFiles /\ InOrder(t)
  BY DEF FilesInOrder
<1>2. m \in TrackedFiles /\ InOrder(m)
  BY <1>1, MissedInOrder, FilesAssumption
<1>3. m.missing \/ m.current = NoFacts
  BY <1>1 DEF Missed, TrackedFiles
<1> HIDE DEF m
<1>4. \A h \in Facts : m.revision[h].status \notin {"observing", "stable"}
  BY <1>2, <1>3, FilesAssumption DEF InOrder, Live
<1> QED  BY <1>3, <1>4 DEF SightingKept, Unseen, m

\* What a step does to files that only observes, misses, rests or ages them.
LEMMA SightingsObserved ==
    ASSUME FilesInOrder, SightingsKept, NEW seen \in [Paths -> Facts \cup {NoFacts}],
           ObserveAll(seen)
    PROVE  /\ SightingsKept'
           /\ \A r \in requests' \ requests :
                /\ sighting[r[1]] = [facts |-> r[2], lasting |-> TRUE]
                /\ r[2] \in old /\ r[1] \notin Auxiliary
<1> DEFINE found == {p \in Paths : seen[p] # NoFacts}
<1>1. /\ tracked' = [p \in Paths |-> IF p \in found THEN Observed(p, seen[p]) ELSE tracked[p]]
      /\ sighting' = [p \in Paths |-> IF p \in found THEN Sighted(p, seen[p]) ELSE sighting[p]]
      /\ old' = old
  BY DEF ObserveAll
<1>2. \A p \in found : p \in Paths /\ seen[p] \in Facts
  OBVIOUS
<1>3. ASSUME NEW p \in Paths
      PROVE  sighting'[p] \in Sightings /\ SightingKept(p, tracked'[p], sighting'[p], old')
  <2>1. CASE p \in found
    <3>1. tracked'[p] = Observed(p, seen[p]) /\ sighting'[p] = Sighted(p, seen[p])
      BY <1>1, <2>1
    <3> QED  BY <1>1, <1>2, <2>1, <3>1, ObservedKept
  <2>2. CASE p \notin found
    <3>1. tracked'[p] = tracked[p] /\ sighting'[p] = sighting[p]
      BY <1>1, <2>2
    <3> QED  BY <1>1, <3>1 DEF SightingsKept
  <2> QED  BY <2>1, <2>2
<1>4. SightingsKept'
  <2>1. sighting' \in [Paths -> Sightings]
    BY <1>1, <1>3
  <2>2. \A p \in Paths : SightingKept(p, tracked[p], sighting[p], old)'
    BY <1>3 DEF SightingKept
  <2> QED  BY <2>1, <2>2 DEF SightingsKept
<1>5. ASSUME NEW r \in requests' \ requests
      PROVE  /\ sighting[r[1]] = [facts |-> r[2], lasting |-> TRUE]
             /\ r[2] \in old /\ r[1] \notin Auxiliary
  <2>1. PICK p \in found :
            r \in IF tracked[p].current = seen[p] THEN RequestsOf(p, tracked'[p]) ELSE {}
    BY <1>5 DEF ObserveAll
  <2>2. tracked[p].current = seen[p] /\ r \in RequestsOf(p, tracked'[p])
    BY <2>1
  <2>3. tracked'[p] = Observed(p, seen[p])
    BY <1>1, <1>2
  <2>4. Observed(p, seen[p]).current = seen[p]
    BY DEF Observed
  <2>5. r = <<p, seen[p]>> /\ Observed(p, seen[p]).revision[seen[p]].status = "stable"
    BY <2>2, <2>3, <2>4 DEF RequestsOf
  <2>6. /\ sighting[p] = [facts |-> seen[p], lasting |-> TRUE]
        /\ seen[p] \in old /\ p \notin Auxiliary
    BY <1>2, <2>2, <2>5, ObservedKept
  <2>7. r[1] = p /\ r[2] = seen[p]
    BY <2>5
  <2> QED  BY <2>6, <2>7
<1> QED  BY <1>4, <1>5

LEMMA SightingsMissed ==
    ASSUME FilesInOrder, SightingsKept, NEW unseen, MarkUnseenMissing(unseen)
    PROVE  SightingsKept'
<1>1. /\ tracked' = [p \in Paths |-> IF p \in unseen THEN Missed(tracked[p]) ELSE tracked[p]]
      /\ sighting' = [p \in Paths |-> IF p \in unseen THEN Unseen ELSE sighting[p]]
      /\ old' = old
  BY DEF MarkUnseenMissing
<1>2. Unseen \in Sightings
  BY DEF Unseen, Sightings
<1>3. ASSUME NEW p \in Paths
      PROVE  sighting'[p] \in Sightings /\ SightingKept(p, tracked'[p], sighting'[p], old')
  <2>1. CASE p \in unseen
    <3>1. tracked'[p] = Missed(tracked[p]) /\ sighting'[p] = Unseen
      BY <1>1, <2>1
    <3> QED  BY <1>1, <1>2, <3>1, MissedKept
  <2>2. CASE p \notin unseen
    <3>1. tracked'[p] = tracked[p] /\ sighting'[p] = sighting[p]
      BY <1>1, <2>2
    <3> QED  BY <1>1, <3>1 DEF SightingsKept
  <2> QED  BY <2>1, <2>2
<1>4. sighting' \in [Paths -> Sightings]
  BY <1>1, <1>3
<1>5. \A p \in Paths : SightingKept(p, tracked[p], sighting[p], old)'
  BY <1>3 DEF SightingKept
<1> QED  BY <1>4, <1>5 DEF SightingsKept

LEMMA SightingsRest ==
    ASSUME FilesInOrder, SightingsKept, NEW p \in Paths, IntervalPasses(p)
    PROVE  SightingsKept'
<1> DEFINE t == tracked[p]
           g == sighting[p]
           rested == [f \in Facts |-> [t.revision[f] EXCEPT !.rested = t.revision[f].status = "observing"]]
           u == [t EXCEPT !.revision = rested]
           h == [g EXCEPT !.lasting = g.facts # NoFacts]
<1>1. t \in TrackedFiles /\ t.revision \in [Facts -> Revisions] /\ InOrder(t)
  BY DEF FilesInOrder, TrackedFiles
<1>2. g \in Sightings /\ SightingKept(p, t, g, old)
  BY DEF SightingsKept
<1>3. tracked' = [tracked EXCEPT ![p] = u] /\ sighting' = [sighting EXCEPT ![p] = h] /\ old' = old
  BY DEF IntervalPasses
<1>4. h \in Sightings /\ h.facts = g.facts /\ h.lasting = (g.facts # NoFacts)
  BY <1>2 DEF Sightings
<1>5. u.current = t.current /\ u.missing = t.missing /\ u.revision = rested
  BY <1>1 DEF TrackedFiles
<1>6. \A f \in Facts : rested[f].status = t.revision[f].status
  BY <1>1 DEF Revisions
<1>7. \A f \in Facts : t.revision[f].status \in {"observing", "stable"} => g.facts = f /\ f # NoFacts
  BY <1>1, <1>2, FilesAssumption DEF InOrder, SightingKept, Live
<1> HIDE DEF rested, u, h, t, g
<1>8. SightingKept(p, u, h, old)
  BY <1>2, <1>4, <1>5, <1>6, <1>7 DEF SightingKept
<1>9. ASSUME NEW q \in Paths
      PROVE  sighting'[q] \in Sightings /\ SightingKept(q, tracked'[q], sighting'[q], old')
  <2>1. CASE q = p
    <3>1. tracked'[q] = u /\ sighting'[q] = h
      BY <1>3, <2>1 DEF FilesInOrder, SightingsKept
    <3> QED  BY <1>3, <1>4, <1>8, <2>1, <3>1
  <2>2. CASE q # p
    <3>1. tracked'[q] = tracked[q] /\ sighting'[q] = sighting[q]
      BY <1>3, <2>2 DEF FilesInOrder, SightingsKept
    <3> QED  BY <1>3, <3>1 DEF SightingsKept
  <2> QED  BY <2>1, <2>2
<1>10. sighting' \in [Paths -> Sightings]
  BY <1>3, <1>4 DEF SightingsKept
<1>11. \A q \in Paths : SightingKept(q, tracked[q], sighting[q], old)'
  BY <1>9 DEF SightingKept
<1> QED  BY <1>10, <1>11 DEF SightingsKept

LEMMA SightingsAge ==
    ASSUME SightingsKept, UNCHANGED <<tracked, sighting>>, old \subseteq old'
    PROVE  SightingsKept'
<1>1. \A p \in Paths : SightingKept(p, tracked[p], sighting[p], old)'
  BY DEF SightingsKept, SightingKept
<1> QED  BY <1>1 DEF SightingsKept

\* Every step keeps them, and asks only for what was earned.
LEMMA EarnedNext ==
    ASSUME SInv, SightingsKept, [ScanNext]_<<files, scans, absent, world>>
    PROVE  /\ SightingsKept'
           /\ \A r \in requests' \ requests :
                /\ sighting[r[1]] = [facts |-> r[2], lasting |-> TRUE]
                /\ r[2] \in old /\ r[1] \notin Auxiliary
<1> DEFINE Earned ==
        \A r \in requests' \ requests :
            /\ sighting[r[1]] = [facts |-> r[2], lasting |-> TRUE]
            /\ r[2] \in old /\ r[1] \notin Auxiliary
<1>1. UNCHANGED requests => Earned
  OBVIOUS
<1>2. UNCHANGED <<tracked, sighting, old, requests>> => SightingsKept' /\ Earned
  BY <1>1, SightingsAge
<1> HIDE DEF Earned
<1>3. CASE Requested
  BY <1>2, <1>3 DEF Requested, Create, Retry, RequestCancel, Bind, files
<1>4. CASE TimePasses
  <2>1. ASSUME NEW p \in Paths, Rests(p) PROVE SightingsKept' /\ Earned
    BY <1>1, <2>1, SightingsRest DEF Rests, IntervalPasses, SInv
  <2>2. ASSUME NEW f \in Facts, Grows(f) PROVE SightingsKept' /\ Earned
    BY <1>1, <2>2, SightingsAge DEF Grows, Ages
  <2> QED  BY <1>4, <2>1, <2>2 DEF TimePasses, Earned
<1>5. CASE ReclaimExpired \/ Serves \/ Unmounted \/ Remounted \/ InboxRead \/ Died
  BY <1>2, <1>5 DEF ReclaimExpired, Serves, Unmounted, Remounted, InboxRead, Died, files
<1>6. ASSUME NEW w \in Workers, Worker(w) PROVE SightingsKept' /\ Earned
  <2> DEFINE s == scan[w]
  <2>1. CASE \E t \in Tasks : Claim(w, t)
    BY <1>2, <2>1 DEF Claim, files
  <2>2. CASE Walk(w) \/ HeartbeatFails(w) \/ Decide(w) \/ CheckCancel(w) \/ RecordFails(w)
    BY <1>2, <2>2 DEF Walk, OpenScanSource, WalkFails, Flush, WalkEnds, Look, LookFails, Think,
       HeartbeatFails, Decide, CheckCancel, RecordFails, files
  <2>3. CASE RecordObservations(w)
    <3>1. CASE UNCHANGED files
      BY <1>2, <3>1 DEF files
    <3>2. CASE ObserveAll(s.pending.files)
      <4>1. PICK version : s \in ScansAt(version)
        BY DEF SInv, ScansTyped, IsScan
      <4>2. s.pending.files \in [Paths -> Facts \cup {NoFacts}]
        BY <4>1 DEF ScansAt
      <4> QED  BY <3>2, <4>2, SightingsObserved DEF SInv, Earned
    <3> QED  BY <2>3, <3>1, <3>2 DEF RecordObservations, Think
  <2>4. CASE Finish(w)
    <3>1. CASE UNCHANGED files
      BY <1>2, <3>1 DEF files
    <3>2. CASE MarkUnseenMissing(NotInBatch(s.task))
      BY <1>1, <3>2, SightingsMissed DEF SInv, MarkUnseenMissing
    <3> QED  BY <2>4, <3>1, <3>2 DEF Finish
  <2> QED  BY <1>6, <2>1, <2>2, <2>3, <2>4 DEF Worker, Write
<1>7. ASSUME NEW t \in Tasks, LeaseExpires(t) PROVE SightingsKept' /\ Earned
  BY <1>2, <1>7 DEF LeaseExpires, files
<1>8. ASSUME NEW p \in Paths, NEW f \in Facts \cup {NoFacts}, Changed(p, f)
      PROVE  SightingsKept' /\ Earned
  BY <1>2, <1>8 DEF Changed
<1>9. CASE UNCHANGED <<files, scans, absent, world>>
  BY <1>2, <1>9 DEF files
<1> QED  BY <1>3, <1>4, <1>5, <1>6, <1>7, <1>8, <1>9 DEF ScanNext, Earned

\* At first nothing was seen.
LEMMA FirstSightings == ScanInit => SightingsKept
<1> SUFFICES ASSUME ScanInit PROVE SightingsKept
  OBVIOUS
<1>1. tracked = [p \in Paths |-> Untracked] /\ sighting = [p \in Paths |-> Unseen] /\ old = {}
  BY DEF ScanInit, FilesInit
<1>2. Unseen \in Sightings
  BY DEF Unseen, Sightings
<1>3. \A p \in Paths : SightingKept(p, Untracked, Unseen, {})
  BY DEF SightingKept, Untracked, Unseen, NoRevision
<1> QED  BY <1>1, <1>2, <1>3 DEF SightingsKept

\* Processing is asked for a file only when every observation over more than the interval saw it
\* with the same facts and no complete scan missed it in between, the facts are older than the
\* minimum age, and the file is no sample or trailer: for any files, scans, workers and losses of
\* them (ensure_processing_request of revisions.rs under record_observations of tasks/store.rs).
THEOREM OnlyEarnedRequests == ScanSpec => RequestsAreEarned
<1>1. ScanInit => SightingsKept
  BY FirstSightings
<1>2. SInv /\ SightingsKept /\ [ScanNext]_<<files, scans, absent, world>> => SightingsKept'
  BY EarnedNext
<1>3. SInv /\ SightingsKept /\ [ScanNext]_<<files, scans, absent, world>>
        => [\A r \in requests' \ requests :
                /\ sighting[r[1]] = [facts |-> r[2], lasting |-> TRUE]
                /\ r[2] \in old
                /\ r[1] \notin Auxiliary]_files
  BY EarnedNext
<1> QED  BY <1>1, <1>2, <1>3, ScansStayInOrder, PTL DEF ScanSpec, RequestsAreEarned

-----------------------------------------------------------------------------
(* What is found missing was away. *)

\* While a task is open, its history knows the paths nothing is at.
AbsencesKnown ==
    /\ absent \in [Tasks -> SUBSET Paths]
    /\ \A t \in Tasks : task[t].status \in Open =>
        \A p \in Paths : disk[p] = NoFacts => p \in absent[t]

\* The worker of a scan has the lease of the task, even if it has lapsed.
Leased(w) ==
    /\ scan[w].task \in Tasks
    /\ task[scan[w].task].status = "running" /\ task[scan[w].task].owner = w
    /\ task[scan[w].task].version = scan[w].version

\* What the rows have of a path: an observation, an error, or that nothing was there.
Known(r, away, p) == r.seen[p] # 0 \/ p \in r.errors \/ p \in away

\* Of a path the walk has been at, either the rows or the scan in memory have something.
Covered(s, r, away) ==
    /\ s.at \in {"walking", "batch", "record"} => \A p \in Paths :
        \/ p \in s.todo \/ p \in s.pending.errors \/ s.pending.files[p] # NoFacts
        \/ Known(r, away, p)
    /\ s.at \in {"batch", "record"} /\ s.then = "ok" => s.todo = {}
    /\ s.at = "decide" /\ s.verdict = "ok" => \A p \in Paths : Known(r, away, p)
    /\ s.at = "finish" /\ s.status = "completed" =>
        \A p \in Paths : r.seen[p] # 0 \/ p \in away

ScanCovers(w) == Leased(w) => Covered(scan[w], task[scan[w].task], absent[scan[w].task])

ScansCover == \A w \in Workers : ScanCovers(w)

\* A held row that goes on with its holder loses nothing of what it has.
Grown(r, q) ==
    /\ q.status = r.status /\ q.owner = r.owner /\ q.version = r.version
    /\ r.errors \subseteq q.errors
    /\ \A p \in Paths : r.seen[p] # 0 => q.seen[p] # 0

\* What becomes of a row in a step that grants no lease and opens no task.
Stays(r, q) ==
    /\ q.status \in Open => r.status \in Open
    /\ q.status = "running" => Grown(r, q)

LEMMA GrownCovers ==
    ASSUME NEW s, NEW r, NEW q, Grown(r, q), NEW away, NEW further, away \subseteq further,
           Covered(s, r, away)
    PROVE  Covered(s, q, further)
BY DEF Grown, Covered, Known

\* A row of another worker is as good as before.
LEMMA CoverStays ==
    ASSUME ScansCover, NEW v \in Workers, scan'[v] = scan[v],
           \A t \in Tasks : task'[t].status = "running" /\ task'[t].owner = v =>
                                Grown(task[t], task'[t]) /\ absent[t] \subseteq absent'[t]
    PROVE  ScanCovers(v)'
<1> SUFFICES ASSUME Leased(v)'
             PROVE  Covered(scan[v], task[scan[v].task], absent[scan[v].task])'
  BY DEF ScanCovers
<1> DEFINE t == scan[v].task
<1>1. /\ t \in Tasks /\ scan'[v].task = t
      /\ task'[t].status = "running" /\ task'[t].owner = v /\ task'[t].version = scan[v].version
  BY DEF Leased
<1>2. Grown(task[t], task'[t]) /\ absent[t] \subseteq absent'[t]
  BY <1>1
<1>3. Leased(v)
  BY <1>1, <1>2 DEF Leased, Grown
<1>4. Covered(scan[v], task[t], absent[t])
  BY <1>3 DEF ScansCover, ScanCovers
<1>5. Covered(scan[v], task'[t], absent'[t])
  BY <1>2, <1>4, GrownCovers
<1> QED  BY <1>1, <1>5 DEF Covered, Known

\* Nobody's scan changes, and held rows only grow.
LEMMA RowsStay ==
    ASSUME AbsencesKnown, ScansCover, UNCHANGED <<scan, disk, absent>>,
           \A t \in Tasks : Stays(task[t], task'[t])
    PROVE  AbsencesKnown' /\ ScansCover'
<1>1. AbsencesKnown'
  BY DEF AbsencesKnown, Stays
<1>2. ASSUME NEW v \in Workers PROVE ScanCovers(v)'
  BY <1>2, CoverStays DEF Stays
<1> QED  BY <1>1, <1>2 DEF ScansCover

\* A worker writes no row but its own, and opens no task.
WritesItsOwn(w) ==
    \A t \in Tasks : /\ task'[t].status \in Open => task[t].status \in Open
                     /\ Stays(task[t], task'[t]) \/ task'[t].owner = w

\* What a worker then has in memory is covered by the row it has the lease of.
ThenCovered(w, s) ==
    \A t \in Tasks : s.task = t /\ task'[t].status = "running" /\ task'[t].owner = w
                        /\ task'[t].version = s.version => Covered(s, task'[t], absent[t])

\* One worker goes on, and the row it goes on with covers what it then has in memory.
LEMMA WorkerCovers ==
    ASSUME ScansTyped, AbsencesKnown, ScansCover, NEW w \in Workers, NEW s,
           scan' = [scan EXCEPT ![w] = s], UNCHANGED <<disk, absent>>,
           WritesItsOwn(w), ThenCovered(w, s)
    PROVE  AbsencesKnown' /\ ScansCover'
<1>1. \A v \in Workers : scan'[v] = IF v = w THEN s ELSE scan[v]
  BY DEF ScansTyped
<1>2. AbsencesKnown'
  BY DEF AbsencesKnown, WritesItsOwn
<1>3. ASSUME NEW v \in Workers, v # w PROVE ScanCovers(v)'
  <2>1. scan'[v] = scan[v]
    BY <1>1, <1>3
  <2>2. ASSUME NEW t \in Tasks, task'[t].status = "running", task'[t].owner = v
        PROVE  Grown(task[t], task'[t]) /\ absent[t] \subseteq absent'[t]
    BY <1>3, <2>2 DEF Stays, WritesItsOwn
  <2> QED  BY <2>1, <2>2, CoverStays
<1>4. ScanCovers(w)'
  <2> SUFFICES ASSUME Leased(w)'
               PROVE  Covered(scan[w], task[scan[w].task], absent[scan[w].task])'
    BY DEF ScanCovers
  <2>1. scan'[w] = s
    BY <1>1
  <2>2. s.task \in Tasks
    BY <2>1 DEF Leased
  <2>3. Covered(s, task'[s.task], absent[s.task])
    BY <2>1, <2>2 DEF Leased, ThenCovered
  <2> QED  BY <2>1, <2>3 DEF Covered, Known
<1> QED  BY <1>2, <1>3, <1>4 DEF ScansCover

\* A worker that only thinks, of something its row covers as well.
LEMMA ThinkingCovers ==
    ASSUME ScansTyped, AbsencesKnown, ScansCover, NEW w \in Workers, NEW s,
           scan' = [scan EXCEPT ![w] = s], UNCHANGED <<task, disk, absent>>,
           \/ s.task = NoTask
           \/ /\ s.task = scan[w].task /\ s.version = scan[w].version
              /\ Leased(w) /\ Covered(scan[w], task[s.task], absent[s.task])
                    => Covered(s, task[s.task], absent[s.task])
    PROVE  AbsencesKnown' /\ ScansCover'
<1>1. \A t \in Tasks : Stays(task[t], task'[t])
  BY DEF Stays, Grown
<1>2. \A t \in Tasks : task'[t].status \in Open => task[t].status \in Open
  OBVIOUS
<1>3. ASSUME NEW t \in Tasks, s.task = t, task'[t].status = "running", task'[t].owner = w,
             task'[t].version = s.version
      PROVE  Covered(s, task'[t], absent[t])
  <2>1. s.task # NoTask
    BY <1>3, TasksAssumption
  <2>2. s.task = scan[w].task /\ s.version = scan[w].version
    BY <2>1
  <2>3. Leased(w)
    BY <1>3, <2>2 DEF Leased
  <2>4. Covered(scan[w], task[t], absent[t])
    BY <1>3, <2>2, <2>3 DEF ScansCover, ScanCovers
  <2> QED  BY <1>3, <2>1, <2>3, <2>4
<1>4. WritesItsOwn(w)
  BY <1>1, <1>2 DEF WritesItsOwn
<1>5. ThenCovered(w, s)
  BY <1>3 DEF ThenCovered
<1>6. UNCHANGED <<disk, absent>>
  OBVIOUS
<1> QED  BY <1>4, <1>5, <1>6, WorkerCovers

\* The same row stays.
LEMMA SameStays == ASSUME NEW r PROVE Stays(r, r)
BY DEF Stays, Grown

\* So do a row whose lease lapses and one that is marked, and a row that takes a batch grows.
LEMMA HeldStays ==
    ASSUME NEW r \in Rows, r.status = "running"
    PROVE  /\ Stays(r, [r EXCEPT !.lapsed = TRUE])
           /\ Stays(r, Announce([r EXCEPT !.cancel = TRUE], "running", r.recovering))
<1>1. Stays(r, [r EXCEPT !.lapsed = TRUE])
  BY DEF Stays, Grown, Rows, Open
<1> DEFINE q == Announce([r EXCEPT !.cancel = TRUE], "running", r.recovering)
<1>2. /\ q.status = r.status /\ q.owner = r.owner /\ q.version = r.version
      /\ q.errors = r.errors /\ q.seen = r.seen
  BY DEF Announce, Rows
<1> HIDE DEF q
<1>3. Stays(r, q)
  BY <1>2 DEF Stays, Grown, Open
<1> QED  BY <1>1, <1>3 DEF q

LEMMA RecordedGrows ==
    ASSUME NEW r \in Rows, r.attempts # << >>, r.status = "running", NEW pending
    PROVE  LET q == Recorded(r, pending)
           IN  /\ Stays(r, q)
               /\ \A p \in Paths : pending.files[p] # NoFacts => q.seen[p] # 0
               /\ pending.errors \subseteq q.errors
<1> DEFINE q == Recorded(r, pending)
           seen == [p \in Paths |-> IF pending.files[p] # NoFacts THEN Current(r) ELSE r.seen[p]]
<1>1. Current(r) # 0
  BY DEF Current, Rows
<1>2. /\ q.status = r.status /\ q.owner = r.owner /\ q.version = r.version
      /\ q.errors = r.errors \cup pending.errors /\ q.seen = seen
  BY DEF Recorded, Rows
<1>3. \A p \in Paths : seen[p] = IF pending.files[p] # NoFacts THEN Current(r) ELSE r.seen[p]
  OBVIOUS
<1> HIDE DEF q, seen
<1>4. \A p \in Paths : /\ pending.files[p] # NoFacts => q.seen[p] # 0
                       /\ r.seen[p] # 0 => q.seen[p] # 0
  BY <1>1, <1>2, <1>3
<1>5. Stays(r, q)
  BY <1>2, <1>4 DEF Stays, Grown, Open
<1>6. pending.errors \subseteq q.errors
  BY <1>2
<1> QED  BY <1>4, <1>5, <1>6 DEF q

\* A claim gives the row its new owner.
LEMMA ClaimedOwner ==
    ASSUME NEW r \in Rows, r.attempts # << >>, NEW w \in Workers
    PROVE  Claimed(r, w).owner = w
<1> DEFINE taken == r.status = "running"
           started == IF taken THEN OpenAttempt(CloseAttempt(r, "failed"), "recovery", "running")
                      ELSE [r EXCEPT !.attempts[Current(r)].status = "running"]
           recovering == taken \/ r.recovering
           held == [started EXCEPT !.status = "running", !.recovering = recovering, !.owner = w,
                                   !.lapsed = FALSE, !.version = @ + 1]
<1>1. started \in Rows
  <2>1. CASE taken
    <3>1. Row(CloseAttempt(r, "failed"), r.status, r.version, r.lapsed)
      BY CloseAttemptRow DEF ScanStatuses
    <3>2. Row(OpenAttempt(CloseAttempt(r, "failed"), "recovery", "running"), r.status, r.version, r.lapsed)
      BY <3>1, OpenAttemptRow DEF ScanStatuses, Row
    <3> QED  BY <2>1, <3>2 DEF Row
  <2>2. CASE ~taken
    <3>1. Row([r EXCEPT !.attempts[Current(r)].status = "running"], r.status, r.version, r.lapsed)
      BY AttemptRow DEF ScanStatuses
    <3> QED  BY <2>2, <3>1 DEF Row
  <2> QED  BY <2>1, <2>2
<1> HIDE DEF started, recovering
<1>2. Announce(held, "running", recovering).owner = w
  BY <1>1 DEF Announce, Rows
<1> QED  BY <1>2 DEF Claimed, held, started, recovering

\* A task that is opened knows what is not there, and nobody holds it yet.
LEMMA OpenedCovers ==
    ASSUME RowsInOrder, AbsencesKnown, ScansCover, NEW t \in Tasks, NEW r, r.status = "queued",
           NEW away \in SUBSET Paths, \A p \in Paths : disk[p] = NoFacts => p \in away,
           task' = [task EXCEPT ![t] = r], absent' = [absent EXCEPT ![t] = away],
           UNCHANGED <<scan, disk>>
    PROVE  AbsencesKnown' /\ ScansCover'
<1>1. \A u \in Tasks : /\ task'[u] = IF u = t THEN r ELSE task[u]
                       /\ absent'[u] = IF u = t THEN away ELSE absent[u]
  BY DEF RowsInOrder, AbsencesKnown
<1>2. absent' \in [Tasks -> SUBSET Paths]
  BY DEF AbsencesKnown
<1>3. AbsencesKnown'
  BY <1>1, <1>2 DEF AbsencesKnown
<1>4. ASSUME NEW u \in Tasks, task'[u].status = "running"
      PROVE  Grown(task[u], task'[u]) /\ absent[u] \subseteq absent'[u]
  <2>1. u # t
    BY <1>1, <1>4
  <2> QED  BY <1>1, <2>1 DEF Grown
<1>5. ASSUME NEW v \in Workers PROVE ScanCovers(v)'
  BY <1>4, CoverStays
<1> QED  BY <1>3, <1>5 DEF ScansCover

\* One row is replaced by one that stays.
LEMMA RowStays ==
    ASSUME RowsInOrder, AbsencesKnown, ScansCover, NEW t \in Tasks, NEW r, Stays(task[t], r),
           task' = [task EXCEPT ![t] = r], UNCHANGED <<scan, disk, absent>>
    PROVE  AbsencesKnown' /\ ScansCover'
<1>1. \A u \in Tasks : task'[u] = IF u = t THEN r ELSE task[u]
  BY DEF RowsInOrder
<1>2. ASSUME NEW u \in Tasks PROVE Stays(task[u], task'[u])
  <2>1. CASE u = t
    BY <1>1, <2>1
  <2>2. CASE u # t
    <3>1. task'[u] = task[u]
      BY <1>1, <2>2
    <3> QED  BY <3>1, SameStays
  <2> QED  BY <2>1, <2>2
<1> QED  BY <1>2, RowsStay

\* Requests of users.
LEMMA RequestsCover ==
    ASSUME LInv, AbsencesKnown, ScansCover, Requested
    PROVE  AbsencesKnown' /\ ScansCover'
<1> DEFINE here == {p \in Paths : disk[p] = NoFacts}
<1>0. UNCHANGED <<scan, disk>>
  BY DEF Requested, Create, Retry, RequestCancel, Bind, files
<1>1. ASSUME NEW k \in Keys, NEW t \in Tasks, Create(k, t) PROVE AbsencesKnown' /\ ScansCover'
  <2>1. task' = [task EXCEPT ![t] = NewRow("manual")] /\ absent' = [absent EXCEPT ![t] = here]
    BY <1>1 DEF Create, Insert
  <2>2. NewRow("manual").status = "queued"
    BY NewRowRow DEF Row, ScanReasons
  <2> QED  BY <1>0, <2>1, <2>2, OpenedCovers DEF LInv
<1>2. ASSUME NEW k \in Keys, NEW t \in Tasks, Retry(k, t) PROVE AbsencesKnown' /\ ScansCover'
  <2> DEFINE r == task[t]
             again == Announce([OpenAttempt(r, "manual_retry", "queued") EXCEPT !.status = "queued",
                                    !.recovering = FALSE, !.cancel = FALSE, !.version = @ + 1],
                               "queued", FALSE)
             away == absent[t] \cup here
  <2>1. /\ r.status \in {"failed", "partial-success"} /\ task' = [task EXCEPT ![t] = again]
        /\ absent' = [absent EXCEPT ![t] = away]
    BY <1>2 DEF Retry
  <2>2. r \in Rows /\ r.attempts # << >>
    BY <2>1 DEF LInv, RowsInOrder
  <2>3. again.status = "queued"
    BY <2>2, RetriedRow DEF Row
  <2>4. away \in SUBSET Paths /\ \A p \in Paths : disk[p] = NoFacts => p \in away
    BY DEF AbsencesKnown
  <2> HIDE DEF again, away
  <2> QED  BY <1>0, <2>1, <2>3, <2>4, OpenedCovers DEF LInv
<1>3. ASSUME NEW k \in Keys, NEW t \in Tasks, RequestCancel(k, t) PROVE AbsencesKnown' /\ ScansCover'
  <2> DEFINE r == task[t]
             ended == Announce([CloseAttempt(r, "cancelled") EXCEPT !.status = "cancelled",
                                    !.cancel = FALSE, !.version = @ + 1], "cancelled", r.recovering)
             marked == Announce([r EXCEPT !.cancel = TRUE], "running", r.recovering)
  <2>1. /\ r.status \in Open /\ UNCHANGED absent
        /\ task' = [task EXCEPT ![t] = IF r.status = "queued" THEN ended ELSE marked]
    BY <1>3 DEF RequestCancel
  <2>2. r \in Rows /\ r.attempts # << >>
    BY <2>1 DEF LInv, RowsInOrder, Open
  <2>3. ended.status = "cancelled"
    BY <2>2, CancelledRow DEF Row
  <2>4. Stays(r, ended)
    <3> HIDE DEF ended
    <3> QED  BY <2>3 DEF Stays, Open
  <2>5. r.status = "running" => Stays(r, marked)
    BY <2>2, HeldStays
  <2> HIDE DEF ended, marked, r
  <2>6. CASE r.status = "queued"
    <3>1. task' = [task EXCEPT ![t] = ended]
      BY <2>1, <2>6
    <3> QED  BY <1>0, <2>1, <2>4, <3>1, RowStays DEF LInv, r
  <2>7. CASE r.status # "queued"
    <3>1. task' = [task EXCEPT ![t] = marked] /\ r.status = "running"
      BY <2>1, <2>7 DEF Open
    <3> QED  BY <1>0, <2>1, <2>5, <3>1, RowStays DEF LInv, r
  <2> QED  BY <2>6, <2>7
<1> QED  BY <1>1, <1>2, <1>3 DEF Requested

\* A scan that becomes one its row covers as well.
MovesCovered(w, s) ==
    \/ s.task = NoTask
    \/ /\ s.task = scan[w].task /\ s.version = scan[w].version
       /\ Leased(w) /\ Covered(scan[w], task[s.task], absent[s.task])
            => Covered(s, task[s.task], absent[s.task])

\* A scan that is stopped tells nothing of what is missing, or is forgotten.
LEMMA StoppedCovered ==
    ASSUME ScansTyped, NEW w \in Workers, NEW verdict \in {"error", "lost"}, NEW cancelled
    PROVE  /\ MovesCovered(w, Stopped(scan[w], verdict))
           /\ scan[w].then # "abandon" =>
                MovesCovered(w, [Stopped(scan[w], verdict) EXCEPT !.cancelled = cancelled])
<1> DEFINE s == scan[w]
<1>1. PICK version : s \in ScansAt(version)
  BY DEF ScansTyped, IsScan
<1>2. CASE s.then = "abandon"
  BY <1>2 DEF MovesCovered, Stopped, NoScan
<1>3. CASE s.then # "abandon"
  <2> DEFINE verdict2 == IF s.then = "root" /\ verdict = "error" THEN "root" ELSE verdict
             q == [s EXCEPT !.at = "decide", !.verdict = verdict2]
             q2 == [q EXCEPT !.cancelled = cancelled]
  <2>1. Stopped(s, verdict) = q
    BY <1>3 DEF Stopped
  <2>2. verdict2 # "ok"
    OBVIOUS
  <2>3. q.task = s.task /\ q.version = s.version /\ q.at = "decide" /\ q.verdict = verdict2
    BY <1>1 DEF ScansAt
  <2>4. q2.task = s.task /\ q2.version = s.version /\ q2.at = "decide" /\ q2.verdict = verdict2
    BY <1>1 DEF ScansAt
  <2> HIDE DEF verdict2, q, q2
  <2>5. MovesCovered(w, q) /\ MovesCovered(w, q2)
    BY <2>2, <2>3, <2>4 DEF MovesCovered, Covered
  <2> QED  BY <2>1, <2>5 DEF q2
<1> QED  BY <1>2, <1>3

\* A worker that thinks.
LEMMA ThinksCovered ==
    ASSUME ScansTyped, AbsencesKnown, ScansCover, NEW w \in Workers, NEW s, MovesCovered(w, s),
           scan' = [scan EXCEPT ![w] = s], UNCHANGED <<task, disk, absent>>
    PROVE  AbsencesKnown' /\ ScansCover'
BY ThinkingCovers DEF MovesCovered

\* The walk leaves no path out: what it found, could not read or found nothing at.
LEMMA WalkCovers ==
    ASSUME ScansTyped, AbsencesKnown, ScansCover, NEW w \in Workers, Walk(w)
    PROVE  AbsencesKnown' /\ ScansCover'
<1> DEFINE s == scan[w]
<1>1. PICK version : s \in ScansAt(version)
  BY DEF ScansTyped, IsScan
<1>2. UNCHANGED <<task, disk, absent>>
  BY DEF Walk, OpenScanSource, WalkFails, Flush, WalkEnds, Look, LookFails, Think, Go, files
<1>3. \E r : scan' = [scan EXCEPT ![w] = r] /\ MovesCovered(w, r)
  <2>1. CASE OpenScanSource(w)
    <3>1. MovesCovered(w, [s EXCEPT !.at = "walking", !.todo = Paths])
      BY <1>1 DEF MovesCovered, Covered, ScansAt
    <3>2. MovesCovered(w, [s EXCEPT !.at = "finish", !.status = "failed", !.rootCode = TRUE])
      BY <1>1 DEF MovesCovered, Covered, ScansAt
    <3> QED  BY <2>1, <3>1, <3>2 DEF OpenScanSource, Think, Go
  <2>2. CASE WalkFails(w)
    <3>1. MovesCovered(w, [s EXCEPT !.at = "batch", !.then = "root"])
      BY <1>1, <2>2 DEF MovesCovered, Covered, ScansAt, WalkFails
    <3> QED  BY <2>2, <3>1 DEF WalkFails, Think, Go
  <2>3. CASE Flush(w)
    <3>1. MovesCovered(w, [s EXCEPT !.at = "batch", !.then = "walk"])
      BY <1>1, <2>3 DEF MovesCovered, Covered, ScansAt, Flush
    <3> QED  BY <2>3, <3>1 DEF Flush, Think, Go
  <2>4. CASE WalkEnds(w)
    <3>1. MovesCovered(w, [s EXCEPT !.at = "batch", !.then = "ok"])
      BY <1>1, <2>4 DEF MovesCovered, Covered, ScansAt, WalkEnds
    <3> QED  BY <2>4, <3>1 DEF WalkEnds, Think, Go
  <2>5. ASSUME NEW p \in Paths, Look(w, p)
        PROVE  \E r : scan' = [scan EXCEPT ![w] = r] /\ MovesCovered(w, r)
    <3> DEFINE seen == [s.pending.files EXCEPT ![p] = disk[p]]
               q == [s EXCEPT !.todo = s.todo \ {p}, !.pending.files[p] = disk[p]]
    <3>1. s.at = "walking" /\ scan' = [scan EXCEPT ![w] = q]
      BY <2>5 DEF Look, Think, Go
    <3>2. /\ q.task = s.task /\ q.version = s.version /\ q.at = "walking"
          /\ q.todo = s.todo \ {p} /\ q.pending.errors = s.pending.errors
          /\ q.pending.files = seen
      BY <1>1, <3>1 DEF ScansAt
    <3>3. \A u \in Paths : seen[u] = IF u = p THEN disk[p] ELSE s.pending.files[u]
      BY <1>1 DEF ScansAt
    <3>4. Leased(w) => (disk[p] = NoFacts => p \in absent[s.task])
      BY DEF Leased, AbsencesKnown, Open
    <3> HIDE DEF seen, q
    <3>5. MovesCovered(w, q)
      BY <3>1, <3>2, <3>3, <3>4 DEF MovesCovered, Covered, Known
    <3> QED  BY <3>1, <3>5
  <2>6. ASSUME NEW p \in Paths, LookFails(w, p)
        PROVE  \E r : scan' = [scan EXCEPT ![w] = r] /\ MovesCovered(w, r)
    <3> DEFINE q == [s EXCEPT !.todo = s.todo \ {p}, !.pending.errors = s.pending.errors \cup {p}]
    <3>1. s.at = "walking" /\ scan' = [scan EXCEPT ![w] = q]
      BY <2>6 DEF LookFails, Go
    <3>2. /\ q.task = s.task /\ q.version = s.version /\ q.at = "walking"
          /\ q.todo = s.todo \ {p} /\ q.pending.errors = s.pending.errors \cup {p}
          /\ q.pending.files = s.pending.files
      BY <1>1, <3>1 DEF ScansAt
    <3> HIDE DEF q
    <3>3. MovesCovered(w, q)
      BY <3>1, <3>2 DEF MovesCovered, Covered, Known
    <3> QED  BY <3>1, <3>3
  <2> QED  BY <2>1, <2>2, <2>3, <2>4, <2>5, <2>6 DEF Walk
<1> QED  BY <1>2, <1>3, ThinksCovered

\* A batch moves what the scan has in memory to the row.
LEMMA WriteCovers ==
    ASSUME LInv, AbsencesKnown, ScansCover, NEW w \in Workers, Write(w)
    PROVE  AbsencesKnown' /\ ScansCover'
<1> DEFINE s == scan[w]
<1>0. ScansTyped
  BY DEF LInv, SInv
<1>1. PICK version : s \in ScansAt(version)
  BY <1>0 DEF ScansTyped, IsScan
<1>2. CASE CheckCancel(w)
  <2>1. s.at = "batch" /\ UNCHANGED <<task, disk, absent>>
    BY <1>2 DEF CheckCancel, Think, Go, files
  <2>2. MovesCovered(w, [s EXCEPT !.at = "record"])
    BY <1>1, <2>1 DEF MovesCovered, Covered, ScansAt
  <2>3. MovesCovered(w, [Stopped(s, "error") EXCEPT !.cancelled = s.then # "abandon"])
    <3>1. CASE s.then = "abandon"
      <4>1. [NoScan EXCEPT !.cancelled = FALSE].task = NoTask
        BY DEF NoScan
      <4> QED  BY <3>1, <4>1 DEF Stopped, MovesCovered
    <3>2. CASE s.then # "abandon"
      <4>1. MovesCovered(w, [Stopped(scan[w], "error") EXCEPT !.cancelled = TRUE])
        BY <1>0, <3>2, StoppedCovered
      <4> QED  BY <3>2, <4>1
    <3> QED  BY <3>1, <3>2
  <2>4. \E r : scan' = [scan EXCEPT ![w] = r] /\ MovesCovered(w, r)
    BY <1>2, <2>2, <2>3 DEF CheckCancel, Think, Go
  <2> QED  BY <1>0, <2>1, <2>4, ThinksCovered
<1>3. CASE RecordFails(w)
  <2>1. scan' = [scan EXCEPT ![w] = Stopped(s, "error")] /\ UNCHANGED <<task, disk, absent>>
    BY <1>3 DEF RecordFails, Go, files
  <2> QED  BY <1>0, <2>1, StoppedCovered, ThinksCovered
<1>4. CASE RecordObservations(w)
  <2>1. CASE ~Holds(w) \/ task[s.task].cancel
    <3> DEFINE verdict == IF Holds(w) THEN "error" ELSE "lost"
    <3>1. scan' = [scan EXCEPT ![w] = Stopped(s, verdict)] /\ UNCHANGED <<task, disk, absent>>
      BY <1>4, <2>1 DEF RecordObservations, Think, Go, files
    <3>2. verdict \in {"error", "lost"}
      OBVIOUS
    <3> HIDE DEF verdict
    <3> QED  BY <1>0, <3>1, <3>2, StoppedCovered, ThinksCovered
  <2>2. CASE ~(~Holds(w) \/ task[s.task].cancel)
    <3> DEFINE t == s.task
               r == task[t]
               q == Recorded(r, s.pending)
               n == Written(s)
    <3>1. /\ task' = [task EXCEPT ![t] = q] /\ scan' = [scan EXCEPT ![w] = n]
          /\ t \in Tasks /\ r.status = "running" /\ r.owner = w /\ r.version = s.version
          /\ UNCHANGED <<disk, absent>> /\ s.at = "record"
      BY <1>1, <1>4, <2>2 DEF RecordObservations, Holds, ScansAt, ObserveAll
    <3>2. r \in Rows /\ r.attempts # << >>
      BY <3>1 DEF LInv, RowsInOrder
    <3>3. /\ Stays(r, q)
          /\ \A p \in Paths : s.pending.files[p] # NoFacts => q.seen[p] # 0
          /\ s.pending.errors \subseteq q.errors
      BY <3>1, <3>2, RecordedGrows
    <3>4. Covered(s, r, absent[t])
      BY <3>1 DEF ScansCover, ScanCovers, Leased
    <3>5. q.status = "running"
      BY <1>1, <3>1, <3>2, RecordedRow DEF Row, ScansAt
    <3>6. Covered(n, q, absent[t])
      <4>1. \A p \in Paths : p \in s.todo \/ Known(q, absent[t], p)
        BY <3>1, <3>3, <3>4, <3>5 DEF Covered, Known, Stays, Grown
      <4>2. CASE s.then = "walk"
        <5>1. n = [s EXCEPT !.at = "walking", !.pending = NothingPending]
          BY <4>2 DEF Written
        <5>2. n.at = "walking" /\ n.todo = s.todo
          BY <1>1, <5>1 DEF ScansAt
        <5> HIDE DEF n, q
        <5> QED  BY <4>1, <5>2 DEF Covered
      <4>3. CASE s.then = "abandon"
        <5>1. n = NoScan
          BY <4>3 DEF Written
        <5>2. n.at = "idle"
          BY <5>1 DEF NoScan
        <5> HIDE DEF n, q
        <5> QED  BY <5>2 DEF Covered
      <4>4. CASE s.then \in {"ok", "root"}
        <5>1. n = [s EXCEPT !.at = "decide", !.pending = NothingPending, !.verdict = s.then]
          BY <4>4 DEF Written
        <5>2. n.at = "decide" /\ n.verdict = s.then
          BY <1>1, <5>1 DEF ScansAt
        <5>3. s.then = "ok" => s.todo = {}
          BY <3>1, <3>4 DEF Covered
        <5> HIDE DEF n, q
        <5> QED  BY <4>1, <5>2, <5>3 DEF Covered
      <4> QED  BY <1>1, <4>2, <4>3, <4>4 DEF ScansAt
    <3> HIDE DEF n, q
    <3>7. \A u \in Tasks : task'[u] = IF u = t THEN q ELSE task[u]
      BY <3>1 DEF LInv, RowsInOrder
    <3>8. WritesItsOwn(w)
      <4>1. \A u \in Tasks : Stays(task[u], task'[u])
        BY <3>3, <3>7, SameStays
      <4> QED  BY <4>1 DEF WritesItsOwn, Stays
    <3>9. ThenCovered(w, n)
      <4> SUFFICES ASSUME NEW u \in Tasks, n.task = u PROVE Covered(n, task'[u], absent[u])
        BY DEF ThenCovered
      <4>1. n.task \in {t, NoTask}
        BY <1>1 DEF n, Written, ScansAt, NoScan
      <4>2. u = t
        BY <4>1, TasksAssumption
      <4> QED  BY <3>6, <3>7, <4>2
    <3> QED  BY <1>0, <3>1, <3>8, <3>9, WorkerCovers
  <2> QED  BY <2>1, <2>2
<1> QED  BY <1>2, <1>3, <1>4 DEF Write

\* A scan that comes to be complete has no error, so it has the rest of the paths.
LEMMA DecisionCovers ==
    ASSUME ScansTyped, AbsencesKnown, ScansCover, NEW w \in Workers, HeartbeatFails(w) \/ Decide(w)
    PROVE  AbsencesKnown' /\ ScansCover'
<1> DEFINE s == scan[w]
<1>1. PICK version : s \in ScansAt(version)
  BY DEF ScansTyped, IsScan
<1>2. MovesCovered(w, NoScan)
  BY DEF MovesCovered, NoScan
<1>3. CASE HeartbeatFails(w)
  <2>1. s.at = "walking" => MovesCovered(w, [s EXCEPT !.at = "batch", !.then = "abandon"])
    BY <1>1 DEF MovesCovered, Covered, ScansAt
  <2>2. \E r : scan' = [scan EXCEPT ![w] = r] /\ MovesCovered(w, r)
    BY <1>2, <1>3, <2>1 DEF HeartbeatFails, Go
  <2>3. UNCHANGED <<task, disk, absent>>
    BY <1>3 DEF HeartbeatFails, Go, files
  <2> QED  BY <2>2, <2>3, ThinksCovered
<1>4. CASE Decide(w)
  <2> DEFINE To(status, code) == [s EXCEPT !.at = "finish", !.status = status, !.rootCode = code]
             errors == task[s.task].errors
  <2>1. UNCHANGED <<task, disk, absent>> /\ s.at = "decide"
    BY <1>4 DEF Decide, Think, Go, files
  <2>2. \A status \in ScanStatuses \ {"completed"}, code \in BOOLEAN : MovesCovered(w, To(status, code))
    BY <1>1 DEF MovesCovered, Covered, ScansAt
  <2>3. s.verdict = "ok" /\ errors = {} => MovesCovered(w, To("completed", FALSE))
    <3> DEFINE q == To("completed", FALSE)
    <3>1. q.task = s.task /\ q.version = s.version /\ q.at = "finish"
      BY <1>1 DEF ScansAt
    <3> HIDE DEF q
    <3> QED  BY <2>1, <3>1 DEF MovesCovered, Covered, Known
  <2>4. PICK r :
            /\ scan' = [scan EXCEPT ![w] = r]
            /\ \/ r \in {To("failed", TRUE), To("cancelled", FALSE), To("partial-success", FALSE),
                         To("failed", FALSE), NoScan}
               \/ r = To("completed", FALSE) /\ s.verdict = "ok" /\ errors = {}
    BY <1>4 DEF Decide, Think, Go
  <2>5. /\ MovesCovered(w, To("failed", TRUE)) /\ MovesCovered(w, To("cancelled", FALSE))
        /\ MovesCovered(w, To("partial-success", FALSE)) /\ MovesCovered(w, To("failed", FALSE))
    BY <2>2 DEF ScanStatuses
  <2> HIDE DEF To, errors
  <2>6. MovesCovered(w, r)
    BY <1>2, <2>3, <2>4, <2>5
  <2> QED  BY <2>1, <2>4, <2>6, ThinksCovered
<1> QED  BY <1>3, <1>4

\* A file that is marked missing was away, by the scan that is completed.
LEMMA FinishCovers ==
    ASSUME LInv, AbsencesKnown, ScansCover, NEW w \in Workers, Finish(w)
    PROVE  /\ AbsencesKnown' /\ ScansCover'
           /\ \A p \in Paths : (tracked'[p].missing /\ ~tracked[p].missing) =>
                \E t \in Tasks : /\ task[t].status = "running" /\ task'[t].status = "completed"
                                 /\ p \in absent[t]
<1> DEFINE s == scan[w]
           t == s.task
<1>0. ScansTyped
  BY DEF LInv, SInv
<1>1. PICK version : s \in ScansAt(version)
  BY <1>0 DEF ScansTyped, IsScan
<1>2. s.at = "finish" /\ scan' = [scan EXCEPT ![w] = NoScan] /\ s.status \in Ended
  BY DEF Finish, LInv, FinishesEnded
<1>3. MovesCovered(w, NoScan) /\ NoScan.task = NoTask
  BY DEF MovesCovered, NoScan
<1>4. CASE ~Holds(w)
  <2>1. UNCHANGED <<task, files, absent>>
    BY <1>4 DEF Finish
  <2>2. AbsencesKnown' /\ ScansCover'
    BY <1>0, <1>2, <1>3, <2>1, ThinksCovered DEF files
  <2> QED  BY <2>1, <2>2 DEF files
<1>5. CASE Holds(w)
  <2> DEFINE r == task[t]
             q == FinishedRow(r, s)
  <2>1. /\ t \in Tasks /\ r.status = "running" /\ r.owner = w /\ r.version = s.version
        /\ task' = [task EXCEPT ![t] = q] /\ UNCHANGED absent
    BY <1>1, <1>5 DEF Finish, Holds, ScansAt
  <2>2. UNCHANGED disk
    BY <1>5 DEF Finish, MarkUnseenMissing, files
  <2>3. r \in Rows /\ r.attempts # << >>
    BY <2>1 DEF LInv, RowsInOrder
  <2>4. q.status = s.status
    BY <1>1, <1>2, <2>3, FinishedRowRow DEF Row, ScansAt
  <2> HIDE DEF q
  <2>5. \A u \in Tasks : task'[u] = IF u = t THEN q ELSE task[u]
    BY <2>1 DEF LInv, RowsInOrder
  <2>6. Stays(r, q)
    BY <1>2, <2>4 DEF Stays, Open, Ended
  <2>7. WritesItsOwn(w)
    <3>1. \A u \in Tasks : Stays(task[u], task'[u])
      BY <2>5, <2>6, SameStays
    <3> QED  BY <3>1 DEF WritesItsOwn, Stays
  <2>8. ThenCovered(w, NoScan)
    BY <1>3, TasksAssumption DEF ThenCovered
  <2>9. AbsencesKnown' /\ ScansCover'
    BY <1>0, <1>2, <2>1, <2>2, <2>7, <2>8, WorkerCovers
  <2>10. ASSUME NEW p \in Paths, tracked'[p].missing, ~tracked[p].missing
         PROVE  /\ r.status = "running" /\ task'[t].status = "completed"
                /\ p \in absent[t]
    <3>1. s.status = "completed" /\ MarkUnseenMissing(NotInBatch(t))
      BY <1>5, <2>10 DEF Finish, files
    <3>2. p \in NotInBatch(t)
      BY <2>10, <3>1 DEF MarkUnseenMissing
    <3>3. Covered(s, r, absent[t])
      BY <2>1 DEF ScansCover, ScanCovers, Leased
    <3>4. r.seen[p] # 0 \/ p \in absent[t]
      BY <1>2, <3>1, <3>3 DEF Covered
    <3> QED  BY <2>1, <2>4, <2>5, <3>1, <3>2, <3>4 DEF NotInBatch
  <2> QED  BY <2>1, <2>9, <2>10
<1> QED  BY <1>4, <1>5

\* A claim gives a scan that has been nowhere yet.
LEMMA ClaimCovers ==
    ASSUME LInv, AbsencesKnown, ScansCover, NEW w \in Workers, NEW t \in Tasks, Claim(w, t)
    PROVE  AbsencesKnown' /\ ScansCover'
<1> DEFINE s == [NoScan EXCEPT !.at = "opening", !.task = t, !.version = task[t].version + 1]
           q == Claimed(task[t], w)
<1>1. s.at = "opening"
  BY DEF NoScan
<1>2. /\ scan' = [scan EXCEPT ![w] = s] /\ UNCHANGED <<disk, absent>>
      /\ task[t].status \in Open /\ task' = [task EXCEPT ![t] = q]
  BY DEF Claim, Oldest, Claimable, Open, files
<1>3. task[t] \in Rows /\ task[t].attempts # << >>
  BY <1>2 DEF LInv, RowsInOrder, Open
<1>4. q.owner = w
  BY <1>3, ClaimedOwner
<1> HIDE DEF s, q
<1>5. \A u \in Tasks : task'[u] = IF u = t THEN q ELSE task[u]
  BY <1>2 DEF LInv, RowsInOrder
<1>6. WritesItsOwn(w)
  <2> SUFFICES ASSUME NEW u \in Tasks
               PROVE  /\ task'[u].status \in Open => task[u].status \in Open
                      /\ Stays(task[u], task'[u]) \/ task'[u].owner = w
    BY DEF WritesItsOwn
  <2>1. CASE u = t
    BY <1>2, <1>4, <1>5, <2>1
  <2>2. CASE u # t
    <3>1. task'[u] = task[u]
      BY <1>5, <2>2
    <3> QED  BY <3>1, SameStays
  <2> QED  BY <2>1, <2>2
<1>7. ThenCovered(w, s)
  BY <1>1 DEF ThenCovered, Covered
<1> QED  BY <1>2, <1>6, <1>7, WorkerCovers DEF LInv, SInv

MarksOnlyAbsent ==
    \A p \in Paths : (tracked'[p].missing /\ ~tracked[p].missing) =>
        \E t \in Tasks : /\ task[t].status = "running" /\ task'[t].status = "completed"
                         /\ p \in absent[t]

\* Every step keeps the accounts, and marks only what was away.
LEMMA AbsenceNext ==
    ASSUME LInv, AbsencesKnown, ScansCover, [ScanNext]_<<files, scans, absent, world>>
    PROVE  AbsencesKnown' /\ ScansCover' /\ MarksOnlyAbsent
<1>0. ScansTyped /\ RowsInOrder
  BY DEF LInv, SInv
<1>1. UNCHANGED tracked => MarksOnlyAbsent
  BY DEF MarksOnlyAbsent
<1>2. ASSUME UNCHANGED <<task, scan, disk, absent>> PROVE AbsencesKnown' /\ ScansCover'
  <2>1. \A t \in Tasks : Stays(task[t], task'[t])
    BY <1>2, SameStays
  <2> QED  BY <1>2, <2>1, RowsStay
<1>3. CASE Requested
  BY <1>1, <1>3, RequestsCover DEF Requested, Create, Retry, RequestCancel, Bind, files
<1>4. CASE TimePasses
  <2>1. AbsencesKnown' /\ ScansCover'
    BY <1>2, <1>4 DEF TimePasses, Rests, Grows, IntervalPasses, Ages, scans
  <2>2. ASSUME NEW p \in Paths, Rests(p) PROVE MarksOnlyAbsent
    <3>1. \A q \in Paths : tracked[q] \in TrackedFiles
      BY DEF LInv, SInv, FilesInOrder
    <3>2. \A q \in Paths : tracked'[q].missing = tracked[q].missing
      BY <2>2, <3>1 DEF Rests, IntervalPasses, LInv, SInv, FilesInOrder, TrackedFiles
    <3> QED  BY <3>2 DEF MarksOnlyAbsent
  <2>3. ASSUME NEW f \in Facts, Grows(f) PROVE MarksOnlyAbsent
    BY <1>1, <2>3 DEF Grows, Ages
  <2> QED  BY <1>4, <2>1, <2>2, <2>3 DEF TimePasses
<1>5. CASE ReclaimExpired
  <2>1. /\ UNCHANGED <<scan, disk, absent, tracked>>
        /\ \A t \in Tasks : task'[t] = IF task[t].status = "running" /\ task[t].lapsed
                                       THEN Reclaimed(task[t]) ELSE task[t]
    BY <1>5 DEF ReclaimExpired, files
  <2>2. ASSUME NEW t \in Tasks PROVE Stays(task[t], task'[t])
    <3>1. CASE task[t].status = "running" /\ task[t].lapsed
      <4>1. task[t] \in Rows /\ task[t].attempts # << >>
        BY <1>0, <3>1 DEF RowsInOrder
      <4>2. task'[t].status = "queued"
        BY <2>1, <3>1, <4>1, ReclaimedRow DEF Row
      <4> QED  BY <3>1, <4>2 DEF Stays, Open
    <3>2. CASE ~(task[t].status = "running" /\ task[t].lapsed)
      <4>1. task'[t] = task[t]
        BY <2>1, <3>2
      <4> QED  BY <4>1, SameStays
    <3> QED  BY <3>1, <3>2
  <2> QED  BY <1>1, <2>1, <2>2, RowsStay
<1>6. CASE Serves \/ Unmounted \/ Remounted \/ InboxRead
  BY <1>1, <1>2, <1>6 DEF Serves, Unmounted, Remounted, InboxRead, scans, files
<1>7. ASSUME NEW w \in Workers, Worker(w) PROVE AbsencesKnown' /\ ScansCover' /\ MarksOnlyAbsent
  <2>1. ASSUME NEW t \in Tasks, Claim(w, t) PROVE AbsencesKnown' /\ ScansCover' /\ MarksOnlyAbsent
    BY <1>1, <2>1, ClaimCovers DEF Claim, files
  <2>2. CASE Walk(w) \/ HeartbeatFails(w) \/ Decide(w)
    <3>1. UNCHANGED tracked
      BY <2>2 DEF Walk, OpenScanSource, WalkFails, Flush, WalkEnds, Look, LookFails, Think,
         HeartbeatFails, Decide, files
    <3> QED  BY <1>0, <1>1, <2>2, <3>1, WalkCovers, DecisionCovers
  <2>3. CASE Write(w)
    <3>1. UNCHANGED tracked \/ ObserveAll(scan[w].pending.files)
      BY <2>3 DEF Write, CheckCancel, RecordObservations, RecordFails, Think, files
    <3>2. ObserveAll(scan[w].pending.files) => MarksOnlyAbsent
      <4> SUFFICES ASSUME ObserveAll(scan[w].pending.files), NEW p \in Paths
                   PROVE  tracked'[p].missing => tracked[p].missing
        BY DEF MarksOnlyAbsent
      <4>1. \/ tracked'[p] = tracked[p]
            \/ tracked'[p] = Observed(p, scan[w].pending.files[p])
        BY DEF ObserveAll
      <4>2. \A f : Observed(p, f).missing = FALSE
        BY DEF Observed
      <4> QED  BY <4>1, <4>2
    <3> QED  BY <1>1, <2>3, <3>1, <3>2, WriteCovers
  <2>4. CASE Finish(w)
    BY <2>4, FinishCovers DEF MarksOnlyAbsent
  <2> QED  BY <1>7, <2>1, <2>2, <2>3, <2>4 DEF Worker
<1>8. ASSUME NEW t \in Tasks, LeaseExpires(t) PROVE AbsencesKnown' /\ ScansCover' /\ MarksOnlyAbsent
  <2>1. /\ task[t].status = "running" /\ task' = [task EXCEPT ![t] = [task[t] EXCEPT !.lapsed = TRUE]]
        /\ UNCHANGED <<scan, disk, absent, tracked>>
    BY <1>8 DEF LeaseExpires, files
  <2>2. Stays(task[t], [task[t] EXCEPT !.lapsed = TRUE])
    BY <1>0, <2>1, HeldStays DEF RowsInOrder
  <2> QED  BY <1>0, <1>1, <2>1, <2>2, RowStays
<1>9. ASSUME NEW p \in Paths, NEW f \in Facts \cup {NoFacts}, Changed(p, f)
      PROVE  AbsencesKnown' /\ ScansCover' /\ MarksOnlyAbsent
  <2>1. /\ disk' = [disk EXCEPT ![p] = f] /\ UNCHANGED <<tracked, task, scan>>
        /\ absent' = IF f # NoFacts THEN absent
                     ELSE [t \in Tasks |-> IF task[t].status \in Open THEN absent[t] \cup {p} ELSE absent[t]]
    BY <1>9 DEF Changed, scans
  <2>2. absent' \in [Tasks -> SUBSET Paths] /\ \A t \in Tasks : absent[t] \subseteq absent'[t]
    BY <2>1 DEF AbsencesKnown
  <2>3. \A u \in Paths : disk'[u] = IF u = p THEN f ELSE disk[u]
    BY <2>1 DEF LInv, SInv, FilesInOrder
  <2>4. AbsencesKnown'
    <3> SUFFICES ASSUME NEW t \in Tasks, task[t].status \in Open, NEW u \in Paths, disk'[u] = NoFacts
                 PROVE  u \in absent'[t]
      BY <2>1, <2>2 DEF AbsencesKnown
    <3>1. CASE u = p
      BY <2>1, <2>3, <3>1
    <3>2. CASE u # p
      BY <2>2, <2>3, <3>2 DEF AbsencesKnown
    <3> QED  BY <3>1, <3>2
  <2>5. ASSUME NEW v \in Workers PROVE ScanCovers(v)'
    <3>1. \A t \in Tasks : Grown(task[t], task'[t])
      BY <2>1 DEF Grown
    <3> QED  BY <2>1, <2>2, <3>1, CoverStays
  <2> QED  BY <1>1, <2>1, <2>4, <2>5 DEF ScansCover
<1>10. CASE Died
  <2>1. UNCHANGED <<task, disk, absent, tracked>> /\ scan' = [w \in Workers |-> NoScan]
    BY <1>10 DEF Died, files
  <2>2. NoScan.task = NoTask
    BY DEF NoScan
  <2>3. AbsencesKnown'
    BY <2>1 DEF AbsencesKnown
  <2>4. ASSUME NEW v \in Workers PROVE ScanCovers(v)'
    BY <2>1, <2>2, TasksAssumption DEF ScanCovers, Leased
  <2> QED  BY <1>1, <2>1, <2>3, <2>4 DEF ScansCover
<1>11. CASE UNCHANGED <<files, scans, absent, world>>
  BY <1>1, <1>2, <1>11 DEF files, scans
<1> QED
  BY <1>3, <1>4, <1>5, <1>6, <1>7, <1>8, <1>9, <1>10, <1>11 DEF ScanNext

\* At first nothing is open, and nobody walks.
LEMMA FirstCover == ScanInit => AbsencesKnown /\ ScansCover
<1> SUFFICES ASSUME ScanInit PROVE AbsencesKnown /\ ScansCover
  OBVIOUS
<1>1. /\ task = [t \in Tasks |-> Absent] /\ scan = [w \in Workers |-> NoScan]
      /\ absent = [t \in Tasks |-> {}]
  BY DEF ScanInit
<1>2. NoScan.task = NoTask /\ Absent.status \notin Open
  BY DEF NoScan, Absent, Open
<1>3. AbsencesKnown
  BY <1>1, <1>2 DEF AbsencesKnown
<1>4. ScansCover
  BY <1>1, <1>2, TasksAssumption DEF ScansCover, ScanCovers, Leased
<1> QED  BY <1>3, <1>4

\* A file is taken for gone only by a scan that completed, and only when it was away at some moment
\* while the task was open, whatever attempts, takeovers, lost batches and changes there were: for
\* any files, workers and tasks (mark_unseen_missing under finish of tasks/store.rs, which asks only
\* for the lease and for what the batch has observed).
THEOREM MissingWasAway == ScanSpec => MissingWasAbsent
<1>1. ScanInit => RowsInOrder /\ FinishesEnded /\ AbsencesKnown /\ ScansCover
  BY LeaseInit, FirstCover
<1>2. SInv /\ RowsInOrder /\ FinishesEnded /\ AbsencesKnown /\ ScansCover
        /\ [ScanNext]_<<files, scans, absent, world>>
        => (RowsInOrder /\ FinishesEnded /\ AbsencesKnown /\ ScansCover)'
  BY LeaseNext, AbsenceNext DEF LInv
<1>3. SInv /\ RowsInOrder /\ FinishesEnded /\ AbsencesKnown /\ ScansCover
        /\ [ScanNext]_<<files, scans, absent, world>>
        => [\A p \in Paths : (tracked'[p].missing /\ ~tracked[p].missing) =>
                \E t \in Tasks : /\ task[t].status = "running" /\ task'[t].status = "completed"
                                 /\ p \in absent[t]]_<<files, task, absent>>
  BY AbsenceNext DEF LInv, MarksOnlyAbsent
<1> QED  BY <1>1, <1>2, <1>3, ScansStayInOrder, PTL DEF ScanSpec, MissingWasAbsent
=============================================================================
