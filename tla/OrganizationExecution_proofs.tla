-------------------- MODULE OrganizationExecution_proofs --------------------
(***************************************************************************)
(* Proofs about OrganizationExecution with its files.                      *)
(*                                                                         *)
(* Each action gets a lemma that says what it does to the run it belongs   *)
(* to, to the rows and to the files (...Does); the invariants are then     *)
(* shown of these effects.  The inductive invariant is Inductive: shapes,  *)
(* the steps a run may be at (Base), temporary files that have one owner,  *)
(* what is kept of the source, and, until a user or a rollback interferes, *)
(* what rows and runs know of the files.  After it come what it lacks for  *)
(* a user's files (UserWorld), a completed result (OrderedWorld) and a     *)
(* rollback (ReturnWorld), each with its theorem.                          *)
(***************************************************************************)
EXTENDS OrganizationExecution, TLAPS

-----------------------------------------------------------------------------
(***************************************************************************)
(* Runs, rows and what a step of a run leaves alone.                       *)
(***************************************************************************)

Steps == FileSteps \cup RemovalSteps \cup NfoSteps \cup SharedSteps

LEMMA RunsAre ==
    Runs = [at : Steps, on : JournalKinds, row : Rows, facts : AllFacts, seen : Nat,
            direct : BOOLEAN, then : Outcomes]
BY DEF Runs, Steps

\* What a run has in memory after its step; the others have what they had.
Turned(r, at, on, row, facts, direct, then) ==
    /\ run' \in [Runners -> Runs]
    /\ \A s \in Runners : s # r => run'[s] = run[s]
    /\ run'[r].at = at /\ run'[r].on = on /\ run'[r].row = row
    /\ run'[r].facts = facts /\ run'[r].direct = direct /\ run'[r].then = then

Same(r, at) == Turned(r, at, run[r].on, run[r].row, run[r].facts, run[r].direct, run[r].then)

LEMMA TurnedBy ==
    ASSUME run \in [Runners -> Runs], NEW r \in Runners, NEW new \in Runs,
           run' = [run EXCEPT ![r] = new]
    PROVE  Turned(r, new.at, new.on, new.row, new.facts, new.direct, new.then)
BY DEF Turned

LEMMA GotoTurns ==
    ASSUME run \in [Runners -> Runs], NEW r \in Runners, NEW at \in Steps, Goto(r, at)
    PROVE  Same(r, at)
<1> DEFINE s == run[r]
           new == [s EXCEPT !.at = at]
<1>1. s \in Runs
  OBVIOUS
<1> HIDE DEF s
<1>2. new \in Runs /\ new.at = at /\ new.on = s.on /\ new.row = s.row /\ new.facts = s.facts
      /\ new.direct = s.direct /\ new.then = s.then
  BY <1>1, RunsAre
<1>3. run' = [run EXCEPT ![r] = new]
  BY DEF Goto, s
<1> HIDE DEF new
<1>4. Turned(r, at, s.on, s.row, s.facts, s.direct, s.then)
  BY <1>2, <1>3, TurnedBy
<1> QED  BY <1>4 DEF Same, s

LEMMA NoRunIs ==
    /\ NoFacts \in AllFacts /\ NoRow \in Rows /\ NoRun \in Runs
    /\ NoRun.at = "idle" /\ NoRun.on = "file" /\ NoRun.row = NoRow /\ NoRun.facts = NoFacts
    /\ NoRun.direct = FALSE /\ NoRun.then = "again"
    /\ NoRow.status = "none" /\ ~NoRow.preexisting /\ NoRow.outcome = "none" /\ NoRow.version = 0
    /\ NoRow.applied = NoFacts
<1>1. NoFacts \in AllFacts
  BY DEF AllFacts
<1>2. NoRow \in Rows
  BY <1>1 DEF NoRow, Rows, JournalStatuses
<1>3. NoRun \in Runs
  BY <1>1, <1>2 DEF NoRun, Runs, SharedSteps, JournalKinds, Outcomes
<1> QED  BY <1>1, <1>2, <1>3 DEF NoRun, NoRow

LEMMA EndTurns ==
    ASSUME run \in [Runners -> Runs], NEW r \in Runners, NEW then \in Outcomes, End(r, then)
    PROVE  Turned(r, "commit", "file", NoRow, NoFacts, FALSE, then)
<1> DEFINE new == Ended(then)
<1>1. new = [NoRun EXCEPT !.at = "commit", !.then = then]
  BY DEF Ended
<1>2. new \in Runs /\ new.at = "commit" /\ new.on = "file" /\ new.row = NoRow /\ new.facts = NoFacts
      /\ new.direct = FALSE /\ new.then = then
  BY <1>1, NoRunIs DEF Runs, SharedSteps
<1>3. run' = [run EXCEPT ![r] = new]
  BY DEF End
<1> HIDE DEF new
<1> QED  BY <1>2, <1>3, TurnedBy

LEMMA FactsTurn ==
    ASSUME run \in [Runners -> Runs], NEW r \in Runners, NEW at \in Steps, NEW facts \in AllFacts,
           run' = [run EXCEPT ![r].facts = facts, ![r].at = at]
    PROVE  Turned(r, at, run[r].on, run[r].row, facts, run[r].direct, run[r].then)
<1> DEFINE s == run[r]
           new == [s EXCEPT !.facts = facts, !.at = at]
<1>1. s \in Runs
  OBVIOUS
<1> HIDE DEF s
<1>2. new \in Runs /\ new.at = at /\ new.on = s.on /\ new.row = s.row /\ new.facts = facts
      /\ new.direct = s.direct /\ new.then = s.then
  BY <1>1, RunsAre
<1>3. run' = [run EXCEPT ![r] = new]
  BY DEF s
<1> HIDE DEF new
<1>4. Turned(r, at, s.on, s.row, facts, s.direct, s.then)
  BY <1>2, <1>3, TurnedBy
<1> QED  BY <1>4 DEF s

LEMMA RowTurns ==
    ASSUME run \in [Runners -> Runs], NEW r \in Runners, NEW at \in Steps, NEW row \in Rows,
           run' = [run EXCEPT ![r].row = row, ![r].at = at]
    PROVE  Turned(r, at, run[r].on, row, run[r].facts, run[r].direct, run[r].then)
<1> DEFINE s == run[r]
           new == [s EXCEPT !.row = row, !.at = at]
<1>1. s \in Runs
  OBVIOUS
<1> HIDE DEF s
<1>2. new \in Runs /\ new.at = at /\ new.on = s.on /\ new.row = row /\ new.facts = s.facts
      /\ new.direct = s.direct /\ new.then = s.then
  BY <1>1, RunsAre
<1>3. run' = [run EXCEPT ![r] = new]
  BY DEF s
<1> HIDE DEF new
<1>4. Turned(r, at, s.on, row, s.facts, s.direct, s.then)
  BY <1>2, <1>3, TurnedBy
<1> QED  BY <1>4 DEF s

Taken(kind, status) == IF kind = "nfo" /\ status = "compensated" THEN "again" ELSE "review"

LEMMA EntryIs ==
    ASSUME NEW kind \in JournalKinds, NEW status \in JournalStatuses, status # "none"
    PROVE  Entry(kind, status) \in Steps
BY DEF Entry, JournalKinds, JournalStatuses, Steps, FileSteps, RemovalSteps, NfoSteps, SharedSteps

LEMMA AdvanceTurns ==
    ASSUME run \in [Runners -> Runs], NEW r \in Runners, NEW kind \in JournalKinds, NEW row \in Rows,
           row.status # "none", Advance(r, kind, row)
    PROVE  Turned(r, Entry(kind, row.status), kind, row, run[r].facts, run[r].direct,
                  Taken(kind, row.status))
<1> DEFINE s == run[r]
           at == Entry(kind, row.status)
           then == Taken(kind, row.status)
           new == [s EXCEPT !.on = kind, !.row = row, !.at = at, !.then = then]
<1>1. s \in Runs
  OBVIOUS
<1>2. at \in Steps /\ then \in Outcomes
  BY EntryIs DEF Taken, Outcomes, Rows
<1>3. run' = [run EXCEPT ![r] = new]
  BY DEF Advance, Taken
<1> HIDE DEF s, at, then
<1>4. new \in Runs /\ new.at = at /\ new.on = kind /\ new.row = row /\ new.facts = s.facts
      /\ new.direct = s.direct /\ new.then = then
  BY <1>1, <1>2, RunsAre
<1> HIDE DEF new
<1>5. Turned(r, at, kind, row, s.facts, s.direct, then)
  BY <1>3, <1>4, TurnedBy
<1> QED  BY <1>5 DEF s, at, then

LEMMA FactsAre ==
    ASSUME disk \in [Paths -> Inodes \cup {Absent}], content \in [Inodes -> Data], NEW p \in Paths
    PROVE  /\ Facts(p) \in AllFacts
           /\ disk[p] = Absent <=> Facts(p) = NoFacts
           /\ Facts(p) # NoFacts => Facts(p).inode = disk[p] /\ Facts(p).data = content[disk[p]]
<1>1. Absent \notin Inodes
  BY DEF Absent, Inodes, Original, Manifest
<1>2. CASE disk[p] = Absent
  BY <1>2 DEF Facts, AllFacts
<1>3. CASE disk[p] # Absent
  <2>1. disk[p] \in Inodes /\ content[disk[p]] \in Data
    BY <1>3
  <2>2. Facts(p) = [inode |-> disk[p], data |-> content[disk[p]]]
    BY <1>3 DEF Facts
  <2>3. Facts(p).inode # Absent /\ NoFacts.inode = Absent
    BY <1>1, <2>1, <2>2 DEF NoFacts
  <2> QED  BY <1>3, <2>1, <2>2, <2>3 DEF AllFacts
<1> QED  BY <1>2, <1>3

LEMMA PathsAre ==
    /\ "source" \in Paths /\ "target" \in Paths /\ "nfo" \in Paths /\ "temp" \in Paths
    /\ "rollback" \in Paths /\ "removal" \in Paths /\ "manifest" \in Paths
    /\ "nfo-temp" \in Paths /\ "nfo-rollback" \in Paths
BY DEF Paths, Visible


-----------------------------------------------------------------------------
(***************************************************************************)
(* What each step of a run does, in terms of Turned.                       *)
(***************************************************************************)

Ends(r, then) == Turned(r, "commit", "file", NoRow, NoFacts, FALSE, then)

LEMMA RunIs ==
    ASSUME TypeOK, NEW r \in Runners
    PROVE  /\ run \in [Runners -> Runs] /\ run[r] \in Runs
           /\ run[r].row \in Rows /\ run[r].on \in JournalKinds /\ run[r].facts \in AllFacts
           /\ run[r].direct \in BOOLEAN /\ run[r].then \in Outcomes /\ run[r].at \in Steps
BY RunsAre DEF TypeOK

LEMMA WorldIs ==
    ASSUME TypeOK
    PROVE  /\ disk \in [Paths -> Inodes \cup {Absent}] /\ content \in [Inodes -> Data]
           /\ \A p \in Paths : Facts(p) \in AllFacts
           /\ \A k \in JournalKinds : journal[k] \in Rows
           /\ plan \in Plans
BY FactsAre DEF TypeOK

LEMMA MovedIs ==
    ASSUME NEW row \in Rows, NEW status \in JournalStatuses
    PROVE  /\ Moved(row, status) \in Rows /\ Moved(row, status).status = status
           /\ Moved(row, status).version = row.version + 1
           /\ Moved(row, status).applied = row.applied
           /\ Moved(row, status).preexisting = row.preexisting
           /\ Moved(row, status).outcome = row.outcome
<1> DEFINE version == row.version + 1
<1>1. Moved(row, status) = [row EXCEPT !.status = status, !.version = version]
  BY DEF Moved, Rows
<1>2. version \in Nat
  BY DEF Rows
<1> HIDE DEF version
<1>3. /\ [row EXCEPT !.status = status, !.version = version] \in Rows
      /\ [row EXCEPT !.status = status, !.version = version].status = status
      /\ [row EXCEPT !.status = status, !.version = version].version = version
      /\ [row EXCEPT !.status = status, !.version = version].applied = row.applied
      /\ [row EXCEPT !.status = status, !.version = version].preexisting = row.preexisting
      /\ [row EXCEPT !.status = status, !.version = version].outcome = row.outcome
  BY <1>2 DEF Rows
<1> QED  BY <1>1, <1>3 DEF version

LEMMA GotoDoes ==
    ASSUME TypeOK, NEW r \in Runners, NEW at \in Steps, Goto(r, at)
    PROVE  Same(r, at)
BY GotoTurns, RunIs

LEMMA EndDoes ==
    ASSUME TypeOK, NEW r \in Runners, NEW then \in Outcomes, End(r, then)
    PROVE  Ends(r, then)
BY EndTurns, RunIs DEF Ends

LEMMA WriteDoes ==
    ASSUME TypeOK, NEW r \in Runners, NEW new \in Rows, NEW at \in Steps, Write(r, new, at)
    PROVE  \/ /\ Current(run[r].on, run[r].row)
              /\ journal' = [journal EXCEPT ![run[r].on] = new]
              /\ Turned(r, at, run[r].on, new, run[r].facts, run[r].direct, run[r].then)
           \/ /\ ~Current(run[r].on, run[r].row)
              /\ UNCHANGED journal
              /\ Ends(r, "again")
<1>1. CASE Current(run[r].on, run[r].row)
  <2>1. run' = [run EXCEPT ![r].row = new, ![r].at = at] /\ journal' = [journal EXCEPT ![run[r].on] = new]
    BY <1>1 DEF Write
  <2>2. Turned(r, at, run[r].on, new, run[r].facts, run[r].direct, run[r].then)
    BY <2>1, RunIs, RowTurns
  <2> QED  BY <1>1, <2>1, <2>2
<1>2. CASE ~Current(run[r].on, run[r].row)
  BY <1>2, EndDoes DEF Write, Outcomes
<1> QED  BY <1>1, <1>2

LEMMA AdvanceDoes ==
    ASSUME TypeOK, NEW r \in Runners, NEW kind \in JournalKinds, NEW row \in Rows,
           row.status # "none", Advance(r, kind, row)
    PROVE  Turned(r, Entry(kind, row.status), kind, row, run[r].facts, run[r].direct,
                  Taken(kind, row.status))
BY AdvanceTurns, RunIs

LEMMA EnsureDoes ==
    ASSUME TypeOK, NEW r \in Runners, NEW kind \in JournalKinds, NEW new \in Rows,
           new.status = "prepared", Ensure(r, kind, new)
    PROVE  \/ /\ journal[kind].status = "none"
              /\ journal' = [journal EXCEPT ![kind] = new]
              /\ Turned(r, "begin", kind, new, run[r].facts, run[r].direct, "review")
           \/ /\ journal[kind].status # "none"
              /\ UNCHANGED journal
              /\ Turned(r, Entry(kind, journal[kind].status), kind, journal[kind], run[r].facts,
                        run[r].direct, Taken(kind, journal[kind].status))
<1>1. journal[kind] \in Rows
  BY WorldIs
<1>2. CASE journal[kind].status = "none"
  <2>1. Turned(r, Entry(kind, new.status), kind, new, run[r].facts, run[r].direct, Taken(kind, new.status))
    BY <1>2, AdvanceDoes DEF Ensure
  <2>2. Entry(kind, new.status) = "begin" /\ Taken(kind, new.status) = "review"
    BY DEF Entry, Taken
  <2> QED  BY <1>2, <2>1, <2>2 DEF Ensure
<1>3. CASE journal[kind].status # "none"
  BY <1>1, <1>3, AdvanceDoes DEF Ensure
<1> QED  BY <1>2, <1>3

LEMMA FactsDo ==
    ASSUME TypeOK, NEW r \in Runners, NEW at \in Steps, NEW facts \in AllFacts,
           run' = [run EXCEPT ![r].facts = facts, ![r].at = at]
    PROVE  Turned(r, at, run[r].on, run[r].row, facts, run[r].direct, run[r].then)
BY FactsTurn, RunIs

LEMMA InspectDoes ==
    ASSUME TypeOK, NEW r \in Runners, Inspect(r)
    PROVE  At(r, "inspect") /\ (Same(r, "review") \/ (Holds(run[r].on, run[r].row) /\ Same(r, "verify")))
BY GotoDoes DEF Inspect, Steps, SharedSteps

LEMMA ObserveDoes ==
    ASSUME TypeOK, NEW r \in Runners, Observe(r)
    PROVE  At(r, "observe") /\ (Ends(r, "review") \/ (Facts("source") = Planned /\ Same(r, "prepare")))
BY GotoDoes, EndDoes DEF Observe, Steps, FileSteps, Outcomes

LEMMA ExecuteDoes ==
    ASSUME TypeOK, NEW r \in Runners, Execute(r)
    PROVE  /\ At(r, "execute")
           /\ \/ Same(r, "review")
              \/ /\ Placement = "cross" /\ Operation # "hardlink"
                 /\ Turned(r, "copy", run[r].on, run[r].row, run[r].facts, Operation = "move", run[r].then)
              \/ Placement # "cross" /\ Same(r, "rename")
<1> DEFINE s == run[r]
           refused == Facts("source") # Planned \/ (Placement = "cross" /\ Operation = "hardlink")
<1>1. At(r, "execute")
  BY DEF Execute
<1>2. CASE refused
  <2>1. Goto(r, "review")
    BY <1>2 DEF Execute, Goto
  <2> QED  BY <1>1, <2>1, GotoDoes DEF Steps, SharedSteps
<1>3. CASE ~refused /\ Placement = "cross"
  <2> DEFINE direct == Operation = "move"
             new == [s EXCEPT !.at = "copy", !.direct = direct]
  <2>1. run' = [run EXCEPT ![r] = new]
    BY <1>3 DEF Execute
  <2>2. direct \in BOOLEAN /\ s \in Runs
    BY RunIs
  <2> HIDE DEF s, direct
  <2>3. /\ new \in Runs /\ new.at = "copy" /\ new.on = s.on /\ new.row = s.row /\ new.facts = s.facts
        /\ new.direct = direct /\ new.then = s.then
    BY <2>2, RunsAre DEF Steps, FileSteps
  <2> HIDE DEF new
  <2>4. Turned(r, "copy", s.on, s.row, s.facts, direct, s.then)
    BY <2>1, <2>3, RunIs, TurnedBy
  <2> QED  BY <1>1, <1>3, <2>4 DEF s, direct
<1>4. CASE ~refused /\ Placement # "cross"
  <2>1. Goto(r, "rename")
    BY <1>4 DEF Execute, Goto
  <2> QED  BY <1>1, <1>4, <2>1, GotoDoes DEF Steps, FileSteps
<1> QED  BY <1>2, <1>3, <1>4

LEMMA RecoverDoes ==
    ASSUME TypeOK, NEW r \in Runners, Recover(r)
    PROVE  /\ At(r, "recover")
           /\ \/ Same(r, "review")
              \/ disk["target"] = Absent /\ Facts("source") = Planned /\ Same(r, ExecuteStep)
              \/ /\ disk["target"] # Absent /\ TargetMatches
                 /\ Turned(r, "mark", run[r].on, run[r].row, Facts("target"), run[r].direct, run[r].then)
<1> DEFINE s == run[r]
           there == disk["target"] # Absent /\ TargetMatches
           free == disk["target"] = Absent /\ Facts("source") = Planned
<1>1. At(r, "recover")
  BY DEF Recover
<1>2. CASE there
  <2>1. run' = [run EXCEPT ![r].facts = Facts("target"), ![r].at = "mark"]
    BY <1>2 DEF Recover
  <2> QED  BY <1>1, <1>2, <2>1, FactsDo, WorldIs, PathsAre DEF Steps, SharedSteps
<1>3. CASE free
  <2>1. ~there
    BY <1>3
  <2>2. Goto(r, ExecuteStep)
    BY <1>3, <2>1 DEF Recover, Goto
  <2> QED  BY <1>1, <1>3, <2>2, GotoDoes DEF Steps, FileSteps, ExecuteStep
<1>4. CASE ~there /\ ~free
  <2>1. Goto(r, "review")
    BY <1>4 DEF Recover, Goto
  <2> QED  BY <1>1, <2>1, GotoDoes DEF Steps, SharedSteps
<1> QED  BY <1>2, <1>3, <1>4

LEMMA CompletedDoes ==
    ASSUME TypeOK, NEW r \in Runners, Completed(r)
    PROVE  /\ At(r, "completed")
           /\ \/ Same(r, "review")
              \/ (Operation # "move" \/ disk["source"] = Absent) /\ Same(r, "conclude")
              \/ Operation = "move" /\ Same(r, "partial")
BY GotoDoes DEF Completed, Steps, SharedSteps, RemovalSteps

LEMMA RemovalRecoverDoes ==
    ASSUME TypeOK, NEW r \in Runners, RemovalRecover(r)
    PROVE  At(r, "removal-recover") /\ (Same(r, "review") \/ Same(r, "removal-look"))
BY GotoDoes DEF RemovalRecover, Steps, SharedSteps, RemovalSteps

LEMMA RemovalLookDoes ==
    ASSUME TypeOK, NEW r \in Runners, RemovalLook(r)
    PROVE  /\ At(r, "removal-look")
           /\ \/ Same(r, "review")
              \/ disk["source"] = Absent /\ Facts("removal") = Planned /\ Same(r, "removal-unlink")
              \/ disk["source"] = Absent /\ disk["removal"] = Absent /\ Same(r, AfterRemoval(r))
              \/ Facts("source") = Planned /\ disk["removal"] = Absent /\ Same(r, "removal-rename")
BY GotoDoes DEF RemovalLook, Steps, SharedSteps, RemovalSteps, FileSteps, AfterRemoval

LEMMA FinishRemovalDoes ==
    ASSUME TypeOK, NEW r \in Runners, FinishRemoval(r)
    PROVE  /\ At(r, "finish-removal")
           /\ Turned(r, IF Operation = "quarantine" THEN "manifest" ELSE "conclude", "file",
                     journal["file"], run[r].facts, run[r].direct, run[r].then)
<1> DEFINE s == run[r]
           at == IF Operation = "quarantine" THEN "manifest" ELSE "conclude"
           row == journal["file"]
           new == [s EXCEPT !.on = "file", !.row = row, !.at = at]
<1>1. At(r, "finish-removal") /\ run' = [run EXCEPT ![r] = new]
  BY DEF FinishRemoval
<1>2. row \in Rows /\ at \in {"manifest", "conclude"} /\ s \in Runs
  BY WorldIs, RunIs DEF JournalKinds
<1> HIDE DEF s, row, at
<1>3. new \in Runs /\ new.at = at /\ new.on = "file" /\ new.row = row /\ new.facts = s.facts
      /\ new.direct = s.direct /\ new.then = s.then
  BY <1>2, RunsAre DEF Steps, FileSteps, SharedSteps, JournalKinds
<1> HIDE DEF new
<1>4. Turned(r, at, "file", row, s.facts, s.direct, s.then)
  BY <1>1, <1>3, RunIs, TurnedBy
<1> QED  BY <1>1, <1>4 DEF s, row, at

LEMMA NfoLookDoes ==
    ASSUME TypeOK, NEW r \in Runners, NfoLook(r)
    PROVE  /\ At(r, "nfo-look")
           /\ \/ Ends(r, "again")
              \/ /\ journal["nfo"].status = "none" /\ VerifiedFile
                 /\ Turned(r, "nfo-pending", run[r].on, journal["file"], run[r].facts, run[r].direct,
                           run[r].then)
              \/ /\ journal["nfo"].status # "none"
                 /\ Turned(r, Entry("nfo", journal["nfo"].status), "nfo", journal["nfo"], run[r].facts,
                           run[r].direct, Taken("nfo", journal["nfo"].status))
<1>1. At(r, "nfo-look") /\ journal["nfo"] \in Rows /\ journal["file"] \in Rows
  BY WorldIs DEF NfoLook, JournalKinds
<1>2. CASE journal["nfo"].status # "none"
  <2>1. Advance(r, "nfo", journal["nfo"])
    BY <1>2 DEF NfoLook
  <2> QED  BY <1>1, <1>2, <2>1, AdvanceDoes DEF JournalKinds
<1>3. CASE journal["nfo"].status = "none" /\ VerifiedFile
  <2>1. run' = [run EXCEPT ![r].row = journal["file"], ![r].at = "nfo-pending"]
    BY <1>3 DEF NfoLook
  <2> QED  BY <1>1, <1>3, <2>1, RowTurns, RunIs DEF Steps, NfoSteps
<1>4. CASE journal["nfo"].status = "none" /\ ~VerifiedFile
  <2>1. End(r, "again")
    BY <1>4 DEF NfoLook
  <2> QED  BY <1>1, <2>1, EndDoes DEF Outcomes
<1> QED  BY <1>2, <1>3, <1>4

LEMMA NfoInspectDoes ==
    ASSUME TypeOK, NEW r \in Runners, NfoInspect(r)
    PROVE  /\ At(r, "nfo-inspect")
           /\ Turned(r, "nfo-prepare", run[r].on, run[r].row, Facts("nfo"), run[r].direct, run[r].then)
BY FactsDo, WorldIs, PathsAre DEF NfoInspect, Steps, NfoSteps

LEMMA NfoExecuteDoes ==
    ASSUME TypeOK, NEW r \in Runners, NfoExecute(r)
    PROVE  /\ At(r, "nfo-execute")
           /\ \/ ~run[r].row.preexisting /\ Same(r, "nfo-create")
              \/ /\ run[r].row.preexisting
                 /\ Turned(r, "mark", run[r].on, run[r].row, run[r].row.applied, run[r].direct, run[r].then)
<1>1. run[r].row.applied \in AllFacts
  BY RunIs DEF Rows
<1>2. CASE run[r].row.preexisting
  BY <1>1, <1>2, FactsDo DEF NfoExecute, Steps, SharedSteps
<1>3. CASE ~run[r].row.preexisting
  BY <1>3, GotoDoes DEF NfoExecute, Steps, NfoSteps
<1> QED  BY <1>2, <1>3

LEMMA NfoExistsDoes ==
    ASSUME TypeOK, NEW r \in Runners, NfoExists(r)
    PROVE  /\ At(r, "nfo-exists")
           /\ \/ Same(r, "review")
              \/ /\ Facts("nfo").data = "nfo"
                 /\ Turned(r, "mark", run[r].on, run[r].row, Facts("nfo"), run[r].direct, run[r].then)
<1>1. CASE Facts("nfo").data = "nfo"
  <2>1. run' = [run EXCEPT ![r].facts = Facts("nfo"), ![r].at = "mark"]
    BY <1>1 DEF NfoExists
  <2> QED  BY <1>1, <2>1, FactsDo, WorldIs, PathsAre DEF NfoExists, Steps, SharedSteps
<1>2. CASE Facts("nfo").data # "nfo"
  <2>1. Goto(r, "review")
    BY <1>2 DEF NfoExists, Goto
  <2> QED  BY <2>1, GotoDoes DEF NfoExists, Steps, SharedSteps
<1> QED  BY <1>1, <1>2

LEMMA NfoRecoverDoes ==
    ASSUME TypeOK, NEW r \in Runners, NfoRecover(r)
    PROVE  /\ At(r, "nfo-recover")
           /\ \/ Same(r, "review")
              \/ ~run[r].row.preexisting /\ Same(r, "nfo-create")
              \/ /\ IF run[r].row.preexisting THEN Facts("nfo") = run[r].row.applied
                                              ELSE Facts("nfo").data = "nfo"
                 /\ Turned(r, "mark", run[r].on, run[r].row, Facts("nfo"), run[r].direct, run[r].then)
<1> DEFINE row == run[r].row
           own == IF row.preexisting THEN Facts("nfo") = row.applied ELSE Facts("nfo").data = "nfo"
           free == ~row.preexisting /\ Facts("nfo") = NoFacts
<1>1. At(r, "nfo-recover")
  BY DEF NfoRecover
<1>2. CASE own
  <2>1. run' = [run EXCEPT ![r].facts = Facts("nfo"), ![r].at = "mark"]
    BY <1>2 DEF NfoRecover
  <2> QED  BY <1>1, <1>2, <2>1, FactsDo, WorldIs, PathsAre DEF Steps, SharedSteps
<1>3. CASE ~own /\ free
  <2>1. Goto(r, "nfo-create")
    BY <1>3 DEF NfoRecover, Goto
  <2> QED  BY <1>1, <1>3, <2>1, GotoDoes DEF Steps, NfoSteps
<1>4. CASE ~own /\ ~free
  <2>1. Goto(r, "review")
    BY <1>4 DEF NfoRecover, Goto
  <2> QED  BY <1>1, <2>1, GotoDoes DEF Steps, SharedSteps
<1> QED  BY <1>2, <1>3, <1>4

LEMMA CompleteDoes ==
    ASSUME TypeOK, NEW r \in Runners, Complete(r)
    PROVE  /\ At(r, "complete")
           /\ \/ Ends(r, "again")
              \/ VerifiedFile /\ Same(r, "catalog")
<1> DEFINE s == run[r]
           new == [s EXCEPT !.seen = result.version, !.at = "catalog"]
<1>1. CASE result.status # "none" /\ VerifiedFile
  <2>1. run' = [run EXCEPT ![r] = new]
    BY <1>1 DEF Complete
  <2>2. s \in Runs /\ result.version \in Nat
    BY RunIs DEF TypeOK, Results
  <2> HIDE DEF s
  <2>3. new \in Runs /\ new.at = "catalog" /\ new.on = s.on /\ new.row = s.row /\ new.facts = s.facts
        /\ new.direct = s.direct /\ new.then = s.then
    BY <2>2, RunsAre DEF Steps, SharedSteps
  <2> HIDE DEF new
  <2>4. Turned(r, "catalog", s.on, s.row, s.facts, s.direct, s.then)
    BY <2>1, <2>3, RunIs, TurnedBy
  <2> QED  BY <1>1, <2>4 DEF Complete, s, Same
<1>2. CASE ~(result.status # "none" /\ VerifiedFile)
  BY <1>2, EndDoes DEF Complete, Outcomes
<1> QED  BY <1>1, <1>2

LEMMA BeginDoes ==
    ASSUME TypeOK, NEW r \in Runners, Begin(r)
    PROVE  /\ At(r, "begin")
           /\ \/ /\ Current(run[r].on, run[r].row)
                 /\ journal' = [journal EXCEPT ![run[r].on] = Moved(run[r].row, "executing")]
                 /\ \E at \in Steps :
                     /\ run[r].on = "file" => at = ExecuteStep
                     /\ run[r].on = "removal" => at = "removal-look"
                     /\ run[r].on = "nfo" => at = "nfo-execute"
                     /\ Turned(r, at, run[r].on, Moved(run[r].row, "executing"), run[r].facts,
                               run[r].direct, run[r].then)
              \/ ~Current(run[r].on, run[r].row) /\ UNCHANGED journal /\ Ends(r, "again")
<1> DEFINE new == Moved(run[r].row, "executing")
           at == [file |-> ExecuteStep, removal |-> "removal-look", nfo |-> "nfo-execute"][run[r].on]
<1>1. At(r, "begin") /\ Write(r, new, at)
  BY DEF Begin
<1>2. new \in Rows
  BY RunIs, MovedIs DEF JournalStatuses
<1>3. /\ run[r].on = "file" => at = ExecuteStep
      /\ run[r].on = "removal" => at = "removal-look"
      /\ run[r].on = "nfo" => at = "nfo-execute"
      /\ at \in Steps
  BY RunIs DEF JournalKinds, Steps, FileSteps, RemovalSteps, NfoSteps, ExecuteStep
<1> HIDE DEF new, at
<1>4. \/ /\ Current(run[r].on, run[r].row)
         /\ journal' = [journal EXCEPT ![run[r].on] = new]
         /\ Turned(r, at, run[r].on, new, run[r].facts, run[r].direct, run[r].then)
      \/ ~Current(run[r].on, run[r].row) /\ UNCHANGED journal /\ Ends(r, "again")
  BY <1>1, <1>2, <1>3, WriteDoes
<1> QED  BY <1>1, <1>3, <1>4 DEF new

LEMMA AppliedIs ==
    ASSUME TypeOK, NEW r \in Runners
    PROVE  /\ Applied(r) \in Rows /\ Applied(r).status = "applied"
           /\ Applied(r).preexisting = run[r].row.preexisting
           /\ run[r].on = "removal" => /\ Applied(r).applied = run[r].row.applied
                                       /\ Applied(r).outcome = run[r].row.outcome
           /\ run[r].on # "removal" => Applied(r).applied = run[r].facts
           /\ run[r].on = "file" => Applied(r).outcome = run[r].row.outcome
           /\ run[r].on = "nfo" =>
                 Applied(r).outcome = IF run[r].row.preexisting THEN "preserved" ELSE "generated"
<1> DEFINE row == Moved(run[r].row, "applied")
           facts == run[r].facts
           outcome == IF row.preexisting THEN "preserved" ELSE "generated"
<1>1. /\ row \in Rows /\ row.status = "applied" /\ row.applied = run[r].row.applied
      /\ row.preexisting = run[r].row.preexisting /\ row.outcome = run[r].row.outcome
  BY RunIs, MovedIs DEF JournalStatuses
<1>2. facts \in AllFacts /\ outcome \in {"preserved", "generated"}
  BY RunIs
<1>3. run[r].on \in {"file", "removal", "nfo"}
  BY RunIs DEF JournalKinds
<1>4. CASE run[r].on = "removal"
  <2>1. Applied(r) = row
    BY <1>4 DEF Applied
  <2> QED  BY <1>1, <1>4, <2>1
<1>5. CASE run[r].on = "file"
  <2>1. Applied(r) = [row EXCEPT !.applied = facts]
    BY <1>5 DEF Applied
  <2> HIDE DEF row, facts, outcome
  <2>2. /\ [row EXCEPT !.applied = facts] \in Rows
        /\ [row EXCEPT !.applied = facts].applied = facts
        /\ [row EXCEPT !.applied = facts].status = row.status
        /\ [row EXCEPT !.applied = facts].preexisting = row.preexisting
        /\ [row EXCEPT !.applied = facts].outcome = row.outcome
    BY <1>1, <1>2 DEF Rows
  <2> QED  BY <1>1, <1>5, <2>1, <2>2 DEF facts
<1>6. CASE run[r].on = "nfo"
  <2>1. Applied(r) = [row EXCEPT !.applied = facts, !.outcome = outcome]
    BY <1>6 DEF Applied
  <2>2. outcome = IF run[r].row.preexisting THEN "preserved" ELSE "generated"
    BY <1>1
  <2> HIDE DEF row, facts, outcome
  <2>3. /\ [row EXCEPT !.applied = facts, !.outcome = outcome] \in Rows
        /\ [row EXCEPT !.applied = facts, !.outcome = outcome].applied = facts
        /\ [row EXCEPT !.applied = facts, !.outcome = outcome].status = row.status
        /\ [row EXCEPT !.applied = facts, !.outcome = outcome].preexisting = row.preexisting
        /\ [row EXCEPT !.applied = facts, !.outcome = outcome].outcome = outcome
    BY <1>1, <1>2 DEF Rows
  <2> QED  BY <1>1, <1>6, <2>1, <2>2, <2>3 DEF facts
<1> QED  BY <1>3, <1>4, <1>5, <1>6

LEMMA MarkDoes ==
    ASSUME TypeOK, NEW r \in Runners, Mark(r)
    PROVE  /\ At(r, "mark")
           /\ \/ /\ Current(run[r].on, run[r].row)
                 /\ journal' = [journal EXCEPT ![run[r].on] = Applied(r)]
                 /\ Turned(r, "inspect", run[r].on, Applied(r), run[r].facts, run[r].direct, run[r].then)
              \/ ~Current(run[r].on, run[r].row) /\ UNCHANGED journal /\ Ends(r, "again")
<1>1. At(r, "mark") /\ Write(r, Applied(r), "inspect")
  BY DEF Mark
<1>2. Applied(r) \in Rows
  BY AppliedIs
<1> QED  BY <1>1, <1>2, WriteDoes DEF Steps, SharedSteps

LEMMA VerifyDoes ==
    ASSUME TypeOK, NEW r \in Runners, Verify(r)
    PROVE  /\ At(r, "verify")
           /\ \/ /\ Current(run[r].on, run[r].row)
                 /\ journal' = [journal EXCEPT ![run[r].on] = Moved(run[r].row, "verified")]
                 /\ \E at \in Steps :
                     /\ run[r].on = "file" => at = IF run[r].direct THEN "partial" ELSE "completed"
                     /\ run[r].on = "removal" => at = "finish-removal"
                     /\ run[r].on = "nfo" => at = "nfo-finish"
                     /\ Turned(r, at, run[r].on, Moved(run[r].row, "verified"), run[r].facts,
                               run[r].direct, run[r].then)
              \/ ~Current(run[r].on, run[r].row) /\ UNCHANGED journal /\ Ends(r, "again")
<1> DEFINE new == Moved(run[r].row, "verified")
           at == [file |-> IF run[r].direct THEN "partial" ELSE "completed",
                  removal |-> "finish-removal", nfo |-> "nfo-finish"][run[r].on]
<1>1. At(r, "verify") /\ Write(r, new, at)
  BY DEF Verify
<1>2. new \in Rows
  BY RunIs, MovedIs DEF JournalStatuses
<1>3. /\ run[r].on = "file" => at = IF run[r].direct THEN "partial" ELSE "completed"
      /\ run[r].on = "removal" => at = "finish-removal"
      /\ run[r].on = "nfo" => at = "nfo-finish"
      /\ at \in Steps
  BY RunIs DEF JournalKinds, Steps, FileSteps, RemovalSteps, NfoSteps
<1> HIDE DEF new, at
<1>4. \/ /\ Current(run[r].on, run[r].row)
         /\ journal' = [journal EXCEPT ![run[r].on] = new]
         /\ Turned(r, at, run[r].on, new, run[r].facts, run[r].direct, run[r].then)
      \/ ~Current(run[r].on, run[r].row) /\ UNCHANGED journal /\ Ends(r, "again")
  BY <1>1, <1>2, <1>3, WriteDoes
<1> QED  BY <1>1, <1>3, <1>4 DEF new

LEMMA ReviewDoes ==
    ASSUME TypeOK, NEW r \in Runners, Review(r)
    PROVE  /\ At(r, "review")
           /\ \/ /\ Current(run[r].on, run[r].row)
                 /\ journal' = [journal EXCEPT ![run[r].on] = Moved(run[r].row, "manual-review")]
                 /\ Turned(r, "review-result", run[r].on, Moved(run[r].row, "manual-review"),
                           run[r].facts, run[r].direct, run[r].then)
              \/ ~Current(run[r].on, run[r].row) /\ UNCHANGED journal /\ Ends(r, "again")
<1>1. At(r, "review") /\ Write(r, Moved(run[r].row, "manual-review"), "review-result")
  BY DEF Review
<1>2. Moved(run[r].row, "manual-review") \in Rows
  BY RunIs, MovedIs DEF JournalStatuses
<1> QED  BY <1>1, <1>2, WriteDoes DEF Steps, SharedSteps

LEMMA ReviewResultDoes ==
    ASSUME TypeOK, NEW r \in Runners, ReviewResult(r)
    PROVE  At(r, "review-result") /\ UNCHANGED journal /\ Ends(r, "review")
BY EndDoes DEF ReviewResult, Outcomes

LEMMA PreparedRowIs ==
    PreparedRow \in Rows /\ PreparedRow.status = "prepared" /\ PreparedRow.applied = NoFacts
    /\ PreparedRow.preexisting = FALSE /\ PreparedRow.outcome = "none"
BY NoRunIs DEF PreparedRow, Rows, JournalStatuses

LEMMA PrepareFileDoes ==
    ASSUME TypeOK, NEW r \in Runners, PrepareFile(r)
    PROVE  /\ At(r, "prepare")
           /\ \/ /\ journal["file"].status = "none"
                 /\ journal' = [journal EXCEPT !["file"] = PreparedRow]
                 /\ Turned(r, "begin", "file", PreparedRow, run[r].facts, run[r].direct, "review")
              \/ /\ journal["file"].status # "none" /\ UNCHANGED journal
                 /\ Turned(r, Entry("file", journal["file"].status), "file", journal["file"],
                           run[r].facts, run[r].direct, Taken("file", journal["file"].status))
BY EnsureDoes, PreparedRowIs DEF PrepareFile, JournalKinds

LEMMA PrepareRemovalDoes ==
    ASSUME TypeOK, NEW r \in Runners, PrepareRemoval(r)
    PROVE  /\ At(r, "prepare-removal")
           /\ \/ /\ journal["removal"].status = "none"
                 /\ journal' = [journal EXCEPT !["removal"] = PreparedRow]
                 /\ Turned(r, "begin", "removal", PreparedRow, run[r].facts, run[r].direct, "review")
              \/ /\ journal["removal"].status # "none" /\ UNCHANGED journal
                 /\ Turned(r, Entry("removal", journal["removal"].status), "removal", journal["removal"],
                           run[r].facts, run[r].direct, Taken("removal", journal["removal"].status))
BY EnsureDoes, PreparedRowIs DEF PrepareRemoval, JournalKinds

LEMMA ConcludeDoes ==
    ASSUME TypeOK, NEW r \in Runners, Conclude(r)
    PROVE  /\ At(r, "conclude") /\ UNCHANGED journal
           /\ \E then \in {"again", "nfo-pending", "organized"} : Ends(r, then)
<1>1. \E then \in {"again", "nfo-pending", "organized"} : End(r, then)
  BY DEF Conclude
<1> QED  BY <1>1, EndDoes DEF Conclude, Outcomes

LEMMA EnsurePartialDoes ==
    ASSUME TypeOK, NEW r \in Runners, EnsurePartial(r)
    PROVE  At(r, "partial") /\ UNCHANGED journal /\ Same(r, "prepare-removal")
BY GotoDoes DEF EnsurePartial, Steps, RemovalSteps

LEMMA NfoPendingDoes ==
    ASSUME TypeOK, NEW r \in Runners, NfoPending(r)
    PROVE  At(r, "nfo-pending") /\ UNCHANGED journal /\ Same(r, "nfo-inspect")
BY GotoDoes DEF NfoPending, Steps, NfoSteps

\* The row an NFO is prepared with.
NfoRow(facts) == [PreparedRow EXCEPT !.preexisting = facts # NoFacts, !.applied = facts]

LEMMA NfoRowIs ==
    ASSUME NEW facts \in AllFacts
    PROVE  /\ NfoRow(facts) \in Rows /\ NfoRow(facts).status = "prepared"
           /\ NfoRow(facts).applied = facts /\ NfoRow(facts).preexisting = (facts # NoFacts)
           /\ NfoRow(facts).outcome = "none"
<1> DEFINE preexisting == facts # NoFacts
<1>1. preexisting \in BOOLEAN /\ NfoRow(facts) = [PreparedRow EXCEPT !.preexisting = preexisting, !.applied = facts]
  BY DEF NfoRow
<1> HIDE DEF preexisting
<1>2. /\ [PreparedRow EXCEPT !.preexisting = preexisting, !.applied = facts] \in Rows
      /\ [PreparedRow EXCEPT !.preexisting = preexisting, !.applied = facts].status = "prepared"
      /\ [PreparedRow EXCEPT !.preexisting = preexisting, !.applied = facts].applied = facts
      /\ [PreparedRow EXCEPT !.preexisting = preexisting, !.applied = facts].preexisting = preexisting
      /\ [PreparedRow EXCEPT !.preexisting = preexisting, !.applied = facts].outcome = "none"
  BY <1>1, PreparedRowIs DEF Rows
<1> QED  BY <1>1, <1>2 DEF preexisting

LEMMA NfoPrepareDoes ==
    ASSUME TypeOK, NEW r \in Runners, NfoPrepare(r)
    PROVE  /\ At(r, "nfo-prepare")
           /\ \/ UNCHANGED journal /\ Ends(r, "again")
              \/ /\ journal["nfo"].status = "none"
                 /\ journal' = [journal EXCEPT !["nfo"] = NfoRow(run[r].facts)]
                 /\ Turned(r, "begin", "nfo", NfoRow(run[r].facts), run[r].facts, run[r].direct, "review")
              \/ /\ journal["nfo"].status # "none" /\ UNCHANGED journal
                 /\ Turned(r, Entry("nfo", journal["nfo"].status), "nfo", journal["nfo"],
                           run[r].facts, run[r].direct, Taken("nfo", journal["nfo"].status))
<1>1. At(r, "nfo-prepare")
  BY DEF NfoPrepare
<1>2. Ensure(r, "nfo", NfoRow(run[r].facts)) \/ (End(r, "again") /\ UNCHANGED journal)
  BY DEF NfoPrepare, NfoRow
<1>3. CASE Ensure(r, "nfo", NfoRow(run[r].facts))
  BY <1>1, <1>3, RunIs, NfoRowIs, EnsureDoes DEF JournalKinds
<1>4. CASE End(r, "again") /\ UNCHANGED journal
  BY <1>1, <1>4, EndDoes DEF Outcomes
<1> QED  BY <1>2, <1>3, <1>4

LEMMA NfoFailedDoes ==
    ASSUME TypeOK, NEW r \in Runners, NfoFailed(r)
    PROVE  At(r, "nfo-failed") /\ UNCHANGED journal /\ Ends(r, "review")
BY EndDoes DEF NfoFailed, Outcomes

LEMMA NfoFinishDoes ==
    ASSUME TypeOK, NEW r \in Runners, NfoFinish(r)
    PROVE  At(r, "nfo-finish") /\ UNCHANGED journal /\ Ends(r, "organized")
BY EndDoes DEF NfoFinish, Outcomes

LEMMA CatalogDoes ==
    ASSUME TypeOK, NEW r \in Runners, Catalog(r)
    PROVE  /\ At(r, "catalog") /\ UNCHANGED journal
           /\ \E then \in {"again", "completed"} : Ends(r, then)
<1>1. \E then \in {"again", "completed"} : End(r, then)
  BY DEF Catalog
<1> QED  BY <1>1, EndDoes DEF Catalog, Outcomes

LEMMA CopyDoes ==
    ASSUME TypeOK, NEW r \in Runners, Copy(r)
    PROVE  /\ At(r, "copy") /\ UNCHANGED comp
           /\ \/ UNCHANGED <<disk, content>> /\ Same(r, "review")
              \/ /\ Facts("source") = Planned /\ disk["temp"] = Absent /\ CanCreate("copy")
                 /\ disk' = [disk EXCEPT !["temp"] = Fresh("copy")]
                 /\ content' = [content EXCEPT ![Fresh("copy")] = Planned.data]
                 /\ Same(r, "publish")
BY GotoDoes DEF Copy, Steps, FileSteps, SharedSteps

\* Where a copy goes when it is published.
LEMMA PublishDoes ==
    ASSUME TypeOK, NEW r \in Runners, Publish(r)
    PROVE  /\ At(r, "publish") /\ UNCHANGED <<content, comp>>
           /\ \/ disk' = Cleaned /\ Same(r, "review")
              \/ /\ Publishable /\ disk' = Renamed("temp", "target")
                 /\ Turned(r, IF Operation = "quarantine" /\ ~run[r].direct THEN "removal-look" ELSE "mark",
                           run[r].on, run[r].row, Facts("temp"), run[r].direct, run[r].then)
<1> DEFINE at == IF Operation = "quarantine" /\ ~run[r].direct THEN "removal-look" ELSE "mark"
<1>1. At(r, "publish") /\ UNCHANGED <<content, comp>>
  BY DEF Publish
<1>2. at \in Steps
  BY DEF Steps, RemovalSteps, SharedSteps
<1>3. CASE ~Publishable /\ disk' = Cleaned /\ Goto(r, "review")
  BY <1>1, <1>3, GotoDoes DEF Steps, SharedSteps
<1>4. CASE Publishable /\ disk' = Renamed("temp", "target")
           /\ run' = [run EXCEPT ![r].facts = Facts("temp"), ![r].at = at]
  <2> HIDE DEF at
  <2>1. Turned(r, at, run[r].on, run[r].row, Facts("temp"), run[r].direct, run[r].then)
    BY <1>2, <1>4, FactsDo, WorldIs, PathsAre
  <2> QED  BY <1>1, <1>4, <2>1 DEF at
<1> QED  BY <1>3, <1>4 DEF Publish

LEMMA CopyFailsDoes ==
    ASSUME TypeOK, NEW r \in Runners, CopyFails(r)
    PROVE  /\ At(r, "publish") /\ UNCHANGED <<content, comp>> /\ Ends(r, "again")
           /\ \/ disk' = Cleaned
              \/ Publishable /\ disk' = Renamed("temp", "target")
BY EndDoes DEF CopyFails, Outcomes

LEMMA RenameDoes ==
    ASSUME TypeOK, NEW r \in Runners, Rename(r)
    PROVE  /\ At(r, "rename") /\ UNCHANGED <<content, comp>>
           /\ \/ Renamable /\ disk' = NamedTarget /\ Same(r, "confirm")
              \/ UNCHANGED disk /\ Same(r, "review")
              \/ UNCHANGED disk /\ Ends(r, "again")
              \/ /\ UNCHANGED disk /\ Placement = "bind" /\ Operation # "hardlink"
                 /\ Turned(r, "copy", run[r].on, run[r].row, run[r].facts, TRUE, run[r].then)
<1> DEFINE s == run[r]
           new == [s EXCEPT !.at = "copy", !.direct = TRUE]
<1>1. At(r, "rename") /\ UNCHANGED <<content, comp>>
  BY DEF Rename
<1>2. CASE Renamable
  <2>1. disk' = NamedTarget /\ Goto(r, "confirm")
    BY <1>2 DEF Rename
  <2> QED  BY <1>1, <1>2, <2>1, GotoDoes DEF Steps, FileSteps
<1>3. CASE ~Renamable
  <2>1. CASE Placement = "bind" /\ Operation # "hardlink"
    <3>1. UNCHANGED disk /\ run' = [run EXCEPT ![r] = new]
      BY <1>3, <2>1 DEF Rename
    <3>2. s \in Runs
      BY RunIs
    <3> HIDE DEF s
    <3>3. /\ new \in Runs /\ new.at = "copy" /\ new.on = s.on /\ new.row = s.row /\ new.facts = s.facts
          /\ new.direct = TRUE /\ new.then = s.then
      BY <3>2, RunsAre DEF Steps, FileSteps
    <3> HIDE DEF new
    <3>4. Turned(r, "copy", s.on, s.row, s.facts, TRUE, s.then)
      BY <3>1, <3>3, RunIs, TurnedBy
    <3> QED  BY <1>1, <2>1, <3>1, <3>4 DEF s
  <2>2. CASE Placement # "bind" /\ disk["source"] = Absent
    <3>1. UNCHANGED disk /\ End(r, "again")
      BY <1>3, <2>2 DEF Rename, End
    <3> QED  BY <1>1, <3>1, EndDoes DEF Outcomes
  <2>3. CASE ~(Placement = "bind" /\ Operation # "hardlink") /\ ~(Placement # "bind" /\ disk["source"] = Absent)
    <3>1. UNCHANGED disk /\ Goto(r, "review")
      BY <1>3, <2>3 DEF Rename, Goto
    <3> QED  BY <1>1, <3>1, GotoDoes DEF Steps, SharedSteps
  <2> QED  BY <2>1, <2>2, <2>3
<1> QED  BY <1>2, <1>3

LEMMA RenameUnsyncedDoes ==
    ASSUME TypeOK, NEW r \in Runners, RenameUnsynced(r)
    PROVE  /\ At(r, "rename") /\ UNCHANGED <<content, comp>>
           /\ Renamable /\ disk' = NamedTarget /\ Ends(r, "again")
BY EndDoes DEF RenameUnsynced, Outcomes

LEMMA ConfirmDoes ==
    ASSUME TypeOK, NEW r \in Runners, Confirm(r)
    PROVE  /\ At(r, "confirm") /\ UNCHANGED <<disk, content>>
           /\ \/ UNCHANGED comp /\ Ends(r, "again")
              \/ /\ UNCHANGED comp /\ Facts("target") # NoFacts
                 /\ Operation = "quarantine" \/ (Facts("target").inode = Original /\ content[Original] = Planned.data)
                 /\ Turned(r, IF Operation = "quarantine" THEN "manifest" ELSE "mark",
                           run[r].on, run[r].row, Facts("target"), run[r].direct, run[r].then)
              \/ /\ Facts("target") # NoFacts /\ Operation # "quarantine"
                 /\ ~(Facts("target").inode = Original /\ content[Original] = Planned.data)
                 /\ comp' = [comp EXCEPT ![r] = Begun("target", Facts("target"), Operation = "move")]
                 /\ Same(r, "undoing")
<1> DEFINE moved == Facts("target")
           planned == moved.inode = Original /\ content[Original] = Planned.data
           at == IF Operation = "quarantine" THEN "manifest" ELSE "mark"
<1>1. At(r, "confirm") /\ UNCHANGED <<disk, content>>
  BY DEF Confirm
<1>2. at \in Steps /\ moved \in AllFacts
  BY WorldIs, PathsAre DEF Steps, FileSteps, SharedSteps
<1>3. CASE moved = NoFacts /\ End(r, "again") /\ UNCHANGED comp
  BY <1>1, <1>3, EndDoes DEF Outcomes
<1>4. CASE moved # NoFacts /\ (planned \/ Operation = "quarantine") /\ UNCHANGED comp
           /\ run' = [run EXCEPT ![r].facts = moved, ![r].at = at]
  <2> HIDE DEF at, moved
  <2>1. Turned(r, at, run[r].on, run[r].row, moved, run[r].direct, run[r].then)
    BY <1>2, <1>4, FactsDo
  <2> QED  BY <1>1, <1>4, <2>1 DEF at, moved
<1>5. CASE moved # NoFacts /\ ~planned /\ Operation # "quarantine" /\ Goto(r, "undoing")
           /\ comp' = [comp EXCEPT ![r] = Begun("target", moved, Operation = "move")]
  BY <1>1, <1>5, GotoDoes DEF Steps, FileSteps
<1> QED  BY <1>3, <1>4, <1>5 DEF Confirm

LEMMA UndoneDoes ==
    ASSUME TypeOK, NEW r \in Runners, Undone(r)
    PROVE  /\ At(r, "undoing") /\ UNCHANGED <<disk, content>> /\ comp[r].at \in CompOutcomes
           /\ comp' = [comp EXCEPT ![r] = NoComp]
           /\ Same(r, "review") \/ Ends(r, "again")
<1>1. Goto(r, "review") \/ End(r, "again")
  BY DEF Undone
<1> QED  BY <1>1, GotoDoes, EndDoes DEF Undone, Steps, SharedSteps, Outcomes

LEMMA RefusedDoes ==
    ASSUME TypeOK, NEW r \in Runners, ManifestRefused(r)
    PROVE  (run[r].row.status = "executing" /\ Same(r, "review")) \/ Ends(r, "again")
BY GotoDoes, EndDoes DEF ManifestRefused, Steps, SharedSteps, Outcomes

LEMMA CreateManifestDoes ==
    ASSUME TypeOK, NEW r \in Runners, CreateManifest(r)
    PROVE  /\ At(r, "manifest") /\ UNCHANGED <<content, comp>>
           /\ \/ UNCHANGED disk /\ run[r].row.status = "executing" /\ Same(r, "review")
              \/ UNCHANGED disk /\ Ends(r, "again")
              \/ /\ disk["temp"] = Absent /\ disk' = [disk EXCEPT !["temp"] = Manifest]
                 /\ Same(r, "manifest-publish")
BY GotoDoes, RefusedDoes DEF CreateManifest, Steps, FileSteps

LEMMA PublishManifestDoes ==
    ASSUME TypeOK, NEW r \in Runners, PublishManifest(r)
    PROVE  /\ At(r, "manifest-publish") /\ UNCHANGED <<content, comp>>
           /\ \/ disk' = Cleaned /\ run[r].row.status = "executing" /\ Same(r, "review")
              \/ disk' = Cleaned /\ Ends(r, "again")
              \/ /\ disk["manifest"] = Absent /\ disk' = Renamed("temp", "manifest")
                 /\ \/ run[r].row.status = "executing" /\ Same(r, "mark")
                    \/ run[r].row.status # "executing" /\ Same(r, "conclude")
BY GotoDoes, RefusedDoes DEF PublishManifest, Steps, SharedSteps

LEMMA ManifestFailsDoes ==
    ASSUME TypeOK, NEW r \in Runners, ManifestFails(r)
    PROVE  /\ At(r, "manifest-publish") /\ UNCHANGED <<content, comp>> /\ Ends(r, "again")
           /\ disk' = Cleaned \/ (disk["manifest"] = Absent /\ disk' = Renamed("temp", "manifest"))
BY EndDoes DEF ManifestFails, Outcomes

LEMMA RemovalRenameDoes ==
    ASSUME TypeOK, NEW r \in Runners, RemovalRename(r)
    PROVE  /\ At(r, "removal-rename") /\ UNCHANGED <<content, comp>>
           /\ \/ UNCHANGED disk /\ (Same(r, "review") \/ Ends(r, "again"))
              \/ /\ disk["source"] # Absent /\ disk["removal"] = Absent
                 /\ disk' = Renamed("source", "removal")
                 /\ Same(r, "removal-check")
BY GotoDoes, EndDoes DEF RemovalRename, Steps, SharedSteps, RemovalSteps, Outcomes

LEMMA RemovalCheckDoes ==
    ASSUME TypeOK, NEW r \in Runners, RemovalCheck(r)
    PROVE  /\ At(r, "removal-check") /\ UNCHANGED <<content, comp>>
           /\ \/ UNCHANGED disk /\ Ends(r, "again")
              \/ SourceHidden /\ UNCHANGED disk /\ Same(r, "removal-unlink")
              \/ /\ disk["removal"] # Absent /\ ~SourceHidden
                 /\ disk' = IF disk["source"] = Absent THEN Renamed("removal", "source") ELSE disk
                 /\ Same(r, "review")
BY GotoDoes, EndDoes DEF RemovalCheck, Steps, SharedSteps, RemovalSteps, Outcomes

LEMMA RemovalUnlinkDoes ==
    ASSUME TypeOK, NEW r \in Runners, RemovalUnlink(r)
    PROVE  /\ At(r, "removal-unlink") /\ UNCHANGED <<content, comp>> /\ disk' = Unlinked("removal")
           /\ Same(r, AfterRemoval(r)) \/ Ends(r, "again")
BY GotoDoes, EndDoes DEF RemovalUnlink, Steps, SharedSteps, FileSteps, AfterRemoval, Outcomes

LEMMA RemovalUnsyncedDoes ==
    ASSUME TypeOK, NEW r \in Runners, RemovalUnsynced(r)
    PROVE  /\ At(r, "removal-unlink") /\ UNCHANGED <<content, comp>> /\ disk' = Unlinked("removal")
           /\ Ends(r, "again")
BY EndDoes DEF RemovalUnsynced, Outcomes

LEMMA NfoCreateDoes ==
    ASSUME TypeOK, NEW r \in Runners, NfoCreate(r)
    PROVE  /\ At(r, "nfo-create") /\ UNCHANGED comp
           /\ \/ UNCHANGED <<disk, content>> /\ Same(r, "review")
              \/ /\ disk["nfo-temp"] = Absent /\ CanCreate("nfo")
                 /\ disk' = [disk EXCEPT !["nfo-temp"] = Fresh("nfo")]
                 /\ content' = [content EXCEPT ![Fresh("nfo")] = "nfo"]
                 /\ Same(r, "nfo-publish")
BY GotoDoes DEF NfoCreate, Steps, NfoSteps, SharedSteps

LEMMA NfoPublishDoes ==
    ASSUME TypeOK, NEW r \in Runners, NfoPublish(r)
    PROVE  /\ At(r, "nfo-publish") /\ UNCHANGED <<content, comp>>
           /\ \/ disk' = Unlinked("nfo-temp") /\ Same(r, "nfo-exists")
              \/ /\ disk["nfo"] = Absent /\ disk' = Renamed("nfo-temp", "nfo")
                 /\ Turned(r, "mark", run[r].on, run[r].row, Facts("nfo-temp"), run[r].direct, run[r].then)
<1>1. CASE NfoFree
  <2>1. run' = [run EXCEPT ![r].facts = Facts("nfo-temp"), ![r].at = "mark"]
    BY <1>1 DEF NfoPublish
  <2>2. Turned(r, "mark", run[r].on, run[r].row, Facts("nfo-temp"), run[r].direct, run[r].then)
    BY <2>1, FactsDo, WorldIs, PathsAre DEF Steps, SharedSteps
  <2> QED  BY <1>1, <2>2 DEF NfoPublish, NfoFree
<1>2. CASE ~NfoFree
  BY <1>2, GotoDoes DEF NfoPublish, Steps, NfoSteps
<1> QED  BY <1>1, <1>2

LEMMA NfoWriteFailsDoes ==
    ASSUME TypeOK, NEW r \in Runners, NfoWriteFails(r)
    PROVE  /\ At(r, "nfo-publish") /\ UNCHANGED <<content, comp>> /\ Same(r, "nfo-failed")
           /\ \/ disk' = Unlinked("nfo-temp")
              \/ disk["nfo"] = Absent /\ disk' = Renamed("nfo-temp", "nfo")
BY GotoDoes DEF NfoWriteFails, Steps, NfoSteps, NfoFree

LEMMA CatalogFailsDoes ==
    ASSUME TypeOK, NEW r \in Runners, CatalogFails(r)
    PROVE  At(r, "catalog") /\ UNCHANGED files /\ Ends(r, "again")
BY EndDoes DEF CatalogFails, Outcomes

\* A task that is done is not claimed.
DoneRests == task.stage = "done" => ~task.ready

LEMMA StartDoes ==
    ASSUME TypeOK, DoneRests, NEW r \in Runners, StartStage(r)
    PROVE  /\ At(r, "idle") /\ task.ready /\ holder = NoOne /\ holder' = r
           /\ \E at \in {"observe", "nfo-look", "complete"} :
                Turned(r, at, "file", NoRow, NoFacts, FALSE, "again")
<1>1. At(r, "idle") /\ task.ready /\ holder = NoOne /\ holder' = r
      /\ run' = [run EXCEPT ![r] = [NoRun EXCEPT !.at = FirstStep(task.stage)]]
  BY DEF StartStage
<1> DEFINE at == FirstStep(task.stage)
           new == [NoRun EXCEPT !.at = at]
<1>2. CASE at \in {"observe", "nfo-look", "complete"}
  <2> HIDE DEF at
  <2>1. /\ new \in Runs /\ new.at = at /\ new.on = "file" /\ new.row = NoRow /\ new.facts = NoFacts
        /\ new.direct = FALSE /\ new.then = "again"
    BY <1>2, NoRunIs, RunsAre DEF Steps, FileSteps, NfoSteps, SharedSteps
  <2>2. run' = [run EXCEPT ![r] = new]
    BY <1>1 DEF at
  <2> HIDE DEF new
  <2>3. Turned(r, at, "file", NoRow, NoFacts, FALSE, "again")
    BY <2>1, <2>2, RunIs, TurnedBy
  <2> QED  BY <1>1, <1>2, <2>3
<1>3. task.stage \in {"file-operation", "nfo", "completion"}
  BY <1>1 DEF DoneRests, TypeOK, TaskStages
<1> QED  BY <1>2, <1>3 DEF FirstStep

LEMMA CommitDoes ==
    ASSUME TypeOK, NEW r \in Runners, Commit(r)
    PROVE  /\ At(r, "commit") /\ UNCHANGED <<files, db, undo, world>>
           /\ Turned(r, "idle", "file", NoRow, NoFacts, FALSE, "again")
<1>1. run' = [run EXCEPT ![r] = NoRun] /\ run \in [Runners -> Runs]
  BY RunIs DEF Commit
<1>2. Turned(r, NoRun.at, NoRun.on, NoRun.row, NoRun.facts, NoRun.direct, NoRun.then)
  BY <1>1, NoRunIs, TurnedBy
<1> QED  BY <1>2, NoRunIs DEF Commit

-----------------------------------------------------------------------------
(***************************************************************************)
(* What holds of every run and row, whatever else happens.                 *)
(***************************************************************************)

Moves == {"move", "quarantine"}
FileCalls == {"execute", "copy", "publish", "rename", "confirm", "undoing", "recover"}
RemovalCalls ==
    {"removal-recover", "removal-look", "removal-rename", "removal-check", "removal-unlink"}
NfoCalls == {"nfo-execute", "nfo-create", "nfo-publish", "nfo-exists", "nfo-recover", "nfo-failed"}
NfoReads == {"nfo-pending", "nfo-inspect", "nfo-prepare"}
Removes == {"partial", "prepare-removal"}

\* An applied NFO has an outcome, and only what is moved has a source to remove.
RowFits(kind, row) ==
    /\ kind = "nfo" /\ row.status \in {"applied", "verified"} => row.outcome # "none"
    /\ kind = "removal" /\ row.status # "none" => Operation \in Moves

\* The row a run advances is in the status its step is for, of the right kind, and its plan is one
\* that has the step.
StatusFits(s) ==
    /\ s.at = "begin" => s.row.status = "prepared"
    /\ s.at \in FileCalls \cup RemovalCalls \cup NfoCalls \cup {"mark"} => s.row.status = "executing"
    /\ s.at \in {"inspect", "verify"} => s.row.status = "applied"
    /\ s.at \in {"completed", "finish-removal", "nfo-finish"} \cup Removes \cup NfoReads =>
          s.row.status = "verified"

KindFits(s) ==
    /\ s.at \in FileCalls \cup {"observe", "prepare", "completed", "manifest", "manifest-publish", "nfo-look"}
               \cup Removes \cup NfoReads =>
          s.on = "file"
    /\ s.at \in {"removal-recover", "finish-removal"} => s.on = "removal"
    /\ s.at \in NfoCalls \cup {"nfo-finish"} => s.on = "nfo"
    /\ s.at \in RemovalCalls => s.on = "removal" \/ (s.on = "file" /\ Operation = "quarantine")

PlanFits(s) ==
    /\ s.direct => Operation \in Moves /\ Placement # "same"
    /\ s.at = "execute" => Operation # "copy"
    /\ s.at \in {"copy", "publish"} => Operation = "copy" \/ (Operation \in Moves /\ Placement # "same")
    /\ s.at = "rename" => Operation # "copy" /\ Placement # "cross"
    /\ s.at \in {"confirm", "undoing"} => Operation # "copy" /\ Placement = "same"
    /\ s.at \in {"manifest", "manifest-publish"} => Operation = "quarantine"
    /\ s.at \in Removes => Operation \in Moves

StepFits(s) ==
    /\ RowFits(s.on, s.row) /\ StatusFits(s) /\ KindFits(s) /\ PlanFits(s)
    /\ s.on = "removal" => Operation \in Moves

\* The row of the file operation will not be executed again.
PastFile == journal["file"].status \in {"verified", "compensated", "manual-review"}

Past ==
    /\ journal["removal"].status # "none" => PastFile
    /\ \A r \in Runners :
        run[r].on = "removal" \/ (run[r].on = "file" /\ run[r].row.status = "verified") => PastFile

Base ==
    /\ TypeOK
    /\ DoneRests
    /\ \A k \in JournalKinds : RowFits(k, journal[k])
    /\ \A r \in Runners : StepFits(run[r])
    /\ Past

\* One run goes on to a step that fits.
RunGoesOn(r) ==
    /\ run' \in [Runners -> Runs]
    /\ \A s \in Runners : s # r => run'[s] = run[s]
    /\ StepFits(run'[r])

LEMMA PlanIs ==
    ASSUME TypeOK
    PROVE  /\ Operation \in {"copy", "move", "hardlink", "quarantine"}
           /\ Placement \in {"same", "cross", "bind"}
           /\ plan.nfo \in BOOLEAN
BY DEF TypeOK, Plans, Operation, Placement

LEMMA ReadsFit ==
    ASSUME Base, NEW r \in Runners,
           Inspect(r) \/ Observe(r) \/ Execute(r) \/ Recover(r) \/ Completed(r) \/ RemovalRecover(r) \/ RemovalLook(r) \/ FinishRemoval(r)
    PROVE  RunGoesOn(r)
<1>1. TypeOK /\ StepFits(run[r]) /\ (\A k \in JournalKinds : RowFits(k, journal[k])) /\ DoneRests
  BY DEF Base
<1>2. /\ run[r] \in Runs /\ run[r].on \in {"file", "removal", "nfo"} /\ journal["file"] \in Rows
      /\ journal["removal"] \in Rows /\ journal["nfo"] \in Rows /\ run[r].row \in Rows /\ plan \in Plans
      /\ run[r].direct \in BOOLEAN
  BY <1>1, RunIs, WorldIs DEF JournalKinds
<1>3. CASE Inspect(r)
  BY <1>1, <1>2, <1>3, InspectDoes, NoRunIs DEF Same, Ends, Turned, At, RunGoesOn, StepFits, StatusFits, KindFits, PlanFits, RowFits, Moves,
              FileCalls, RemovalCalls, NfoCalls, NfoReads, Removes
<1>4. CASE Observe(r)
  BY <1>1, <1>2, <1>4, ObserveDoes, NoRunIs DEF Same, Ends, Turned, At, RunGoesOn, StepFits, StatusFits, KindFits, PlanFits, RowFits, Moves,
              FileCalls, RemovalCalls, NfoCalls, NfoReads, Removes
<1>5. CASE Execute(r)
  BY <1>1, <1>2, <1>5, ExecuteDoes, NoRunIs DEF Same, Ends, Turned, At, RunGoesOn, StepFits, StatusFits, KindFits, PlanFits, RowFits, Moves,
              FileCalls, RemovalCalls, NfoCalls, NfoReads, Removes, Plans, Operation, Placement
<1>6. CASE Recover(r)
  BY <1>1, <1>2, <1>6, RecoverDoes, NoRunIs DEF Same, Ends, Turned, At, RunGoesOn, StepFits, StatusFits, KindFits, PlanFits, RowFits, Moves,
              FileCalls, RemovalCalls, NfoCalls, NfoReads, Removes, ExecuteStep
<1>7. CASE Completed(r)
  BY <1>1, <1>2, <1>7, CompletedDoes, NoRunIs DEF Same, Ends, Turned, At, RunGoesOn, StepFits, StatusFits, KindFits, PlanFits, RowFits, Moves,
              FileCalls, RemovalCalls, NfoCalls, NfoReads, Removes
<1>8. CASE RemovalRecover(r)
  BY <1>1, <1>2, <1>8, RemovalRecoverDoes, NoRunIs DEF Same, Ends, Turned, At, RunGoesOn, StepFits, StatusFits, KindFits, PlanFits, RowFits, Moves,
              FileCalls, RemovalCalls, NfoCalls, NfoReads, Removes
<1>9. CASE RemovalLook(r)
  BY <1>1, <1>2, <1>9, RemovalLookDoes, NoRunIs DEF Same, Ends, Turned, At, RunGoesOn, StepFits, StatusFits, KindFits, PlanFits, RowFits, Moves,
              FileCalls, RemovalCalls, NfoCalls, NfoReads, Removes, AfterRemoval
<1>10. CASE FinishRemoval(r)
  BY <1>1, <1>2, <1>10, FinishRemovalDoes, NoRunIs DEF Same, Ends, Turned, At, RunGoesOn, StepFits, StatusFits, KindFits, PlanFits, RowFits, Moves,
              FileCalls, RemovalCalls, NfoCalls, NfoReads, Removes, JournalKinds
<1> QED  BY <1>3, <1>4, <1>5, <1>6, <1>7, <1>8, <1>9, <1>10

LEMMA EntryCases ==
    ASSUME NEW kind \in JournalKinds, NEW status \in JournalStatuses, status # "none"
    PROVE  \/ status \in {"manual-review", "compensated"} /\ Entry(kind, status) = "commit"
           \/ status = "prepared" /\ Entry(kind, status) = "begin"
           \/ /\ status = "executing"
              /\ \/ kind = "file" /\ Entry(kind, status) = "recover"
                 \/ kind = "removal" /\ Entry(kind, status) = "removal-recover"
                 \/ kind = "nfo" /\ Entry(kind, status) = "nfo-recover"
           \/ status = "applied" /\ Entry(kind, status) = "inspect"
           \/ /\ status = "verified"
              /\ \/ kind = "file" /\ Entry(kind, status) = "completed"
                 \/ kind = "removal" /\ Entry(kind, status) = "finish-removal"
                 \/ kind = "nfo" /\ Entry(kind, status) = "nfo-finish"
BY DEF Entry, JournalKinds, JournalStatuses

LEMMA EntryFits ==
    ASSUME Base, NEW r \in Runners, NEW kind \in JournalKinds, NEW row \in Rows, row.status # "none",
           RowFits(kind, row),
           Turned(r, Entry(kind, row.status), kind, row, run[r].facts, run[r].direct, Taken(kind, row.status))
    PROVE  RunGoesOn(r)
<1>1. StepFits(run[r]) /\ kind \in {"file", "removal", "nfo"}
  BY DEF Base, JournalKinds
<1> DEFINE at == Entry(kind, row.status)
           status == row.status
           then == Taken(kind, row.status)
<1>2. \/ status \in {"manual-review", "compensated"} /\ at = "commit"
      \/ status = "prepared" /\ at = "begin"
      \/ /\ status = "executing"
         /\ \/ kind = "file" /\ at = "recover"
            \/ kind = "removal" /\ at = "removal-recover"
            \/ kind = "nfo" /\ at = "nfo-recover"
      \/ status = "applied" /\ at = "inspect"
      \/ /\ status = "verified"
         /\ \/ kind = "file" /\ at = "completed"
            \/ kind = "removal" /\ at = "finish-removal"
            \/ kind = "nfo" /\ at = "nfo-finish"
  <2>1. status \in JournalStatuses
    BY DEF Rows
  <2> QED  BY <2>1, EntryCases
<1>3. row.status = status /\ Turned(r, at, kind, row, run[r].facts, run[r].direct, then)
  OBVIOUS
<1> HIDE DEF at, status, then
<1> QED  BY <1>1, <1>2, <1>3 DEF Same, Ends, Turned, At, RunGoesOn, StepFits, StatusFits, KindFits, PlanFits, RowFits, Moves,
              FileCalls, RemovalCalls, NfoCalls, NfoReads, Removes

LEMMA NfoReadsFit ==
    ASSUME Base, NEW r \in Runners,
           NfoLook(r) \/ NfoInspect(r) \/ NfoExecute(r) \/ NfoExists(r) \/ NfoRecover(r) \/ Complete(r)
    PROVE  RunGoesOn(r)
<1>1. TypeOK /\ StepFits(run[r]) /\ (\A k \in JournalKinds : RowFits(k, journal[k])) /\ DoneRests
  BY DEF Base
<1>2. /\ run[r] \in Runs /\ run[r].on \in {"file", "removal", "nfo"} /\ journal["file"] \in Rows
      /\ journal["removal"] \in Rows /\ journal["nfo"] \in Rows /\ run[r].row \in Rows /\ plan \in Plans
      /\ run[r].direct \in BOOLEAN
  BY <1>1, RunIs, WorldIs DEF JournalKinds
<1>3. CASE NfoLook(r)
  <2>1. CASE Ends(r, "again")
    BY <1>1, <1>2, <2>1, NoRunIs DEF Same, Ends, Turned, At, RunGoesOn, StepFits, StatusFits, KindFits, PlanFits, RowFits, Moves,
              FileCalls, RemovalCalls, NfoCalls, NfoReads, Removes
  <2>2. CASE VerifiedFile /\ Turned(r, "nfo-pending", run[r].on, journal["file"], run[r].facts,
                                    run[r].direct, run[r].then)
    BY <1>1, <1>2, <1>3, <2>2, NfoLookDoes DEF Same, Ends, Turned, At, RunGoesOn, StepFits, StatusFits, KindFits, PlanFits, RowFits, Moves,
              FileCalls, RemovalCalls, NfoCalls, NfoReads, Removes,
              VerifiedFile
  <2> QED  BY <1>1, <1>2, <1>3, <2>1, <2>2, NfoLookDoes, EntryFits DEF JournalKinds
<1>4. CASE NfoInspect(r)
  BY <1>1, <1>2, <1>4, NfoInspectDoes, NoRunIs DEF Same, Ends, Turned, At, RunGoesOn, StepFits, StatusFits, KindFits, PlanFits, RowFits, Moves,
              FileCalls, RemovalCalls, NfoCalls, NfoReads, Removes
<1>5. CASE NfoExecute(r)
  BY <1>1, <1>2, <1>5, NfoExecuteDoes, NoRunIs DEF Same, Ends, Turned, At, RunGoesOn, StepFits, StatusFits, KindFits, PlanFits, RowFits, Moves,
              FileCalls, RemovalCalls, NfoCalls, NfoReads, Removes
<1>6. CASE NfoExists(r)
  BY <1>1, <1>2, <1>6, NfoExistsDoes, NoRunIs DEF Same, Ends, Turned, At, RunGoesOn, StepFits, StatusFits, KindFits, PlanFits, RowFits, Moves,
              FileCalls, RemovalCalls, NfoCalls, NfoReads, Removes
<1>7. CASE NfoRecover(r)
  BY <1>1, <1>2, <1>7, NfoRecoverDoes, NoRunIs DEF Same, Ends, Turned, At, RunGoesOn, StepFits, StatusFits, KindFits, PlanFits, RowFits, Moves,
              FileCalls, RemovalCalls, NfoCalls, NfoReads, Removes
<1>8. CASE Complete(r)
  BY <1>1, <1>2, <1>8, CompleteDoes, NoRunIs DEF Same, Ends, Turned, At, RunGoesOn, StepFits, StatusFits, KindFits, PlanFits, RowFits, Moves,
              FileCalls, RemovalCalls, NfoCalls, NfoReads, Removes
<1> QED  BY <1>3, <1>4, <1>5, <1>6, <1>7, <1>8

LEMMA RecordsFit ==
    ASSUME Base, NEW r \in Runners,
           Begin(r) \/ Mark(r) \/ Verify(r) \/ Review(r) \/ ReviewResult(r) \/ PrepareFile(r) \/ Conclude(r)
    PROVE  RunGoesOn(r)
<1>1. TypeOK /\ StepFits(run[r]) /\ (\A k \in JournalKinds : RowFits(k, journal[k])) /\ DoneRests
  BY DEF Base
<1>2. /\ run[r] \in Runs /\ run[r].on \in {"file", "removal", "nfo"} /\ journal["file"] \in Rows
      /\ journal["removal"] \in Rows /\ journal["nfo"] \in Rows /\ run[r].row \in Rows /\ plan \in Plans
      /\ run[r].direct \in BOOLEAN
  BY <1>1, RunIs, WorldIs DEF JournalKinds
<1>3. CASE Begin(r)
  <2> DEFINE new == Moved(run[r].row, "executing")
  <2>1. new.status = "executing" /\ new.outcome = run[r].row.outcome
    BY <1>2, MovedIs DEF JournalStatuses
  <2>2. At(r, "begin")
    BY <1>1, <1>3, BeginDoes
  <2>3. CASE Ends(r, "again")
    BY <1>1, <1>2, <2>3, NoRunIs DEF Same, Ends, Turned, At, RunGoesOn, StepFits, StatusFits, KindFits, PlanFits, RowFits, Moves,
              FileCalls, RemovalCalls, NfoCalls, NfoReads, Removes
  <2>4. CASE \E at \in Steps :
          /\ run[r].on = "file" => at = ExecuteStep
          /\ run[r].on = "removal" => at = "removal-look"
          /\ run[r].on = "nfo" => at = "nfo-execute"
          /\ Turned(r, at, run[r].on, new, run[r].facts, run[r].direct, run[r].then)
    <3> HIDE DEF new
    <3> QED  BY <1>1, <1>2, <2>1, <2>2, <2>4 DEF Same, Ends, Turned, At, RunGoesOn, StepFits, StatusFits, KindFits, PlanFits, RowFits, Moves,
              FileCalls, RemovalCalls, NfoCalls, NfoReads, Removes, ExecuteStep
  <2> QED  BY <1>1, <1>3, <2>3, <2>4, BeginDoes
<1>4. CASE Mark(r)
  <2> DEFINE new == Applied(r)
  <2>1. /\ new.status = "applied"
        /\ run[r].on = "nfo" => new.outcome # "none"
    BY <1>1, AppliedIs
  <2>2. At(r, "mark")
    BY <1>1, <1>4, MarkDoes
  <2>3. CASE Ends(r, "again")
    BY <1>1, <1>2, <2>3, NoRunIs DEF Same, Ends, Turned, At, RunGoesOn, StepFits, StatusFits, KindFits, PlanFits, RowFits, Moves,
              FileCalls, RemovalCalls, NfoCalls, NfoReads, Removes
  <2>4. CASE Turned(r, "inspect", run[r].on, new, run[r].facts, run[r].direct, run[r].then)
    <3> HIDE DEF new
    <3> QED  BY <1>1, <1>2, <2>1, <2>2, <2>4 DEF Same, Ends, Turned, At, RunGoesOn, StepFits, StatusFits, KindFits, PlanFits, RowFits, Moves,
              FileCalls, RemovalCalls, NfoCalls, NfoReads, Removes
  <2> QED  BY <1>1, <1>4, <2>3, <2>4, MarkDoes
<1>5. CASE Verify(r)
  <2> DEFINE new == Moved(run[r].row, "verified")
  <2>1. new.status = "verified" /\ new.outcome = run[r].row.outcome
    BY <1>2, MovedIs DEF JournalStatuses
  <2>2. At(r, "verify")
    BY <1>1, <1>5, VerifyDoes
  <2>3. CASE Ends(r, "again")
    BY <1>1, <1>2, <2>3, NoRunIs DEF Same, Ends, Turned, At, RunGoesOn, StepFits, StatusFits, KindFits, PlanFits, RowFits, Moves,
              FileCalls, RemovalCalls, NfoCalls, NfoReads, Removes
  <2>4. CASE \E at \in Steps :
          /\ run[r].on = "file" => at = IF run[r].direct THEN "partial" ELSE "completed"
          /\ run[r].on = "removal" => at = "finish-removal"
          /\ run[r].on = "nfo" => at = "nfo-finish"
          /\ Turned(r, at, run[r].on, new, run[r].facts, run[r].direct, run[r].then)
    <3> HIDE DEF new
    <3> QED  BY <1>1, <1>2, <2>1, <2>2, <2>4 DEF Same, Ends, Turned, At, RunGoesOn, StepFits, StatusFits, KindFits, PlanFits, RowFits, Moves,
              FileCalls, RemovalCalls, NfoCalls, NfoReads, Removes
  <2> QED  BY <1>1, <1>5, <2>3, <2>4, VerifyDoes
<1>6. CASE Review(r)
  <2> DEFINE new == Moved(run[r].row, "manual-review")
  <2>1. new.status = "manual-review" /\ new.outcome = run[r].row.outcome
    BY <1>2, MovedIs DEF JournalStatuses
  <2>3. CASE Ends(r, "again")
    BY <1>1, <1>2, <2>3, NoRunIs DEF Same, Ends, Turned, At, RunGoesOn, StepFits, StatusFits, KindFits, PlanFits, RowFits, Moves,
              FileCalls, RemovalCalls, NfoCalls, NfoReads, Removes
  <2>4. CASE Turned(r, "review-result", run[r].on, new, run[r].facts, run[r].direct, run[r].then)
    <3> HIDE DEF new
    <3> QED  BY <1>1, <1>2, <2>1, <2>4 DEF Same, Ends, Turned, At, RunGoesOn, StepFits, StatusFits, KindFits, PlanFits, RowFits, Moves,
              FileCalls, RemovalCalls, NfoCalls, NfoReads, Removes
  <2> QED  BY <1>1, <1>6, <2>3, <2>4, ReviewDoes
<1>7. CASE ReviewResult(r)
  BY <1>1, <1>2, <1>7, ReviewResultDoes, NoRunIs DEF Same, Ends, Turned, At, RunGoesOn, StepFits, StatusFits, KindFits, PlanFits, RowFits, Moves,
              FileCalls, RemovalCalls, NfoCalls, NfoReads, Removes
<1>8. CASE PrepareFile(r)
  <2>1. CASE Turned(r, "begin", "file", PreparedRow, run[r].facts, run[r].direct, "review")
    BY <1>1, <1>2, <2>1, PreparedRowIs DEF Same, Ends, Turned, At, RunGoesOn, StepFits, StatusFits, KindFits, PlanFits, RowFits, Moves,
              FileCalls, RemovalCalls, NfoCalls, NfoReads, Removes
  <2> QED  BY <1>1, <1>2, <1>8, <2>1, PrepareFileDoes, EntryFits DEF JournalKinds
<1>9. CASE Conclude(r)
  BY <1>1, <1>2, <1>9, ConcludeDoes, NoRunIs DEF Same, Ends, Turned, At, RunGoesOn, StepFits, StatusFits, KindFits, PlanFits, RowFits, Moves,
              FileCalls, RemovalCalls, NfoCalls, NfoReads, Removes
<1> QED  BY <1>3, <1>4, <1>5, <1>6, <1>7, <1>8, <1>9

LEMMA NfoRecordsFit ==
    ASSUME Base, NEW r \in Runners,
           EnsurePartial(r) \/ PrepareRemoval(r) \/ NfoPending(r) \/ NfoPrepare(r) \/ NfoFailed(r) \/ NfoFinish(r) \/ Catalog(r)
    PROVE  RunGoesOn(r)
<1>1. TypeOK /\ StepFits(run[r]) /\ (\A k \in JournalKinds : RowFits(k, journal[k])) /\ DoneRests
  BY DEF Base
<1>2. /\ run[r] \in Runs /\ run[r].on \in {"file", "removal", "nfo"} /\ journal["file"] \in Rows
      /\ journal["removal"] \in Rows /\ journal["nfo"] \in Rows /\ run[r].row \in Rows /\ plan \in Plans
      /\ run[r].direct \in BOOLEAN
  BY <1>1, RunIs, WorldIs DEF JournalKinds
<1>3. CASE EnsurePartial(r)
  BY <1>1, <1>2, <1>3, EnsurePartialDoes, NoRunIs DEF Same, Ends, Turned, At, RunGoesOn, StepFits, StatusFits, KindFits, PlanFits, RowFits, Moves,
              FileCalls, RemovalCalls, NfoCalls, NfoReads, Removes
<1>4. CASE PrepareRemoval(r)
  <2>1. CASE Turned(r, "begin", "removal", PreparedRow, run[r].facts, run[r].direct, "review")
    BY <1>1, <1>2, <1>4, <2>1, PrepareRemovalDoes, PreparedRowIs DEF Same, Ends, Turned, At, RunGoesOn, StepFits, StatusFits, KindFits, PlanFits, RowFits, Moves,
              FileCalls, RemovalCalls, NfoCalls, NfoReads, Removes
  <2> QED  BY <1>1, <1>2, <1>4, <2>1, PrepareRemovalDoes, EntryFits DEF JournalKinds
<1>5. CASE NfoPending(r)
  BY <1>1, <1>2, <1>5, NfoPendingDoes, NoRunIs DEF Same, Ends, Turned, At, RunGoesOn, StepFits, StatusFits, KindFits, PlanFits, RowFits, Moves,
              FileCalls, RemovalCalls, NfoCalls, NfoReads, Removes
<1>6. CASE NfoPrepare(r)
  <2> DEFINE new == NfoRow(run[r].facts)
  <2>1. new.status = "prepared"
    BY <1>1, RunIs, NfoRowIs
  <2>2. CASE Ends(r, "again")
    BY <1>1, <1>2, <2>2, NoRunIs DEF Same, Ends, Turned, At, RunGoesOn, StepFits, StatusFits, KindFits, PlanFits, RowFits, Moves,
              FileCalls, RemovalCalls, NfoCalls, NfoReads, Removes
  <2>3. CASE Turned(r, "begin", "nfo", new, run[r].facts, run[r].direct, "review")
    <3> HIDE DEF new
    <3> QED  BY <1>1, <1>2, <2>1, <2>3 DEF Same, Ends, Turned, At, RunGoesOn, StepFits, StatusFits, KindFits, PlanFits, RowFits, Moves,
              FileCalls, RemovalCalls, NfoCalls, NfoReads, Removes
  <2> QED  BY <1>1, <1>2, <1>6, <2>2, <2>3, NfoPrepareDoes, EntryFits DEF JournalKinds
<1>7. CASE NfoFailed(r)
  BY <1>1, <1>2, <1>7, NfoFailedDoes, NoRunIs DEF Same, Ends, Turned, At, RunGoesOn, StepFits, StatusFits, KindFits, PlanFits, RowFits, Moves,
              FileCalls, RemovalCalls, NfoCalls, NfoReads, Removes
<1>8. CASE NfoFinish(r)
  BY <1>1, <1>2, <1>8, NfoFinishDoes, NoRunIs DEF Same, Ends, Turned, At, RunGoesOn, StepFits, StatusFits, KindFits, PlanFits, RowFits, Moves,
              FileCalls, RemovalCalls, NfoCalls, NfoReads, Removes
<1>9. CASE Catalog(r)
  BY <1>1, <1>2, <1>9, CatalogDoes, NoRunIs DEF Same, Ends, Turned, At, RunGoesOn, StepFits, StatusFits, KindFits, PlanFits, RowFits, Moves,
              FileCalls, RemovalCalls, NfoCalls, NfoReads, Removes
<1> QED  BY <1>3, <1>4, <1>5, <1>6, <1>7, <1>8, <1>9

LEMMA EndsFits ==
    ASSUME TypeOK, NEW r \in Runners, NEW then \in Outcomes, Ends(r, then)
    PROVE  RunGoesOn(r)
BY NoRunIs DEF Ends, Turned, RunGoesOn, StepFits, StatusFits, KindFits, PlanFits, RowFits,
   FileCalls, RemovalCalls, NfoCalls, NfoReads, Removes

LEMMA ReviewFits ==
    ASSUME Base, NEW r \in Runners, Same(r, "review")
    PROVE  RunGoesOn(r)
BY DEF Base, Same, Turned, RunGoesOn, StepFits, StatusFits, KindFits, PlanFits, RowFits,
   FileCalls, RemovalCalls, NfoCalls, NfoReads, Removes

LEMMA CallsFit ==
    ASSUME Base, NEW r \in Runners,
           Copy(r) \/ Publish(r) \/ Rename(r) \/ Confirm(r) \/ Undone(r) \/ CreateManifest(r) \/ PublishManifest(r)
    PROVE  RunGoesOn(r)
<1>1. TypeOK /\ StepFits(run[r]) /\ (\A k \in JournalKinds : RowFits(k, journal[k])) /\ DoneRests
  BY DEF Base
<1>2. /\ run[r] \in Runs /\ run[r].on \in {"file", "removal", "nfo"} /\ journal["file"] \in Rows
      /\ journal["removal"] \in Rows /\ journal["nfo"] \in Rows /\ run[r].row \in Rows /\ plan \in Plans
      /\ run[r].direct \in BOOLEAN
  BY <1>1, RunIs, WorldIs DEF JournalKinds
<1>3. CASE Copy(r)
  BY <1>1, <1>2, <1>3, CopyDoes, NoRunIs DEF Same, Ends, Turned, At, RunGoesOn, StepFits, StatusFits, KindFits, PlanFits, RowFits, Moves,
              FileCalls, RemovalCalls, NfoCalls, NfoReads, Removes, Plans, Operation, Placement
<1>4. CASE Publish(r)
  BY <1>1, <1>2, <1>4, PublishDoes, NoRunIs DEF Same, Ends, Turned, At, RunGoesOn, StepFits, StatusFits, KindFits, PlanFits, RowFits, Moves,
              FileCalls, RemovalCalls, NfoCalls, NfoReads, Removes, Plans, Operation, Placement
<1>5. CASE Rename(r)
  <2>1. At(r, "rename") /\ run[r].on = "file" /\ run[r].row.status = "executing"
    BY <1>1, <1>5, RenameDoes DEF At, StepFits, StatusFits, KindFits, FileCalls
  <2>2. CASE Renamable /\ Same(r, "confirm")
    BY <1>1, <1>2, <2>1, <2>2, PlanIs DEF Same, Turned, At, RunGoesOn, StepFits, StatusFits, KindFits, PlanFits, RowFits,
              FileCalls, RemovalCalls, NfoCalls, NfoReads, Removes, Renamable
  <2>3. CASE Same(r, "review")
    BY <1>1, <1>2, <2>1, <2>3 DEF Same, Turned, At, RunGoesOn, StepFits, StatusFits, KindFits, PlanFits, RowFits,
              FileCalls, RemovalCalls, NfoCalls, NfoReads, Removes
  <2>4. CASE /\ Placement = "bind" /\ Operation # "hardlink"
             /\ Turned(r, "copy", run[r].on, run[r].row, run[r].facts, TRUE, run[r].then)
    BY <1>1, <1>2, <2>1, <2>4, PlanIs DEF Same, Turned, At, RunGoesOn, StepFits, StatusFits, KindFits, PlanFits, RowFits,
              FileCalls, RemovalCalls, NfoCalls, NfoReads, Removes, Moves
  <2>5. CASE Ends(r, "again")
    BY <1>1, <2>5, EndsFits DEF Outcomes
  <2> QED  BY <1>1, <1>5, <2>2, <2>3, <2>4, <2>5, RenameDoes
<1>6. CASE Confirm(r)
  <2>1. At(r, "confirm") /\ run[r].on = "file" /\ run[r].row.status = "executing"
    BY <1>1, <1>6, ConfirmDoes DEF At, StepFits, StatusFits, KindFits, FileCalls
  <2>2. CASE Turned(r, IF Operation = "quarantine" THEN "manifest" ELSE "mark",
                    run[r].on, run[r].row, Facts("target"), run[r].direct, run[r].then)
    BY <1>1, <1>2, <2>1, <2>2 DEF Same, Turned, At, RunGoesOn, StepFits, StatusFits, KindFits, PlanFits, RowFits,
              FileCalls, RemovalCalls, NfoCalls, NfoReads, Removes
  <2>3. CASE Same(r, "undoing")
    BY <1>1, <1>2, <2>1, <2>3 DEF Same, Turned, At, RunGoesOn, StepFits, StatusFits, KindFits, PlanFits, RowFits,
              FileCalls, RemovalCalls, NfoCalls, NfoReads, Removes
  <2>4. CASE Ends(r, "again")
    BY <1>1, <2>4, EndsFits DEF Outcomes
  <2> QED  BY <1>1, <1>6, <2>2, <2>3, <2>4, ConfirmDoes
<1>7. CASE Undone(r)
  BY <1>1, <1>2, <1>7, UndoneDoes, NoRunIs DEF Same, Ends, Turned, At, RunGoesOn, StepFits, StatusFits, KindFits, PlanFits, RowFits, Moves,
              FileCalls, RemovalCalls, NfoCalls, NfoReads, Removes
<1>8. CASE CreateManifest(r)
  <2>1. At(r, "manifest") /\ run[r].on = "file"
    BY <1>1, <1>2, <1>8, CreateManifestDoes DEF At, StepFits, StatusFits, KindFits, FileCalls, RemovalCalls
  <2>2. CASE Same(r, "manifest-publish")
    BY <1>1, <1>2, <2>1, <2>2 DEF Same, Turned, At, RunGoesOn, StepFits, StatusFits, KindFits, PlanFits, RowFits,
              FileCalls, RemovalCalls, NfoCalls, NfoReads, Removes
  <2> QED  BY <1>1, <1>8, <2>2, CreateManifestDoes, ReviewFits, EndsFits DEF Outcomes
<1>9. CASE PublishManifest(r)
  <2>1. At(r, "manifest-publish") /\ run[r].on = "file"
    BY <1>1, <1>2, <1>9, PublishManifestDoes DEF At, StepFits, StatusFits, KindFits, FileCalls, RemovalCalls
  <2>2. CASE run[r].row.status = "executing" /\ Same(r, "mark")
    BY <1>1, <1>2, <2>1, <2>2 DEF Same, Turned, At, RunGoesOn, StepFits, StatusFits, KindFits, PlanFits, RowFits,
              FileCalls, RemovalCalls, NfoCalls, NfoReads, Removes
  <2>3. CASE Same(r, "conclude")
    BY <1>1, <1>2, <2>1, <2>3 DEF Same, Turned, At, RunGoesOn, StepFits, StatusFits, KindFits, PlanFits, RowFits,
              FileCalls, RemovalCalls, NfoCalls, NfoReads, Removes
  <2> QED  BY <1>1, <1>9, <2>2, <2>3, PublishManifestDoes, ReviewFits, EndsFits DEF Outcomes
<1> QED  BY <1>3, <1>4, <1>5, <1>6, <1>7, <1>8, <1>9

LEMMA RemovalCallsFit ==
    ASSUME Base, NEW r \in Runners,
           RemovalRename(r) \/ RemovalCheck(r) \/ RemovalUnlink(r) \/ NfoCreate(r) \/ NfoPublish(r) \/ StartStage(r) \/ Commit(r)
    PROVE  RunGoesOn(r)
<1>1. TypeOK /\ StepFits(run[r]) /\ (\A k \in JournalKinds : RowFits(k, journal[k])) /\ DoneRests
  BY DEF Base
<1>2. /\ run[r] \in Runs /\ run[r].on \in {"file", "removal", "nfo"} /\ journal["file"] \in Rows
      /\ journal["removal"] \in Rows /\ journal["nfo"] \in Rows /\ run[r].row \in Rows /\ plan \in Plans
      /\ run[r].direct \in BOOLEAN
  BY <1>1, RunIs, WorldIs DEF JournalKinds
<1>3. CASE RemovalRename(r)
  <2>1. /\ At(r, "removal-rename") /\ run[r].row.status = "executing"
        /\ run[r].on = "removal" \/ (run[r].on = "file" /\ Operation = "quarantine")
    BY <1>1, <1>2, <1>3, RemovalRenameDoes DEF At, StepFits, StatusFits, KindFits, FileCalls, RemovalCalls
  <2>2. CASE Same(r, "removal-check")
    BY <1>1, <1>2, <2>1, <2>2 DEF Same, Turned, At, RunGoesOn, StepFits, StatusFits, KindFits, PlanFits, RowFits,
              FileCalls, RemovalCalls, NfoCalls, NfoReads, Removes
  <2> QED  BY <1>1, <1>3, <2>2, RemovalRenameDoes, ReviewFits, EndsFits DEF Outcomes
<1>4. CASE RemovalCheck(r)
  <2>1. /\ At(r, "removal-check") /\ run[r].row.status = "executing"
        /\ run[r].on = "removal" \/ (run[r].on = "file" /\ Operation = "quarantine")
    BY <1>1, <1>2, <1>4, RemovalCheckDoes DEF At, StepFits, StatusFits, KindFits, FileCalls, RemovalCalls
  <2>2. CASE Same(r, "removal-unlink")
    BY <1>1, <1>2, <2>1, <2>2 DEF Same, Turned, At, RunGoesOn, StepFits, StatusFits, KindFits, PlanFits, RowFits,
              FileCalls, RemovalCalls, NfoCalls, NfoReads, Removes
  <2> QED  BY <1>1, <1>4, <2>2, RemovalCheckDoes, ReviewFits, EndsFits DEF Outcomes
<1>5. CASE RemovalUnlink(r)
  <2>1. /\ At(r, "removal-unlink") /\ run[r].row.status = "executing"
        /\ run[r].on = "removal" \/ (run[r].on = "file" /\ Operation = "quarantine")
    BY <1>1, <1>2, <1>5, RemovalUnlinkDoes DEF At, StepFits, StatusFits, KindFits, FileCalls, RemovalCalls
  <2>2. CASE Same(r, AfterRemoval(r))
    BY <1>1, <1>2, <2>1, <2>2 DEF Same, Turned, At, RunGoesOn, StepFits, StatusFits, KindFits, PlanFits, RowFits,
              FileCalls, RemovalCalls, NfoCalls, NfoReads, Removes, AfterRemoval
  <2> QED  BY <1>1, <1>5, <2>2, RemovalUnlinkDoes, ReviewFits, EndsFits DEF Outcomes
<1>6. CASE NfoCreate(r)
  BY <1>1, <1>2, <1>6, NfoCreateDoes, NoRunIs DEF Same, Ends, Turned, At, RunGoesOn, StepFits, StatusFits, KindFits, PlanFits, RowFits, Moves,
              FileCalls, RemovalCalls, NfoCalls, NfoReads, Removes
<1>7. CASE NfoPublish(r)
  BY <1>1, <1>2, <1>7, NfoPublishDoes, NoRunIs DEF Same, Ends, Turned, At, RunGoesOn, StepFits, StatusFits, KindFits, PlanFits, RowFits, Moves,
              FileCalls, RemovalCalls, NfoCalls, NfoReads, Removes
<1>8. CASE StartStage(r)
  BY <1>1, <1>2, <1>8, StartDoes, NoRunIs DEF Same, Ends, Turned, At, RunGoesOn, StepFits, StatusFits, KindFits, PlanFits, RowFits, Moves,
              FileCalls, RemovalCalls, NfoCalls, NfoReads, Removes
<1>9. CASE Commit(r)
  BY <1>1, <1>2, <1>9, CommitDoes, NoRunIs DEF Same, Ends, Turned, At, RunGoesOn, StepFits, StatusFits, KindFits, PlanFits, RowFits, Moves,
              FileCalls, RemovalCalls, NfoCalls, NfoReads, Removes
<1> QED  BY <1>3, <1>4, <1>5, <1>6, <1>7, <1>8, <1>9

LEMMA FailuresFit ==
    ASSUME Base, NEW r \in Runners,
           CopyFails(r) \/ RenameUnsynced(r) \/ ManifestFails(r) \/ RemovalUnsynced(r) \/ NfoWriteFails(r) \/ CatalogFails(r)
    PROVE  RunGoesOn(r)
<1>1. TypeOK /\ StepFits(run[r]) /\ (\A k \in JournalKinds : RowFits(k, journal[k])) /\ DoneRests
  BY DEF Base
<1>2. /\ run[r] \in Runs /\ run[r].on \in {"file", "removal", "nfo"} /\ journal["file"] \in Rows
      /\ journal["removal"] \in Rows /\ journal["nfo"] \in Rows /\ run[r].row \in Rows /\ plan \in Plans
      /\ run[r].direct \in BOOLEAN
  BY <1>1, RunIs, WorldIs DEF JournalKinds
<1>3. CASE CopyFails(r) \/ RenameUnsynced(r) \/ ManifestFails(r) \/ RemovalUnsynced(r) \/ CatalogFails(r)
  BY <1>1, <1>3, CopyFailsDoes, RenameUnsyncedDoes, ManifestFailsDoes, RemovalUnsyncedDoes, CatalogFailsDoes,
     EndsFits DEF Outcomes
<1>7. CASE NfoWriteFails(r)
  BY <1>1, <1>2, <1>7, NfoWriteFailsDoes, NoRunIs DEF Same, Ends, Turned, At, RunGoesOn, StepFits, StatusFits, KindFits, PlanFits, RowFits, Moves,
              FileCalls, RemovalCalls, NfoCalls, NfoReads, Removes
<1> QED  BY <1>3, <1>7

-----------------------------------------------------------------------------
(***************************************************************************)
(* The shapes of files, rows and requests after a step.                    *)
(***************************************************************************)

LEMMA InodesAre ==
    /\ Original \in Inodes /\ Manifest \in Inodes /\ Original # Manifest
    /\ Absent \notin Inodes /\ Original # Absent /\ Manifest # Absent
    /\ \A kind \in {"user", "copy", "nfo"}, n \in Slots :
          /\ <<kind, n>> \in Inodes /\ <<kind, n>> # Absent
          /\ <<kind, n>> # Original /\ <<kind, n>> # Manifest
BY DEF Absent, Inodes, Original, Manifest

LEMMA FreshIs ==
    ASSUME NEW kind \in {"user", "copy", "nfo"}, CanCreate(kind)
    PROVE  /\ Fresh(kind) \in {kind} \X Slots /\ Fresh(kind) \in Inodes /\ ~Linked(Fresh(kind))
           /\ Fresh(kind) # Absent /\ Fresh(kind) # Original /\ Fresh(kind) # Manifest
<1> DEFINE n == CHOOSE m \in Slots : ~Linked(<<kind, m>>)
<1>1. n \in Slots /\ ~Linked(<<kind, n>>)
  BY DEF CanCreate
<1>2. Fresh(kind) = <<kind, n>>
  BY DEF Fresh
<1> HIDE DEF n
<1> QED  BY <1>1, <1>2, InodesAre

FilesTyped == disk \in [Paths -> Inodes \cup {Absent}] /\ content \in [Inodes -> Data]

LEMMA RenamedTyped ==
    ASSUME FilesTyped, NEW p \in Paths, NEW q \in Paths
    PROVE  /\ Renamed(p, q) \in [Paths -> Inodes \cup {Absent}]
           /\ Unlinked(p) \in [Paths -> Inodes \cup {Absent}]
           /\ \A n \in Paths \ {p} : Unlinked(p)[n] = disk[n]
           /\ Unlinked(p)[p] = Absent
           /\ p # q => /\ Renamed(p, q)[p] = Absent
                       /\ Renamed(p, q)[q] = disk[p]
                       /\ \A n \in Paths \ {p, q} : Renamed(p, q)[n] = disk[n]
BY DEF FilesTyped, Renamed, Unlinked

LEMMA CompTyped ==
    ASSUME comp \in [Actors -> Compensations], NEW a \in Actors, NEW at \in CompSteps \cup CompOutcomes,
           CompTo(a, at)
    PROVE  /\ comp' \in [Actors -> Compensations]
           /\ comp'[a].at = at /\ comp'[a].path = comp[a].path /\ comp'[a].facts = comp[a].facts
           /\ comp'[a].restores = comp[a].restores
           /\ \A b \in Actors : b # a => comp'[b] = comp[b]
<1> DEFINE k == comp[a]
           new == [k EXCEPT !.at = at]
<1>1. k \in Compensations
  OBVIOUS
<1>2. comp' = [comp EXCEPT ![a] = new]
  BY DEF CompTo
<1> HIDE DEF k
<1>3. new \in Compensations /\ new.at = at /\ new.path = k.path /\ new.facts = k.facts
      /\ new.restores = k.restores
  BY <1>1 DEF Compensations
<1> HIDE DEF new
<1> QED  BY <1>2, <1>3 DEF k

LEMMA BegunIs ==
    ASSUME NEW path \in {"target", "nfo"}, NEW facts \in AllFacts, NEW restores \in BOOLEAN
    PROVE  /\ Begun(path, facts, restores) \in Compensations
           /\ Begun(path, facts, restores).at = "look" /\ Begun(path, facts, restores).path = path
           /\ Begun(path, facts, restores).facts = facts
           /\ Begun(path, facts, restores).restores = restores
BY DEF Begun, Compensations, CompSteps

LEMMA NoCompIs ==
    NoComp \in Compensations /\ NoComp.at = "none" /\ NoComp.path = "target" /\ NoComp.facts = NoFacts
    /\ NoComp.restores = FALSE
BY NoRunIs DEF NoComp, Compensations, CompSteps

LEMMA HiddenIs ==
    ASSUME TypeOK, NEW a \in Actors
    PROVE  /\ comp[a] \in Compensations /\ comp[a].path \in {"target", "nfo"}
           /\ comp[a].path \in Paths /\ Hidden(comp[a].path) \in Paths
           /\ Hidden("target") = "rollback" /\ Hidden("nfo") = "nfo-rollback"
           /\ comp[a].facts \in AllFacts /\ comp[a].restores \in BOOLEAN
BY DEF TypeOK, Compensations, Hidden, Paths, Visible

LEMMA GivenBackTyped ==
    ASSUME FilesTyped, NEW path \in {"target", "nfo"}
    PROVE  /\ GivenBack(path) \in [Paths -> Inodes \cup {Absent}]
           /\ \/ GivenBack(path) = disk
              \/ /\ disk[Hidden(path)] # Absent /\ disk[path] = Absent
                 /\ GivenBack(path) = Renamed(Hidden(path), path)
BY RenamedTyped DEF FilesTyped, GivenBack, Hidden, Paths, Visible

\* What the steps of a compensation change.
LEMMA CompensateTyped ==
    ASSUME TypeOK, NEW a \in Actors,
           Compensate(a) \/ CompRemove(a, "failed") \/ CompRestore(a, "failed")
    PROVE  /\ disk' \in [Paths -> Inodes \cup {Absent}] /\ UNCHANGED content
           /\ comp' \in [Actors -> Compensations]
           /\ \A b \in Actors : b # a => comp'[b] = comp[b]
           /\ comp[a].at \in {"look", "rename", "verify", "settle"}
           /\ comp'[a].path = comp[a].path /\ comp'[a].facts = comp[a].facts
           /\ comp'[a].restores = comp[a].restores /\ comp'[a].at # "none"
<1> DEFINE path == comp[a].path
<1>1. FilesTyped /\ comp \in [Actors -> Compensations] /\ path \in {"target", "nfo"} /\ path \in Paths
      /\ Hidden(path) \in Paths
  BY HiddenIs DEF TypeOK, FilesTyped
<1>2. CASE CompLook(a)
  <2>1. \E at \in {"absent", "manual", "rename"} : CompTo(a, at)
    BY <1>2 DEF CompLook
  <2> QED  BY <1>1, <1>2, <2>1, CompTyped DEF CompLook, CompSteps, CompOutcomes, FilesTyped
<1>3. CASE CompRename(a)
  <2>1. \E at \in {"manual", "verify"} : CompTo(a, at)
    BY <1>3 DEF CompRename
  <2>2. disk' = disk \/ disk' = Renamed(path, Hidden(path))
    BY <1>3 DEF CompRename
  <2>3. disk' \in [Paths -> Inodes \cup {Absent}]
    BY <1>1, <2>2, RenamedTyped DEF FilesTyped
  <2> QED  BY <1>1, <1>3, <2>1, <2>3, CompTyped DEF CompRename, CompSteps, CompOutcomes
<1>4. CASE CompVerify(a)
  <2>1. \E at \in {"manual", "settle", "failed"} : CompTo(a, at)
    BY <1>4 DEF CompVerify
  <2>2. disk' = disk \/ disk' = GivenBack(path)
    BY <1>4 DEF CompVerify
  <2>3. disk' \in [Paths -> Inodes \cup {Absent}]
    BY <1>1, <2>2, GivenBackTyped DEF FilesTyped
  <2> QED  BY <1>1, <1>4, <2>1, <2>3, CompTyped DEF CompVerify, CompSteps, CompOutcomes
<1>5. CASE CompRemove(a, "removed") \/ CompRemove(a, "failed")
  <2>1. \E at \in {"removed", "failed"} : CompTo(a, at)
    BY <1>5 DEF CompRemove
  <2>2. disk' = Unlinked(Hidden(path)) /\ UNCHANGED content /\ comp[a].at = "settle"
    BY <1>5 DEF CompRemove
  <2>3. disk' \in [Paths -> Inodes \cup {Absent}]
    BY <1>1, <2>2, RenamedTyped
  <2> QED  BY <1>1, <2>1, <2>2, <2>3, CompTyped DEF CompSteps, CompOutcomes
<1>6. ASSUME NEW outcome \in {"restored", "failed"}, CompRestore(a, outcome)
      PROVE  /\ disk' \in [Paths -> Inodes \cup {Absent}] /\ UNCHANGED content /\ comp[a].at = "settle"
             /\ \E at \in {"restored", "failed", "manual"} : CompTo(a, at)
  <2>1. UNCHANGED content /\ comp[a].at = "settle" /\ \E at \in {"restored", "failed", "manual"} : CompTo(a, at)
    BY <1>6 DEF CompRestore
  <2>2. CASE disk' = [Renamed(Hidden(path), "source") EXCEPT
                        !["manifest"] = IF outcome = "restored" THEN Absent ELSE @]
    <3>1. Renamed(Hidden(path), "source") \in [Paths -> Inodes \cup {Absent}]
      BY <1>1, PathsAre, RenamedTyped
    <3> HIDE DEF path
    <3> QED  BY <2>1, <2>2, <3>1
  <2>3. CASE disk' = GivenBack(path)
    BY <1>1, <2>1, <2>3, GivenBackTyped
  <2> QED  BY <1>6, <2>1, <2>2, <2>3 DEF CompRestore
<1>7. CASE CompRestore(a, "restored") \/ CompRestore(a, "failed")
  <2>1. /\ disk' \in [Paths -> Inodes \cup {Absent}] /\ UNCHANGED content /\ comp[a].at = "settle"
        /\ \E at \in {"restored", "failed", "manual"} : CompTo(a, at)
    BY <1>6, <1>7
  <2> QED  BY <1>1, <2>1, CompTyped DEF CompSteps, CompOutcomes
<1> QED  BY <1>2, <1>3, <1>4, <1>5, <1>7 DEF Compensate

\* A run writes the row it has in memory after its step, in a journal it did not give up.
Journalled(r) ==
    \/ UNCHANGED journal
    \/ journal' = [journal EXCEPT ![run'[r].on] = run'[r].row]

RecordStep(r) ==
    \/ Begin(r) \/ Mark(r) \/ Verify(r) \/ Review(r) \/ ReviewResult(r)
    \/ PrepareFile(r) \/ Conclude(r) \/ EnsurePartial(r) \/ PrepareRemoval(r)
    \/ NfoPending(r) \/ NfoPrepare(r) \/ NfoFailed(r) \/ NfoFinish(r) \/ Catalog(r)

LEMMA RecordsJournal ==
    ASSUME Base, NEW r \in Runners, RecordStep(r)
    PROVE  RunGoesOn(r) /\ Journalled(r)
<1>1. TypeOK
  BY DEF Base
<1>2. RunGoesOn(r)
  BY RecordsFit, NfoRecordsFit DEF RecordStep
<1>3. CASE Begin(r)
  BY <1>1, <1>2, <1>3, BeginDoes DEF Journalled, Turned
<1>4. CASE Mark(r)
  BY <1>1, <1>2, <1>4, MarkDoes DEF Journalled, Turned
<1>5. CASE Verify(r)
  BY <1>1, <1>2, <1>5, VerifyDoes DEF Journalled, Turned
<1>6. CASE Review(r)
  BY <1>1, <1>2, <1>6, ReviewDoes DEF Journalled, Turned
<1>7. CASE PrepareFile(r)
  BY <1>1, <1>2, <1>7, PrepareFileDoes DEF Journalled, Turned
<1>8. CASE PrepareRemoval(r)
  BY <1>1, <1>2, <1>8, PrepareRemovalDoes DEF Journalled, Turned
<1>9. CASE NfoPrepare(r)
  BY <1>1, <1>2, <1>9, NfoPrepareDoes DEF Journalled, Turned
<1>10. CASE ReviewResult(r) \/ Conclude(r) \/ EnsurePartial(r) \/ NfoPending(r) \/ NfoFailed(r)
            \/ NfoFinish(r) \/ Catalog(r)
  BY <1>1, <1>2, <1>10, ReviewResultDoes, ConcludeDoes, EnsurePartialDoes, NfoPendingDoes, NfoFailedDoes,
     NfoFinishDoes, CatalogDoes DEF Journalled
<1> QED  BY <1>2, <1>3, <1>4, <1>5, <1>6, <1>7, <1>8, <1>9, <1>10 DEF RecordStep

LEMMA ChangeTyped ==
    ASSUME NEW new \in Results, Change(new)
    PROVE  result' \in Results /\ result'.status = new.status /\ result'.remaining = new.remaining
           /\ result'.nfo = new.nfo /\ result'.catalog = new.catalog /\ result'.version = new.version + 1
<1> DEFINE version == new.version + 1
<1>1. result' = [new EXCEPT !.version = version]
  BY DEF Change, Results
<1>2. version \in Nat
  BY DEF Results
<1> HIDE DEF version
<1>3. result' \in Results /\ result'.status = new.status /\ result'.remaining = new.remaining
      /\ result'.nfo = new.nfo /\ result'.catalog = new.catalog /\ result'.version = version
  BY <1>1, <1>2 DEF Results
<1> QED  BY <1>3 DEF version

LEMMA NoResultIs ==
    NoResult \in Results /\ NoResult.status = "none" /\ NoResult.remaining = "none"
    /\ NoResult.nfo = "not-requested" /\ NoResult.version = 0 /\ NoResult.catalog = FALSE
BY DEF NoResult, Results, ResultStatuses, NfoStatuses

LEMMA ConcludedIs ==
    ASSUME result \in Results
    PROVE  /\ Concluded \in Results
           /\ plan.nfo => Concluded.remaining = "nfo" /\ Concluded.status # "none"
           /\ plan.nfo /\ result.status # "completed" => Concluded.status # "completed"
           /\ ~plan.nfo => Concluded.status = "completed" /\ Concluded.remaining = "none"
<1>1. CASE result.status = "none"
  <2> DEFINE status == IF plan.nfo THEN "partial-success" ELSE "completed"
             remaining == IF plan.nfo THEN "nfo" ELSE "none"
  <2>1. Concluded = [NoResult EXCEPT !.status = status, !.remaining = remaining]
    BY <1>1 DEF Concluded
  <2>2. status \in ResultStatuses /\ remaining \in {"none", "source-removal", "nfo"}
    BY DEF ResultStatuses
  <2>3. /\ plan.nfo => status = "partial-success" /\ remaining = "nfo"
        /\ ~plan.nfo => status = "completed" /\ remaining = "none"
    OBVIOUS
  <2> HIDE DEF status, remaining
  <2>4. Concluded \in Results /\ Concluded.status = status /\ Concluded.remaining = remaining
    BY <2>1, <2>2, NoResultIs DEF Results
  <2> QED  BY <2>3, <2>4
<1>2. CASE result.status # "none" /\ ~plan.nfo
  <2>1. Concluded = [result EXCEPT !.status = "completed", !.remaining = "none"]
    BY <1>2 DEF Concluded
  <2> QED  BY <1>2, <2>1 DEF Results, ResultStatuses
<1>3. CASE result.status # "none" /\ plan.nfo
  <2> DEFINE nfo == IF result.nfo = "failed" THEN "failed" ELSE "not-requested"
  <2>1. Concluded = [result EXCEPT !.remaining = "nfo", !.nfo = nfo]
    BY <1>3 DEF Concluded, Results
  <2>2. nfo \in NfoStatuses
    BY DEF NfoStatuses
  <2> HIDE DEF nfo
  <2>3. Concluded \in Results /\ Concluded.remaining = "nfo" /\ Concluded.status = result.status
    BY <2>1, <2>2 DEF Results
  <2> QED  BY <1>3, <2>3
<1> QED  BY <1>1, <1>2, <1>3

LEMMA RecordsTyped ==
    ASSUME Base, NEW r \in Runners, RecordStep(r)
    PROVE  result' \in Results /\ UNCHANGED receipts
<1>1. TypeOK /\ StepFits(run[r]) /\ result \in Results /\ run[r].row \in Rows
  BY RunIs DEF Base, TypeOK
<1>2. CASE Begin(r) \/ Mark(r) \/ Verify(r) \/ Review(r) \/ PrepareFile(r) \/ PrepareRemoval(r) \/ NfoPrepare(r)
  BY <1>1, <1>2 DEF Begin, Mark, Verify, Review, PrepareFile, PrepareRemoval, NfoPrepare
<1>3. CASE ReviewResult(r)
  <2>1. [result EXCEPT !.status = "manual-review"] \in Results
    BY <1>1 DEF Results, ResultStatuses
  <2> QED  BY <1>1, <1>3, <2>1, ChangeTyped DEF ReviewResult
<1>4. CASE Conclude(r) \/ NfoPending(r)
  BY <1>1, <1>4, ConcludedIs, ChangeTyped DEF Conclude, NfoPending, ConcludeResult
<1>5. CASE EnsurePartial(r)
  <2>1. [NoResult EXCEPT !.status = "partial-success", !.remaining = "source-removal"] \in Results
    BY NoResultIs DEF Results, ResultStatuses
  <2> QED  BY <1>1, <1>5, <2>1, ChangeTyped DEF EnsurePartial
<1>6. CASE NfoFailed(r)
  <2>1. [result EXCEPT !.nfo = "failed", !.remaining = "nfo"] \in Results
    BY <1>1 DEF Results, NfoStatuses
  <2> QED  BY <1>1, <1>6, <2>1, ChangeTyped DEF NfoFailed
<1>7. CASE NfoFinish(r)
  <2> DEFINE outcome == run[r].row.outcome
             new == [result EXCEPT !.status = "completed", !.remaining = "none", !.nfo = outcome]
  <2>1. outcome \in {"preserved", "generated"}
    <3>1. run[r].at = "nfo-finish"
      BY <1>7 DEF NfoFinish, At
    <3>2. run[r].row.status = "verified" /\ run[r].on = "nfo"
      BY <1>1, <3>1 DEF StepFits, StatusFits, KindFits
    <3>3. outcome # "none"
      BY <1>1, <3>2 DEF StepFits, RowFits
    <3> QED  BY <1>1, <3>3 DEF Rows
  <2>2. (new # result /\ Change(new)) \/ UNCHANGED result
    BY <1>7 DEF NfoFinish
  <2>3. UNCHANGED receipts
    BY <1>7 DEF NfoFinish
  <2> HIDE DEF outcome
  <2>4. new \in Results
    BY <1>1, <2>1 DEF Results, ResultStatuses, NfoStatuses
  <2> QED  BY <1>1, <2>2, <2>3, <2>4, ChangeTyped
<1>8. CASE Catalog(r)
  <2>1. [result EXCEPT !.catalog = TRUE] \in Results
    BY <1>1 DEF Results
  <2> QED  BY <1>1, <1>8, <2>1, ChangeTyped DEF Catalog
<1> QED  BY <1>2, <1>3, <1>4, <1>5, <1>6, <1>7, <1>8 DEF RecordStep

\* Rows that are in the past stay so.
LEMMA RecordsPast ==
    ASSUME Base, NEW r \in Runners, RecordStep(r)
    PROVE  /\ PastFile => PastFile'
           /\ journal'["removal"].status # "none" =>
                 journal["removal"].status # "none" \/ run[r].on = "removal" \/ run[r].at = "prepare-removal"
           /\ run'[r].on = "removal" => run[r].on = "removal" \/ run[r].at = "prepare-removal"
           /\ run'[r].on = "file" /\ run'[r].row.status = "verified" =>
                 PastFile' \/ (run[r].on = "file" /\ run[r].row.status = "verified")
<1>1. TypeOK /\ StepFits(run[r]) /\ run[r].on \in {"file", "removal", "nfo"}
      /\ journal \in [{"file", "removal", "nfo"} -> Rows]
  BY RunIs DEF Base, TypeOK, JournalKinds
<1>2. CASE Begin(r)
  <2>1. Moved(run[r].row, "executing").status = "executing"
    BY <1>1, RunIs, MovedIs DEF JournalStatuses
  <2>2. At(r, "begin") /\ run[r].row.status = "prepared"
    BY <1>1, <1>2, BeginDoes DEF At, StepFits, StatusFits
  <2>3. CASE UNCHANGED journal /\ Ends(r, "again")
    BY <1>1, <2>3, NoRunIs DEF Turned, Ends, PastFile
  <2>4. CASE /\ Current(run[r].on, run[r].row)
             /\ journal' = [journal EXCEPT ![run[r].on] = Moved(run[r].row, "executing")]
             /\ \E at \in Steps :
                  Turned(r, at, run[r].on, Moved(run[r].row, "executing"), run[r].facts, run[r].direct, run[r].then)
    <3> DEFINE new == Moved(run[r].row, "executing")
    <3>1. new.status = "executing"
      BY <2>1
    <3> HIDE DEF new
    <3> QED  BY <1>1, <2>2, <2>4, <3>1 DEF Turned, Current, PastFile, new
  <2> QED  BY <1>1, <1>2, <2>3, <2>4, BeginDoes
<1>3. CASE Mark(r)
  BY <1>1, <1>3, MarkDoes, AppliedIs, NoRunIs DEF Turned, Ends, At, StepFits, StatusFits, Current, PastFile
<1>4. CASE Verify(r)
  <2>1. Moved(run[r].row, "verified").status = "verified"
    BY <1>1, RunIs, MovedIs DEF JournalStatuses
  <2> QED  BY <1>1, <1>4, <2>1, VerifyDoes, NoRunIs DEF Turned, Ends, At, PastFile
<1>5. CASE Review(r)
  <2>1. Moved(run[r].row, "manual-review").status = "manual-review"
    BY <1>1, RunIs, MovedIs DEF JournalStatuses
  <2> QED  BY <1>1, <1>5, <2>1, ReviewDoes, NoRunIs DEF Turned, Ends, At, PastFile
<1>6. CASE PrepareFile(r)
  BY <1>1, <1>6, PrepareFileDoes, PreparedRowIs DEF Turned, At, PastFile
<1>7. CASE PrepareRemoval(r)
  BY <1>1, <1>7, PrepareRemovalDoes, PreparedRowIs DEF Turned, At, PastFile
<1>8. CASE NfoPrepare(r)
  BY <1>1, <1>8, NfoPrepareDoes, NoRunIs DEF Turned, Ends, At, PastFile
<1>9. CASE ReviewResult(r) \/ Conclude(r) \/ EnsurePartial(r) \/ NfoPending(r) \/ NfoFailed(r)
            \/ NfoFinish(r) \/ Catalog(r)
  <2> DEFINE Keeps == \/ run'[r].on = run[r].on /\ run'[r].row = run[r].row
                      \/ run'[r].on = "file" /\ run'[r].row = NoRow
  <2>1. ASSUME ReviewResult(r) \/ Conclude(r) \/ EnsurePartial(r) \/ NfoPending(r)
        PROVE  Keeps /\ UNCHANGED journal
    BY <1>1, <2>1, ReviewResultDoes, ConcludeDoes, EnsurePartialDoes, NfoPendingDoes DEF Turned, Same, Ends
  <2>2. ASSUME NfoFailed(r) \/ NfoFinish(r) \/ Catalog(r)
        PROVE  Keeps /\ UNCHANGED journal
    BY <1>1, <2>2, NfoFailedDoes, NfoFinishDoes, CatalogDoes DEF Turned, Same, Ends
  <2>3. Keeps /\ UNCHANGED journal
    BY <1>9, <2>1, <2>2
  <2> QED  BY <2>3, NoRunIs DEF PastFile
<1> QED  BY <1>2, <1>3, <1>4, <1>5, <1>6, <1>7, <1>8, <1>9 DEF RecordStep

ReadStep(r) ==
    \/ Inspect(r) \/ Observe(r) \/ Execute(r) \/ Recover(r) \/ Completed(r)
    \/ RemovalRecover(r) \/ RemovalLook(r) \/ FinishRemoval(r)
    \/ NfoLook(r) \/ NfoInspect(r) \/ NfoExecute(r) \/ NfoExists(r) \/ NfoRecover(r)
    \/ Complete(r)

CallStep(r) ==
    \/ Copy(r) \/ Publish(r) \/ Rename(r) \/ Confirm(r) \/ Undone(r)
    \/ CreateManifest(r) \/ PublishManifest(r)
    \/ RemovalRename(r) \/ RemovalCheck(r) \/ RemovalUnlink(r)
    \/ NfoCreate(r) \/ NfoPublish(r)

FailStep(r) ==
    \/ CopyFails(r) \/ RenameUnsynced(r) \/ ManifestFails(r)
    \/ RemovalUnsynced(r) \/ NfoWriteFails(r) \/ CatalogFails(r)

LEMMA CallsTyped ==
    ASSUME TypeOK, NEW r \in Runners, CallStep(r) \/ FailStep(r)
    PROVE  /\ disk' \in [Paths -> Inodes \cup {Absent}] /\ content' \in [Inodes -> Data]
           /\ comp' \in [Actors -> Compensations]
<1>1. /\ disk \in [Paths -> Inodes \cup {Absent}] /\ content \in [Inodes -> Data]
      /\ comp \in [Actors -> Compensations] /\ FilesTyped
  BY DEF TypeOK, FilesTyped
<1> DEFINE Typed(d) == d \in [Paths -> Inodes \cup {Absent}]
<1>2. /\ Typed(Cleaned) /\ Typed(Renamed("temp", "target")) /\ Typed(Renamed("temp", "manifest"))
      /\ Typed(Renamed("source", "removal")) /\ Typed(Renamed("removal", "source"))
      /\ Typed(Unlinked("removal")) /\ Typed(Unlinked("nfo-temp")) /\ Typed(Renamed("nfo-temp", "nfo"))
  BY <1>1, RenamedTyped, PathsAre DEF Cleaned
<1>3. Typed(NamedTarget)
  <2>1. Typed(Renamed("source", "target")) /\ Typed([disk EXCEPT !["target"] = disk["source"]])
    BY <1>1, RenamedTyped, PathsAre
  <2> QED  BY <2>1 DEF NamedTarget
<1>4. CASE Copy(r)
  <2>1. CASE UNCHANGED <<disk, content>>
    BY <1>1, <1>4, <2>1, CopyDoes
  <2>2. CASE CanCreate("copy") /\ disk' = [disk EXCEPT !["temp"] = Fresh("copy")]
             /\ content' = [content EXCEPT ![Fresh("copy")] = Planned.data]
    <3>1. Fresh("copy") \in Inodes /\ Planned.data \in Data
      BY <2>2, FreshIs DEF Planned, Data
    <3> QED  BY <1>1, <1>4, <2>2, <3>1, CopyDoes
  <2> QED  BY <1>4, <2>1, <2>2, CopyDoes
<1>5. CASE Publish(r) \/ CopyFails(r)
  BY <1>1, <1>2, <1>5, PublishDoes, CopyFailsDoes
<1>6. CASE Rename(r) \/ RenameUnsynced(r)
  BY <1>1, <1>3, <1>6, RenameDoes, RenameUnsyncedDoes
<1>7. CASE Confirm(r)
  <2>1. Facts("target") \in AllFacts /\ r \in Actors /\ (Operation = "move") \in BOOLEAN
    BY WorldIs, PathsAre DEF Actors
  <2>2. Begun("target", Facts("target"), Operation = "move") \in Compensations
    BY <2>1, BegunIs
  <2> QED  BY <1>1, <1>7, <2>1, <2>2, ConfirmDoes
<1>8. CASE Undone(r)
  BY <1>1, <1>8, NoCompIs, UndoneDoes DEF Actors
<1>9. CASE CreateManifest(r) \/ PublishManifest(r) \/ ManifestFails(r)
  <2>1. Typed([disk EXCEPT !["temp"] = Manifest])
    BY <1>1, InodesAre
  <2> QED  BY <1>1, <1>2, <1>9, <2>1, CreateManifestDoes, PublishManifestDoes, ManifestFailsDoes
<1>10. CASE RemovalRename(r) \/ RemovalCheck(r) \/ RemovalUnlink(r) \/ RemovalUnsynced(r)
  BY <1>1, <1>2, <1>10, RemovalRenameDoes, RemovalCheckDoes, RemovalUnlinkDoes, RemovalUnsyncedDoes
<1>11. CASE NfoCreate(r)
  <2>1. CASE UNCHANGED <<disk, content>>
    BY <1>1, <1>11, <2>1, NfoCreateDoes
  <2>2. CASE CanCreate("nfo") /\ disk' = [disk EXCEPT !["nfo-temp"] = Fresh("nfo")]
             /\ content' = [content EXCEPT ![Fresh("nfo")] = "nfo"]
    <3>1. Fresh("nfo") \in Inodes /\ "nfo" \in Data
      BY <2>2, FreshIs DEF Data
    <3> QED  BY <1>1, <1>11, <2>2, <3>1, NfoCreateDoes
  <2> QED  BY <1>11, <2>1, <2>2, NfoCreateDoes
<1>12. CASE NfoPublish(r) \/ NfoWriteFails(r)
  BY <1>1, <1>2, <1>12, NfoPublishDoes, NfoWriteFailsDoes
<1>13. CASE CatalogFails(r)
  BY <1>1, <1>13, CatalogFailsDoes DEF files
<1> QED  BY <1>4, <1>5, <1>6, <1>7, <1>8, <1>9, <1>10, <1>11, <1>12, <1>13 DEF CallStep, FailStep

LEMMA UndoTyped ==
    ASSUME TypeOK, NEW c \in Callers
    PROVE  /\ undo[c] \in Requests /\ undo[c].file \in Rows /\ undo[c].nfo \in Rows /\ c \in Actors
           /\ undo[c].key \in Keys \cup {NoOne} /\ undo[c].wanted \in Nat
           /\ undo[c].additional \in BOOLEAN /\ undo[c].manual \in BOOLEAN
           /\ NoRequest \in Requests /\ NoRequest.at = "idle"
           /\ \A at \in {"idle", "check", "load", "nfo", "nfo-manual", "file", "finish"} :
                [undo[c] EXCEPT !.at = at] \in Requests
BY NoRunIs DEF TypeOK, Requests, NoRequest, Actors

LEMMA RequestsTyped ==
    ASSUME TypeOK, NEW c \in Callers, Requested(c)
    PROVE  /\ undo' \in [Callers -> Requests] /\ comp' \in [Actors -> Compensations]
           /\ journal' \in [JournalKinds -> Rows] /\ result' \in Results /\ receipts' \in [Keys -> Nat]
           /\ UNCHANGED <<disk, content>>
           /\ \A b \in Actors : b # c => comp'[b] = comp[b]
<1> DEFINE u == undo[c]
<1>1. /\ undo \in [Callers -> Requests] /\ comp \in [Actors -> Compensations]
      /\ journal \in [{"file", "removal", "nfo"} -> Rows] /\ result \in Results
      /\ receipts \in [Keys -> Nat] /\ JournalKinds = {"file", "removal", "nfo"}
  BY DEF TypeOK, JournalKinds
<1>2. /\ u \in Requests /\ u.file \in Rows /\ u.nfo \in Rows /\ c \in Actors
      /\ u.key \in Keys \cup {NoOne} /\ u.wanted \in Nat /\ u.additional \in BOOLEAN
      /\ u.manual \in BOOLEAN /\ NoRequest \in Requests
  BY UndoTyped
<1>3. \A at \in {"idle", "check", "load", "nfo", "nfo-manual", "file", "finish"} :
         UndoGoto(c, at) => undo' \in [Callers -> Requests]
  <2> TAKE at \in {"idle", "check", "load", "nfo", "nfo-manual", "file", "finish"}
  <2> DEFINE new == [u EXCEPT !.at = at]
  <2>1. new \in Requests
    BY UndoTyped
  <2>2. UndoGoto(c, at) => undo' = [undo EXCEPT ![c] = new]
    BY DEF UndoGoto
  <2> HIDE DEF new
  <2> QED  BY <1>1, <2>1, <2>2
<1>4. Refuse(c) => undo' \in [Callers -> Requests]
  BY <1>1, <1>2 DEF Refuse
<1>5. \A row \in Rows : TakeBackFile(c, row) =>
         comp' \in [Actors -> Compensations] /\ \A b \in Actors : b # c => comp'[b] = comp[b]
  <2>1. SUFFICES ASSUME NEW row \in Rows, TakeBackFile(c, row)
                 PROVE  comp' \in [Actors -> Compensations] /\ \A b \in Actors : b # c => comp'[b] = comp[b]
    OBVIOUS
  <2> DEFINE restores == Operation \in {"move", "quarantine"}
  <2>2. restores \in BOOLEAN /\ row.applied \in AllFacts /\ TakeBack(c, "target", row, restores)
    BY <2>1 DEF Rows, TakeBackFile
  <2> HIDE DEF restores
  <2>3. Begun("target", row.applied, restores) \in Compensations
    BY <2>2, BegunIs
  <2> QED  BY <1>1, <1>2, <2>2, <2>3 DEF TakeBack
<1>6. \A row \in Rows : TakeBack(c, "nfo", row, FALSE) =>
         comp' \in [Actors -> Compensations] /\ \A b \in Actors : b # c => comp'[b] = comp[b]
  <2>1. SUFFICES ASSUME NEW row \in Rows, TakeBack(c, "nfo", row, FALSE)
                 PROVE  comp' \in [Actors -> Compensations] /\ \A b \in Actors : b # c => comp'[b] = comp[b]
    OBVIOUS
  <2>2. Begun("nfo", row.applied, FALSE) \in Compensations
    BY BegunIs DEF Rows
  <2> QED  BY <1>1, <1>2, <2>1, <2>2 DEF TakeBack
<1>7. CASE Check(c)
  BY <1>1, <1>3, <1>4, <1>7 DEF Check, files, db
<1>8. CASE Load(c)
  <2>1. CASE journal["file"].status # "verified"
    BY <1>1, <1>4, <1>8, <2>1 DEF Load, db
  <2>2. CASE journal["file"].status = "verified"
    <3> DEFINE at == IF GeneratedNfo THEN "nfo" ELSE "file"
               new == [u EXCEPT !.file = journal["file"], !.nfo = journal["nfo"], !.at = at]
    <3>1. undo' = [undo EXCEPT ![c] = new] /\ UNCHANGED <<disk, content, db>>
      BY <1>8, <2>2 DEF Load
    <3>2. journal["file"] \in Rows /\ journal["nfo"] \in Rows /\ at \in {"nfo", "file"}
      BY <1>1
    <3>3. TakeBack(c, "nfo", journal["nfo"], FALSE) \/ TakeBackFile(c, journal["file"])
      BY <1>8, <2>2 DEF Load
    <3> HIDE DEF u, at
    <3>4. new \in Requests
      BY <1>2, <3>2 DEF Requests
    <3> HIDE DEF new
    <3> QED  BY <1>1, <1>5, <1>6, <3>1, <3>2, <3>3, <3>4 DEF db
  <2> QED  BY <2>1, <2>2
<1>9. CASE NfoTaken(c)
  <2>1. CASE comp[c].at \in {"absent", "removed"}
    <3> DEFINE new == [u EXCEPT !.additional = TRUE, !.at = "file"]
    <3>1. undo' = [undo EXCEPT ![c] = new] /\ UNCHANGED <<disk, content, db>> /\ TakeBackFile(c, u.file)
      BY <1>9, <2>1 DEF NfoTaken
    <3> HIDE DEF u
    <3>2. new \in Requests
      BY <1>2 DEF Requests
    <3> HIDE DEF new
    <3> QED  BY <1>1, <1>2, <1>5, <3>1, <3>2 DEF db
  <2>2. CASE comp[c].at \notin {"absent", "removed"}
    BY <1>1, <1>2, <1>3, <1>4, <1>9, <2>2, NoCompIs DEF NfoTaken, db
  <2> QED  BY <2>1, <2>2
<1>10. CASE NfoManual(c)
  <2>1. CASE Current("nfo", u.nfo)
    <3> DEFINE new == [u EXCEPT !.manual = TRUE, !.at = "finish"]
               row == Moved(u.nfo, "manual-review")
    <3>1. /\ undo' = [undo EXCEPT ![c] = new] /\ journal' = [journal EXCEPT !["nfo"] = row]
          /\ UNCHANGED <<files, result, receipts>>
      BY <1>10, <2>1 DEF NfoManual
    <3>2. row \in Rows
      BY <1>2, MovedIs DEF JournalStatuses
    <3> HIDE DEF u, row
    <3>3. new \in Requests
      BY <1>2 DEF Requests
    <3> HIDE DEF new
    <3> QED  BY <1>1, <3>1, <3>2, <3>3 DEF files
  <2>2. CASE ~Current("nfo", u.nfo)
    BY <1>1, <1>4, <1>10, <2>2 DEF NfoManual, files
  <2> QED  BY <2>1, <2>2
<1>11. CASE FileTaken(c)
  <2>1. CASE comp[c].at \in {"absent", "removed", "restored", "manual"}
    <3> DEFINE manual == comp[c].at = "manual"
               new == [u EXCEPT !.manual = manual, !.at = "finish"]
    <3>1. undo' = [undo EXCEPT ![c] = new] /\ UNCHANGED <<disk, content, db>> /\ comp' = [comp EXCEPT ![c] = NoComp]
      BY <1>11, <2>1 DEF FileTaken
    <3>2. manual \in BOOLEAN
      OBVIOUS
    <3> HIDE DEF u, manual
    <3>3. new \in Requests
      BY <1>2, <3>2 DEF Requests
    <3> HIDE DEF new
    <3> QED  BY <1>1, <1>2, <3>1, <3>3, NoCompIs DEF db
  <2>2. CASE comp[c].at \notin {"absent", "removed", "restored", "manual"}
    BY <1>1, <1>2, <1>4, <1>11, <2>2, NoCompIs DEF FileTaken, db
  <2> QED  BY <2>1, <2>2
<1>12. CASE Finish(c)
  <2>1. undo' \in [Callers -> Requests] /\ UNCHANGED files
    BY <1>4, <1>12 DEF Finish
  <2>2. CASE UNCHANGED db
    BY <1>1, <2>1, <2>2 DEF db, files
  <2>3. CASE /\ journal' = Rolledback(c)
             /\ Change([result EXCEPT !.status = IF u.manual THEN "manual-review" ELSE "compensated"])
             /\ receipts' = [receipts EXCEPT ![u.key] = u.wanted]
    <3> DEFINE status == IF u.manual THEN "manual-review" ELSE "compensated"
    <3>1. status \in JournalStatuses /\ status \in ResultStatuses
      BY DEF JournalStatuses, ResultStatuses
    <3>2. [result EXCEPT !.status = status] \in Results
      BY <1>1, <3>1 DEF Results
    <3>3. result' \in Results
      BY <2>3, <3>2, ChangeTyped
    <3>4. receipts' \in [Keys -> Nat]
      BY <1>1, <1>2, <2>3
    <3>5. /\ Moved(u.file, status) \in Rows /\ Moved(u.nfo, "compensated") \in Rows
          /\ Moved(journal["removal"], "compensated") \in Rows
      BY <1>1, <1>2, <3>1, MovedIs DEF JournalStatuses
    <3>6. Rolledback(c) \in [{"file", "removal", "nfo"} -> Rows]
      <4> DEFINE file == Moved(u.file, status)
                 removal == IF ~u.manual /\ journal["removal"].status = "verified"
                            THEN Moved(journal["removal"], "compensated") ELSE journal["removal"]
                 nfo == IF u.additional THEN Moved(u.nfo, "compensated") ELSE journal["nfo"]
      <4>1. file \in Rows /\ removal \in Rows /\ nfo \in Rows
        BY <1>1, <3>5
      <4>2. Rolledback(c) = [file |-> file, removal |-> removal, nfo |-> nfo]
        BY DEF Rolledback
      <4> HIDE DEF file, removal, nfo
      <4> QED  BY <4>1, <4>2
    <3> QED  BY <1>1, <2>1, <2>3, <3>3, <3>4, <3>6 DEF files
  <2> QED  BY <1>12, <2>2, <2>3 DEF Finish
<1> QED  BY <1>7, <1>8, <1>9, <1>10, <1>11, <1>12 DEF Requested

-----------------------------------------------------------------------------
(***************************************************************************)
(* The first invariant: every run, row and request has its shape.          *)
(***************************************************************************)

LEMMA BaseInit == Init => Base
<1> SUFFICES ASSUME Init PROVE Base
  OBVIOUS
<1>1. disk \in [Paths -> Inodes \cup {Absent}]
  BY InodesAre DEF Init, FilesInit
<1>2. content \in [Inodes -> Data]
  BY DEF Init, FilesInit, Data
<1>3. \A s \in Scenarios : s.plan \in Plans /\ s.limits \in [Incidents -> Nat]
  BY ScenariosAssumption
<1>4. plan \in Plans /\ limits \in [Incidents -> Nat] /\ spent \in [Incidents -> Nat]
  BY <1>3 DEF Init
<1>5. NoRequest \in Requests
  BY NoRunIs DEF NoRequest, Requests
<1>6. TypeOK
  BY <1>1, <1>2, <1>4, <1>5, NoRunIs, NoCompIs, NoResultIs DEF TypeOK, Init, TaskStages
<1>7. \A r \in Runners : run[r] = NoRun
  BY DEF Init
<1>8. \A r \in Runners : StepFits(run[r])
  BY <1>7, NoRunIs DEF StepFits, StatusFits, KindFits, PlanFits, RowFits, FileCalls, RemovalCalls,
     NfoCalls, NfoReads, Removes
<1>9. \A k \in JournalKinds : journal[k] = NoRow
  BY DEF Init
<1>10. \A k \in JournalKinds : RowFits(k, journal[k])
  BY <1>9, NoRunIs DEF RowFits
<1>11. Past
  BY <1>7, <1>9, NoRunIs DEF Past, JournalKinds
<1> QED  BY <1>6, <1>8, <1>10, <1>11 DEF Base, Init, DoneRests

LEMMA WorldSteps ==
    ASSUME TypeOK, [Next]_vars
    PROVE  /\ plan' = plan /\ limits' = limits /\ spent' \in [Incidents -> Nat]
           /\ \A i \in Incidents : spent'[i] >= spent[i]
<1>1. spent \in [Incidents -> Nat]
  BY DEF TypeOK
<1>2. ASSUME NEW what \in Incidents, Spend(what)
      PROVE  /\ plan' = plan /\ limits' = limits /\ spent' \in [Incidents -> Nat]
             /\ \A i \in Incidents : spent'[i] >= spent[i]
  BY <1>1, <1>2 DEF Spend
<1>3. CASE UNCHANGED world
  BY <1>1, <1>3 DEF world
<1>4. ASSUME NEW r \in Runners, StartStage(r) \/ RunStep(r) PROVE UNCHANGED world
  BY <1>4 DEF StartStage, RunStep, Reads, Records, Calls, Works, Commit
<1>5. ASSUME NEW c \in Callers, RequestStep(c) PROVE UNCHANGED world
  BY <1>5 DEF RequestStep, Requested, Works
<1>6. CASE (\E r \in Runners : RunFails(r)) \/ (\E a \in Actors : WorkFails(a))
  <2>1. Spend("fault") /\ "fault" \in Incidents
    BY <1>6 DEF RunFails, WorkFails, Incidents
  <2> QED  BY <1>2, <2>1
<1>7. CASE (\E c \in Callers : Ask(c)) \/ Crash \/ LoseLease \/ RetryRequest \/ Users
  <2>1. \E what \in Incidents : Spend(what)
    BY <1>7 DEF Ask, Crash, LoseLease, RetryRequest, Users, Incidents
  <2> QED  BY <1>2, <2>1
<1>8. CASE UNCHANGED vars
  BY <1>3, <1>8 DEF vars
<1> QED  BY <1>3, <1>4, <1>5, <1>6, <1>7, <1>8 DEF Next

LEMMA FitsKept ==
    ASSUME Base, plan' = plan, NEW r \in Runners, RunGoesOn(r)
    PROVE  \A s \in Runners : StepFits(run[s])'
<1> TAKE s \in Runners
<1>1. StepFits(run'[s])
  BY DEF Base, RunGoesOn
<1> QED  BY <1>1 DEF StepFits, StatusFits, KindFits, PlanFits, RowFits, Operation, Placement

LEMMA FitsSame ==
    ASSUME Base, plan' = plan, \A s \in Runners : run'[s] = run[s] \/ run'[s] = NoRun
    PROVE  \A s \in Runners : StepFits(run[s])'
<1> TAKE s \in Runners
<1>1. StepFits(NoRun)
  BY NoRunIs DEF StepFits, StatusFits, KindFits, PlanFits, RowFits, FileCalls, RemovalCalls,
     NfoCalls, NfoReads, Removes
<1>2. StepFits(run'[s])
  BY <1>1 DEF Base
<1> QED  BY <1>2 DEF StepFits, StatusFits, KindFits, PlanFits, RowFits, Operation, Placement

LEMMA RowsSame ==
    ASSUME Base, plan' = plan, UNCHANGED journal
    PROVE  \A k \in JournalKinds : RowFits(k, journal[k])'
<1> TAKE k \in JournalKinds
<1>1. RowFits(k, journal[k])
  BY DEF Base
<1> QED  BY <1>1 DEF RowFits, Operation

\* Steps that do not touch the rows, of which a run gets none it did not have or read.
LEMMA PastKept ==
    ASSUME Base, UNCHANGED journal,
           \A s \in Runners :
              \/ run'[s] = run[s]
              \/ run'[s] = NoRun
              \/ /\ run'[s].on = "removal" => run[s].on = "removal"
                 /\ run'[s].on = "file" /\ run'[s].row.status = "verified" =>
                       PastFile \/ (run[s].on = "file" /\ run[s].row.status = "verified")
    PROVE  Past'
BY NoRunIs DEF Base, Past, PastFile

LEMMA ReadsTyped ==
    ASSUME Base, NEW r \in Runners, ReadStep(r)
    PROVE  /\ RunGoesOn(r)
           /\ run'[r].on = "removal" => run[r].on = "removal"
           /\ run'[r].on = "file" /\ run'[r].row.status = "verified" =>
                 PastFile \/ (run[r].on = "file" /\ run[r].row.status = "verified")
<1>1. TypeOK /\ StepFits(run[r]) /\ Past
  BY DEF Base
<1>2. RunGoesOn(r)
  BY ReadsFit, NfoReadsFit DEF ReadStep
<1>3. CASE Inspect(r) \/ Observe(r) \/ Execute(r) \/ Recover(r) \/ Completed(r) \/ RemovalRecover(r)
           \/ RemovalLook(r) \/ NfoInspect(r) \/ NfoExecute(r) \/ NfoExists(r) \/ NfoRecover(r) \/ Complete(r)
  <2> DEFINE Kept == \/ run'[r].on = run[r].on /\ run'[r].row = run[r].row
                     \/ run'[r].on = "file" /\ run'[r].row = NoRow
  <2>1. ASSUME Inspect(r) \/ Observe(r) \/ Execute(r) \/ Recover(r) PROVE Kept
    BY <1>1, <2>1, InspectDoes, ObserveDoes, ExecuteDoes, RecoverDoes DEF Turned, Same, Ends
  <2>2. ASSUME Completed(r) \/ RemovalRecover(r) \/ RemovalLook(r) \/ Complete(r) PROVE Kept
    BY <1>1, <2>2, CompletedDoes, RemovalRecoverDoes, RemovalLookDoes, CompleteDoes DEF Turned, Same, Ends
  <2>3. ASSUME NfoInspect(r) \/ NfoExecute(r) \/ NfoExists(r) \/ NfoRecover(r) PROVE Kept
    BY <1>1, <2>3, NfoInspectDoes, NfoExecuteDoes, NfoExistsDoes, NfoRecoverDoes DEF Turned, Same, Ends
  <2>4. Kept
    BY <1>3, <2>1, <2>2, <2>3
  <2> QED  BY <1>2, <2>4, NoRunIs
<1>4. CASE FinishRemoval(r)
  <2>1. run[r].on = "removal"
    BY <1>1, <1>4, FinishRemovalDoes DEF At, StepFits, KindFits
  <2> QED  BY <1>1, <1>2, <1>4, <2>1, FinishRemovalDoes DEF Turned, Past
<1>5. CASE NfoLook(r)
  BY <1>1, <1>2, <1>5, NfoLookDoes, NoRunIs DEF Turned, Ends, VerifiedFile, PastFile
<1> QED  BY <1>3, <1>4, <1>5 DEF ReadStep

LEMMA CallsKeepRows ==
    ASSUME Base, NEW r \in Runners, CallStep(r) \/ FailStep(r)
    PROVE  /\ RunGoesOn(r)
           /\ \/ run'[r].on = run[r].on /\ run'[r].row = run[r].row
              \/ run'[r].on = "file" /\ run'[r].row = NoRow
<1>1. TypeOK
  BY DEF Base
<1>2. RunGoesOn(r)
  BY CallsFit, RemovalCallsFit, FailuresFit DEF CallStep, FailStep
<1>3. CASE Copy(r) \/ Publish(r) \/ Rename(r)
  BY <1>1, <1>2, <1>3, CopyDoes, PublishDoes, RenameDoes DEF Turned, Same, Ends
<1>4. CASE Confirm(r) \/ Undone(r) \/ CreateManifest(r) \/ PublishManifest(r)
  BY <1>1, <1>2, <1>4, ConfirmDoes, UndoneDoes, CreateManifestDoes, PublishManifestDoes DEF Turned, Same, Ends
<1>6. CASE RemovalRename(r) \/ RemovalCheck(r) \/ RemovalUnlink(r) \/ NfoCreate(r) \/ NfoPublish(r)
  BY <1>1, <1>2, <1>6, RemovalRenameDoes, RemovalCheckDoes, RemovalUnlinkDoes, NfoCreateDoes,
     NfoPublishDoes DEF Turned, Same, Ends
<1>5. CASE FailStep(r)
  BY <1>1, <1>2, <1>5, CopyFailsDoes, RenameUnsyncedDoes, ManifestFailsDoes, RemovalUnsyncedDoes,
     NfoWriteFailsDoes, CatalogFailsDoes DEF Turned, Same, Ends, FailStep
<1> QED  BY <1>3, <1>4, <1>5, <1>6 DEF CallStep

LEMMA UsersTyped ==
    ASSUME TypeOK, UserActs
    PROVE  disk' \in [Paths -> Inodes \cup {Absent}] /\ content' \in [Inodes -> Data] /\ UNCHANGED comp
<1>1. /\ disk \in [Paths -> Inodes \cup {Absent}] /\ content \in [Inodes -> Data] /\ FilesTyped
      /\ "other" \in Data /\ UNCHANGED comp
  BY DEF TypeOK, FilesTyped, UserActs, Data
<1>2. PICK p \in Visible : UserWrites(p) \/ UserDeletes(p) \/ UserEdits(p)
  BY DEF UserActs
<1>3. p \in Paths
  BY DEF Paths
<1>4. CASE UserWrites(p)
  <2>1. Fresh("user") \in Inodes
    BY <1>4, FreshIs DEF UserWrites
  <2> QED  BY <1>1, <1>3, <1>4, <2>1 DEF UserWrites
<1>5. CASE UserDeletes(p)
  BY <1>1, <1>3, <1>5, RenamedTyped DEF UserDeletes
<1>6. CASE UserEdits(p)
  BY <1>1, <1>3, <1>6 DEF UserEdits
<1> QED  BY <1>2, <1>4, <1>5, <1>6

LEMMA RequestsJournal ==
    ASSUME Base, NEW c \in Callers, Requested(c)
    PROVE  /\ \A k \in JournalKinds : RowFits(k, journal'[k])
           /\ PastFile => PastFile'
           /\ journal'["removal"].status # "none" => journal["removal"].status # "none"
<1> DEFINE u == undo[c]
<1>1. /\ TypeOK /\ journal \in [{"file", "removal", "nfo"} -> Rows] /\ JournalKinds = {"file", "removal", "nfo"}
      /\ \A k \in JournalKinds : RowFits(k, journal[k])
      /\ u.file \in Rows /\ u.nfo \in Rows
  BY UndoTyped DEF Base, TypeOK, JournalKinds
<1>2. CASE UNCHANGED journal
  BY <1>1, <1>2 DEF PastFile
<1>3. CASE NfoManual(c)
  <2> DEFINE row == Moved(u.nfo, "manual-review")
  <2>1. UNCHANGED journal \/ journal' = [journal EXCEPT !["nfo"] = row]
    BY <1>3 DEF NfoManual
  <2>2. row.status = "manual-review" /\ row.outcome = u.nfo.outcome
    BY <1>1, MovedIs DEF JournalStatuses
  <2> HIDE DEF row, u
  <2> QED  BY <1>1, <1>2, <2>1, <2>2 DEF RowFits, PastFile
<1>4. CASE journal' = Rolledback(c)
  <2> DEFINE status == IF u.manual THEN "manual-review" ELSE "compensated"
             file == Moved(u.file, status)
             removal == IF ~u.manual /\ journal["removal"].status = "verified"
                        THEN Moved(journal["removal"], "compensated") ELSE journal["removal"]
             nfo == IF u.additional THEN Moved(u.nfo, "compensated") ELSE journal["nfo"]
  <2>1. journal' = [file |-> file, removal |-> removal, nfo |-> nfo]
    BY <1>4 DEF Rolledback
  <2>2. file.status \in {"manual-review", "compensated"}
    BY <1>1, MovedIs DEF JournalStatuses
  <2>3. removal = journal["removal"] \/ (journal["removal"].status = "verified" /\ removal.status = "compensated")
    BY <1>1, MovedIs DEF JournalStatuses
  <2>4. nfo = journal["nfo"] \/ nfo.status = "compensated"
    BY <1>1, MovedIs DEF JournalStatuses
  <2> HIDE DEF file, removal, nfo
  <2> QED  BY <1>1, <2>1, <2>2, <2>3, <2>4 DEF RowFits, PastFile
<1>5. Check(c) \/ Load(c) \/ NfoTaken(c) \/ FileTaken(c) => UNCHANGED journal
  BY DEF Check, Load, NfoTaken, FileTaken, db
<1>6. Finish(c) => journal' = Rolledback(c) \/ UNCHANGED journal
  BY DEF Finish, db
<1> QED  BY <1>2, <1>3, <1>4, <1>5, <1>6 DEF Requested

LEMMA BaseRunStep ==
    ASSUME Base, NEW r \in Runners, RunStep(r) \/ RunFails(r) \/ StartStage(r)
    PROVE  Base'
<1>1. /\ TypeOK /\ DoneRests /\ Past /\ StepFits(run[r]) /\ (\A k \in JournalKinds : RowFits(k, journal[k]))
      /\ (\A s \in Runners : StepFits(run[s])) /\ r \in Actors
  BY DEF Base, Actors
<1>2. [Next]_vars
  BY DEF Next
<1>3. plan' = plan /\ limits' = limits /\ spent' \in [Incidents -> Nat]
  BY <1>1, <1>2, WorldSteps
<1>4. CASE Reads(r)
  <2>1. ReadStep(r) /\ UNCHANGED <<files, db, lease, undo, world>>
    BY <1>4 DEF Reads, ReadStep
  <2>2. RunGoesOn(r) /\ Past'
    BY <2>1, ReadsTyped, PastKept DEF db, RunGoesOn
  <2>3. TypeOK'
    BY <1>1, <2>1, <2>2 DEF TypeOK, RunGoesOn, files, db, lease, world
  <2> QED  BY <1>1, <1>3, <2>1, <2>2, <2>3, FitsKept, RowsSame DEF Base, DoneRests, db, lease
<1>5. CASE Records(r)
  <2>1. RecordStep(r) /\ UNCHANGED <<files, lease, undo, world>>
    BY <1>5 DEF Records, RecordStep
  <2>2. RunGoesOn(r) /\ Journalled(r) /\ result' \in Results /\ UNCHANGED receipts
    BY <2>1, RecordsJournal, RecordsTyped
  <2>3. run'[r] \in Runs /\ run'[r].row \in Rows /\ run'[r].on \in JournalKinds
    BY <2>2 DEF RunGoesOn, Runs
  <2>4. journal \in [JournalKinds -> Rows] /\ journal' \in [JournalKinds -> Rows]
    BY <1>1, <2>2, <2>3 DEF Journalled, TypeOK
  <2>5. TypeOK'
    BY <1>1, <2>1, <2>2, <2>4 DEF TypeOK, RunGoesOn, files, lease, world
  <2>6. \A k \in JournalKinds : RowFits(k, journal'[k])
    BY <1>1, <2>2, <2>3, <2>4 DEF Journalled, RunGoesOn, StepFits
  <2>7. \A k \in JournalKinds : RowFits(k, journal[k])'
    BY <1>3, <2>6 DEF RowFits, Operation
  <2>8. run[r].at = "prepare-removal" => run[r].on = "file" /\ run[r].row.status = "verified"
    BY <1>1 DEF StepFits, StatusFits, KindFits, Removes
  <2>9. Past'
    BY <1>1, <2>1, <2>2, <2>8, RecordsPast DEF Past, RunGoesOn
  <2> QED  BY <1>1, <1>3, <2>1, <2>2, <2>5, <2>7, <2>9, FitsKept DEF Base, DoneRests, lease
<1>6. ASSUME CallStep(r) \/ FailStep(r), UNCHANGED <<db, lease, undo>> PROVE Base'
  <2>1. /\ RunGoesOn(r)
        /\ \/ run'[r].on = run[r].on /\ run'[r].row = run[r].row
           \/ run'[r].on = "file" /\ run'[r].row = NoRow
    BY <1>6, CallsKeepRows
  <2>2. Past'
    BY <1>6, <2>1, PastKept, NoRunIs DEF db, RunGoesOn
  <2>3. TypeOK'
    BY <1>1, <1>3, <1>6, <2>1, CallsTyped DEF TypeOK, RunGoesOn, db, lease
  <2> QED  BY <1>1, <1>3, <1>6, <2>1, <2>2, <2>3, FitsKept, RowsSame DEF Base, DoneRests, db, lease
<1>7. CASE Calls(r)
  BY <1>6, <1>7 DEF Calls, CallStep
<1>8. CASE RunFails(r)
  BY <1>6, <1>8 DEF RunFails, FailStep
<1>9. CASE Works(r)
  <2>1. UNCHANGED <<db, lease, run, undo, world>> /\ Compensate(r)
    BY <1>9 DEF Works
  <2>2. TypeOK'
    BY <1>1, <2>1, CompensateTyped DEF TypeOK, db, lease, world
  <2>3. \A s \in Runners : run'[s] = run[s]
    BY <2>1
  <2> QED  BY <1>1, <1>3, <2>1, <2>2, <2>3, FitsSame, PastKept, RowsSame DEF Base, DoneRests, db, lease
<1>10. CASE Commit(r)
  <2>1. RunGoesOn(r) /\ UNCHANGED <<files, db, undo, world>> /\ run'[r].on = "file" /\ run'[r].row = NoRow
    BY <1>1, <1>10, RemovalCallsFit, CommitDoes DEF Turned
  <2>2. /\ task' \in [stage : TaskStages, ready : BOOLEAN] /\ holder' \in Runners \cup {NoOne}
        /\ DoneRests'
    <3>1. run[r].then \in Outcomes /\ task \in [stage : TaskStages, ready : BOOLEAN] /\ holder \in Runners \cup {NoOne}
      BY <1>1, RunIs DEF TypeOK
    <3>2. CASE holder = r
      <4>1. task' = CommittedTask(run[r].then) /\ holder' = NoOne
        BY <1>10, <3>2 DEF Commit
      <4>2. run[r].then \in {"again", "review", "nfo-pending", "organized", "completed"}
        BY <3>1 DEF Outcomes
      <4>3. CommittedTask(run[r].then) \in [stage : TaskStages, ready : BOOLEAN]
        BY <3>1, <4>2 DEF CommittedTask, Waiting, TaskStages
      <4>4. CommittedTask(run[r].then).stage = "done" => ~CommittedTask(run[r].then).ready
        BY <1>1, <3>1, <4>2 DEF CommittedTask, Waiting, DoneRests
      <4> QED  BY <4>1, <4>3, <4>4 DEF DoneRests
    <3>3. CASE holder # r
      BY <1>1, <1>10, <3>1, <3>3 DEF Commit, lease, DoneRests
    <3> QED  BY <3>2, <3>3
  <2>3. TypeOK'
    BY <1>1, <2>1, <2>2 DEF TypeOK, RunGoesOn, files, db, world
  <2>4. Past'
    BY <2>1, PastKept, NoRunIs DEF db, RunGoesOn
  <2> QED  BY <1>1, <1>3, <2>1, <2>2, <2>3, <2>4, FitsKept, RowsSame DEF Base, db
<1>11. CASE StartStage(r)
  <2>1. /\ RunGoesOn(r) /\ UNCHANGED <<files, db, task, undo, world>> /\ holder' = r
        /\ run'[r].on = "file" /\ run'[r].row = NoRow
    BY <1>1, <1>11, RemovalCallsFit, StartDoes DEF StartStage, Turned
  <2>2. TypeOK'
    BY <1>1, <2>1 DEF TypeOK, RunGoesOn, files, db, world
  <2>3. Past'
    BY <2>1, PastKept, NoRunIs DEF db, RunGoesOn
  <2> QED  BY <1>1, <1>3, <2>1, <2>2, <2>3, FitsKept, RowsSame DEF Base, DoneRests, db
<1> QED  BY <1>4, <1>5, <1>7, <1>8, <1>9, <1>10, <1>11 DEF RunStep

LEMMA BaseOtherSteps ==
    ASSUME Base, NEW c \in Callers, Ask(c) \/ RequestStep(c)
    PROVE  Base'
<1>1. /\ TypeOK /\ DoneRests /\ Past /\ (\A k \in JournalKinds : RowFits(k, journal[k]))
      /\ (\A s \in Runners : StepFits(run[s])) /\ c \in Actors
  BY DEF Base, Actors
<1>2. [Next]_vars
  BY DEF Next
<1>3. plan' = plan /\ limits' = limits /\ spent' \in [Incidents -> Nat]
  BY <1>1, <1>2, WorldSteps
<1>4. CASE Ask(c)
  <2>1. UNCHANGED <<files, db, lease, run>>
    BY <1>4 DEF Ask
  <2>2. PICK k \in Keys : undo' = [undo EXCEPT ![c] =
             [NoRequest EXCEPT !.at = "check", !.key = k, !.wanted = result.version]]
    BY <1>4 DEF Ask
  <2>3. [NoRequest EXCEPT !.at = "check", !.key = k, !.wanted = result.version] \in Requests
    BY <1>1, UndoTyped DEF Requests, TypeOK, Results
  <2>4. undo' \in [Callers -> Requests]
    BY <1>1, <2>2, <2>3 DEF TypeOK
  <2>5. TypeOK'
    BY <1>1, <1>3, <2>1, <2>4 DEF TypeOK, files, db, lease
  <2> QED  BY <1>1, <1>3, <2>1, <2>5, FitsSame, PastKept, RowsSame DEF Base, DoneRests, db, lease
<1>5. CASE Requested(c)
  <2>1. UNCHANGED <<lease, run, world>>
    BY <1>5 DEF Requested
  <2>2. TypeOK'
    BY <1>1, <1>5, <2>1, RequestsTyped DEF TypeOK, lease, world
  <2>3. /\ \A k \in JournalKinds : RowFits(k, journal'[k])
        /\ PastFile => PastFile'
        /\ journal'["removal"].status # "none" => journal["removal"].status # "none"
    BY <1>5, RequestsJournal
  <2>4. \A k \in JournalKinds : RowFits(k, journal[k])'
    BY <1>3, <2>3 DEF RowFits, Operation
  <2>5. Past'
    BY <1>1, <2>1, <2>3 DEF Past
  <2> QED  BY <1>1, <1>3, <2>1, <2>2, <2>4, <2>5, FitsSame DEF Base, DoneRests, lease
<1>6. CASE Works(c)
  <2>1. UNCHANGED <<db, lease, run, undo, world>> /\ Compensate(c)
    BY <1>6 DEF Works
  <2>2. TypeOK'
    BY <1>1, <2>1, CompensateTyped DEF TypeOK, db, lease, world
  <2>3. \A s \in Runners : run'[s] = run[s]
    BY <2>1
  <2> QED  BY <1>1, <1>3, <2>1, <2>2, <2>3, FitsSame, PastKept, RowsSame DEF Base, DoneRests, db, lease
<1> QED  BY <1>4, <1>5, <1>6 DEF RequestStep

LEMMA BaseNext ==
    ASSUME Base, [Next]_vars
    PROVE  Base'
<1>1. /\ TypeOK /\ DoneRests /\ Past /\ (\A k \in JournalKinds : RowFits(k, journal[k]))
      /\ (\A s \in Runners : StepFits(run[s]))
  BY DEF Base
<1>3. plan' = plan /\ limits' = limits /\ spent' \in [Incidents -> Nat]
  BY <1>1, WorldSteps
<1>4. CASE UNCHANGED vars
  <2>1. TypeOK'
    BY <1>1, <1>4 DEF TypeOK, vars, files, db, lease, world
  <2> QED  BY <1>1, <1>3, <1>4, <2>1, FitsSame, PastKept, RowsSame DEF Base, DoneRests, vars, db, lease
<1>5. ASSUME NEW a \in Actors, WorkFails(a) PROVE Base'
  <2>1. UNCHANGED <<db, lease, run, undo>> /\ (CompRemove(a, "failed") \/ CompRestore(a, "failed"))
    BY <1>5 DEF WorkFails
  <2>2. TypeOK'
    BY <1>1, <1>3, <2>1, CompensateTyped DEF TypeOK, db, lease
  <2>3. \A s \in Runners : run'[s] = run[s]
    BY <2>1
  <2> QED  BY <1>1, <1>3, <2>1, <2>2, <2>3, FitsSame, PastKept, RowsSame DEF Base, DoneRests, db, lease
<1>6. CASE Crash
  <2>1. /\ run' = [r \in Runners |-> NoRun] /\ undo' = [c \in Callers |-> NoRequest]
        /\ comp' = [a \in Actors |-> NoComp] /\ holder' = NoOne /\ UNCHANGED <<disk, content, db, task>>
    BY <1>6 DEF Crash
  <2>2. NoRequest \in Requests
    BY NoRunIs DEF NoRequest, Requests
  <2>3. TypeOK'
    BY <1>1, <1>3, <2>1, <2>2, NoRunIs, NoCompIs DEF TypeOK, db
  <2> QED  BY <1>1, <1>3, <2>1, <2>3, FitsSame, PastKept, RowsSame DEF Base, DoneRests, db
<1>7. CASE LoseLease
  <2>1. UNCHANGED <<files, db, task, run, undo>> /\ holder' = NoOne
    BY <1>7 DEF LoseLease
  <2>2. TypeOK'
    BY <1>1, <1>3, <2>1 DEF TypeOK, db, files
  <2> QED  BY <1>1, <1>3, <2>1, <2>2, FitsSame, PastKept, RowsSame DEF Base, DoneRests, db
<1>8. CASE RetryRequest
  <2>1. /\ UNCHANGED <<files, db, holder, run, undo>> /\ task' = [task EXCEPT !.ready = TRUE]
        /\ task.stage # "done"
    BY <1>8 DEF RetryRequest
  <2>2. task' \in [stage : TaskStages, ready : BOOLEAN] /\ DoneRests'
    BY <1>1, <2>1 DEF TypeOK, DoneRests
  <2>3. TypeOK'
    BY <1>1, <1>3, <2>1, <2>2 DEF TypeOK, db, files
  <2> QED  BY <1>1, <1>3, <2>1, <2>2, <2>3, FitsSame, PastKept, RowsSame DEF Base, db
<1>9. CASE Users
  <2>1. UserActs /\ UNCHANGED <<db, lease, run, undo>>
    BY <1>9 DEF Users
  <2>2. TypeOK'
    BY <1>1, <1>3, <2>1, UsersTyped DEF TypeOK, db, lease
  <2> QED  BY <1>1, <1>3, <2>1, <2>2, FitsSame, PastKept, RowsSame DEF Base, DoneRests, db, lease
<1> QED  BY <1>4, <1>5, <1>6, <1>7, <1>8, <1>9, BaseRunStep, BaseOtherSteps DEF Next

-----------------------------------------------------------------------------
(***************************************************************************)
(* Temporary files: who has one, has it alone.                             *)
(***************************************************************************)

\* Only a system call leads to these steps.
AfterCalls == {"publish", "manifest-publish", "nfo-publish", "confirm", "undoing", "removal-check"}

LEMMA ReadsAndRecords ==
    ASSUME Base, NEW r \in Runners, ReadStep(r) \/ RecordStep(r)
    PROVE  run'[r].at \notin AfterCalls
<1>1. /\ TypeOK /\ run[r].on \in {"file", "removal", "nfo"}
      /\ \A k \in JournalKinds : journal[k].status \in JournalStatuses
      /\ "file" \in JournalKinds /\ "removal" \in JournalKinds /\ "nfo" \in JournalKinds
  BY RunIs, WorldIs DEF Base, JournalKinds, Rows
<1>2. ASSUME NEW k \in JournalKinds, journal[k].status # "none"
      PROVE  Entry(k, journal[k].status) \notin AfterCalls
  BY <1>1, <1>2, EntryCases DEF AfterCalls
<1>3. CASE Inspect(r) \/ Observe(r) \/ Execute(r) \/ Recover(r) \/ Completed(r)
  BY <1>1, <1>3, InspectDoes, ObserveDoes, ExecuteDoes, RecoverDoes, CompletedDoes
     DEF Turned, Same, Ends, AfterCalls, ExecuteStep
<1>4. CASE RemovalRecover(r) \/ RemovalLook(r) \/ FinishRemoval(r) \/ Complete(r)
  BY <1>1, <1>4, RemovalRecoverDoes, RemovalLookDoes, FinishRemovalDoes, CompleteDoes
     DEF Turned, Same, Ends, AfterCalls, AfterRemoval
<1>5. CASE NfoLook(r)
  BY <1>1, <1>2, <1>5, NfoLookDoes DEF Turned, Ends, AfterCalls
<1>6. CASE NfoInspect(r) \/ NfoExecute(r) \/ NfoExists(r) \/ NfoRecover(r)
  BY <1>1, <1>6, NfoInspectDoes, NfoExecuteDoes, NfoExistsDoes, NfoRecoverDoes
     DEF Turned, Same, Ends, AfterCalls
<1>7. CASE Begin(r)
  BY <1>1, <1>7, BeginDoes DEF Turned, Ends, AfterCalls, ExecuteStep
<1>8. CASE Mark(r) \/ Review(r) \/ ReviewResult(r) \/ Conclude(r)
  BY <1>1, <1>8, MarkDoes, ReviewDoes, ReviewResultDoes, ConcludeDoes DEF Turned, Ends, AfterCalls
<1>9. CASE Verify(r)
  BY <1>1, <1>9, VerifyDoes DEF Turned, Ends, AfterCalls
<1>10. CASE PrepareFile(r)
  BY <1>1, <1>2, <1>10, PrepareFileDoes DEF Turned, AfterCalls
<1>11. CASE PrepareRemoval(r)
  BY <1>1, <1>2, <1>11, PrepareRemovalDoes DEF Turned, AfterCalls
<1>12. CASE NfoPrepare(r)
  BY <1>1, <1>2, <1>12, NfoPrepareDoes DEF Turned, Ends, AfterCalls
<1>13. CASE EnsurePartial(r) \/ NfoPending(r) \/ NfoFailed(r) \/ NfoFinish(r) \/ Catalog(r)
  BY <1>1, <1>13, EnsurePartialDoes, NfoPendingDoes, NfoFailedDoes, NfoFinishDoes, CatalogDoes
     DEF Turned, Same, Ends, AfterCalls
<1> QED  BY <1>3, <1>4, <1>5, <1>6, <1>7, <1>8, <1>9, <1>10, <1>11, <1>12, <1>13 DEF ReadStep, RecordStep

Copies == {"copy"} \X Slots
Nfos == {"nfo"} \X Slots

\* Two processes publish under different names only.
SameTemp(a, b) ==
    \/ a \in {"publish", "manifest-publish"} /\ b \in {"publish", "manifest-publish"}
    \/ a = "nfo-publish" /\ b = "nfo-publish"

TempHeld(at) ==
    /\ at = "publish" => disk["temp"] \in Copies
    /\ at = "manifest-publish" => disk["temp"] = Manifest
    /\ at = "nfo-publish" => disk["nfo-temp"] \in Nfos

Temporaries ==
    \A r \in Runners :
        /\ TempHeld(run[r].at)
        /\ \A s \in Runners : s # r => ~SameTemp(run[r].at, run[s].at)

LEMMA TempsDiffer ==
    Absent \notin Copies /\ Absent \notin Nfos /\ Manifest \notin Copies /\ Absent # Manifest
BY DEF Copies, Nfos, Absent, Manifest

\* Steps that leave the temporary files alone and publish nothing.
LEMMA TempsKept ==
    ASSUME Temporaries, disk'["temp"] = disk["temp"], disk'["nfo-temp"] = disk["nfo-temp"],
           \A r \in Runners :
              run'[r] = run[r] \/ run'[r].at \notin {"publish", "manifest-publish", "nfo-publish"}
    PROVE  Temporaries'
BY DEF Temporaries, TempHeld, SameTemp

\* A compensation has nothing to do with temporary files.
LEMMA CompensateTemps ==
    ASSUME TypeOK, NEW a \in Actors,
           Compensate(a) \/ CompRemove(a, "failed") \/ CompRestore(a, "failed")
    PROVE  disk'["temp"] = disk["temp"] /\ disk'["nfo-temp"] = disk["nfo-temp"]
<1> DEFINE path == comp[a].path
<1>1. FilesTyped /\ path \in {"target", "nfo"} /\ Hidden(path) \in {"rollback", "nfo-rollback"}
  BY HiddenIs DEF TypeOK, FilesTyped
<1>2. \/ disk' = disk
      \/ disk' = Renamed(path, Hidden(path))
      \/ disk' = Renamed(Hidden(path), path)
      \/ disk' = Unlinked(Hidden(path))
      \/ \E outcome \in {"restored", "failed"} :
            disk' = [Renamed(Hidden(path), "source") EXCEPT
                       !["manifest"] = IF outcome = "restored" THEN Absent ELSE @]
  BY DEF Compensate, CompLook, CompRename, CompVerify, CompRemove, CompRestore, GivenBack
<1> HIDE DEF path
<1>3. /\ Renamed(path, Hidden(path))["temp"] = disk["temp"] /\ Renamed(path, Hidden(path))["nfo-temp"] = disk["nfo-temp"]
      /\ Renamed(Hidden(path), path)["temp"] = disk["temp"] /\ Renamed(Hidden(path), path)["nfo-temp"] = disk["nfo-temp"]
      /\ Unlinked(Hidden(path))["temp"] = disk["temp"] /\ Unlinked(Hidden(path))["nfo-temp"] = disk["nfo-temp"]
      /\ Renamed(Hidden(path), "source")["temp"] = disk["temp"]
      /\ Renamed(Hidden(path), "source")["nfo-temp"] = disk["nfo-temp"]
      /\ Renamed(Hidden(path), "source") \in [Paths -> Inodes \cup {Absent}]
  <2>1. path \in Paths /\ Hidden(path) \in Paths
    BY <1>1, PathsAre
  <2>2. Renamed(Hidden(path), "source") \in [Paths -> Inodes \cup {Absent}]
    BY <1>1, <2>1, PathsAre, RenamedTyped
  <2> QED  BY <1>1, <2>1, <2>2, PathsAre DEF Renamed, Unlinked, FilesTyped
<1> QED  BY <1>2, <1>3, PathsAre

LEMMA TempsRunStep ==
    ASSUME Base, Temporaries, NEW r \in Runners, RunStep(r) \/ RunFails(r) \/ StartStage(r)
    PROVE  Temporaries'
<1>1. TypeOK /\ FilesTyped /\ disk \in [Paths -> Inodes \cup {Absent}]
  BY DEF Base, TypeOK, FilesTyped
<1> DEFINE Others == \A s \in Runners : s # r => run'[s] = run[s]
           Quits == Others /\ run'[r].at \notin {"publish", "manifest-publish", "nfo-publish"}
           KeptTemps == disk'["temp"] = disk["temp"] /\ disk'["nfo-temp"] = disk["nfo-temp"]
<1>2. ASSUME Quits, KeptTemps PROVE Temporaries'
  BY <1>2, TempsKept
<1>3. CASE Reads(r)
  <2>1. ReadStep(r) /\ UNCHANGED files
    BY <1>3 DEF Reads, ReadStep
  <2>2. Quits
    BY <2>1, ReadsAndRecords, ReadsTyped DEF RunGoesOn, AfterCalls
  <2> QED  BY <1>2, <2>1, <2>2 DEF files
<1>4. CASE Records(r)
  <2>1. RecordStep(r) /\ UNCHANGED files
    BY <1>4 DEF Records, RecordStep
  <2>2. Quits
    BY <2>1, ReadsAndRecords, RecordsJournal DEF RunGoesOn, AfterCalls
  <2> QED  BY <1>2, <2>1, <2>2 DEF files
<1>5. CASE Copy(r)
  <2>1. CASE UNCHANGED <<disk, content>> /\ Same(r, "review")
    BY <1>2, <2>1 DEF Same, Turned
  <2>2. CASE CanCreate("copy") /\ disk["temp"] = Absent /\ Same(r, "publish")
             /\ disk' = [disk EXCEPT !["temp"] = Fresh("copy")]
    <3>1. disk'["temp"] \in Copies /\ disk'["nfo-temp"] = disk["nfo-temp"]
      BY <1>1, <2>2, FreshIs, PathsAre DEF Copies
    <3>2. \A s \in Runners : run[s].at \notin {"publish", "manifest-publish"}
      BY <2>2, TempsDiffer DEF Temporaries, TempHeld
    <3> QED  BY <2>2, <3>1, <3>2 DEF Temporaries, TempHeld, SameTemp, Same, Turned
  <2> QED  BY <1>1, <1>5, <2>1, <2>2, CopyDoes
<1>6. CASE CreateManifest(r)
  <2>1. CASE UNCHANGED disk /\ (Same(r, "review") \/ Ends(r, "again"))
    BY <1>2, <2>1 DEF Same, Turned, Ends
  <2>2. CASE disk["temp"] = Absent /\ disk' = [disk EXCEPT !["temp"] = Manifest] /\ Same(r, "manifest-publish")
    <3>1. disk'["temp"] = Manifest /\ disk'["nfo-temp"] = disk["nfo-temp"]
      BY <1>1, <2>2, PathsAre
    <3>2. \A s \in Runners : run[s].at \notin {"publish", "manifest-publish"}
      BY <2>2, TempsDiffer DEF Temporaries, TempHeld
    <3> QED  BY <2>2, <3>1, <3>2, TempsDiffer DEF Temporaries, TempHeld, SameTemp, Same, Turned
  <2> QED  BY <1>1, <1>6, <2>1, <2>2, CreateManifestDoes
<1>7. CASE NfoCreate(r)
  <2>1. CASE UNCHANGED <<disk, content>> /\ Same(r, "review")
    BY <1>2, <2>1 DEF Same, Turned
  <2>2. CASE CanCreate("nfo") /\ disk["nfo-temp"] = Absent /\ Same(r, "nfo-publish")
             /\ disk' = [disk EXCEPT !["nfo-temp"] = Fresh("nfo")]
    <3>1. disk'["nfo-temp"] \in Nfos /\ disk'["temp"] = disk["temp"]
      BY <1>1, <2>2, FreshIs, PathsAre DEF Nfos
    <3>2. \A s \in Runners : run[s].at # "nfo-publish"
      BY <2>2, TempsDiffer DEF Temporaries, TempHeld
    <3> QED  BY <2>2, <3>1, <3>2 DEF Temporaries, TempHeld, SameTemp, Same, Turned
  <2> QED  BY <1>1, <1>7, <2>1, <2>2, NfoCreateDoes
<1>8. ASSUME run[r].at \in {"publish", "manifest-publish"}, Quits, disk'["nfo-temp"] = disk["nfo-temp"]
      PROVE  Temporaries'
  <2>1. \A s \in Runners : s # r => run[s].at \notin {"publish", "manifest-publish"}
    BY <1>8 DEF Temporaries, SameTemp
  <2> QED  BY <1>8, <2>1 DEF Temporaries, TempHeld, SameTemp
<1>9. ASSUME run[r].at = "nfo-publish", Quits, disk'["temp"] = disk["temp"]
      PROVE  Temporaries'
  <2>1. \A s \in Runners : s # r => run[s].at # "nfo-publish"
    BY <1>9 DEF Temporaries, SameTemp
  <2> QED  BY <1>9, <2>1 DEF Temporaries, TempHeld, SameTemp
<1>10. CASE Publish(r) \/ CopyFails(r)
  <2>1. disk' = Cleaned \/ disk' = Renamed("temp", "target")
    BY <1>1, <1>10, PublishDoes, CopyFailsDoes
  <2>2. disk'["nfo-temp"] = disk["nfo-temp"]
    BY <1>1, <2>1, PathsAre DEF Cleaned, Renamed, Unlinked
  <2>3. run[r].at = "publish" /\ Quits
    BY <1>1, <1>10, PublishDoes, CopyFailsDoes DEF At, Same, Turned, Ends
  <2> QED  BY <1>8, <2>2, <2>3
<1>11. CASE PublishManifest(r) \/ ManifestFails(r)
  <2>1. disk' = Cleaned \/ disk' = Renamed("temp", "manifest")
    BY <1>1, <1>11, PublishManifestDoes, ManifestFailsDoes
  <2>2. disk'["nfo-temp"] = disk["nfo-temp"]
    BY <1>1, <2>1, PathsAre DEF Cleaned, Renamed, Unlinked
  <2>3. run[r].at = "manifest-publish" /\ Quits
    BY <1>1, <1>11, PublishManifestDoes, ManifestFailsDoes DEF At, Same, Turned, Ends
  <2> QED  BY <1>8, <2>2, <2>3
<1>12. CASE NfoPublish(r) \/ NfoWriteFails(r)
  <2>1. disk' = Unlinked("nfo-temp") \/ disk' = Renamed("nfo-temp", "nfo")
    BY <1>1, <1>12, NfoPublishDoes, NfoWriteFailsDoes
  <2>2. disk'["temp"] = disk["temp"]
    BY <1>1, <2>1, PathsAre DEF Renamed, Unlinked
  <2>3. run[r].at = "nfo-publish" /\ Quits
    BY <1>1, <1>12, NfoPublishDoes, NfoWriteFailsDoes DEF At, Same, Turned, Ends
  <2> QED  BY <1>9, <2>2, <2>3
<1>13. CASE Rename(r) \/ RenameUnsynced(r)
  <2>1. disk' = disk \/ disk' = Renamed("source", "target") \/ disk' = [disk EXCEPT !["target"] = disk["source"]]
    BY <1>1, <1>13, RenameDoes, RenameUnsyncedDoes DEF NamedTarget
  <2>2. KeptTemps
    BY <1>1, <2>1, PathsAre DEF Renamed, Unlinked
  <2>3. Quits
    BY <1>1, <1>13, RenameDoes, RenameUnsyncedDoes DEF Same, Turned, Ends
  <2> QED  BY <1>2, <2>2, <2>3
<1>14. CASE Confirm(r) \/ Undone(r) \/ CatalogFails(r)
  <2>1. Quits
    BY <1>1, <1>14, ConfirmDoes, UndoneDoes, CatalogFailsDoes DEF Same, Turned, Ends
  <2> QED  BY <1>1, <1>2, <1>14, <2>1, ConfirmDoes, UndoneDoes, CatalogFailsDoes DEF files
<1>15. CASE RemovalRename(r) \/ RemovalCheck(r) \/ RemovalUnlink(r) \/ RemovalUnsynced(r)
  <2>1. disk' = disk \/ disk' = Renamed("source", "removal") \/ disk' = Renamed("removal", "source")
        \/ disk' = Unlinked("removal")
    BY <1>1, <1>15, RemovalRenameDoes, RemovalCheckDoes, RemovalUnlinkDoes, RemovalUnsyncedDoes
  <2>2. KeptTemps
    BY <1>1, <2>1, PathsAre DEF Renamed, Unlinked
  <2>3. Quits
    BY <1>1, <1>15, RemovalRenameDoes, RemovalCheckDoes, RemovalUnlinkDoes, RemovalUnsyncedDoes
       DEF Same, Turned, Ends, AfterRemoval
  <2> QED  BY <1>2, <2>2, <2>3
<1>16. CASE Works(r)
  <2>1. KeptTemps
    <3>1. r \in Actors
      BY DEF Actors
    <3> QED  BY <1>1, <1>16, <3>1, CompensateTemps DEF Works
  <2> QED  BY <1>16, <2>1, TempsKept DEF Works
<1>17. CASE Commit(r) \/ StartStage(r)
  <2>1. Quits
    BY <1>1, <1>17, CommitDoes, StartDoes DEF Turned, Base
  <2> QED  BY <1>2, <1>17, <2>1 DEF Commit, StartStage, files
<1> QED  BY <1>3, <1>4, <1>5, <1>6, <1>7, <1>10, <1>11, <1>12, <1>13, <1>14, <1>15, <1>16, <1>17
         DEF RunStep, RunFails, Calls, CallStep

LEMMA UsersDo ==
    ASSUME TypeOK, UserActs
    PROVE  /\ \A p \in Paths \ Visible : disk'[p] = disk[p]
           /\ disk' \in [Paths -> Inodes \cup {Absent}]
<1>1. disk \in [Paths -> Inodes \cup {Absent}] /\ Visible \subseteq Paths
  BY DEF TypeOK, Paths
<1>2. PICK p \in Visible : UserWrites(p) \/ UserDeletes(p) \/ UserEdits(p)
  BY DEF UserActs
<1> QED  BY <1>1, <1>2, UsersTyped DEF UserWrites, UserDeletes, UserEdits, Unlinked

LEMMA TempsNext ==
    ASSUME Base, Temporaries, [Next]_vars
    PROVE  Temporaries'
<1>1. TypeOK
  BY DEF Base
<1>2. CASE UNCHANGED vars
  BY <1>2 DEF vars, files, Temporaries, TempHeld
<1>3. ASSUME NEW c \in Callers, Ask(c) \/ RequestStep(c) PROVE Temporaries'
  <2>1. c \in Actors /\ UNCHANGED run
    BY <1>3 DEF Actors, Ask, RequestStep, Requested, Works
  <2>2. disk'["temp"] = disk["temp"] /\ disk'["nfo-temp"] = disk["nfo-temp"]
    BY <1>1, <1>3, <2>1, RequestsTyped, CompensateTemps DEF Ask, RequestStep, Works, files
  <2> QED  BY <2>1, <2>2, TempsKept
<1>4. ASSUME NEW a \in Actors, WorkFails(a) PROVE Temporaries'
  BY <1>1, <1>4, CompensateTemps, TempsKept DEF WorkFails
<1>5. CASE Crash
  BY <1>5, TempsKept, NoRunIs DEF Crash
<1>6. CASE LoseLease \/ RetryRequest
  BY <1>6, TempsKept DEF LoseLease, RetryRequest, files
<1>7. CASE Users
  <2>1. disk'["temp"] = disk["temp"] /\ disk'["nfo-temp"] = disk["nfo-temp"]
    BY <1>1, <1>7, UsersDo, PathsAre DEF Users, Visible
  <2> QED  BY <1>7, <2>1, TempsKept DEF Users
<1> QED  BY <1>2, <1>3, <1>4, <1>5, <1>6, <1>7, TempsRunStep DEF Next

LEMMA TempsInit == Init => Temporaries
BY NoRunIs DEF Init, Temporaries, TempHeld, SameTemp

-----------------------------------------------------------------------------
(***************************************************************************)
(* As long as no user and no rollback interferes, what a row or a run says *)
(* of the files is so, whatever crashed, failed or overlapped.             *)
(***************************************************************************)

Undisturbed == spent["user"] = 0 /\ spent["rollback"] = 0

MediaInodes == {Original} \cup Copies

\* Nothing is taken back, the media is at its source or at its target, and only what is moved
\* leaves its source.
QuietFiles ==
    /\ \A i \in MediaInodes : content[i] = "media"
    /\ disk["source"] \in {Original, Absent}
    /\ disk["removal"] \in {Original, Absent}
    /\ disk["target"] \in MediaInodes \cup {Absent}
    /\ disk["source"] = Original \/ disk["target"] # Absent
    /\ Operation \in {"copy", "hardlink"} => disk["source"] = Original
    /\ \A c \in Callers : undo[c].at = "idle"
    /\ \A a \in Actors : comp[a].at = "none"

RowHolds(kind, row) ==
    /\ kind = "file" /\ row.status \in {"applied", "verified"} =>
          disk["target"] # Absent /\ row.applied = Facts("target")
    /\ kind = "removal" /\ row.status # "none" => disk["target"] # Absent
    /\ kind = "removal" /\ row.status = "verified" => disk["source"] = Absent
    /\ kind = "nfo" /\ (row.preexisting \/ row.status \in {"applied", "verified"}) => row.applied # NoFacts
    /\ kind = "nfo" /\ row.status = "verified" => row.applied = Facts("nfo")

\* The file a run has published is the target.
Published(s) == s.on = "file" /\ s.row.status = "executing"
                /\ s.at \in {"mark", "manifest", "manifest-publish"} \cup RemovalCalls

RunHolds(s) ==
    /\ RowHolds(s.on, s.row)
    /\ Published(s) => disk["target"] # Absent /\ s.facts = Facts("target")
    /\ s.on = "removal" => disk["target"] # Absent
    /\ s.at # "undoing"
    /\ s.at = "confirm" => disk["target"] = Original
    /\ s.at = "mark" /\ s.on = "nfo" => s.facts # NoFacts
    /\ s.at = "verify" /\ s.on = "removal" => disk["source"] = Absent
    /\ s.at = "verify" /\ s.on = "nfo" => s.row.applied = Facts("nfo")

QuietWorld ==
    /\ QuietFiles
    /\ \A k \in JournalKinds : RowHolds(k, journal[k])
    /\ \A r \in Runners : RunHolds(run[r])

\* What the steps of a run may do to the files of a quiet world.
Settled ==
    /\ disk["target"] # Absent => disk'["target"] = disk["target"] /\ Facts("target")' = Facts("target")
    /\ disk["source"] = Absent => disk'["source"] = Absent
    /\ disk["nfo"] # Absent => Facts("nfo")' = Facts("nfo")

LEMMA HoldsKept ==
    ASSUME TypeOK, Settled
    PROVE  /\ \A k \in JournalKinds, row \in Rows : RowHolds(k, row) => RowHolds(k, row)'
           /\ \A s \in Runs : StatusFits(s) /\ RunHolds(s) => RunHolds(s)'
<1>1. /\ Facts("target") # NoFacts <=> disk["target"] # Absent
      /\ Facts("nfo") # NoFacts <=> disk["nfo"] # Absent
  BY FactsAre, PathsAre DEF TypeOK
<1>2. \A k \in JournalKinds, row \in Rows : RowHolds(k, row) => RowHolds(k, row)'
  BY <1>1 DEF RowHolds, Settled
<1>3. \A s \in Runs : StatusFits(s) /\ RunHolds(s) => RunHolds(s)'
  <2> SUFFICES ASSUME NEW s \in Runs, StatusFits(s), RunHolds(s) PROVE RunHolds(s)'
    OBVIOUS
  <2>1. s.on \in JournalKinds /\ s.row \in Rows /\ Original # Absent
    BY InodesAre DEF Runs
  <2>2. RowHolds(s.on, s.row)'
    BY <1>2, <2>1 DEF RunHolds
  <2>3. s.at = "verify" /\ s.on = "nfo" => s.row.applied = Facts("nfo")'
    <3>1. s.at = "verify" => s.row.status = "applied"
      BY DEF StatusFits
    <3> QED  BY <1>1, <3>1 DEF RunHolds, RowHolds, Settled
  <2>4. Published(s) => disk'["target"] # Absent /\ s.facts = Facts("target")'
    BY DEF RunHolds, Settled
  <2>5. Published(s)' <=> Published(s)
    BY DEF Published
  <2> QED  BY <2>1, <2>2, <2>3, <2>4, <2>5 DEF RunHolds, Settled
<1> QED  BY <1>2, <1>3

LEMMA QuietEntry ==
    ASSUME Base, QuietWorld, NEW r \in Runners, NEW kind \in JournalKinds, journal[kind].status # "none",
           Turned(r, Entry(kind, journal[kind].status), kind, journal[kind], run[r].facts, run[r].direct,
                  Taken(kind, journal[kind].status))
    PROVE  RunHolds(run'[r])
<1>1. RowHolds(kind, journal[kind])
  BY DEF QuietWorld
<1>2. Entry(kind, journal[kind].status) \in
         {"commit", "begin", "recover", "removal-recover", "nfo-recover", "inspect", "completed",
          "finish-removal", "nfo-finish"}
      /\ (Entry(kind, journal[kind].status) = "removal-recover" => kind = "removal")
  <2>1. journal[kind].status \in JournalStatuses
    BY WorldIs DEF Base, Rows
  <2> QED  BY <2>1, EntryCases
<1> DEFINE at == Entry(kind, journal[kind].status)
           row == journal[kind]
<1>3. run'[r].at = at /\ run'[r].on = kind /\ run'[r].row = row
  BY DEF Turned
<1> HIDE DEF at, row
<1>4. RowHolds(kind, row) /\ row.status # "none"
  BY <1>1 DEF row
<1>5. /\ at \notin {"undoing", "confirm", "mark", "verify", "manifest", "manifest-publish"}
      /\ at \in RemovalCalls => kind = "removal"
  BY <1>2 DEF at, RemovalCalls
<1> QED  BY <1>3, <1>4, <1>5 DEF RunHolds, RowHolds, Published

LEMMA QuietReads ==
    ASSUME Base, QuietWorld, NEW r \in Runners, ReadStep(r)
    PROVE  RunHolds(run'[r])
<1>1. TypeOK /\ StepFits(run[r]) /\ StatusFits(run[r]) /\ KindFits(run[r]) /\ RunHolds(run[r])
      /\ (\A k \in JournalKinds : RowHolds(k, journal[k]))
  BY DEF Base, StepFits, QuietWorld
<1>2. /\ run[r].on \in {"file", "removal", "nfo"} /\ JournalKinds = {"file", "removal", "nfo"}
      /\ run[r].row \in Rows /\ run[r] \in Runs
      /\ \A k \in JournalKinds : journal[k] \in Rows
  BY <1>1, RunIs, WorldIs DEF JournalKinds
<1>3. /\ NoRow.status = "none" /\ ~NoRow.preexisting /\ NoFacts.data # "nfo"
      /\ Facts("target") # NoFacts <=> disk["target"] # Absent
      /\ Facts("source") # NoFacts <=> disk["source"] # Absent
      /\ Facts("nfo") # NoFacts <=> disk["nfo"] # Absent
  BY <1>1, NoRunIs, FactsAre, PathsAre DEF TypeOK, NoFacts
<1>4. CASE Inspect(r)
  BY <1>1, <1>2, <1>3, <1>4, InspectDoes DEF Same, Ends, Turned, At, RunHolds, RowHolds, Published, RemovalCalls, Holds, StatusFits
<1>5. CASE Observe(r)
  BY <1>1, <1>2, <1>3, <1>5, ObserveDoes DEF Same, Ends, Turned, At, RunHolds, RowHolds, Published, RemovalCalls
<1>6. CASE Execute(r)
  BY <1>1, <1>2, <1>3, <1>6, ExecuteDoes DEF Same, Ends, Turned, At, RunHolds, RowHolds, Published, RemovalCalls
<1>7. CASE Recover(r)
  BY <1>1, <1>2, <1>3, <1>7, RecoverDoes DEF Same, Ends, Turned, At, RunHolds, RowHolds, Published, RemovalCalls, ExecuteStep
<1>8. CASE Completed(r)
  BY <1>1, <1>2, <1>3, <1>8, CompletedDoes DEF Same, Ends, Turned, At, RunHolds, RowHolds, Published, RemovalCalls
<1>9. CASE RemovalRecover(r)
  BY <1>1, <1>2, <1>3, <1>9, RemovalRecoverDoes DEF Same, Ends, Turned, At, RunHolds, RowHolds, Published, RemovalCalls, KindFits
<1>10. CASE RemovalLook(r)
  BY <1>1, <1>2, <1>3, <1>10, RemovalLookDoes DEF Same, Ends, Turned, At, RunHolds, RowHolds, Published, RemovalCalls, AfterRemoval, KindFits
<1>11. CASE FinishRemoval(r)
  <2>1. run[r].on = "removal"
    BY <1>1, <1>11, FinishRemovalDoes DEF At, KindFits
  <2>2. journal["file"].status # "executing"
    BY <2>1 DEF Base, Past, PastFile
  <2> QED  BY <1>1, <1>2, <1>3, <1>11, <2>2, FinishRemovalDoes DEF Same, Ends, Turned, At, RunHolds, RowHolds, Published, RemovalCalls
<1>12. CASE NfoInspect(r)
  BY <1>1, <1>2, <1>3, <1>12, NfoInspectDoes DEF Same, Ends, Turned, At, RunHolds, RowHolds, Published, RemovalCalls
<1>13. CASE NfoExecute(r)
  BY <1>1, <1>2, <1>3, <1>13, NfoExecuteDoes DEF Same, Ends, Turned, At, RunHolds, RowHolds, Published, RemovalCalls, KindFits, NfoCalls
<1>14. CASE NfoExists(r)
  BY <1>1, <1>2, <1>3, <1>14, NfoExistsDoes DEF Same, Ends, Turned, At, RunHolds, RowHolds, Published, RemovalCalls, KindFits, NfoCalls
<1>15. CASE NfoRecover(r)
  BY <1>1, <1>2, <1>3, <1>15, NfoRecoverDoes DEF Same, Ends, Turned, At, RunHolds, RowHolds, Published, RemovalCalls, KindFits, NfoCalls
<1>16. CASE Complete(r)
  BY <1>1, <1>2, <1>3, <1>16, CompleteDoes DEF Same, Ends, Turned, At, RunHolds, RowHolds, Published, RemovalCalls
<1>17. CASE NfoLook(r)
  <2>1. run[r].on = "file"
    BY <1>1, <1>17, NfoLookDoes DEF At, KindFits
  <2>2. CASE Ends(r, "again")
    BY <1>3, <2>2 DEF Same, Ends, Turned, At, RunHolds, RowHolds, Published, RemovalCalls
  <2>3. CASE Turned(r, "nfo-pending", run[r].on, journal["file"], run[r].facts, run[r].direct, run[r].then)
    BY <1>1, <1>2, <2>1, <2>3 DEF Same, Ends, Turned, At, RunHolds, RowHolds, Published, RemovalCalls
  <2> QED  BY <1>1, <1>2, <1>17, <2>2, <2>3, NfoLookDoes, QuietEntry
<1> QED  BY <1>4, <1>5, <1>6, <1>7, <1>8, <1>9, <1>10, <1>11, <1>12, <1>13, <1>14, <1>15, <1>16, <1>17 DEF ReadStep

LEMMA QuietRecords ==
    ASSUME Base, QuietWorld, NEW r \in Runners, RecordStep(r)
    PROVE  RunHolds(run'[r])
<1>1. TypeOK /\ StepFits(run[r]) /\ StatusFits(run[r]) /\ KindFits(run[r]) /\ RunHolds(run[r])
      /\ (\A k \in JournalKinds : RowHolds(k, journal[k]))
  BY DEF Base, StepFits, QuietWorld
<1>2. /\ run[r].on \in {"file", "removal", "nfo"} /\ JournalKinds = {"file", "removal", "nfo"}
      /\ run[r].row \in Rows /\ run[r] \in Runs
      /\ \A k \in JournalKinds : journal[k] \in Rows
  BY <1>1, RunIs, WorldIs DEF JournalKinds
<1>3. /\ NoRow.status = "none" /\ ~NoRow.preexisting /\ NoFacts.data # "nfo"
      /\ Facts("target") # NoFacts <=> disk["target"] # Absent
      /\ Facts("source") # NoFacts <=> disk["source"] # Absent
      /\ Facts("nfo") # NoFacts <=> disk["nfo"] # Absent
  BY <1>1, NoRunIs, FactsAre, PathsAre DEF TypeOK, NoFacts
<1>4. CASE Begin(r)
  <2> DEFINE new == Moved(run[r].row, "executing")
  <2>1. /\ new.status = "executing" /\ new.applied = run[r].row.applied
        /\ new.preexisting = run[r].row.preexisting
    BY <1>2, MovedIs DEF JournalStatuses
  <2>2. CASE Ends(r, "again")
    BY <1>3, <2>2 DEF Same, Ends, Turned, At, RunHolds, RowHolds, Published, RemovalCalls
  <2>3. CASE \E at \in Steps :
          /\ run[r].on = "file" => at = ExecuteStep
          /\ run[r].on = "removal" => at = "removal-look"
          /\ run[r].on = "nfo" => at = "nfo-execute"
          /\ Turned(r, at, run[r].on, new, run[r].facts, run[r].direct, run[r].then)
    <3>1. At(r, "begin")
      BY <1>1, <1>4, BeginDoes
    <3> HIDE DEF new
    <3> QED  BY <1>1, <1>2, <2>1, <2>3, <3>1 DEF Same, Ends, Turned, At, RunHolds, RowHolds, Published, RemovalCalls, StatusFits, ExecuteStep
  <2> QED  BY <1>1, <1>4, <2>2, <2>3, BeginDoes
<1>5. CASE Verify(r)
  <2> DEFINE new == Moved(run[r].row, "verified")
  <2>1. /\ new.status = "verified" /\ new.applied = run[r].row.applied
        /\ new.preexisting = run[r].row.preexisting
    BY <1>2, MovedIs DEF JournalStatuses
  <2>2. CASE Ends(r, "again")
    BY <1>3, <2>2 DEF Same, Ends, Turned, At, RunHolds, RowHolds, Published, RemovalCalls
  <2>3. CASE \E at \in Steps :
          /\ run[r].on = "file" => at = IF run[r].direct THEN "partial" ELSE "completed"
          /\ run[r].on = "removal" => at = "finish-removal"
          /\ run[r].on = "nfo" => at = "nfo-finish"
          /\ Turned(r, at, run[r].on, new, run[r].facts, run[r].direct, run[r].then)
    <3>1. At(r, "verify")
      BY <1>1, <1>5, VerifyDoes
    <3> HIDE DEF new
    <3> QED  BY <1>1, <1>2, <2>1, <2>3, <3>1 DEF Same, Ends, Turned, At, RunHolds, RowHolds, Published, RemovalCalls, StatusFits
  <2> QED  BY <1>1, <1>5, <2>2, <2>3, VerifyDoes
<1>6. CASE Mark(r)
  <2> DEFINE new == Applied(r)
  <2>1. /\ new.status = "applied" /\ new.preexisting = run[r].row.preexisting
        /\ run[r].on # "removal" => new.applied = run[r].facts
    BY <1>1, AppliedIs
  <2>2. CASE Ends(r, "again")
    BY <1>3, <2>2 DEF Same, Ends, Turned, At, RunHolds, RowHolds, Published, RemovalCalls
  <2>3. CASE Turned(r, "inspect", run[r].on, new, run[r].facts, run[r].direct, run[r].then)
    <3>1. At(r, "mark")
      BY <1>1, <1>6, MarkDoes
    <3> HIDE DEF new
    <3> QED  BY <1>1, <1>2, <2>1, <2>3, <3>1 DEF Same, Ends, Turned, At, RunHolds, RowHolds, Published, RemovalCalls, StatusFits
  <2> QED  BY <1>1, <1>6, <2>2, <2>3, MarkDoes
<1>7. CASE Review(r)
  <2> DEFINE new == Moved(run[r].row, "manual-review")
  <2>1. /\ new.status = "manual-review" /\ new.applied = run[r].row.applied
        /\ new.preexisting = run[r].row.preexisting
    BY <1>2, MovedIs DEF JournalStatuses
  <2>2. CASE Ends(r, "again")
    BY <1>3, <2>2 DEF Same, Ends, Turned, At, RunHolds, RowHolds, Published, RemovalCalls
  <2>3. CASE Turned(r, "review-result", run[r].on, new, run[r].facts, run[r].direct, run[r].then)
    <3>1. run[r].on = "removal" => disk["target"] # Absent
      BY <1>1 DEF RunHolds
    <3> HIDE DEF new
    <3> QED  BY <1>1, <1>2, <2>1, <2>3, <3>1 DEF Same, Ends, Turned, At, RunHolds, RowHolds, Published, RemovalCalls
  <2> QED  BY <1>1, <1>7, <2>2, <2>3, ReviewDoes
<1>8. CASE ReviewResult(r) \/ Conclude(r) \/ NfoFailed(r) \/ NfoFinish(r) \/ Catalog(r)
  <2>1. \E then \in Outcomes : Ends(r, then)
    BY <1>1, <1>8, ReviewResultDoes, ConcludeDoes, NfoFailedDoes, NfoFinishDoes, CatalogDoes DEF Outcomes
  <2> QED  BY <1>3, <2>1 DEF Same, Ends, Turned, At, RunHolds, RowHolds, Published, RemovalCalls
<1>9. CASE EnsurePartial(r) \/ NfoPending(r)
  BY <1>1, <1>2, <1>9, EnsurePartialDoes, NfoPendingDoes DEF Same, Ends, Turned, At, RunHolds, RowHolds, Published, RemovalCalls
<1>10. CASE PrepareFile(r)
  <2>1. CASE Turned(r, "begin", "file", PreparedRow, run[r].facts, run[r].direct, "review")
    BY <2>1, PreparedRowIs DEF Same, Ends, Turned, At, RunHolds, RowHolds, Published, RemovalCalls
  <2> QED  BY <1>1, <1>2, <1>10, <2>1, PrepareFileDoes, QuietEntry
<1>11. CASE PrepareRemoval(r)
  <2>1. CASE Turned(r, "begin", "removal", PreparedRow, run[r].facts, run[r].direct, "review")
    <3>1. run[r].on = "file" /\ run[r].row.status = "verified"
      BY <1>1, <1>11, PrepareRemovalDoes DEF At, StatusFits, KindFits, Removes
    <3>2. disk["target"] # Absent
      BY <1>1, <3>1 DEF RunHolds, RowHolds
    <3> QED  BY <2>1, <3>2, PreparedRowIs DEF Same, Ends, Turned, At, RunHolds, RowHolds, Published, RemovalCalls
  <2> QED  BY <1>1, <1>2, <1>11, <2>1, PrepareRemovalDoes, QuietEntry
<1>12. CASE NfoPrepare(r)
  <2> DEFINE new == NfoRow(run[r].facts)
  <2>1. new.status = "prepared" /\ (new.preexisting => new.applied # NoFacts)
    BY <1>1, RunIs, NfoRowIs
  <2>2. CASE Ends(r, "again")
    BY <1>3, <2>2 DEF Same, Ends, Turned, At, RunHolds, RowHolds, Published, RemovalCalls
  <2>3. CASE Turned(r, "begin", "nfo", new, run[r].facts, run[r].direct, "review")
    <3> HIDE DEF new
    <3> QED  BY <2>1, <2>3 DEF Same, Ends, Turned, At, RunHolds, RowHolds, Published, RemovalCalls
  <2> QED  BY <1>1, <1>2, <1>12, <2>2, <2>3, NfoPrepareDoes, QuietEntry
<1> QED  BY <1>4, <1>5, <1>6, <1>7, <1>8, <1>9, <1>10, <1>11, <1>12 DEF RecordStep

LEMMA FactsStay ==
    ASSUME TypeOK, NEW p \in Paths, disk'[p] = disk[p],
           \/ UNCHANGED content
           \/ \E i \in Inodes, d \in Data : ~Linked(i) /\ content' = [content EXCEPT ![i] = d]
    PROVE  Facts(p)' = Facts(p)
<1>1. content \in [Inodes -> Data] /\ disk[p] \in Inodes \cup {Absent}
  BY DEF TypeOK
<1>2. disk[p] # Absent => content'[disk[p]] = content[disk[p]]
  BY <1>1 DEF Linked
<1> QED  BY <1>2 DEF Facts

\* A run that goes on with what it had, or gives up.
Carried(r) ==
    \/ \E then \in Outcomes : Ends(r, then)
    \/ /\ run'[r].on = run[r].on /\ run'[r].row = run[r].row /\ run'[r].facts = run[r].facts
       /\ run'[r].at \notin {"undoing", "confirm", "verify"}
       /\ run'[r].at = "mark" => run[r].on # "nfo"
       /\ Published(run'[r]) => Published(run[r])

LEMMA QuietCarried ==
    ASSUME TypeOK, Settled, NEW r \in Runners, RunHolds(run[r]), Carried(r)
    PROVE  RunHolds(run[r])'
<1>1. run[r].on \in JournalKinds /\ run[r].row \in Rows
  BY RunIs
<1>2. RowHolds(run[r].on, run[r].row)'
  <2>1. RowHolds(run[r].on, run[r].row)
    BY DEF RunHolds
  <2>2. CASE \E then \in Outcomes : Ends(r, then)
    <3>1. run'[r].on = "file" /\ run'[r].row.status = "none" /\ ~run'[r].row.preexisting
      BY <2>2, NoRunIs DEF Ends, Turned
    <3> QED  BY <3>1 DEF RowHolds
  <2>3. CASE run'[r].on = run[r].on /\ run'[r].row = run[r].row
    <3>1. \A k \in JournalKinds, row \in Rows : RowHolds(k, row) => RowHolds(k, row)'
      BY HoldsKept
    <3> QED  BY <1>1, <2>1, <2>3, <3>1 DEF RowHolds
  <2> QED  BY <2>2, <2>3 DEF Carried
<1>3. CASE \E then \in Outcomes : Ends(r, then)
  <2>1. run'[r].on = "file" /\ run'[r].row.status = "none" /\ run'[r].at = "commit"
    BY <1>3, NoRunIs DEF Ends, Turned
  <2> QED  BY <1>2, <2>1 DEF RunHolds, Published
<1>4. CASE /\ run'[r].on = run[r].on /\ run'[r].row = run[r].row /\ run'[r].facts = run[r].facts
           /\ run'[r].at \notin {"undoing", "confirm", "verify"}
           /\ run'[r].at = "mark" => run[r].on # "nfo"
           /\ Published(run'[r]) => Published(run[r])
  <2>1. Published(run[r])' => Published(run[r])
    BY <1>4 DEF Published
  <2>2. Published(run[r]) => disk'["target"] # Absent /\ run[r].facts = Facts("target")'
    BY DEF RunHolds, Settled
  <2> QED  BY <1>2, <1>4, <2>1, <2>2 DEF RunHolds, Settled
<1> QED  BY <1>3, <1>4 DEF Carried

\* Steps that leave the visible files and the media alone.
LEMMA QuietStays ==
    ASSUME TypeOK, QuietFiles, UNCHANGED <<comp, undo, plan>>,
           disk'["source"] = disk["source"], disk'["target"] = disk["target"], disk'["nfo"] = disk["nfo"],
           disk'["removal"] \in {disk["removal"], Absent},
           \/ UNCHANGED content
           \/ \E i \in Inodes, d \in Data :
                 ~Linked(i) /\ (i \in MediaInodes => d = "media") /\ content' = [content EXCEPT ![i] = d]
    PROVE  QuietFiles' /\ Settled
<1>1. content \in [Inodes -> Data] /\ MediaInodes \subseteq Inodes
  BY InodesAre DEF TypeOK, MediaInodes, Copies, Inodes
<1>2. \A i \in MediaInodes : content'[i] = "media"
  BY <1>1 DEF QuietFiles
<1>3. Facts("target")' = Facts("target") /\ Facts("nfo")' = Facts("nfo")
  BY FactsStay, PathsAre
<1>4. QuietFiles'
  BY <1>2 DEF QuietFiles, Operation
<1> QED  BY <1>3, <1>4 DEF Settled

LEMMA QuietCalls ==
    ASSUME Base, Temporaries, QuietWorld, NEW r \in Runners, CallStep(r) \/ FailStep(r), UNCHANGED <<undo, plan>>
    PROVE  QuietFiles' /\ Settled /\ RunHolds(run[r])'
<1>1. /\ TypeOK /\ QuietFiles /\ StatusFits(run[r]) /\ KindFits(run[r]) /\ PlanFits(run[r])
      /\ RunHolds(run[r]) /\ StepFits(run[r])
  BY DEF Base, StepFits, QuietWorld
<1>2. /\ disk \in [Paths -> Inodes \cup {Absent}] /\ content \in [Inodes -> Data]
      /\ run[r].on \in {"file", "removal", "nfo"} /\ JournalKinds = {"file", "removal", "nfo"}
      /\ run[r] \in Runs
  BY <1>1, RunIs DEF TypeOK, JournalKinds
<1>3. /\ Facts("target") # NoFacts <=> disk["target"] # Absent
      /\ Facts("nfo-temp") # NoFacts <=> disk["nfo-temp"] # Absent
      /\ disk["removal"] = Original => Facts("removal") = Planned
      /\ disk["target"] = Original => Facts("target").inode = Original
      /\ content[Original] = Planned.data
      /\ Original \in MediaInodes /\ Original # Absent /\ Absent \notin Copies
  <2>1. Original \in MediaInodes /\ Original # Absent /\ Absent \notin Copies /\ content[Original] = "media"
    BY <1>1, InodesAre, TempsDiffer DEF MediaInodes, QuietFiles
  <2>2. disk["removal"] = Original => Facts("removal") = Planned
    BY <2>1 DEF Facts, Planned
  <2> QED  BY <1>2, <2>1, <2>2, FactsAre, PathsAre DEF Planned
<1>4. run[r].at # "undoing"
  BY <1>1 DEF RunHolds
<1>5. ASSUME Carried(r), UNCHANGED comp,
             disk'["source"] = disk["source"], disk'["target"] = disk["target"], disk'["nfo"] = disk["nfo"],
             disk'["removal"] \in {disk["removal"], Absent},
             \/ UNCHANGED content
             \/ \E i \in Inodes, d \in Data :
                   ~Linked(i) /\ (i \in MediaInodes => d = "media") /\ content' = [content EXCEPT ![i] = d]
      PROVE  QuietFiles' /\ Settled /\ RunHolds(run[r])'
  BY <1>1, <1>5, QuietStays, QuietCarried
<1>6. ASSUME UNCHANGED <<disk, content, comp>>, Carried(r)
      PROVE  QuietFiles' /\ Settled /\ RunHolds(run[r])'
  BY <1>5, <1>6
<1>7. CASE Copy(r)
  <2>1. CASE UNCHANGED <<disk, content>> /\ Same(r, "review")
    BY <1>1, <1>6, <1>7, <2>1, CopyDoes DEF Carried, Same, Turned, Published, RemovalCalls
  <2>2. CASE /\ CanCreate("copy") /\ Same(r, "publish")
             /\ disk' = [disk EXCEPT !["temp"] = Fresh("copy")]
             /\ content' = [content EXCEPT ![Fresh("copy")] = Planned.data]
    <3>1. Fresh("copy") \in Inodes /\ ~Linked(Fresh("copy")) /\ Planned.data = "media" /\ Planned.data \in Data
      BY <2>2, FreshIs DEF Planned, Data
    <3>2. Carried(r)
      BY <2>2 DEF Carried, Same, Turned, Published, RemovalCalls
    <3> QED  BY <1>1, <1>2, <1>5, <1>7, <2>2, <3>1, <3>2, PathsAre, CopyDoes
  <2> QED  BY <1>1, <1>7, <2>1, <2>2, CopyDoes
<1>8. ASSUME UNCHANGED <<content, comp>>, disk' = Cleaned \/ disk' = Unlinked("nfo-temp") \/ disk' = Unlinked("removal")
             \/ disk' = [disk EXCEPT !["temp"] = Manifest] \/ disk' = Renamed("temp", "manifest"),
             Carried(r)
      PROVE  QuietFiles' /\ Settled /\ RunHolds(run[r])'
  <2>1. /\ disk'["source"] = disk["source"] /\ disk'["target"] = disk["target"] /\ disk'["nfo"] = disk["nfo"]
        /\ disk'["removal"] \in {disk["removal"], Absent}
    BY <1>2, <1>8, PathsAre DEF Cleaned, Unlinked, Renamed
  <2> QED  BY <1>5, <1>8, <2>1
\* A copy becomes the target.
<1>9. ASSUME run[r].at = "publish", Publishable, disk' = Renamed("temp", "target"), UNCHANGED <<content, comp>>
      PROVE  /\ QuietFiles' /\ Settled /\ Facts("target")' = Facts("temp") /\ disk'["target"] # Absent
  <2>1. disk["temp"] \in Copies
    BY <1>9 DEF Temporaries, TempHeld
  <2>2. /\ disk'["target"] = disk["temp"] /\ disk'["source"] = disk["source"] /\ disk'["nfo"] = disk["nfo"]
        /\ disk'["removal"] = disk["removal"]
    BY <1>2, <1>9, PathsAre DEF Renamed
  <2>3. Facts("target")' = Facts("temp") /\ Facts("nfo")' = Facts("nfo")
    BY <1>9, <2>2 DEF Facts
  <2>4. Settled
    BY <1>9, <2>2, <2>3 DEF Settled, Publishable
  <2>5. QuietFiles'
    BY <1>1, <1>3, <1>9, <2>1, <2>2 DEF QuietFiles, Operation, MediaInodes
  <2> QED  BY <1>3, <2>1, <2>2, <2>3, <2>4, <2>5
<1>10. CASE Publish(r)
  <2>1. CASE disk' = Cleaned /\ Same(r, "review")
    BY <1>1, <1>8, <1>10, <2>1, PublishDoes DEF Carried, Same, Turned, Published, RemovalCalls
  <2>2. CASE /\ Publishable /\ disk' = Renamed("temp", "target")
             /\ Turned(r, IF Operation = "quarantine" /\ ~run[r].direct THEN "removal-look" ELSE "mark",
                       run[r].on, run[r].row, Facts("temp"), run[r].direct, run[r].then)
    <3>1. run[r].at = "publish" /\ UNCHANGED <<content, comp>>
      BY <1>1, <1>10, PublishDoes DEF At
    <3>2. QuietFiles' /\ Settled /\ Facts("target")' = Facts("temp") /\ disk'["target"] # Absent
      BY <1>9, <2>2, <3>1
    <3>3. run[r].on = "file" /\ run[r].row.status = "executing"
      BY <1>1, <3>1 DEF StatusFits, KindFits, FileCalls
    <3> QED  BY <2>2, <3>2, <3>3 DEF Turned, RunHolds, RowHolds
  <2> QED  BY <1>1, <1>10, <2>1, <2>2, PublishDoes
<1>11. CASE CopyFails(r)
  <2>1. run[r].at = "publish" /\ UNCHANGED <<content, comp>> /\ Carried(r)
    BY <1>1, <1>11, CopyFailsDoes DEF At, Carried, Outcomes
  <2>2. CASE disk' = Cleaned
    BY <1>8, <2>1, <2>2
  <2>3. CASE Publishable /\ disk' = Renamed("temp", "target")
    BY <1>1, <1>9, <2>1, <2>3, QuietCarried
  <2> QED  BY <1>1, <1>11, <2>2, <2>3, CopyFailsDoes
\* The source becomes the target.
<1>12. ASSUME run[r].at = "rename", Renamable, disk' = NamedTarget, UNCHANGED <<content, comp>>
       PROVE  QuietFiles' /\ Settled /\ disk'["target"] = Original
  <2>1. disk["source"] = Original /\ disk["target"] = Absent /\ Operation # "copy"
    BY <1>1, <1>12 DEF QuietFiles, Renamable, PlanFits
  <2>2. /\ disk'["target"] = Original /\ disk'["nfo"] = disk["nfo"] /\ disk'["removal"] = disk["removal"]
        /\ disk'["source"] = IF Operation = "hardlink" THEN Original ELSE Absent
    BY <1>2, <1>12, <2>1, PathsAre DEF NamedTarget, Renamed
  <2>3. Facts("nfo")' = Facts("nfo")
    BY <1>12, <2>2 DEF Facts
  <2>4. Settled
    BY <1>3, <2>1, <2>2, <2>3 DEF Settled
  <2>5. QuietFiles'
    BY <1>1, <1>3, <1>12, <2>1, <2>2 DEF QuietFiles, Operation
  <2> QED  BY <2>2, <2>4, <2>5
<1>13. CASE Rename(r)
  <2>1. run[r].at = "rename" /\ UNCHANGED <<content, comp>>
    BY <1>1, <1>13, RenameDoes DEF At
  <2>2. CASE Renamable /\ disk' = NamedTarget /\ Same(r, "confirm")
    <3>1. QuietFiles' /\ Settled /\ disk'["target"] = Original
      BY <1>12, <2>1, <2>2
    <3>2. run[r].on = "file" /\ run[r].row.status = "executing"
      BY <1>1, <2>1 DEF StatusFits, KindFits, FileCalls
    <3> QED  BY <2>2, <3>1, <3>2 DEF Same, Turned, RunHolds, RowHolds, Published, RemovalCalls
  <2>3. CASE UNCHANGED disk /\ (Same(r, "review") \/ Ends(r, "again")
               \/ Turned(r, "copy", run[r].on, run[r].row, run[r].facts, TRUE, run[r].then))
    BY <1>6, <2>1, <2>3 DEF Carried, Same, Turned, Published, RemovalCalls, Outcomes
  <2> QED  BY <1>1, <1>13, <2>2, <2>3, RenameDoes
<1>14. CASE RenameUnsynced(r)
  <2>1. run[r].at = "rename" /\ UNCHANGED <<content, comp>> /\ Carried(r) /\ Renamable /\ disk' = NamedTarget
    BY <1>1, <1>14, RenameUnsyncedDoes DEF At, Carried, Outcomes
  <2> QED  BY <1>1, <1>12, <2>1, QuietCarried
<1>15. CASE Confirm(r)
  <2>1. run[r].at = "confirm" /\ UNCHANGED <<disk, content>> /\ disk["target"] = Original
    BY <1>1, <1>15, ConfirmDoes DEF At, RunHolds
  <2>2. CASE UNCHANGED comp /\ Ends(r, "again")
    BY <1>6, <2>1, <2>2 DEF Carried, Outcomes
  <2>3. CASE UNCHANGED comp /\ Turned(r, IF Operation = "quarantine" THEN "manifest" ELSE "mark",
                                      run[r].on, run[r].row, Facts("target"), run[r].direct, run[r].then)
    <3>1. QuietFiles' /\ Settled
      BY <1>1, <2>1, <2>3, QuietStays
    <3>2. run[r].on = "file" /\ run[r].row.status = "executing"
      BY <1>1, <2>1 DEF StatusFits, KindFits, FileCalls
    <3>3. Facts("target")' = Facts("target") /\ disk'["target"] # Absent
      BY <1>3, <2>1, <3>1 DEF Settled
    <3> QED  BY <2>3, <3>1, <3>2, <3>3 DEF Turned, RunHolds, RowHolds
  <2> QED  BY <1>1, <1>3, <1>15, <2>1, <2>2, <2>3, ConfirmDoes
<1>16. CASE Undone(r)
  BY <1>1, <1>4, <1>16, UndoneDoes DEF At
<1>17. CASE CreateManifest(r)
  <2>1. run[r].at = "manifest" /\ run[r].on = "file"
    BY <1>1, <1>17, CreateManifestDoes DEF At, KindFits
  <2>2. Carried(r)
    BY <1>1, <1>17, <2>1, CreateManifestDoes DEF Carried, Same, Turned, Published, RemovalCalls, Outcomes
  <2> QED  BY <1>1, <1>6, <1>8, <1>17, <2>2, CreateManifestDoes
<1>18. CASE PublishManifest(r)
  <2>1. run[r].at = "manifest-publish" /\ run[r].on = "file"
    BY <1>1, <1>18, PublishManifestDoes DEF At, KindFits
  <2>2. Carried(r)
    BY <1>1, <1>18, <2>1, PublishManifestDoes DEF Carried, Same, Turned, Published, RemovalCalls, Outcomes
  <2> QED  BY <1>1, <1>8, <1>18, <2>2, PublishManifestDoes
<1>19. CASE ManifestFails(r)
  BY <1>1, <1>8, <1>19, ManifestFailsDoes DEF Carried, Outcomes
<1>20. CASE RemovalRename(r)
  <2>1. run[r].at = "removal-rename" /\ UNCHANGED <<content, comp>>
    BY <1>1, <1>20, RemovalRenameDoes DEF At
  <2>2. /\ run[r].row.status = "executing"
        /\ run[r].on = "removal" \/ (run[r].on = "file" /\ Operation = "quarantine")
    BY <1>1, <2>1 DEF StatusFits, KindFits, RemovalCalls
  <2>3. disk["target"] # Absent /\ Operation \in Moves
    BY <1>1, <2>1, <2>2 DEF RunHolds, Published, RemovalCalls, StepFits, Moves
  <2>4. CASE UNCHANGED disk /\ (Same(r, "review") \/ Ends(r, "again"))
    BY <1>6, <2>1, <2>4 DEF Carried, Same, Turned, Published, RemovalCalls, Outcomes
  <2>5. CASE disk["source"] # Absent /\ disk' = Renamed("source", "removal") /\ Same(r, "removal-check")
    <3>1. /\ disk'["target"] = disk["target"] /\ disk'["nfo"] = disk["nfo"]
          /\ disk'["removal"] = disk["source"] /\ disk'["source"] = Absent
      BY <1>2, <2>5, PathsAre DEF Renamed
    <3>2. Facts("target")' = Facts("target") /\ Facts("nfo")' = Facts("nfo")
      BY <2>1, <3>1 DEF Facts
    <3>3. Settled
      BY <2>5, <3>1, <3>2 DEF Settled
    <3>4. QuietFiles'
      BY <1>1, <2>1, <2>3, <2>5, <3>1 DEF QuietFiles, Operation, Moves
    <3>5. Carried(r)
      BY <2>1, <2>5 DEF Carried, Same, Turned, Published, RemovalCalls
    <3> QED  BY <1>1, <3>3, <3>4, <3>5, QuietCarried
  <2> QED  BY <1>1, <1>20, <2>4, <2>5, RemovalRenameDoes
<1>21. CASE RemovalCheck(r)
  <2>1. run[r].at = "removal-check" /\ UNCHANGED <<content, comp>>
    BY <1>1, <1>21, RemovalCheckDoes DEF At
  <2>2. disk["removal"] # Absent => SourceHidden
    BY <1>1, <1>3 DEF QuietFiles, SourceHidden
  <2>3. CASE UNCHANGED disk /\ (Ends(r, "again") \/ Same(r, "removal-unlink"))
    BY <1>6, <2>1, <2>3 DEF Carried, Same, Turned, Published, RemovalCalls, Outcomes
  <2> QED  BY <1>1, <1>21, <2>2, <2>3, RemovalCheckDoes
<1>22. CASE RemovalUnlink(r) \/ RemovalUnsynced(r)
  <2>1. run[r].at = "removal-unlink" /\ UNCHANGED <<content, comp>> /\ disk' = Unlinked("removal")
    BY <1>1, <1>22, RemovalUnlinkDoes, RemovalUnsyncedDoes DEF At
  <2>2. run[r].on \in {"removal", "file"}
    BY <1>1, <2>1 DEF KindFits, RemovalCalls
  <2>3. Carried(r)
    BY <1>1, <1>22, <2>1, <2>2, RemovalUnlinkDoes, RemovalUnsyncedDoes
       DEF Carried, Same, Turned, Published, RemovalCalls, Outcomes, AfterRemoval
  <2> QED  BY <1>8, <2>1, <2>3
<1>23. CASE NfoCreate(r)
  <2>1. CASE UNCHANGED <<disk, content>> /\ Same(r, "review")
    BY <1>1, <1>6, <1>23, <2>1, NfoCreateDoes DEF Carried, Same, Turned, Published, RemovalCalls
  <2>2. CASE /\ CanCreate("nfo") /\ Same(r, "nfo-publish")
             /\ disk' = [disk EXCEPT !["nfo-temp"] = Fresh("nfo")]
             /\ content' = [content EXCEPT ![Fresh("nfo")] = "nfo"]
    <3>1. Fresh("nfo") \in Inodes /\ ~Linked(Fresh("nfo")) /\ "nfo" \in Data /\ Fresh("nfo") \notin MediaInodes
      BY <2>2, FreshIs DEF Data, MediaInodes, Copies
    <3>2. Carried(r)
      BY <2>2 DEF Carried, Same, Turned, Published, RemovalCalls
    <3> QED  BY <1>1, <1>2, <1>5, <1>23, <2>2, <3>1, <3>2, PathsAre, NfoCreateDoes
  <2> QED  BY <1>1, <1>23, <2>1, <2>2, NfoCreateDoes
\* An NFO that was written gets its name.
<1>24. ASSUME disk["nfo"] = Absent, disk' = Renamed("nfo-temp", "nfo"), UNCHANGED <<content, comp>>
       PROVE  QuietFiles' /\ Settled
  <2>1. /\ disk'["target"] = disk["target"] /\ disk'["source"] = disk["source"]
        /\ disk'["removal"] = disk["removal"]
    BY <1>2, <1>24, PathsAre DEF Renamed
  <2>2. Facts("target")' = Facts("target")
    BY <1>24, <2>1 DEF Facts
  <2>3. QuietFiles'
    BY <1>1, <1>24, <2>1 DEF QuietFiles, Operation
  <2> QED  BY <1>24, <2>1, <2>2, <2>3 DEF Settled
<1>25. CASE NfoPublish(r)
  <2>1. run[r].at = "nfo-publish" /\ UNCHANGED <<content, comp>>
    BY <1>1, <1>25, NfoPublishDoes DEF At
  <2>2. CASE disk' = Unlinked("nfo-temp") /\ Same(r, "nfo-exists")
    BY <1>8, <2>1, <2>2 DEF Carried, Same, Turned, Published, RemovalCalls
  <2>3. CASE /\ disk["nfo"] = Absent /\ disk' = Renamed("nfo-temp", "nfo")
             /\ Turned(r, "mark", run[r].on, run[r].row, Facts("nfo-temp"), run[r].direct, run[r].then)
    <3>1. QuietFiles' /\ Settled
      BY <1>24, <2>1, <2>3
    <3>2. Facts("nfo-temp") # NoFacts
      BY <1>3, <2>1, TempsDiffer DEF Temporaries, TempHeld
    <3>3. run[r].on = "nfo" /\ run[r].row.status = "executing"
      BY <1>1, <2>1 DEF StatusFits, KindFits, NfoCalls
    <3>4. run[r].row.preexisting => run[r].row.applied # NoFacts
      BY <1>1, <3>3 DEF RunHolds, RowHolds
    <3> QED  BY <2>3, <3>1, <3>2, <3>3, <3>4 DEF Turned, RunHolds, RowHolds, Published
  <2> QED  BY <1>1, <1>25, <2>2, <2>3, NfoPublishDoes
<1>26. CASE NfoWriteFails(r)
  <2>1. UNCHANGED <<content, comp>> /\ Carried(r)
    BY <1>1, <1>26, NfoWriteFailsDoes DEF Carried, Same, Turned, Published, RemovalCalls
  <2> QED  BY <1>1, <1>8, <1>24, <1>26, <2>1, NfoWriteFailsDoes, QuietCarried
<1>27. CASE CatalogFails(r)
  BY <1>1, <1>6, <1>27, CatalogFailsDoes DEF files, Carried, Outcomes
<1> QED  BY <1>7, <1>10, <1>11, <1>13, <1>14, <1>15, <1>16, <1>17, <1>18, <1>19, <1>20, <1>21, <1>22,
            <1>23, <1>25, <1>26, <1>27 DEF CallStep, FailStep

LEMMA QuietGoesOn ==
    ASSUME Base, QuietWorld, QuietFiles', Settled,
           \A k \in JournalKinds : journal'[k] = journal[k] \/ RowHolds(k, journal[k])',
           \A s \in Runners : run'[s] = run[s] \/ RunHolds(run[s])'
    PROVE  QuietWorld'
<1>1. TypeOK /\ (\A s \in Runners : StatusFits(run[s]) /\ run[s] \in Runs)
      /\ (\A k \in JournalKinds : journal[k] \in Rows)
  BY RunIs, WorldIs DEF Base, StepFits
<1>2. \A k \in JournalKinds : RowHolds(k, journal[k])'
  <2> TAKE k \in JournalKinds
  <2>1. CASE journal'[k] = journal[k]
    <3>1. RowHolds(k, journal[k])
      BY DEF QuietWorld
    <3>2. \A row \in Rows : RowHolds(k, row) => RowHolds(k, row)'
      BY <1>1, HoldsKept
    <3> QED  BY <1>1, <2>1, <3>1, <3>2 DEF RowHolds
  <2> QED  BY <2>1
<1>3. \A s \in Runners : RunHolds(run[s])'
  <2> TAKE s \in Runners
  <2>1. CASE run'[s] = run[s]
    <3>1. RunHolds(run[s])
      BY DEF QuietWorld
    <3>2. \A t \in Runs : StatusFits(t) /\ RunHolds(t) => RunHolds(t)'
      BY <1>1, HoldsKept
    <3> QED  BY <1>1, <2>1, <3>1, <3>2 DEF RunHolds, RowHolds, Published
  <2> QED  BY <2>1
<1> QED  BY <1>2, <1>3 DEF QuietWorld

LEMMA NoRunHolds ==
    ASSUME NEW s \in Runners, run'[s].at = "idle", run'[s].on = "file", run'[s].row = NoRow
    PROVE  RunHolds(run[s])'
BY NoRunIs DEF RunHolds, RowHolds, Published, RemovalCalls

LEMMA QuietRunStep ==
    ASSUME Base, Temporaries, QuietWorld, NEW r \in Runners, RunStep(r) \/ RunFails(r) \/ StartStage(r)
    PROVE  QuietWorld'
<1>1. TypeOK /\ QuietFiles /\ DoneRests
  BY DEF Base, QuietWorld
<1>2. ASSUME UNCHANGED <<files, undo, plan>> PROVE QuietFiles' /\ Settled
  BY <1>1, <1>2, QuietStays DEF files
<1>3. ASSUME RunHolds(run'[r]), UNCHANGED <<files, undo, plan>> PROVE RunHolds(run[r])'
  BY <1>3 DEF RunHolds, RowHolds, Published, Facts, files
<1>4. CASE Reads(r)
  <2>1. ReadStep(r) /\ UNCHANGED <<files, undo, plan, journal>>
    BY <1>4 DEF Reads, ReadStep, world, db
  <2>2. RunHolds(run[r])' /\ RunGoesOn(r)
    BY <1>3, <2>1, QuietReads, ReadsTyped
  <2> QED  BY <1>2, <2>1, <2>2, QuietGoesOn DEF RunGoesOn
<1>5. CASE Records(r)
  <2>1. RecordStep(r) /\ UNCHANGED <<files, undo, plan>>
    BY <1>5 DEF Records, RecordStep, world
  <2>2. RunHolds(run'[r]) /\ RunHolds(run[r])' /\ RunGoesOn(r) /\ Journalled(r)
    BY <1>3, <2>1, QuietRecords, RecordsJournal
  <2>3. \A k \in JournalKinds : journal'[k] = journal[k] \/ RowHolds(k, journal[k])'
    <3>1. RowHolds(run[r].on, run[r].row)'
      BY <2>2 DEF RunHolds
    <3> QED  BY <1>1, <2>2, <3>1 DEF Journalled, TypeOK, RowHolds
  <2> QED  BY <1>2, <2>1, <2>2, <2>3, QuietGoesOn DEF RunGoesOn
<1>6. CASE Calls(r) \/ RunFails(r)
  <2>1. (CallStep(r) \/ FailStep(r)) /\ UNCHANGED <<undo, plan, journal>>
    BY <1>6 DEF Calls, RunFails, CallStep, FailStep, world, db, Spend
  <2>2. QuietFiles' /\ Settled /\ RunHolds(run[r])' /\ RunGoesOn(r)
    BY <2>1, QuietCalls, CallsKeepRows
  <2> QED  BY <2>1, <2>2, QuietGoesOn DEF RunGoesOn
<1>7. CASE Works(r)
  <2>1. Compensate(r) /\ r \in Actors
    BY <1>7 DEF Works, Actors
  <2> QED  BY <1>1, <2>1, CompensateTyped DEF QuietFiles
<1>8. CASE Commit(r)
  <2>1. /\ UNCHANGED <<files, undo, plan, journal>>
        /\ Turned(r, "idle", "file", NoRow, NoFacts, FALSE, "again")
    BY <1>1, <1>8, CommitDoes DEF db, world
  <2>2. RunHolds(run[r])'
    BY <2>1, NoRunHolds DEF Turned
  <2> QED  BY <1>2, <2>1, <2>2, QuietGoesOn DEF Turned
<1>9. CASE StartStage(r)
  <2>1. UNCHANGED <<files, undo, plan, journal>>
    BY <1>9 DEF StartStage, db, world
  <2>2. PICK at \in {"observe", "nfo-look", "complete"} :
           Turned(r, at, "file", NoRow, NoFacts, FALSE, "again")
    BY <1>1, <1>9, StartDoes
  <2>3. RunHolds(run[r])'
    BY <2>2, NoRunIs DEF Turned, RunHolds, RowHolds, Published, RemovalCalls
  <2> QED  BY <1>2, <2>1, <2>2, <2>3, QuietGoesOn DEF Turned
<1> QED  BY <1>4, <1>5, <1>6, <1>7, <1>8, <1>9 DEF RunStep

LEMMA QuietNext ==
    ASSUME Base, Temporaries, Undisturbed => QuietWorld, [Next]_vars
    PROVE  Undisturbed' => QuietWorld'
<1> SUFFICES ASSUME Undisturbed' PROVE QuietWorld'
  OBVIOUS
<1>1. TypeOK /\ spent \in [Incidents -> Nat] /\ {"user", "rollback", "crash", "lost", "retry"} \subseteq Incidents
  BY DEF Base, TypeOK, Incidents
<1>2. plan' = plan /\ Undisturbed
  BY <1>1, WorldSteps DEF Undisturbed
<1>3. QuietWorld /\ QuietFiles
  BY <1>2 DEF QuietWorld
<1>4. ASSUME UNCHANGED <<files, undo, journal, run>> PROVE QuietWorld'
  <2>1. QuietFiles' /\ Settled
    BY <1>1, <1>2, <1>3, <1>4, QuietStays DEF files
  <2> QED  BY <1>3, <1>4, <2>1, QuietGoesOn
<1>5. ASSUME NEW what \in {"user", "rollback"}, Spend(what) PROVE FALSE
  BY <1>1, <1>2, <1>5 DEF Spend, Undisturbed
<1>6. CASE UNCHANGED vars \/ LoseLease \/ RetryRequest
  BY <1>4, <1>6 DEF vars, db, LoseLease, RetryRequest
<1>7. CASE Crash
  <2>1. /\ run' = [r \in Runners |-> NoRun] /\ undo' = [c \in Callers |-> NoRequest]
        /\ comp' = [a \in Actors |-> NoComp] /\ UNCHANGED <<disk, content, journal>>
    BY <1>7 DEF Crash, db
  <2>2. QuietFiles' /\ Settled
    <3>1. (\A c \in Callers : undo'[c].at = "idle") /\ (\A a \in Actors : comp'[a].at = "none")
      BY <2>1, NoCompIs DEF NoRequest
    <3>2. QuietFiles'
      BY <1>2, <1>3, <2>1, <3>1 DEF QuietFiles, Operation
    <3>3. Facts("target")' = Facts("target") /\ Facts("nfo")' = Facts("nfo")
      BY <2>1 DEF Facts
    <3> QED  BY <2>1, <3>2, <3>3 DEF Settled
  <2>3. \A s \in Runners : RunHolds(run[s])'
    BY <2>1, NoRunIs, NoRunHolds
  <2> QED  BY <1>3, <2>1, <2>2, <2>3, QuietGoesOn
<1>8. ASSUME NEW c \in Callers, Ask(c) \/ RequestStep(c) PROVE QuietWorld'
  <2>1. c \in Actors /\ undo[c].at = "idle" /\ comp[c].at = "none"
    BY <1>3 DEF QuietFiles, Actors
  <2>2. ~Ask(c)
    BY <1>5 DEF Ask
  <2>3. ~Requested(c)
    BY <2>1 DEF Requested, Check, Load, NfoTaken, NfoManual, FileTaken, Finish, UndoAt
  <2>4. ~Works(c)
    BY <1>1, <2>1, CompensateTyped DEF Works
  <2> QED  BY <1>8, <2>2, <2>3, <2>4 DEF RequestStep
<1>9. ASSUME NEW a \in Actors, WorkFails(a) PROVE QuietWorld'
  BY <1>1, <1>3, <1>9, CompensateTyped DEF WorkFails, QuietFiles
<1>10. CASE Users
  BY <1>5, <1>10 DEF Users
<1> QED  BY <1>3, <1>6, <1>7, <1>8, <1>9, <1>10, QuietRunStep DEF Next

LEMMA QuietInit == Init => QuietWorld
<1> SUFFICES ASSUME Init PROVE QuietWorld
  OBVIOUS
<1>1. TypeOK
  BY BaseInit DEF Base
<1>2. /\ disk = [p \in Paths |-> IF p = "source" THEN Original ELSE Absent]
      /\ comp = [a \in Actors |-> NoComp] /\ undo = [c \in Callers |-> NoRequest]
      /\ journal = [k \in JournalKinds |-> NoRow] /\ run = [r \in Runners |-> NoRun]
  BY DEF Init, FilesInit
<1>3. \A i \in MediaInodes : content[i] = "media"
  <2>1. ASSUME NEW i \in Inodes PROVE content[i] = CASE i = Original -> "media"
                                     [] i = Manifest -> "manifest"
                                     [] i[1] = "copy" -> "media"
                                     [] i[1] = "nfo" -> "nfo"
                                     [] OTHER -> "other"
    BY DEF Init, FilesInit
  <2>2. Original \in Inodes /\ content[Original] = "media"
    BY <2>1, InodesAre DEF Original, Manifest
  <2>3. ASSUME NEW i \in Copies PROVE content[i] = "media"
    <3>1. i[1] = "copy" /\ i \in Inodes
      BY DEF Copies, Inodes
    <3>2. i # Original /\ i # Manifest
      BY <3>1 DEF Original, Manifest
    <3> QED  BY <2>1, <3>1, <3>2
  <2> QED  BY <2>2, <2>3 DEF MediaInodes
<1>4. QuietFiles
  BY <1>2, <1>3, PathsAre, NoCompIs DEF QuietFiles, NoRequest
<1>5. \A k \in JournalKinds : RowHolds(k, journal[k])
  BY <1>2, NoRunIs DEF RowHolds
<1>6. \A r \in Runners : RunHolds(run[r])
  BY <1>2, NoRunIs DEF RunHolds, RowHolds, Published, RemovalCalls
<1> QED  BY <1>4, <1>5, <1>6 DEF QuietWorld

\* What is copied or linked keeps its source, whatever is taken back.
SourceKept ==
    spent["user"] = 0 /\ Operation \in {"copy", "hardlink"} =>
        disk["source"] = Original /\ content[Original] = "media"

LEMMA CompensateKeepsSource ==
    ASSUME TypeOK, disk["source"] # Absent, NEW a \in Actors,
           Compensate(a) \/ CompRemove(a, "failed") \/ CompRestore(a, "failed")
    PROVE  disk'["source"] = disk["source"]
<1> DEFINE path == comp[a].path
<1>1. FilesTyped /\ path \in {"target", "nfo"} /\ Hidden(path) \in {"rollback", "nfo-rollback"}
  BY HiddenIs DEF TypeOK, FilesTyped
<1>2. \/ disk' = disk
      \/ disk' = Renamed(path, Hidden(path))
      \/ disk' = Renamed(Hidden(path), path)
      \/ disk' = Unlinked(Hidden(path))
  BY DEF Compensate, CompLook, CompRename, CompVerify, CompRemove, CompRestore, GivenBack
<1> HIDE DEF path
<1> QED  BY <1>1, <1>2, PathsAre DEF Renamed, Unlinked, FilesTyped

LEMMA SourceKeptNext ==
    ASSUME Base, SourceKept, [Next]_vars
    PROVE  SourceKept'
<1> SUFFICES ASSUME spent'["user"] = 0, Operation' \in {"copy", "hardlink"}
             PROVE  disk'["source"] = Original /\ content'[Original] = "media"
  BY DEF SourceKept
<1>1. /\ TypeOK /\ spent \in [Incidents -> Nat] /\ "user" \in Incidents
      /\ disk \in [Paths -> Inodes \cup {Absent}] /\ content \in [Inodes -> Data]
      /\ \A s \in Runners : StepFits(run[s])
  BY DEF Base, TypeOK, Incidents
<1>2. spent["user"] = 0 /\ Operation \in {"copy", "hardlink"}
  BY <1>1, WorldSteps DEF Operation
<1>3. disk["source"] = Original /\ content[Original] = "media" /\ disk["source"] # Absent
  BY <1>2, InodesAre DEF SourceKept
<1>4. CASE UNCHANGED <<disk, content>>
  BY <1>3, <1>4
<1>5. ASSUME NEW r \in Runners, CallStep(r) \/ FailStep(r)
      PROVE  disk'["source"] = Original /\ content'[Original] = "media"
  <2>1. StatusFits(run[r]) /\ KindFits(run[r]) /\ StepFits(run[r])
    BY <1>1 DEF StepFits
  <2>2. run[r].at \notin RemovalCalls
    BY <1>2, <2>1 DEF KindFits, StepFits, Moves
  <2>3. CASE Copy(r)
    <3>1. \/ UNCHANGED <<disk, content>>
          \/ /\ CanCreate("copy") /\ disk' = [disk EXCEPT !["temp"] = Fresh("copy")]
             /\ content' = [content EXCEPT ![Fresh("copy")] = Planned.data]
      BY <2>3 DEF Copy
    <3> QED  BY <1>1, <1>3, <3>1, FreshIs, PathsAre
  <2>4. CASE NfoCreate(r)
    <3>1. \/ UNCHANGED <<disk, content>>
          \/ /\ CanCreate("nfo") /\ disk' = [disk EXCEPT !["nfo-temp"] = Fresh("nfo")]
             /\ content' = [content EXCEPT ![Fresh("nfo")] = "nfo"]
      BY <2>4 DEF NfoCreate
    <3> QED  BY <1>1, <1>3, <3>1, FreshIs, PathsAre
  <2>5. CASE Rename(r) \/ RenameUnsynced(r)
    <3>1. UNCHANGED content /\ (UNCHANGED disk \/ disk' = NamedTarget) /\ run[r].at = "rename"
      BY <2>5 DEF Rename, RenameUnsynced, At
    <3>2. Operation = "hardlink"
      BY <1>2, <2>1, <3>1 DEF StepFits, PlanFits
    <3> QED  BY <1>1, <1>3, <3>1, <3>2, PathsAre DEF NamedTarget
  <2>6. CASE Publish(r) \/ CopyFails(r) \/ CreateManifest(r) \/ PublishManifest(r) \/ ManifestFails(r)
             \/ NfoPublish(r) \/ NfoWriteFails(r)
    <3>1. /\ UNCHANGED content
          /\ \/ UNCHANGED disk \/ disk' = Cleaned \/ disk' = Unlinked("nfo-temp")
             \/ disk' = Renamed("temp", "target") \/ disk' = Renamed("temp", "manifest")
             \/ disk' = Renamed("nfo-temp", "nfo") \/ disk' = [disk EXCEPT !["temp"] = Manifest]
      BY <2>6 DEF Publish, CopyFails, CreateManifest, PublishManifest, ManifestFails, NfoPublish, NfoWriteFails
    <3> QED  BY <1>1, <1>3, <3>1, PathsAre DEF Cleaned, Unlinked, Renamed
  <2>7. CASE Confirm(r) \/ Undone(r) \/ CatalogFails(r)
    BY <1>3, <2>7 DEF Confirm, Undone, CatalogFails, files
  <2>8. CASE RemovalRename(r) \/ RemovalCheck(r) \/ RemovalUnlink(r) \/ RemovalUnsynced(r)
    BY <2>2, <2>8 DEF RemovalRename, RemovalCheck, RemovalUnlink, RemovalUnsynced, At, RemovalCalls
  <2> QED  BY <1>5, <2>3, <2>4, <2>5, <2>6, <2>7, <2>8 DEF CallStep, FailStep
<1>6. ASSUME NEW a \in Actors, Compensate(a) \/ CompRemove(a, "failed") \/ CompRestore(a, "failed")
      PROVE  disk'["source"] = Original /\ content'[Original] = "media"
  BY <1>1, <1>3, <1>6, CompensateKeepsSource, CompensateTyped
<1>7. ASSUME NEW r \in Runners, StartStage(r) \/ RunStep(r) \/ RunFails(r)
      PROVE  disk'["source"] = Original /\ content'[Original] = "media"
  <2>1. CASE Calls(r) \/ RunFails(r)
    BY <1>5, <2>1 DEF Calls, CallStep, RunFails, FailStep
  <2>2. CASE Works(r)
    BY <1>6, <2>2 DEF Works, Actors
  <2> QED  BY <1>4, <1>7, <2>1, <2>2 DEF StartStage, RunStep, Reads, Records, Commit, files
<1>8. ASSUME NEW c \in Callers, Ask(c) \/ RequestStep(c)
      PROVE  disk'["source"] = Original /\ content'[Original] = "media"
  <2>1. CASE Requested(c)
    BY <1>1, <1>4, <2>1, RequestsTyped
  <2>2. CASE Works(c)
    BY <1>6, <2>2 DEF Works, Actors
  <2> QED  BY <1>4, <1>8, <2>1, <2>2 DEF Ask, RequestStep, files
<1>9. ASSUME NEW a \in Actors, WorkFails(a)
      PROVE  disk'["source"] = Original /\ content'[Original] = "media"
  BY <1>6, <1>9 DEF WorkFails
<1>10. ~Users
  BY <1>1, <1>2 DEF Users, Spend
<1> QED  BY <1>4, <1>7, <1>8, <1>9, <1>10 DEF Next, vars, files, Crash, LoseLease, RetryRequest

\* No more happens than the scenario allows.
Limited == \A i \in Incidents : spent[i] <= limits[i]

LEMMA LimitedNext ==
    ASSUME TypeOK, Limited, [Next]_vars
    PROVE  Limited'
<1>1. spent \in [Incidents -> Nat] /\ limits \in [Incidents -> Nat] /\ limits' = limits
  BY WorldSteps DEF TypeOK
<1>2. ASSUME NEW what \in Incidents, Spend(what) PROVE Limited'
  BY <1>1, <1>2 DEF Spend, Limited
<1>3. CASE UNCHANGED spent
  BY <1>1, <1>3 DEF Limited
<1>4. (\E what \in Incidents : Spend(what)) \/ UNCHANGED spent
  <2>1. ASSUME NEW r \in Runners, StartStage(r) \/ RunStep(r) PROVE UNCHANGED spent
    BY <2>1 DEF StartStage, RunStep, Reads, Records, Calls, Works, Commit, world
  <2>2. ASSUME NEW c \in Callers, RequestStep(c) PROVE UNCHANGED spent
    BY <2>2 DEF RequestStep, Requested, Works, world
  <2> QED  BY <2>1, <2>2 DEF Next, vars, world, RunFails, WorkFails, Ask, Crash, LoseLease,
              RetryRequest, Users, Incidents
<1> QED  BY <1>2, <1>3, <1>4

Inductive == Base /\ Temporaries /\ Limited /\ SourceKept /\ (Undisturbed => QuietWorld)

LEMMA InductiveInit == Init => Inductive
<1> SUFFICES ASSUME Init PROVE Inductive
  OBVIOUS
<1>1. TypeOK
  BY BaseInit DEF Base
<1>2. Limited
  BY <1>1 DEF Init, Limited, TypeOK
<1>3. SourceKept
  <2>1. disk["source"] = Original /\ content[Original] = "media"
    <3>1. disk = [p \in Paths |-> IF p = "source" THEN Original ELSE Absent]
      BY DEF Init, FilesInit
    <3>2. content[Original] = "media"
      BY QuietInit DEF QuietWorld, QuietFiles, MediaInodes
    <3> QED  BY <3>1, <3>2, PathsAre
  <2> QED  BY <2>1 DEF SourceKept
<1> QED  BY <1>2, <1>3, BaseInit, TempsInit, QuietInit DEF Inductive

LEMMA InductiveHolds == Spec => []Inductive
<1>1. Init => Inductive
  BY InductiveInit
<1>2. Inductive /\ [Next]_vars => Inductive'
  <2> SUFFICES ASSUME Inductive, [Next]_vars PROVE Inductive'
    OBVIOUS
  <2> QED  BY BaseNext, TempsNext, LimitedNext, SourceKeptNext, QuietNext DEF Inductive, Base
<1> QED  BY <1>1, <1>2, PTL DEF Spec

LEMMA QuietFacts ==
    ASSUME TypeOK, QuietFiles
    PROVE  /\ disk["target"] # Absent => Facts("target").data = "media"
           /\ disk["source"] # Absent => Facts("source") = Planned
           /\ disk["source"] # Absent \/ disk["target"] # Absent
BY InodesAre, PathsAre DEF QuietFiles, Facts, Planned, TypeOK, MediaInodes

\* Rows, runs, requests and files keep their shapes, and until a user or a rollback
\* interferes a row that is verified tells the truth about the files: the file of the
\* operation is the media and lies at its target, a removed source is gone, an NFO is the one that was
\* written or found, and what is copied or linked still has its source.  Crashes, faults and
\* the runs of lost leases are of no matter.
THEOREM ExecutionCorrect == Spec => []ExecutionInvariant
<1>1. Inductive => ExecutionInvariant
  <2> SUFFICES ASSUME Inductive PROVE ExecutionInvariant
    OBVIOUS
  <2>1. TypeOK
    BY DEF Inductive, Base
  <2>2. JournalMatchesDisk
    <3> SUFFICES ASSUME Undisturbed, NEW k \in JournalKinds, journal[k].status = "verified"
                 PROVE  /\ Holds(k, journal[k])
                        /\ k = "file" => journal[k].applied.data = "media"
                        /\ k = "file" /\ Operation \in {"copy", "hardlink"} => Facts("source") = Planned
      BY DEF JournalMatchesDisk, Undisturbed
    <3>1. QuietFiles /\ RowHolds(k, journal[k])
      BY DEF Inductive, QuietWorld
    <3> QED  BY <2>1, <3>1, QuietFacts, InodesAre DEF RowHolds, Holds, JournalKinds, QuietFiles
  <2> QED  BY <2>1, <2>2 DEF ExecutionInvariant
<1> QED  BY <1>1, InductiveHolds, PTL

\* Without users the media keeps a name that is not a temporary file, and one of its names
\* is visible, also while a run is under way: when nothing is taken back, and for copies and hard
\* links however often they are.
THEOREM MediaKept ==
    Spec /\ (limits["rollback"] = 0 \/ Operation \in {"copy", "hardlink"}) => []MediaSurvives
<1> DEFINE Kept == limits["rollback"] = 0 \/ Operation \in {"copy", "hardlink"}
<1>1. Inductive /\ Kept /\ [Next]_vars => Kept'
  BY WorldSteps DEF Inductive, Base, Operation
<1>2. Inductive /\ Kept => MediaSurvives
  <2> SUFFICES ASSUME Inductive, Kept, spent["user"] = 0 PROVE InLibrary
    <3>1. {"source", "target"} \subseteq Paths \ {"temp"}
      BY DEF Paths, Visible
    <3> QED  BY <3>1 DEF MediaSurvives, InLibrary
  <2>1. TypeOK /\ SourceKept
    BY DEF Inductive, Base
  <2>2. CASE Operation \in {"copy", "hardlink"}
    BY <2>1, <2>2, InodesAre DEF SourceKept, InLibrary, Facts
  <2>3. CASE limits["rollback"] = 0
    <3>1. spent["rollback"] = 0
      BY <2>1, <2>3 DEF Inductive, Limited, TypeOK, Incidents
    <3>2. QuietFiles
      BY <3>1 DEF Inductive, Undisturbed, QuietWorld
    <3>3. \E p \in {"source", "target"} : disk[p] # Absent /\ Facts(p).data = "media"
      BY <2>1, <3>2, QuietFacts DEF Planned
    <3> QED  BY <3>3 DEF InLibrary
  <2> QED  BY <2>2, <2>3
<1> HIDE DEF Kept
<1>3. Init => Inductive
  BY InductiveInit
<1>4. Spec /\ Kept => []MediaSurvives
  BY <1>1, <1>2, <1>3, InductiveHolds, PTL DEF Spec
<1> QED  BY <1>4 DEF Kept

-----------------------------------------------------------------------------
(***************************************************************************)
(* What users wrote.                                                       *)
(***************************************************************************)

\* What the property needs: a hard link is taken for the file that lies where it was made, a copy
\* by its contents, and of three runs one can hide a user's file under the name another removes.
Careful ==
    /\ Operation = "hardlink" => limits["user"] = 0
    /\ Operation = "copy" => limits["user"] <= 1
    /\ Operation \in Moves => limits["lost"] <= 1

\* A file has one name, if it is not hard linked.  (A manifest may be written again.)
OneName ==
    Operation # "hardlink" =>
        \A p, q \in Paths : disk[p] = disk[q] /\ disk[p] \notin {Absent, Manifest} => p = q

ManifestApart ==
    /\ content[Manifest] = "manifest"
    /\ disk["manifest"] \in {Absent, Manifest}
    /\ \A p \in Paths \ {"temp", "manifest"} : disk[p] # Manifest

\* The user's data are there because a user acted.
Theirs(p) == Facts(p).data = "other"
Authored ==
    /\ spent["user"] = 0 => \A p \in Paths : ~Theirs(p)
    /\ Operation = "copy" => \A p, q \in Paths : Theirs(p) /\ Theirs(q) => p = q

TempsOurs == ~Theirs("temp") /\ ~Theirs("nfo-temp")

\* A hidden name has one owner.
Holding(a) == comp[a].at \in {"verify", "settle"}
HiddenHeld ==
    \A a \in Actors : Holding(a) =>
        /\ disk[Hidden(comp[a].path)] # Absent
        /\ \A b \in Actors : Holding(b) /\ comp[b].path = comp[a].path => b = a

\* What is removed when it is taken back is not the user's.
CompOurs ==
    \A a \in Actors : ~comp[a].restores =>
        /\ comp[a].facts.data # "other"
        /\ comp[a].at = "settle" => ~Theirs(Hidden(comp[a].path))

RowOurs(kind, row) ==
    /\ kind = "file" /\ Operation \notin Moves => row.applied.data # "other"
    /\ kind = "nfo" /\ row.outcome = "generated" => row.applied.data # "other"

RunOurs(s) ==
    /\ RowOurs(s.on, s.row)
    /\ s.at = "mark" /\ s.on = "file" /\ Operation \notin Moves => s.facts.data # "other"
    /\ s.at = "mark" /\ s.on = "nfo" /\ ~s.row.preexisting => s.facts.data # "other"

Ours ==
    /\ \A k \in JournalKinds : RowOurs(k, journal[k])
    /\ \A r \in Runners : RunOurs(run[r])
    /\ \A c \in Callers : RowOurs("file", undo[c].file) /\ RowOurs("nfo", undo[c].nfo)

\* Runs that lost their lease and one that has it.
Active(r) == run[r].at # "idle"
Overlap ==
    /\ spent["lost"] = 0 => \A r \in Runners : Active(r) => r = holder
    /\ spent["lost"] <= 1 =>
          \E x \in Runners \cup {NoOne} : \A r \in Runners : Active(r) => r \in {holder, x}

\* What a run is about to remove is the planned source or nothing, and then nothing will be.
Gone == ~Linked(Original) /\ \A s \in Runners : run[s].at # "removal-rename"
RemovalOurs ==
    \A r \in Runners : run[r].at = "removal-unlink" =>
        Facts("removal") = Planned \/ (disk["removal"] = Absent /\ Gone)

UserWorld ==
    /\ OneName /\ ManifestApart /\ Authored /\ TempsOurs
    /\ HiddenHeld /\ CompOurs /\ Ours /\ Overlap /\ RemovalOurs

FilesOurs == OneName /\ ManifestApart /\ Authored /\ TempsOurs

\* No name of a user's file is lost, and none is changed.
Kept == \A i \in Inodes : Linked(i) /\ content[i] = "other" => Linked(i)' /\ content'[i] = "other"

\* What is at a name that is touched neither by a step nor through another name.
Untouched(p) == disk'[p] = disk[p] /\ Facts(p)' = Facts(p)

\* The planned source comes from nowhere.
NoOriginal == Linked(Original)' => Linked(Original)

LEMMA TheirsIs ==
    ASSUME TypeOK, NEW p \in Paths
    PROVE  Theirs(p) <=> disk[p] # Absent /\ content[disk[p]] = "other"
BY DEF Theirs, Facts, NoFacts

LEMMA FactsMoved ==
    ASSUME TypeOK, NEW p \in Paths, NEW q \in Paths, disk'[q] = disk[p], UNCHANGED content
    PROVE  /\ Facts(q)' = Facts(p) /\ Theirs(q)' = Theirs(p)
BY DEF Theirs, Facts

LEMMA RenamedOurs ==
    ASSUME TypeOK, FilesOurs, NEW p \in Paths, NEW q \in Paths \ {"temp", "nfo-temp", p}, disk[q] = Absent,
           disk[p] # Manifest \/ q = "manifest", q = "manifest" => disk[p] = Manifest,
           disk' = Renamed(p, q), UNCHANGED <<content, plan>>, spent'["user"] = spent["user"]
    PROVE  FilesOurs' /\ Kept /\ NoOriginal /\ (\A n \in Paths \ {p, q} : Untouched(n))
           /\ Facts(q)' = Facts(p) /\ disk'[p] = Absent
<1>1. /\ disk \in [Paths -> Inodes \cup {Absent}]
      /\ disk'[p] = Absent /\ disk'[q] = disk[p] /\ \A n \in Paths \ {p, q} : disk'[n] = disk[n]
      /\ "temp" \in Paths /\ "nfo-temp" \in Paths /\ "manifest" \in Paths /\ Operation' = Operation
      /\ Absent # Manifest
  BY WorldIs, RenamedTyped, PathsAre, InodesAre DEF FilesTyped, Operation
<1>2. /\ \A n \in Paths \ {p, q} : Untouched(n) /\ Theirs(n)' = Theirs(n)
      /\ Facts(q)' = Facts(p) /\ Theirs(q)' = Theirs(p) /\ ~Theirs(p)'
  BY <1>1, FactsMoved, <1>1 DEF Untouched, Theirs, Facts, NoFacts
<1>3. OneName'
  BY <1>1, InodesAre DEF FilesOurs, OneName
<1>4. ManifestApart'
  BY <1>1 DEF FilesOurs, ManifestApart
<1>5. Authored'
  BY <1>1, <1>2 DEF FilesOurs, Authored
<1>6. TempsOurs'
  BY <1>1, <1>2 DEF FilesOurs, TempsOurs
<1>7. \A i \in Inodes : Linked(i)' <=> Linked(i)
  BY <1>1, InodesAre DEF Linked
<1>8. Kept /\ NoOriginal
  BY <1>7, InodesAre DEF Kept, NoOriginal
<1> QED  BY <1>1, <1>2, <1>3, <1>4, <1>5, <1>6, <1>8 DEF FilesOurs

LEMMA UnlinkedOurs ==
    ASSUME TypeOK, FilesOurs, NEW p \in Paths, ~Theirs(p), disk' = Unlinked(p), UNCHANGED <<content, plan>>,
           spent'["user"] = spent["user"]
    PROVE  FilesOurs' /\ Kept /\ NoOriginal /\ (\A n \in Paths \ {p} : Untouched(n)) /\ disk'[p] = Absent
<1>1. /\ disk \in [Paths -> Inodes \cup {Absent}]
      /\ disk'[p] = Absent /\ \A n \in Paths \ {p} : disk'[n] = disk[n]
      /\ "temp" \in Paths /\ "nfo-temp" \in Paths /\ "manifest" \in Paths /\ Operation' = Operation
      /\ Absent # Manifest
  BY WorldIs, RenamedTyped, PathsAre, InodesAre DEF FilesTyped, Operation
<1>2. (\A n \in Paths \ {p} : Untouched(n) /\ Theirs(n)' = Theirs(n)) /\ ~Theirs(p)'
  BY <1>1, FactsMoved, <1>1 DEF Untouched, Theirs, Facts, NoFacts
<1>3. OneName'
  BY <1>1, InodesAre DEF FilesOurs, OneName
<1>4. ManifestApart'
  BY <1>1 DEF FilesOurs, ManifestApart
<1>5. Authored'
  BY <1>1, <1>2 DEF FilesOurs, Authored
<1>6. TempsOurs'
  BY <1>1, <1>2 DEF FilesOurs, TempsOurs
<1>7. Kept
  BY <1>1, TheirsIs, InodesAre DEF Kept, Linked
<1>8. NoOriginal
  BY <1>1, InodesAre DEF NoOriginal, Linked
<1> QED  BY <1>1, <1>2, <1>3, <1>4, <1>5, <1>6, <1>7, <1>8 DEF FilesOurs

LEMMA CreatedOurs ==
    ASSUME TypeOK, FilesOurs, NEW p \in {"temp", "nfo-temp"}, disk[p] = Absent,
           NEW kind \in {"copy", "nfo"}, CanCreate(kind), NEW data \in {"media", "nfo"},
           disk' = [disk EXCEPT ![p] = Fresh(kind)], content' = [content EXCEPT ![Fresh(kind)] = data],
           UNCHANGED plan, spent'["user"] = spent["user"]
    PROVE  FilesOurs' /\ Kept /\ NoOriginal /\ (\A n \in Paths \ {p} : Untouched(n))
<1> DEFINE i == Fresh(kind)
<1>0. kind \in {"user", "copy", "nfo"} /\ p \in Paths
  BY PathsAre
<1>1. /\ i \in Inodes /\ ~Linked(i) /\ i # Absent /\ i # Original /\ i # Manifest
  BY <1>0, FreshIs
<1> HIDE DEF i
<1>2. /\ disk \in [Paths -> Inodes \cup {Absent}] /\ content \in [Inodes -> Data]
      /\ disk'[p] = i /\ \A n \in Paths \ {p} : disk'[n] = disk[n] /\ disk[n] # i
      /\ content'[i] = data /\ \A j \in Inodes \ {i} : content'[j] = content[j]
      /\ "temp" \in Paths /\ "nfo-temp" \in Paths /\ "manifest" \in Paths /\ Operation' = Operation
      /\ Absent # Manifest /\ Manifest \in Inodes
  BY <1>0, <1>1, WorldIs, PathsAre, InodesAre DEF FilesTyped, Operation, Linked, i
<1>3. (\A n \in Paths \ {p} : Untouched(n) /\ Theirs(n)' = Theirs(n)) /\ ~Theirs(p)'
  BY <1>0, <1>1, <1>2 DEF Untouched, Theirs, Facts, NoFacts
<1>4. OneName'
  BY <1>0, <1>1, <1>2 DEF FilesOurs, OneName
<1>5. ManifestApart'
  BY <1>0, <1>1, <1>2 DEF FilesOurs, ManifestApart
<1>6. Authored'
  BY <1>2, <1>3 DEF FilesOurs, Authored
<1>7. TempsOurs'
  BY <1>2, <1>3 DEF FilesOurs, TempsOurs
<1>8. Kept
  BY <1>0, <1>1, <1>2, InodesAre DEF Kept, Linked
<1>9. NoOriginal
  BY <1>0, <1>1, <1>2, InodesAre DEF NoOriginal, Linked
<1> QED  BY <1>2, <1>3, <1>4, <1>5, <1>6, <1>7, <1>8, <1>9 DEF FilesOurs

LEMMA ManifestOurs ==
    ASSUME TypeOK, FilesOurs, disk["temp"] = Absent, disk' = [disk EXCEPT !["temp"] = Manifest],
           UNCHANGED <<content, plan>>, spent'["user"] = spent["user"]
    PROVE  FilesOurs' /\ Kept /\ NoOriginal /\ (\A n \in Paths \ {"temp"} : Untouched(n))
<1>1. /\ disk \in [Paths -> Inodes \cup {Absent}]
      /\ disk'["temp"] = Manifest /\ \A n \in Paths \ {"temp"} : disk'[n] = disk[n]
      /\ "temp" \in Paths /\ "nfo-temp" \in Paths /\ "manifest" \in Paths /\ Operation' = Operation
      /\ Absent # Manifest /\ Manifest # Original /\ Manifest \in Inodes
  BY WorldIs, PathsAre, InodesAre DEF Operation
<1>2. (\A n \in Paths \ {"temp"} : Untouched(n) /\ Theirs(n)' = Theirs(n)) /\ ~Theirs("temp")'
  BY <1>1 DEF Untouched, Theirs, Facts, NoFacts, FilesOurs, ManifestApart
<1>3. OneName'
  BY <1>1 DEF FilesOurs, OneName
<1>4. ManifestApart'
  BY <1>1 DEF FilesOurs, ManifestApart
<1>5. Authored'
  BY <1>1, <1>2 DEF FilesOurs, Authored
<1>6. TempsOurs'
  BY <1>1, <1>2 DEF FilesOurs, TempsOurs
<1>7. Kept
  BY <1>1, InodesAre DEF Kept, Linked
<1>8. NoOriginal
  BY <1>1, InodesAre DEF NoOriginal, Linked
<1> QED  BY <1>1, <1>2, <1>3, <1>4, <1>5, <1>6, <1>7, <1>8 DEF FilesOurs

LEMMA LinkedOurs ==
    ASSUME TypeOK, FilesOurs, Operation = "hardlink", spent["user"] = 0, disk["target"] = Absent,
           disk' = [disk EXCEPT !["target"] = disk["source"]],
           UNCHANGED <<content, plan>>, spent'["user"] = spent["user"]
    PROVE  FilesOurs' /\ Kept /\ NoOriginal /\ (\A n \in Paths \ {"target"} : Untouched(n))
<1>1. /\ disk \in [Paths -> Inodes \cup {Absent}]
      /\ disk'["target"] = disk["source"] /\ \A n \in Paths \ {"target"} : disk'[n] = disk[n]
      /\ "temp" \in Paths /\ "nfo-temp" \in Paths /\ "manifest" \in Paths /\ Operation' = "hardlink"
      /\ "source" \in Paths /\ "target" \in Paths
      /\ Absent # Manifest
  BY WorldIs, PathsAre, InodesAre DEF Operation
<1>2. /\ \A n \in Paths \ {"target"} : Untouched(n) /\ Theirs(n)' = Theirs(n)
      /\ Theirs("target")' = Theirs("source")
  BY <1>1, FactsMoved DEF Untouched, Theirs, Facts, NoFacts
<1>3. OneName' /\ ManifestApart'
  BY <1>1 DEF FilesOurs, OneName, ManifestApart
<1>5. Authored'
  BY <1>1, <1>2 DEF FilesOurs, Authored
<1>6. TempsOurs'
  BY <1>1, <1>2 DEF FilesOurs, TempsOurs
<1>7. Kept
  BY <1>1, InodesAre DEF Kept, Linked
<1>8. NoOriginal
  BY <1>1, InodesAre DEF NoOriginal, Linked
<1> QED  BY <1>1, <1>2, <1>3, <1>5, <1>6, <1>7, <1>8 DEF FilesOurs

\* A file is put back where it came from, and its manifest goes.
LEMMA RestoredOurs ==
    ASSUME TypeOK, FilesOurs, NEW p \in {"rollback", "nfo-rollback"}, disk[p] # Absent,
           disk["source"] = Absent, NEW m \in Inodes \cup {Absent}, m \in {disk["manifest"], Absent},
           disk' = [Renamed(p, "source") EXCEPT !["manifest"] = m],
           UNCHANGED <<content, plan>>, spent'["user"] = spent["user"]
    PROVE  FilesOurs' /\ Kept /\ NoOriginal /\ disk'[p] = Absent
           /\ (\A n \in Paths \ {p, "source", "manifest"} : Untouched(n))
<1>1. /\ disk \in [Paths -> Inodes \cup {Absent}]
      /\ disk'[p] = Absent /\ disk'["source"] = disk[p] /\ disk'["manifest"] = m
      /\ \A n \in Paths \ {p, "source", "manifest"} : disk'[n] = disk[n]
      /\ "temp" \in Paths /\ "nfo-temp" \in Paths /\ "manifest" \in Paths /\ Operation' = Operation
      /\ "source" \in Paths /\ p \in Paths /\ p # "source" /\ p # "manifest"
      /\ Absent # Manifest /\ Manifest # Original
  <2>1. /\ disk \in [Paths -> Inodes \cup {Absent}] /\ p \in Paths /\ "source" \in Paths
        /\ "manifest" \in Paths /\ p # "source" /\ p # "manifest"
    BY WorldIs, PathsAre
  <2>2. /\ Renamed(p, "source") \in [Paths -> Inodes \cup {Absent}]
        /\ Renamed(p, "source")[p] = Absent /\ Renamed(p, "source")["source"] = disk[p]
        /\ \A n \in Paths \ {p, "source"} : Renamed(p, "source")[n] = disk[n]
    BY <2>1, WorldIs, RenamedTyped DEF FilesTyped
  <2>3. /\ disk'[p] = Absent /\ disk'["source"] = disk[p] /\ disk'["manifest"] = m
        /\ \A n \in Paths \ {p, "source", "manifest"} : disk'[n] = disk[n]
    BY <2>1, <2>2
  <2> QED  BY <2>1, <2>3, PathsAre, InodesAre DEF Operation
<1>2. /\ \A n \in Paths \ {p, "source", "manifest"} : Untouched(n) /\ Theirs(n)' = Theirs(n)
      /\ Theirs("source")' = Theirs(p) /\ ~Theirs(p)' /\ ~Theirs("manifest") /\ ~Theirs("manifest")'
  <2>1. \A n \in Paths \ {p, "source", "manifest"} : Untouched(n) /\ Theirs(n)' = Theirs(n)
    BY <1>1, FactsMoved DEF Untouched
  <2>2. Theirs("source")' = Theirs(p) /\ ~Theirs(p)'
    BY <1>1, FactsMoved, <1>1 DEF Theirs, Facts, NoFacts
  <2>3. ~Theirs("manifest") /\ ~Theirs("manifest")'
    BY <1>1 DEF Theirs, Facts, NoFacts, FilesOurs, ManifestApart
  <2> QED  BY <2>1, <2>2, <2>3
<1>3. OneName'
  BY <1>1 DEF FilesOurs, OneName, ManifestApart
<1>4. ManifestApart'
  BY <1>1 DEF FilesOurs, ManifestApart
<1>5. Authored'
  BY <1>1, <1>2 DEF FilesOurs, Authored
<1>6. TempsOurs'
  BY <1>1, <1>2 DEF FilesOurs, TempsOurs
<1>7. \A i \in Inodes \ {Manifest} : Linked(i)' <=> Linked(i)
  BY <1>1, InodesAre DEF Linked, FilesOurs, ManifestApart
<1>8. Kept /\ NoOriginal
  BY <1>7, InodesAre DEF Kept, NoOriginal, FilesOurs, ManifestApart
<1> QED  BY <1>1, <1>2, <1>3, <1>4, <1>5, <1>6, <1>8 DEF FilesOurs

LEMMA NothingOurs ==
    ASSUME TypeOK, FilesOurs, UNCHANGED <<disk, content, plan>>, spent'["user"] = spent["user"]
    PROVE  FilesOurs' /\ Kept /\ NoOriginal /\ \A n \in Paths : Untouched(n)
<1>1. Operation' = Operation
  BY DEF Operation
<1>2. \A n \in Paths : Untouched(n) /\ Theirs(n)' = Theirs(n)
  BY DEF Untouched, Theirs, Facts
<1>3. OneName' /\ ManifestApart'
  BY <1>1 DEF FilesOurs, OneName, ManifestApart
<1>4. Authored' /\ TempsOurs'
  BY <1>1, <1>2, PathsAre DEF FilesOurs, Authored, TempsOurs
<1>5. Kept /\ NoOriginal
  BY DEF Kept, NoOriginal, Linked
<1> QED  BY <1>2, <1>3, <1>4, <1>5 DEF FilesOurs

\* One step of one owner, the hidden names of the others are left alone.
LEMMA HeldKept ==
    ASSUME TypeOK, HiddenHeld, CompOurs, NEW a \in Actors,
           \A b \in Actors : b # a => comp'[b] = comp[b],
           comp'[a].path = comp[a].path, comp'[a].facts = comp[a].facts, comp'[a].restores = comp[a].restores,
           NEW hidden \in Paths, hidden = Hidden(comp[a].path),
           \A h \in {"rollback", "nfo-rollback"} \ {hidden} : Untouched(h),
           Untouched(hidden) \/ Holding(a) \/ disk[hidden] = Absent,
           comp'[a].at \in {"verify", "settle"} =>
              disk'[hidden] # Absent /\ (Holding(a) \/ disk[hidden] = Absent),
           comp'[a].at = "settle" /\ ~comp[a].restores => ~Theirs(hidden)'
    PROVE  HiddenHeld' /\ CompOurs'
<1>1. \A b \in Actors : /\ comp[b].path \in {"target", "nfo"}
                        /\ Hidden(comp[b].path) \in {"rollback", "nfo-rollback"}
                        /\ Hidden(comp[b].path) = hidden <=> comp[b].path = comp[a].path
  BY HiddenIs
<1>2. \A b \in Actors : Holding(b) /\ b # a => Untouched(Hidden(comp[b].path))
  <2> SUFFICES ASSUME NEW b \in Actors, Holding(b), b # a PROVE Untouched(Hidden(comp[b].path))
    OBVIOUS
  <2>1. CASE Hidden(comp[b].path) # hidden
    BY <2>1, <1>1
  <2>2. CASE Hidden(comp[b].path) = hidden
    BY <2>2, <1>1 DEF HiddenHeld
  <2> QED  BY <2>1, <2>2
<1>3. \A b \in Actors : b # a => (Holding(b)' <=> Holding(b)) /\ (comp'[b].at = "settle" => Holding(b))
  BY DEF Holding
<1>4. HiddenHeld'
  <2>1. \A b \in Actors : Holding(b)' => disk'[Hidden(comp'[b].path)] # Absent
    <3> SUFFICES ASSUME NEW b \in Actors, Holding(b)' PROVE disk'[Hidden(comp'[b].path)] # Absent
      OBVIOUS
    <3>1. CASE b = a
      BY <3>1 DEF Holding
    <3>2. CASE b # a
      BY <3>2, <1>2, <1>3 DEF HiddenHeld, Untouched
    <3> QED  BY <3>1, <3>2
  <2>2. \A b, d \in Actors : Holding(b)' /\ Holding(d)' /\ comp'[b].path = comp'[d].path => b = d
    <3> SUFFICES ASSUME NEW b \in Actors, NEW d \in Actors, Holding(b)', Holding(d)',
                        comp'[b].path = comp'[d].path, b # d
                 PROVE  FALSE
      OBVIOUS
    <3>1. CASE b # a /\ d # a
      BY <3>1, <1>3 DEF HiddenHeld
    <3>2. ASSUME NEW e \in Actors, e # a, Holding(e)', Holding(a)', comp'[e].path = comp'[a].path
          PROVE  FALSE
      <4>1. Holding(e) /\ comp[e].path = comp[a].path
        BY <3>2, <1>3
      <4>2. Holding(a) \/ disk[hidden] = Absent
        BY <3>2 DEF Holding
      <4> QED  BY <3>2, <4>1, <4>2 DEF HiddenHeld
    <3> QED  BY <3>1, <3>2
  <2> QED  BY <2>1, <2>2 DEF HiddenHeld
<1>5. CompOurs'
  <2> SUFFICES ASSUME NEW b \in Actors, ~comp'[b].restores
               PROVE  /\ comp'[b].facts.data # "other"
                      /\ comp'[b].at = "settle" => ~Theirs(Hidden(comp[b].path))'
    BY DEF CompOurs
  <2>1. CASE b = a
    BY <2>1 DEF CompOurs
  <2>2. CASE b # a
    <3>1. comp'[b] = comp[b] /\ comp[b].facts.data # "other"
      BY <2>2 DEF CompOurs
    <3>2. ASSUME comp'[b].at = "settle" PROVE ~Theirs(Hidden(comp[b].path))'
      BY <2>2, <3>1, <3>2, <1>2, <1>3 DEF CompOurs, Untouched, Theirs
    <3> QED  BY <3>1, <3>2
  <2> QED  BY <2>1, <2>2
<1> QED  BY <1>4, <1>5

LEMMA CompensateOurs ==
    ASSUME TypeOK, FilesOurs, HiddenHeld, CompOurs, NEW a \in Actors,
           Compensate(a) \/ CompRemove(a, "failed") \/ CompRestore(a, "failed"),
           UNCHANGED plan, spent'["user"] = spent["user"]
    PROVE  FilesOurs' /\ Kept /\ NoOriginal /\ HiddenHeld' /\ CompOurs' /\ Untouched("removal")
<1>0. PICK path \in {"target", "nfo"} : path = comp[a].path
  BY HiddenIs
<1>h. PICK hidden \in {"rollback", "nfo-rollback"} : hidden = Hidden(path)
  BY DEF Hidden
<1> DEFINE NextFiles == /\ FilesOurs' /\ Kept /\ NoOriginal /\ Untouched("removal")
                        /\ \A h \in {"rollback", "nfo-rollback"} \ {hidden} : Untouched(h)
           NextComp == /\ Untouched(hidden) \/ Holding(a) \/ disk[hidden] = Absent
                       /\ comp'[a].at \in {"verify", "settle"} =>
                             disk'[hidden] # Absent /\ (Holding(a) \/ disk[hidden] = Absent)
                       /\ comp'[a].at = "settle" /\ ~comp[a].restores => ~Theirs(hidden)'
<1>1. /\ path \in {"target", "nfo"} /\ path \in Paths /\ hidden \in {"rollback", "nfo-rollback"}
      /\ hidden \in Paths /\ disk \in [Paths -> Inodes \cup {Absent}] /\ content \in [Inodes -> Data]
      /\ comp \in [Actors -> Compensations] /\ FilesTyped
  BY PathsAre DEF TypeOK, FilesTyped
<1>2. disk[path] # Manifest /\ disk[hidden] # Manifest
  BY <1>1 DEF FilesOurs, ManifestApart
<1> SUFFICES NextFiles /\ NextComp
  <2>1. /\ \A b \in Actors : b # a => comp'[b] = comp[b]
        /\ comp'[a].path = comp[a].path /\ comp'[a].facts = comp[a].facts
        /\ comp'[a].restores = comp[a].restores
    BY CompensateTyped
  <2> QED  BY <1>0, <1>h, <1>1, <2>1, HeldKept
<1>3. ASSUME UNCHANGED <<disk, content>> PROVE NextFiles /\ Untouched(hidden)
  BY <1>1, <1>3, NothingOurs, PathsAre
<1>4. ASSUME disk' = GivenBack(path), UNCHANGED content PROVE NextFiles
  <2>1. CASE GivenBack(path) = disk
    BY <1>3, <1>4, <2>1
  <2>2. CASE disk[path] = Absent /\ GivenBack(path) = Renamed(hidden, path)
    <3>1. path \in Paths \ {"temp", "nfo-temp", hidden} /\ path # "manifest"
      BY <1>1
    <3>2. /\ FilesOurs' /\ Kept /\ NoOriginal
          /\ \A n \in Paths \ {hidden, path} : Untouched(n)
      BY <1>1, <1>2, <1>4, <2>2, <3>1, RenamedOurs
    <3> QED  BY <1>1, <3>2, PathsAre
  <2> QED  BY <1>h, <1>1, <2>1, <2>2, GivenBackTyped
<1>5. CASE CompLook(a)
  <2>1. UNCHANGED <<disk, content>> /\ \E at \in {"absent", "manual", "rename"} : CompTo(a, at)
    BY <1>5 DEF CompLook
  <2>2. comp'[a].at \in {"absent", "manual", "rename"}
    BY <1>1, <2>1, CompTyped DEF CompSteps, CompOutcomes
  <2> QED  BY <1>3, <2>1, <2>2
<1>6. CASE CompRename(a)
  <2>1. CASE UNCHANGED disk /\ CompTo(a, "manual")
    <3>1. comp'[a].at = "manual"
      BY <1>1, <2>1, CompTyped DEF CompSteps, CompOutcomes
    <3> QED  BY <1>3, <1>6, <2>1, <3>1 DEF CompRename
  <2>2. CASE /\ disk[path] # Absent /\ disk[hidden] = Absent
             /\ disk' = Renamed(path, hidden) /\ CompTo(a, "verify")
    <3>1. comp'[a].at = "verify"
      BY <1>1, <2>2, CompTyped DEF CompSteps, CompOutcomes
    <3>2. hidden \in Paths \ {"temp", "nfo-temp", path} /\ hidden # "manifest" /\ path # hidden
      BY <1>1
    <3>3. UNCHANGED content
      BY <1>0, <1>h, <1>6 DEF CompRename
    <3>4. /\ FilesOurs' /\ Kept /\ NoOriginal
          /\ \A n \in Paths \ {path, hidden} : Untouched(n)
      BY <1>1, <1>2, <2>2, <3>2, <3>3, RenamedOurs
    <3>5. disk'[hidden] = disk[path]
      BY <1>1, <2>2, <3>2, RenamedTyped
    <3> QED  BY <1>1, <2>2, <3>1, <3>4, <3>5, PathsAre
  <2> QED  BY <1>0, <1>h, <1>6, <2>1, <2>2 DEF CompRename
<1>7. CASE CompVerify(a)
  <2>0. Holding(a) /\ UNCHANGED content /\ disk[hidden] # Absent
    BY <1>0, <1>h, <1>7 DEF CompVerify, Holding, HiddenHeld
  <2>1. CASE Intact(a) /\ CompTo(a, "settle") /\ UNCHANGED disk
    <3>1. comp'[a].at = "settle"
      BY <1>1, <2>1, CompTyped DEF CompSteps, CompOutcomes
    <3>2. ~comp[a].restores => ~Theirs(hidden)'
      BY <1>0, <1>h, <2>0, <2>1 DEF Intact, CompOurs, Theirs, Facts
    <3> QED  BY <1>3, <2>0, <2>1, <3>1, <3>2
  <2>2. CASE disk' = GivenBack(path) /\ \E at \in {"failed", "manual"} : CompTo(a, at)
    <3>1. comp'[a].at \in {"failed", "manual"}
      BY <1>1, <2>2, CompTyped DEF CompSteps, CompOutcomes
    <3> QED  BY <1>4, <2>0, <2>2, <3>1
  <2> QED  BY <1>0, <1>h, <1>7, <2>1, <2>2 DEF CompVerify
<1>8. CASE CompRemove(a, "removed") \/ CompRemove(a, "failed")
  <2>1. /\ disk' = Unlinked(hidden) /\ UNCHANGED content /\ comp[a].at = "settle" /\ ~comp[a].restores
        /\ \E at \in {"removed", "failed"} : CompTo(a, at)
    BY <1>0, <1>h, <1>8 DEF CompRemove
  <2>2. comp'[a].at \in {"removed", "failed"}
    BY <1>1, <2>1, CompTyped DEF CompSteps, CompOutcomes
  <2>3. Holding(a) /\ ~Theirs(hidden)
    BY <1>0, <1>h, <2>1 DEF Holding, CompOurs
  <2>4. FilesOurs' /\ Kept /\ NoOriginal /\ \A n \in Paths \ {hidden} : Untouched(n)
    BY <1>1, <2>1, <2>3, UnlinkedOurs
  <2> QED  BY <1>1, <2>2, <2>3, <2>4, PathsAre
<1>9. ASSUME NEW outcome \in {"restored", "failed"}, CompRestore(a, outcome) PROVE NextFiles /\ NextComp
  <2>1. /\ UNCHANGED content /\ comp[a].at = "settle"
        /\ \E at \in {"restored", "failed", "manual"} : CompTo(a, at)
    BY <1>0, <1>h, <1>9 DEF CompRestore
  <2>2. comp'[a].at \in {"restored", "failed", "manual"} /\ Holding(a)
    BY <1>1, <2>1, CompTyped DEF CompSteps, CompOutcomes, Holding
  <2>3. CASE /\ disk[hidden] # Absent /\ disk["source"] = Absent
             /\ disk' = [Renamed(hidden, "source") EXCEPT
                           !["manifest"] = IF outcome = "restored" THEN Absent ELSE @]
    <3>1. Renamed(hidden, "source") \in [Paths -> Inodes \cup {Absent}]
          /\ Renamed(hidden, "source")["manifest"] = disk["manifest"]
      BY <1>1, PathsAre, RenamedTyped
    <3>2. PICK m \in {disk["manifest"], Absent} :
            disk' = [Renamed(hidden, "source") EXCEPT !["manifest"] = m]
      BY <2>3, <3>1, PathsAre
    <3>3. m \in Inodes \cup {Absent}
      BY <1>1, PathsAre
    <3>4. FilesOurs' /\ Kept /\ NoOriginal /\ \A n \in Paths \ {hidden, "source", "manifest"} : Untouched(n)
      BY <1>1, <2>1, <2>3, <3>2, <3>3, RestoredOurs
    <3> QED  BY <1>1, <2>2, <3>4, PathsAre
  <2>4. CASE disk' = GivenBack(path)
    BY <1>4, <2>1, <2>2, <2>4
  <2> QED  BY <1>0, <1>h, <1>9, <2>3, <2>4 DEF CompRestore
<1> QED  BY <1>5, <1>6, <1>7, <1>8, <1>9 DEF Compensate

LEMMA CallsOurs ==
    ASSUME Base, Temporaries, FilesOurs, RemovalOurs, Operation = "hardlink" => spent["user"] = 0,
           NEW r \in Runners, CallStep(r) \/ FailStep(r), UNCHANGED plan, spent'["user"] = spent["user"]
    PROVE  /\ FilesOurs' /\ Kept /\ NoOriginal /\ Untouched("rollback") /\ Untouched("nfo-rollback")
           /\ Untouched("removal") \/ run[r].at \in {"removal-rename", "removal-check", "removal-unlink"}
<1> DEFINE Goal == /\ FilesOurs' /\ Kept /\ NoOriginal
                   /\ Untouched("rollback") /\ Untouched("nfo-rollback")
                   /\ Untouched("removal")
                         \/ run[r].at \in {"removal-rename", "removal-check", "removal-unlink"}
<1>1. /\ TypeOK /\ StepFits(run[r]) /\ TempHeld(run[r].at)
      /\ disk \in [Paths -> Inodes \cup {Absent}] /\ Absent # Manifest
      /\ disk["temp"] \in Copies => disk["temp"] # Manifest /\ disk["temp"] # Absent
      /\ disk["nfo-temp"] \in Nfos => disk["nfo-temp"] # Manifest /\ disk["nfo-temp"] # Absent
  BY WorldIs, InodesAre DEF Base, Temporaries, Copies, Nfos
<1>2. ASSUME UNCHANGED <<disk, content>> PROVE Goal
  BY <1>1, <1>2, NothingOurs, PathsAre
<1>3. ASSUME NEW p \in {"temp", "nfo-temp"}, disk' = Unlinked(p), UNCHANGED content PROVE Goal
  <2>1. ~Theirs(p) /\ p \in Paths
    BY PathsAre DEF FilesOurs, TempsOurs
  <2> QED  BY <1>1, <1>3, <2>1, UnlinkedOurs, PathsAre
<1>4. ASSUME NEW p \in {"temp", "nfo-temp", "source"}, NEW q \in {"target", "nfo", "removal"},
             disk[p] # Manifest, disk[q] = Absent, disk' = Renamed(p, q), UNCHANGED content,
             q = "removal" => run[r].at = "removal-rename"
      PROVE  Goal
  <2>1. p \in Paths /\ q \in Paths \ {"temp", "nfo-temp", p} /\ q # "manifest"
    BY PathsAre
  <2> QED  BY <1>1, <1>4, <2>1, RenamedOurs, PathsAre
<1>5. ASSUME NEW p \in {"temp", "nfo-temp"}, NEW kind \in {"copy", "nfo"}, NEW data \in {"media", "nfo"},
             disk[p] = Absent, CanCreate(kind), disk' = [disk EXCEPT ![p] = Fresh(kind)],
             content' = [content EXCEPT ![Fresh(kind)] = data]
      PROVE  Goal
  BY <1>1, <1>5, CreatedOurs, PathsAre
<1>6. CASE Copy(r)
  <2>1. CASE UNCHANGED <<disk, content>>
    BY <1>2, <2>1
  <2>2. CASE /\ disk["temp"] = Absent /\ CanCreate("copy")
             /\ disk' = [disk EXCEPT !["temp"] = Fresh("copy")]
             /\ content' = [content EXCEPT ![Fresh("copy")] = "media"]
    BY <1>5, <2>2
  <2> QED  BY <1>1, <1>6, <2>1, <2>2, CopyDoes DEF Planned
<1>7. CASE Publish(r) \/ CopyFails(r)
  <2>1. At(r, "publish") /\ UNCHANGED content
        /\ (disk' = Unlinked("temp") \/ (Publishable /\ disk' = Renamed("temp", "target")))
    BY <1>1, <1>7, PublishDoes, CopyFailsDoes DEF Cleaned
  <2>2. disk["temp"] \in Copies
    BY <1>1, <2>1 DEF TempHeld, At
  <2>3. CASE disk' = Unlinked("temp")
    BY <1>3, <2>1, <2>3
  <2>4. CASE Publishable /\ disk' = Renamed("temp", "target")
    BY <1>1, <1>4, <2>1, <2>2, <2>4 DEF Publishable
  <2> QED  BY <2>1, <2>3, <2>4
<1>8. CASE Rename(r) \/ RenameUnsynced(r)
  <2>1. UNCHANGED content /\ (UNCHANGED disk \/ (Renamable /\ disk' = NamedTarget))
    BY <1>1, <1>8, RenameDoes, RenameUnsyncedDoes
  <2>2. CASE UNCHANGED disk
    BY <1>2, <2>1, <2>2
  <2>3. CASE Operation # "hardlink" /\ Renamable /\ disk' = NamedTarget
    <3>1. disk["source"] # Manifest
      BY PathsAre DEF FilesOurs, ManifestApart
    <3> QED  BY <1>4, <2>1, <2>3, <3>1 DEF NamedTarget, Renamable
  <2>4. CASE Operation = "hardlink" /\ Renamable /\ disk' = NamedTarget
    <3>1. FilesOurs' /\ Kept /\ NoOriginal /\ \A n \in Paths \ {"target"} : Untouched(n)
      BY <1>1, <2>1, <2>4, LinkedOurs DEF NamedTarget, Renamable
    <3> QED  BY <3>1, PathsAre
  <2> QED  BY <2>1, <2>2, <2>3, <2>4
<1>9. CASE Confirm(r) \/ Undone(r)
  BY <1>1, <1>2, <1>9, ConfirmDoes, UndoneDoes
<1>10. CASE CreateManifest(r)
  <2>1. UNCHANGED content
        /\ (UNCHANGED disk \/ (disk["temp"] = Absent /\ disk' = [disk EXCEPT !["temp"] = Manifest]))
    BY <1>1, <1>10, CreateManifestDoes
  <2>2. CASE UNCHANGED disk
    BY <1>2, <2>1, <2>2
  <2>3. CASE disk["temp"] = Absent /\ disk' = [disk EXCEPT !["temp"] = Manifest]
    BY <1>1, <2>1, <2>3, ManifestOurs, PathsAre
  <2> QED  BY <2>1, <2>2, <2>3
<1>11. CASE PublishManifest(r) \/ ManifestFails(r)
  <2>1. At(r, "manifest-publish") /\ UNCHANGED content
        /\ (disk' = Unlinked("temp") \/ (disk["manifest"] = Absent /\ disk' = Renamed("temp", "manifest")))
    BY <1>1, <1>11, PublishManifestDoes, ManifestFailsDoes DEF Cleaned
  <2>2. disk["temp"] = Manifest
    BY <1>1, <2>1 DEF TempHeld, At
  <2>3. CASE disk' = Unlinked("temp")
    BY <1>3, <2>1, <2>3
  <2>4. CASE disk["manifest"] = Absent /\ disk' = Renamed("temp", "manifest")
    <3>1. /\ FilesOurs' /\ Kept /\ NoOriginal
          /\ \A n \in Paths \ {"temp", "manifest"} : Untouched(n)
      BY <1>1, <2>1, <2>2, <2>4, RenamedOurs, PathsAre
    <3> QED  BY <3>1, PathsAre
  <2> QED  BY <2>1, <2>3, <2>4
<1>12. CASE RemovalRename(r)
  <2>1. At(r, "removal-rename") /\ UNCHANGED content
        /\ (UNCHANGED disk \/ (disk["removal"] = Absent /\ disk' = Renamed("source", "removal")))
    BY <1>1, <1>12, RemovalRenameDoes
  <2>2. disk["source"] # Manifest
    BY PathsAre DEF FilesOurs, ManifestApart
  <2> QED  BY <1>2, <1>4, <2>1, <2>2 DEF At
<1>13. CASE RemovalCheck(r)
  <2>1. At(r, "removal-check") /\ UNCHANGED content
        /\ (UNCHANGED disk \/ (disk["source"] = Absent /\ disk' = Renamed("removal", "source")))
    BY <1>1, <1>13, RemovalCheckDoes
  <2>2. CASE UNCHANGED disk
    BY <1>2, <2>1, <2>2
  <2>3. CASE disk["source"] = Absent /\ disk' = Renamed("removal", "source")
    <3>1. disk["removal"] # Manifest /\ "removal" \in Paths
          /\ "source" \in Paths \ {"temp", "nfo-temp", "removal"}
      BY PathsAre DEF FilesOurs, ManifestApart
    <3>2. /\ FilesOurs' /\ Kept /\ NoOriginal
          /\ \A n \in Paths \ {"removal", "source"} : Untouched(n)
      BY <1>1, <2>1, <2>3, <3>1, RenamedOurs
    <3> QED  BY <2>1, <3>2, PathsAre DEF At
  <2> QED  BY <2>1, <2>2, <2>3
<1>14. CASE RemovalUnlink(r) \/ RemovalUnsynced(r)
  <2>1. At(r, "removal-unlink") /\ UNCHANGED content /\ disk' = Unlinked("removal")
    BY <1>1, <1>14, RemovalUnlinkDoes, RemovalUnsyncedDoes
  <2>2. ~Theirs("removal")
    BY <2>1 DEF RemovalOurs, At, Theirs, Facts, Planned, NoFacts
  <2>3. /\ FilesOurs' /\ Kept /\ NoOriginal /\ \A n \in Paths \ {"removal"} : Untouched(n)
    BY <1>1, <2>1, <2>2, UnlinkedOurs, PathsAre
  <2> QED  BY <2>1, <2>3, PathsAre DEF At
<1>15. CASE NfoCreate(r)
  <2>1. CASE UNCHANGED <<disk, content>>
    BY <1>2, <2>1
  <2>2. CASE /\ disk["nfo-temp"] = Absent /\ CanCreate("nfo")
             /\ disk' = [disk EXCEPT !["nfo-temp"] = Fresh("nfo")]
             /\ content' = [content EXCEPT ![Fresh("nfo")] = "nfo"]
    BY <1>5, <2>2
  <2> QED  BY <1>1, <1>15, <2>1, <2>2, NfoCreateDoes
<1>16. CASE NfoPublish(r) \/ NfoWriteFails(r)
  <2>1. At(r, "nfo-publish") /\ UNCHANGED content
        /\ (disk' = Unlinked("nfo-temp") \/ (disk["nfo"] = Absent /\ disk' = Renamed("nfo-temp", "nfo")))
    BY <1>1, <1>16, NfoPublishDoes, NfoWriteFailsDoes
  <2>2. disk["nfo-temp"] \in Nfos
    BY <1>1, <2>1 DEF TempHeld, At
  <2> QED  BY <1>1, <1>3, <1>4, <2>1, <2>2
<1>17. CASE CatalogFails(r)
  BY <1>1, <1>2, <1>17, CatalogFailsDoes DEF files
<1> QED  BY <1>6, <1>7, <1>8, <1>9, <1>10, <1>11, <1>12, <1>13, <1>14, <1>15, <1>16, <1>17 DEF CallStep, FailStep

LEMMA OursEntry ==
    ASSUME Ours, NEW r \in Runners, NEW kind \in JournalKinds, journal[kind].status # "none",
           journal[kind] \in Rows,
           Turned(r, Entry(kind, journal[kind].status), kind, journal[kind], run[r].facts, run[r].direct,
                  Taken(kind, journal[kind].status))
    PROVE  RunOurs(run'[r])
<1>1. journal[kind].status \in JournalStatuses
  BY DEF Rows
<1>2. Entry(kind, journal[kind].status) # "mark"
  BY <1>1, EntryCases
<1> QED  BY <1>2 DEF Ours, RunOurs, Turned

\* A run that carries its row on and has nothing to record, or gives up.
LEMMA OursCarried ==
    ASSUME Ours, NEW r \in Runners,
           \/ \E then \in Outcomes : Ends(r, then)
           \/ run'[r].on = run[r].on /\ run'[r].row = run[r].row /\ run'[r].at # "mark"
    PROVE  RunOurs(run'[r])
BY NoRunIs DEF Ours, RunOurs, RowOurs, Ends, Turned, NoFacts

LEMMA OursReads ==
    ASSUME Base, FilesOurs, Ours, Operation = "hardlink" => spent["user"] = 0,
           NEW r \in Runners, ReadStep(r)
    PROVE  RunOurs(run'[r])
<1>1. TypeOK /\ StatusFits(run[r]) /\ KindFits(run[r]) /\ PlanFits(run[r]) /\ RunOurs(run[r])
      /\ run[r].on \in {"file", "removal", "nfo"} /\ JournalKinds = {"file", "removal", "nfo"}
      /\ \A k \in JournalKinds : journal[k] \in Rows
  BY RunIs, WorldIs DEF Base, StepFits, Ours, JournalKinds
<1>2. CASE Inspect(r) \/ Observe(r) \/ Execute(r) \/ Completed(r) \/ RemovalRecover(r) \/ NfoInspect(r) \/ Complete(r)
  <2>1. \/ \E then \in Outcomes : Ends(r, then)
        \/ run'[r].on = run[r].on /\ run'[r].row = run[r].row /\ run'[r].at # "mark"
    BY <1>1, <1>2, InspectDoes, ObserveDoes, ExecuteDoes, CompletedDoes, RemovalRecoverDoes, NfoInspectDoes,
       CompleteDoes DEF Same, Turned, Outcomes
  <2> QED  BY <2>1, OursCarried
<1>3. CASE RemovalLook(r)
  BY <1>1, <1>3, RemovalLookDoes DEF Same, Turned, At, RunOurs, RowOurs, AfterRemoval
<1>4. CASE Recover(r)
  <2>1. At(r, "recover") /\ run[r].on = "file" /\ "target" \in Paths /\ "source" \in Paths
    BY <1>1, <1>4, RecoverDoes, PathsAre DEF KindFits, FileCalls, At
  <2>2. CASE \E at \in {"review", "copy", "execute"} : Same(r, at)
    BY <2>2, OursCarried DEF Same, Turned
  <2>3. CASE /\ disk["target"] # Absent /\ TargetMatches
             /\ Turned(r, "mark", run[r].on, run[r].row, Facts("target"), run[r].direct, run[r].then)
    <3>1. Operation \notin Moves => Operation \in {"copy", "hardlink"}
      BY <1>1, PlanIs DEF Moves
    <3>2. CASE Operation = "hardlink"
      <4>1. Facts("target").data # "other"
        BY <2>1, <3>2 DEF FilesOurs, Authored, Theirs
      <4> QED  BY <1>1, <2>1, <2>3, <4>1 DEF Turned, RunOurs, RowOurs
    <3>3. CASE Operation = "copy"
      <4>1. Facts("source").inode = Original /\ Facts("source").data = Facts("target").data
        BY <2>3, <3>3 DEF TargetMatches
      <4>2. Facts("target").data # "other"
        BY <2>1, <3>3, <4>1 DEF FilesOurs, Authored, Theirs
      <4> QED  BY <1>1, <2>1, <2>3, <4>2 DEF Turned, RunOurs, RowOurs
    <3>4. CASE Operation \in Moves
      BY <1>1, <2>1, <2>3, <3>4 DEF Turned, RunOurs, RowOurs
    <3> QED  BY <3>1, <3>2, <3>3, <3>4
  <2> QED  BY <1>1, <1>4, <2>2, <2>3, RecoverDoes DEF ExecuteStep
<1>5. CASE FinishRemoval(r)
  BY <1>1, <1>5, FinishRemovalDoes DEF Turned, Ours, RunOurs, RowOurs
<1>6. CASE NfoExecute(r) \/ NfoExists(r) \/ NfoRecover(r)
  <2>1. run[r].on = "nfo"
    BY <1>1, <1>6, NfoExecuteDoes, NfoExistsDoes, NfoRecoverDoes DEF KindFits, NfoCalls, At
  <2> QED  BY <1>1, <1>6, <2>1, NfoExecuteDoes, NfoExistsDoes, NfoRecoverDoes DEF Same, Turned, RunOurs, RowOurs
<1>7. CASE NfoLook(r)
  <2>1. run[r].on = "file"
    BY <1>1, <1>7, NfoLookDoes DEF At, KindFits
  <2>2. CASE Ends(r, "again")
    BY <2>2, OursCarried DEF Outcomes
  <2>3. CASE Turned(r, "nfo-pending", run[r].on, journal["file"], run[r].facts, run[r].direct, run[r].then)
    BY <1>1, <2>1, <2>3 DEF Turned, RunOurs, Ours
  <2> QED  BY <1>1, <1>7, <2>2, <2>3, NfoLookDoes, OursEntry
<1> QED  BY <1>2, <1>3, <1>4, <1>5, <1>6, <1>7 DEF ReadStep

LEMMA OursRecords ==
    ASSUME Base, Ours, NEW r \in Runners, RecordStep(r)
    PROVE  RunOurs(run'[r])
<1>1. TypeOK /\ StatusFits(run[r]) /\ KindFits(run[r]) /\ RunOurs(run[r])
      /\ run[r].on \in {"file", "removal", "nfo"} /\ JournalKinds = {"file", "removal", "nfo"}
      /\ run[r].row \in Rows /\ \A k \in JournalKinds : journal[k] \in Rows
  BY RunIs, WorldIs DEF Base, StepFits, Ours, JournalKinds
<1>2. ASSUME \E then \in Outcomes : Ends(r, then) PROVE RunOurs(run'[r])
  BY <1>2, OursCarried
<1>3. ASSUME NEW status \in JournalStatuses, NEW at \in Steps \ {"mark"},
             Turned(r, at, run[r].on, Moved(run[r].row, status), run[r].facts, run[r].direct, run[r].then)
      PROVE  RunOurs(run'[r])
  <2> DEFINE new == Moved(run[r].row, status)
  <2>1. new.applied = run[r].row.applied /\ new.outcome = run[r].row.outcome
    BY <1>1, MovedIs
  <2> HIDE DEF new
  <2>2. run'[r].at = at /\ run'[r].on = run[r].on /\ run'[r].row = new
    BY <1>3 DEF Turned, new
  <2> QED  BY <1>1, <2>1, <2>2 DEF RunOurs, RowOurs
<1>4. CASE Begin(r)
  <2>1. CASE \E at \in Steps :
          /\ run[r].on = "file" => at = ExecuteStep
          /\ run[r].on = "removal" => at = "removal-look"
          /\ run[r].on = "nfo" => at = "nfo-execute"
          /\ Turned(r, at, run[r].on, Moved(run[r].row, "executing"), run[r].facts, run[r].direct, run[r].then)
    BY <1>1, <1>3, <2>1 DEF ExecuteStep, JournalStatuses
  <2> QED  BY <1>1, <1>2, <1>4, <2>1, BeginDoes DEF Outcomes
<1>5. CASE Verify(r)
  <2>1. CASE \E at \in Steps :
          /\ run[r].on = "file" => at = IF run[r].direct THEN "partial" ELSE "completed"
          /\ run[r].on = "removal" => at = "finish-removal"
          /\ run[r].on = "nfo" => at = "nfo-finish"
          /\ Turned(r, at, run[r].on, Moved(run[r].row, "verified"), run[r].facts, run[r].direct, run[r].then)
    BY <1>1, <1>3, <2>1 DEF JournalStatuses
  <2> QED  BY <1>1, <1>2, <1>5, <2>1, VerifyDoes DEF Outcomes
<1>6. CASE Review(r)
  <2>1. "review-result" \in Steps \ {"mark"} /\ "manual-review" \in JournalStatuses
    BY DEF Steps, SharedSteps, JournalStatuses
  <2> QED  BY <1>1, <1>2, <1>3, <1>6, <2>1, ReviewDoes DEF Outcomes
<1>7. CASE Mark(r)
  <2> DEFINE new == Applied(r)
  <2>1. /\ run[r].on # "removal" => new.applied = run[r].facts
        /\ run[r].on = "nfo" => new.outcome = IF run[r].row.preexisting THEN "preserved" ELSE "generated"
    BY <1>1, AppliedIs
  <2>2. CASE Turned(r, "inspect", run[r].on, new, run[r].facts, run[r].direct, run[r].then)
    <3>1. At(r, "mark")
      BY <1>1, <1>7, MarkDoes
    <3> HIDE DEF new
    <3> QED  BY <1>1, <2>1, <2>2, <3>1 DEF Turned, At, RunOurs, RowOurs
  <2> QED  BY <1>1, <1>2, <1>7, <2>2, MarkDoes DEF Outcomes
<1>8. CASE ReviewResult(r) \/ Conclude(r) \/ NfoFailed(r) \/ NfoFinish(r) \/ Catalog(r)
  BY <1>1, <1>2, <1>8, ReviewResultDoes, ConcludeDoes, NfoFailedDoes, NfoFinishDoes, CatalogDoes DEF Outcomes
<1>9. CASE EnsurePartial(r) \/ NfoPending(r)
  BY <1>1, <1>9, EnsurePartialDoes, NfoPendingDoes, OursCarried DEF Same, Turned
<1>10. CASE PrepareFile(r) \/ PrepareRemoval(r)
  <2>1. CASE \E k \in {"file", "removal"} :
               Turned(r, "begin", k, PreparedRow, run[r].facts, run[r].direct, "review")
    BY <2>1, PreparedRowIs DEF Turned, RunOurs, RowOurs, NoFacts
  <2> QED  BY <1>1, <1>10, <2>1, PrepareFileDoes, PrepareRemovalDoes, OursEntry
<1>11. CASE NfoPrepare(r)
  <2> DEFINE new == NfoRow(run[r].facts)
  <2>1. new.outcome = "none"
    BY <1>1, RunIs, NfoRowIs
  <2>2. CASE Turned(r, "begin", "nfo", new, run[r].facts, run[r].direct, "review")
    <3> HIDE DEF new
    <3> QED  BY <2>1, <2>2 DEF Turned, RunOurs, RowOurs
  <2> QED  BY <1>1, <1>2, <1>11, <2>2, NfoPrepareDoes, OursEntry DEF Outcomes
<1> QED  BY <1>4, <1>5, <1>6, <1>7, <1>8, <1>9, <1>10, <1>11 DEF RecordStep

LEMMA OursCalls ==
    ASSUME Base, FilesOurs, Ours, Operation = "hardlink" => spent["user"] = 0,
           NEW r \in Runners, CallStep(r) \/ FailStep(r)
    PROVE  RunOurs(run'[r])
<1>1. TypeOK /\ StatusFits(run[r]) /\ KindFits(run[r]) /\ PlanFits(run[r]) /\ RunOurs(run[r])
  BY DEF Base, StepFits, Ours
<1>2. CASE \/ Copy(r) \/ CopyFails(r) \/ Rename(r) \/ RenameUnsynced(r) \/ Undone(r) \/ CreateManifest(r)
           \/ ManifestFails(r) \/ RemovalRename(r) \/ RemovalCheck(r) \/ RemovalUnsynced(r) \/ NfoCreate(r)
           \/ NfoWriteFails(r) \/ CatalogFails(r)
  <2>1. \/ \E then \in Outcomes : Ends(r, then)
        \/ run'[r].on = run[r].on /\ run'[r].row = run[r].row /\ run'[r].at # "mark"
    BY <1>1, <1>2, CopyDoes, CopyFailsDoes, RenameDoes, RenameUnsyncedDoes, UndoneDoes, CreateManifestDoes,
       ManifestFailsDoes, RemovalRenameDoes, RemovalCheckDoes, RemovalUnsyncedDoes, NfoCreateDoes,
       NfoWriteFailsDoes, CatalogFailsDoes DEF Same, Turned, Outcomes
  <2> QED  BY <2>1, OursCarried
<1>3. CASE Publish(r)
  <2>1. Facts("temp").data # "other"
    BY DEF FilesOurs, TempsOurs, Theirs
  <2>2. run[r].on = "file"
    BY <1>1, <1>3, PublishDoes DEF At, KindFits, FileCalls
  <2> QED  BY <1>1, <1>3, <2>1, <2>2, PublishDoes DEF Same, Turned, RunOurs, RowOurs
<1>4. CASE Confirm(r)
  <2>1. At(r, "confirm") /\ run[r].on = "file" /\ Operation # "copy" /\ "target" \in Paths
    BY <1>1, <1>4, ConfirmDoes, PathsAre DEF At, KindFits, PlanFits, FileCalls
  <2>2. Operation \notin Moves => Facts("target").data # "other"
    BY <1>1, <2>1, PlanIs DEF Moves, FilesOurs, Authored, Theirs
  <2> QED  BY <1>1, <1>4, <2>1, <2>2, OursCarried, ConfirmDoes DEF Same, Turned, RunOurs, RowOurs, Outcomes
<1>5. CASE PublishManifest(r)
  <2>1. run[r].on = "file" /\ Operation \in Moves
    BY <1>1, <1>5, PublishManifestDoes DEF At, KindFits, PlanFits, Moves
  <2> QED  BY <1>1, <1>5, <2>1, OursCarried, PublishManifestDoes DEF Same, Turned, RunOurs, RowOurs, Outcomes
<1>6. CASE RemovalUnlink(r)
  <2>1. run[r].on = "removal" \/ AfterRemoval(r) = "manifest"
    BY DEF AfterRemoval
  <2> QED  BY <1>1, <1>6, <2>1, OursCarried, RemovalUnlinkDoes DEF Same, Turned, RunOurs, RowOurs, Outcomes
<1>7. CASE NfoPublish(r)
  <2>1. Facts("nfo-temp").data # "other"
    BY DEF FilesOurs, TempsOurs, Theirs
  <2>2. run[r].on = "nfo"
    BY <1>1, <1>7, NfoPublishDoes DEF At, KindFits, NfoCalls
  <2> QED  BY <1>1, <1>7, <2>1, <2>2, NfoPublishDoes DEF Same, Turned, RunOurs, RowOurs
<1> QED  BY <1>2, <1>3, <1>4, <1>5, <1>6, <1>7 DEF CallStep, FailStep

\* A compensation begins or is forgotten: it holds no name yet or any more.
LEMMA CompStarts ==
    ASSUME HiddenHeld, CompOurs, comp \in [Actors -> Compensations], NEW a \in Actors, NEW new \in Compensations,
           comp' = [comp EXCEPT ![a] = new], new.at \in {"none", "look"},
           ~new.restores => new.facts.data # "other",
           Untouched("rollback"), Untouched("nfo-rollback")
    PROVE  HiddenHeld' /\ CompOurs'
<1>1. comp'[a] = new /\ \A b \in Actors : b # a => comp'[b] = comp[b]
  OBVIOUS
<1>2. \A b \in Actors : Holding(b)' => b # a /\ Holding(b)
  BY <1>1 DEF Holding
<1>3. \A b \in Actors : Hidden(comp[b].path) \in {"rollback", "nfo-rollback"}
  BY DEF Hidden
<1>4. HiddenHeld'
  BY <1>1, <1>2, <1>3 DEF HiddenHeld, Untouched
<1>5. \A b \in Actors : b # a => Theirs(Hidden(comp[b].path))' = Theirs(Hidden(comp[b].path))
  BY <1>1, <1>3 DEF Untouched, Theirs, Hidden
<1>6. CompOurs'
  BY <1>1, <1>5 DEF CompOurs
<1> QED  BY <1>4, <1>6

LEMMA CompKept ==
    ASSUME HiddenHeld, CompOurs, UNCHANGED comp, Untouched("rollback"), Untouched("nfo-rollback")
    PROVE  HiddenHeld' /\ CompOurs'
<1>1. \A b \in Actors : Hidden(comp[b].path) \in {"rollback", "nfo-rollback"}
  BY DEF Hidden
<1>2. HiddenHeld'
  BY <1>1 DEF HiddenHeld, Untouched, Holding
<1>3. \A b \in Actors : Theirs(Hidden(comp[b].path))' = Theirs(Hidden(comp[b].path))
  BY <1>1 DEF Untouched, Theirs, Hidden
<1>4. CompOurs'
  BY <1>3 DEF CompOurs
<1> QED  BY <1>2, <1>4

LEMMA CallsComp ==
    ASSUME Base, FilesOurs, HiddenHeld, CompOurs, Operation = "hardlink" => spent["user"] = 0,
           NEW r \in Runners, CallStep(r) \/ FailStep(r), Untouched("rollback"), Untouched("nfo-rollback")
    PROVE  HiddenHeld' /\ CompOurs'
<1>1. TypeOK /\ PlanFits(run[r]) /\ r \in Actors /\ comp \in [Actors -> Compensations]
  BY DEF Base, StepFits, Actors, TypeOK
<1>2. CASE Confirm(r)
  <2>1. At(r, "confirm") /\ Operation # "copy" /\ "target" \in Paths /\ Facts("target") \in AllFacts
    BY <1>1, <1>2, ConfirmDoes, PathsAre, WorldIs DEF At, PlanFits
  <2>2. CASE /\ Operation # "quarantine"
             /\ comp' = [comp EXCEPT ![r] = Begun("target", Facts("target"), Operation = "move")]
    <3> DEFINE new == Begun("target", Facts("target"), Operation = "move")
    <3>1. new \in Compensations /\ new.at = "look" /\ new.facts = Facts("target")
          /\ new.restores = (Operation = "move")
      BY <2>1, BegunIs
    <3>2. ~new.restores => new.facts.data # "other"
      BY <1>1, <2>1, <2>2, <3>1, PlanIs DEF FilesOurs, Authored, Theirs
    <3> HIDE DEF new
    <3>3. comp' = [comp EXCEPT ![r] = new]
      BY <2>2 DEF new
    <3> QED  BY <1>1, <3>1, <3>2, <3>3, CompStarts
  <2> QED  BY <1>1, <1>2, <2>2, CompKept, ConfirmDoes
<1>3. CASE Undone(r)
  BY <1>1, <1>3, UndoneDoes, NoCompIs, CompStarts DEF NoFacts
<1>4. CASE ~Confirm(r) /\ ~Undone(r)
  <2>1. UNCHANGED comp
    BY <1>1, <1>4, CopyDoes, PublishDoes, CopyFailsDoes, RenameDoes, RenameUnsyncedDoes, CreateManifestDoes,
       PublishManifestDoes, ManifestFailsDoes, RemovalRenameDoes, RemovalCheckDoes, RemovalUnlinkDoes,
       RemovalUnsyncedDoes, NfoCreateDoes, NfoPublishDoes, NfoWriteFailsDoes, CatalogFailsDoes
       DEF CallStep, FailStep, files
  <2> QED  BY <2>1, CompKept
<1> QED  BY <1>2, <1>3, <1>4

-----------------------------------------------------------------------------
\* Steps that do not remove the source leave what is to be removed as it is.
LEMMA RemovalKept ==
    ASSUME TypeOK, RemovalOurs, Untouched("removal"), NoOriginal,
           \A s \in Runners : run'[s].at = "removal-unlink" =>
              run[s].at = "removal-unlink" \/ Facts("removal") = Planned,
           \A s \in Runners : run'[s].at = "removal-rename" =>
              run[s].at = "removal-rename" \/ Facts("source") = Planned
    PROVE  RemovalOurs'
<1>1. Facts("source") = Planned => Linked(Original)
  BY PathsAre, InodesAre DEF Facts, Planned, NoFacts, Linked
<1>2. Gone => Gone'
  BY <1>1 DEF Gone, NoOriginal
<1> QED  BY <1>2 DEF RemovalOurs, Untouched

\* No third run is under way.
TwoAtMost ==
    \A a, b, c \in Runners : Active(a) /\ Active(b) /\ Active(c) => a = b \/ b = c \/ a = c

LEMMA OverlapIs ==
    ASSUME Overlap, spent["lost"] \in Nat, spent["lost"] <= 1 PROVE TwoAtMost
BY DEF Overlap, TwoAtMost

LEMMA RemovalCallsOurs ==
    ASSUME Base, FilesOurs, RemovalOurs, Operation \in Moves => TwoAtMost,
           NEW r \in Runners, run[r].at \in {"removal-rename", "removal-check", "removal-unlink"},
           CallStep(r) \/ FailStep(r), NoOriginal
    PROVE  RemovalOurs'
<1>1. /\ TypeOK /\ KindFits(run[r]) /\ Operation \in Moves /\ Operation # "hardlink"
      /\ disk \in [Paths -> Inodes \cup {Absent}] /\ "removal" \in Paths /\ "source" \in Paths
      /\ Original \in Inodes /\ Original # Absent /\ Original # Manifest
  BY WorldIs, PathsAre, InodesAre DEF Base, StepFits, KindFits, RemovalCalls, Moves
<1>2. CASE At(r, "removal-rename")
  <2>1. RemovalRename(r)
    BY <1>1, <1>2, CopyDoes, PublishDoes, CopyFailsDoes, RenameDoes, RenameUnsyncedDoes, CreateManifestDoes,
       PublishManifestDoes, ManifestFailsDoes, RemovalCheckDoes, RemovalUnlinkDoes, ConfirmDoes, UndoneDoes,
       RemovalUnsyncedDoes, NfoCreateDoes, NfoPublishDoes, NfoWriteFailsDoes, CatalogFailsDoes
       DEF CallStep, FailStep, At
  <2>2. CASE UNCHANGED disk
    <3>1. Untouched("removal") /\ \A s \in Runners : run'[s].at \in {"removal-unlink", "removal-rename"} =>
                                     run'[s].at = run[s].at
      BY <1>1, <2>1, <2>2, RemovalRenameDoes DEF Untouched, Facts, Same, Ends, Turned
    <3> QED  BY <1>1, <3>1, RemovalKept
  <2>3. CASE disk["removal"] = Absent /\ Same(r, "removal-check")
    <3>1. \A s \in Runners : run[s].at # "removal-unlink"
      BY <1>2, <2>3 DEF RemovalOurs, Facts, Planned, NoFacts, Gone, At
    <3> QED  BY <2>3, <3>1 DEF RemovalOurs, Same, Turned
  <2> QED  BY <1>1, <2>1, <2>2, <2>3, RemovalRenameDoes
<1>3. CASE At(r, "removal-check")
  <2>1. RemovalCheck(r)
    BY <1>1, <1>3, CopyDoes, PublishDoes, CopyFailsDoes, RenameDoes, RenameUnsyncedDoes, CreateManifestDoes,
       PublishManifestDoes, ManifestFailsDoes, RemovalRenameDoes, RemovalUnlinkDoes, ConfirmDoes, UndoneDoes,
       RemovalUnsyncedDoes, NfoCreateDoes, NfoPublishDoes, NfoWriteFailsDoes, CatalogFailsDoes
       DEF CallStep, FailStep, At
  <2>2. CASE UNCHANGED disk /\ (Ends(r, "again") \/ (SourceHidden /\ Same(r, "removal-unlink")))
    <3>1. /\ Untouched("removal")
          /\ \A s \in Runners : run'[s].at = "removal-unlink" =>
                run[s].at = "removal-unlink" \/ Facts("removal") = Planned
          /\ \A s \in Runners : run'[s].at = "removal-rename" => run[s].at = "removal-rename"
      BY <1>1, <2>1, <2>2, RemovalCheckDoes DEF Untouched, Facts, Same, Ends, Turned, SourceHidden
    <3> QED  BY <1>1, <3>1, RemovalKept
  <2>3. CASE disk["removal"] # Absent /\ ~SourceHidden /\ Same(r, "review")
    <3>1. \A s \in Runners : run[s].at # "removal-unlink"
      BY <2>3 DEF RemovalOurs, SourceHidden
    <3> QED  BY <2>3, <3>1 DEF RemovalOurs, Same, Turned
  <2> QED  BY <1>1, <2>1, <2>2, <2>3, RemovalCheckDoes
<1>4. CASE At(r, "removal-unlink")
  <2>1. RemovalUnlink(r) \/ RemovalUnsynced(r)
    BY <1>1, <1>4, CopyDoes, PublishDoes, CopyFailsDoes, RenameDoes, RenameUnsyncedDoes, CreateManifestDoes,
       PublishManifestDoes, ManifestFailsDoes, RemovalRenameDoes, RemovalCheckDoes, ConfirmDoes, UndoneDoes,
       NfoCreateDoes, NfoPublishDoes, NfoWriteFailsDoes, CatalogFailsDoes
       DEF CallStep, FailStep, At
  <2>2. /\ disk' = Unlinked("removal") /\ UNCHANGED content
        /\ run'[r].at \notin {"removal-unlink", "removal-rename", "idle"}
        /\ \A s \in Runners : s # r => run'[s] = run[s]
    BY <1>1, <2>1, RemovalUnlinkDoes, RemovalUnsyncedDoes DEF Same, Ends, Turned, AfterRemoval
  <2>3. /\ disk'["removal"] = Absent
        /\ \A p \in Paths \ {"removal"} : disk'[p] = disk[p]
    BY <1>1, <2>2, RenamedTyped, WorldIs DEF FilesTyped
  <2> SUFFICES ASSUME NEW s \in Runners, run'[s].at = "removal-unlink" PROVE Gone'
    BY <2>3 DEF RemovalOurs
  <2>4. s # r /\ run[s].at = "removal-unlink"
    BY <2>2
  <2>5. ~Linked(Original)'
    <3>1. CASE Facts("removal") = Planned
      <4>1. disk["removal"] = Original
        BY <3>1, InodesAre DEF Facts, Planned, NoFacts
      <4> QED  BY <1>1, <2>3, <4>1 DEF FilesOurs, OneName, Linked
    <3>2. CASE Gone
      BY <3>2 DEF Gone, NoOriginal
    <3> QED  BY <2>4, <3>1, <3>2 DEF RemovalOurs
  <2>6. ASSUME NEW t \in Runners, run'[t].at = "removal-rename" PROVE FALSE
    <3>1. t # r /\ run[t].at = "removal-rename" /\ t # s
      BY <2>2, <2>4, <2>6
    <3> QED  BY <1>1, <1>4, <2>4, <3>1 DEF TwoAtMost, Active, At
  <2> QED  BY <2>5, <2>6 DEF Gone
<1> QED  BY <1>2, <1>3, <1>4 DEF At

LEMMA RequestsOurs ==
    ASSUME Base, Ours, HiddenHeld, CompOurs, NEW c \in Callers, Requested(c),
           Untouched("rollback"), Untouched("nfo-rollback")
    PROVE  /\ HiddenHeld' /\ CompOurs'
           /\ \A k \in JournalKinds : RowOurs(k, journal'[k])
           /\ \A d \in Callers : RowOurs("file", undo'[d].file) /\ RowOurs("nfo", undo'[d].nfo)
<1> DEFINE u == undo[c]
           UndoOurs == \A d \in Callers : RowOurs("file", undo'[d].file) /\ RowOurs("nfo", undo'[d].nfo)
           RowsOurs == \A k \in JournalKinds : RowOurs(k, journal'[k])
           CompNext == HiddenHeld' /\ CompOurs'
<1>1. /\ TypeOK /\ undo \in [Callers -> Requests] /\ comp \in [Actors -> Compensations]
      /\ journal \in [{"file", "removal", "nfo"} -> Rows] /\ JournalKinds = {"file", "removal", "nfo"}
      /\ u \in Requests /\ u.file \in Rows /\ u.nfo \in Rows /\ c \in Actors
      /\ RowOurs("file", u.file) /\ RowOurs("nfo", u.nfo)
      /\ RowOurs("file", journal["file"]) /\ RowOurs("nfo", journal["nfo"])
      /\ \A d \in Callers : RowOurs("file", undo[d].file) /\ RowOurs("nfo", undo[d].nfo)
  BY UndoTyped DEF Base, TypeOK, JournalKinds, Ours
<1>2. ASSUME NEW at \in {"load", "nfo-manual", "finish"}, UndoGoto(c, at) PROVE UndoOurs
  BY <1>1, <1>2 DEF UndoGoto
<1>3. ASSUME Refuse(c) PROVE UndoOurs
  BY <1>1, <1>3, NoRunIs DEF Refuse, NoRequest, RowOurs, NoFacts
<1>4. ASSUME NEW row \in Rows, RowOurs("file", row), TakeBackFile(c, row) PROVE CompNext
  <2> DEFINE restores == Operation \in {"move", "quarantine"}
             new == Begun("target", row.applied, restores)
  <2>1. restores \in BOOLEAN /\ row.applied \in AllFacts /\ comp' = [comp EXCEPT ![c] = new]
    BY <1>4 DEF Rows, TakeBackFile, TakeBack
  <2>2. ~restores => row.applied.data # "other"
    BY <1>4 DEF RowOurs, Moves
  <2> HIDE DEF restores
  <2>3. new \in Compensations /\ new.at = "look" /\ new.facts = row.applied /\ new.restores = restores
    BY <2>1, BegunIs
  <2> HIDE DEF new
  <2> QED  BY <1>1, <2>1, <2>2, <2>3, CompStarts
<1>5. ASSUME comp' = [comp EXCEPT ![c] = NoComp] PROVE CompNext
  <2>1. NoComp \in Compensations /\ NoComp.at = "none" /\ NoComp.facts.data # "other"
    BY NoCompIs DEF NoComp, NoFacts
  <2> QED  BY <1>1, <1>5, <2>1, CompStarts
<1>6. ASSUME UNCHANGED comp PROVE CompNext
  BY <1>6, CompKept
<1>7. ASSUME UNCHANGED journal PROVE RowsOurs
  BY <1>7 DEF Ours
<1>8. CASE Check(c)
  BY <1>2, <1>3, <1>6, <1>7, <1>8 DEF Check, files, db
<1>9. CASE Load(c)
  <2>1. CASE journal["file"].status # "verified"
    BY <1>3, <1>6, <1>7, <1>9, <2>1 DEF Load, db
  <2>2. CASE journal["file"].status = "verified"
    <3> DEFINE at == IF GeneratedNfo THEN "nfo" ELSE "file"
               new == [u EXCEPT !.file = journal["file"], !.nfo = journal["nfo"], !.at = at]
    <3>1. undo' = [undo EXCEPT ![c] = new] /\ UNCHANGED journal
      BY <1>9, <2>2 DEF Load, db
    <3>2. new.file = journal["file"] /\ new.nfo = journal["nfo"]
      BY <1>1 DEF Requests
    <3> HIDE DEF new
    <3>3. UndoOurs
      BY <1>1, <3>1, <3>2
    <3>4. CASE TakeBackFile(c, journal["file"])
      BY <1>1, <1>4, <1>7, <3>1, <3>3, <3>4
    <3>5. CASE GeneratedNfo /\ TakeBack(c, "nfo", journal["nfo"], FALSE)
      <4> DEFINE begun == Begun("nfo", journal["nfo"].applied, FALSE)
      <4>1. journal["nfo"].applied \in AllFacts /\ comp' = [comp EXCEPT ![c] = begun]
        BY <1>1, <3>5 DEF Rows, TakeBack
      <4>2. journal["nfo"].applied.data # "other"
        BY <1>1, <3>5 DEF RowOurs, GeneratedNfo
      <4>3. begun \in Compensations /\ begun.at = "look" /\ begun.facts = journal["nfo"].applied
        BY <4>1, BegunIs
      <4> HIDE DEF begun
      <4> QED  BY <1>1, <1>7, <3>1, <3>3, <4>1, <4>2, <4>3, CompStarts
    <3> QED  BY <1>9, <2>2, <3>4, <3>5 DEF Load
  <2> QED  BY <2>1, <2>2
<1>10. CASE NfoTaken(c)
  <2>0. UNCHANGED journal
    BY <1>10 DEF NfoTaken, db
  <2>1. CASE comp[c].at \in {"absent", "removed"}
    <3> DEFINE new == [u EXCEPT !.additional = TRUE, !.at = "file"]
    <3>1. undo' = [undo EXCEPT ![c] = new] /\ TakeBackFile(c, u.file)
      BY <1>10, <2>1 DEF NfoTaken
    <3>2. new.file = u.file /\ new.nfo = u.nfo
      BY <1>1 DEF Requests
    <3> HIDE DEF new
    <3> QED  BY <1>1, <1>4, <1>7, <2>0, <3>1, <3>2
  <2>2. CASE comp[c].at \notin {"absent", "removed"}
    BY <1>2, <1>3, <1>5, <1>7, <1>10, <2>0, <2>2 DEF NfoTaken
  <2> QED  BY <2>1, <2>2
<1>11. CASE NfoManual(c)
  <2>0. UNCHANGED comp
    BY <1>11 DEF NfoManual, files
  <2>1. CASE Current("nfo", u.nfo)
    <3> DEFINE new == [u EXCEPT !.manual = TRUE, !.at = "finish"]
               row == Moved(u.nfo, "manual-review")
    <3>1. undo' = [undo EXCEPT ![c] = new] /\ journal' = [journal EXCEPT !["nfo"] = row]
      BY <1>11, <2>1 DEF NfoManual
    <3>2. row.applied = u.nfo.applied /\ row.outcome = u.nfo.outcome
      BY <1>1, MovedIs DEF JournalStatuses
    <3>3. new.file = u.file /\ new.nfo = u.nfo
      BY <1>1 DEF Requests
    <3> HIDE DEF new, row
    <3>4. UndoOurs
      BY <1>1, <3>1, <3>3
    <3>5. RowsOurs
      BY <1>1, <3>1, <3>2 DEF RowOurs, Ours
    <3> QED  BY <1>6, <2>0, <3>4, <3>5
  <2>2. CASE ~Current("nfo", u.nfo)
    BY <1>3, <1>6, <1>7, <1>11, <2>0, <2>2 DEF NfoManual
  <2> QED  BY <2>1, <2>2
<1>12. CASE FileTaken(c)
  <2>0. UNCHANGED journal /\ comp' = [comp EXCEPT ![c] = NoComp]
    BY <1>12 DEF FileTaken, db
  <2>1. CASE comp[c].at \in {"absent", "removed", "restored", "manual"}
    <3> DEFINE manual == comp[c].at = "manual"
               new == [u EXCEPT !.manual = manual, !.at = "finish"]
    <3>1. undo' = [undo EXCEPT ![c] = new]
      BY <1>12, <2>1 DEF FileTaken
    <3>2. new.file = u.file /\ new.nfo = u.nfo
      BY <1>1 DEF Requests
    <3> HIDE DEF new
    <3> QED  BY <1>1, <1>5, <1>7, <2>0, <3>1, <3>2
  <2>2. CASE comp[c].at \notin {"absent", "removed", "restored", "manual"}
    BY <1>3, <1>5, <1>7, <1>12, <2>0, <2>2 DEF FileTaken
  <2> QED  BY <2>1, <2>2
<1>13. CASE Finish(c)
  <2>1. UndoOurs /\ CompNext
    BY <1>3, <1>6, <1>13 DEF Finish, files
  <2>2. CASE UNCHANGED journal
    BY <1>7, <2>1, <2>2
  <2>3. CASE journal' = Rolledback(c)
    <3> DEFINE status == IF u.manual THEN "manual-review" ELSE "compensated"
               file == Moved(u.file, status)
               removal == IF ~u.manual /\ journal["removal"].status = "verified"
                          THEN Moved(journal["removal"], "compensated") ELSE journal["removal"]
               nfo == IF u.additional THEN Moved(u.nfo, "compensated") ELSE journal["nfo"]
    <3>1. journal' = [file |-> file, removal |-> removal, nfo |-> nfo]
      BY <2>3 DEF Rolledback
    <3>2. file.applied = u.file.applied
      BY <1>1, MovedIs DEF JournalStatuses
    <3>3. nfo = journal["nfo"] \/ (nfo.applied = u.nfo.applied /\ nfo.outcome = u.nfo.outcome)
      BY <1>1, MovedIs DEF JournalStatuses
    <3> HIDE DEF file, removal, nfo, u
    <3>4. RowsOurs
      BY <1>1, <3>1, <3>2, <3>3 DEF RowOurs
    <3> QED  BY <2>1, <3>4
  <2> QED  BY <1>13, <2>2, <2>3 DEF Finish, db
<1> QED  BY <1>8, <1>9, <1>10, <1>11, <1>12, <1>13 DEF Requested

-----------------------------------------------------------------------------
\* Users act on visible names, and only where the core can tell their files from its own.
LEMMA UsersOurs ==
    ASSUME TypeOK, FilesOurs, Operation # "hardlink", Operation = "copy" => spent["user"] = 0,
           UserActs, UNCHANGED plan, spent'["user"] = spent["user"] + 1, spent["user"] \in Nat
    PROVE  /\ FilesOurs' /\ NoOriginal
           /\ Untouched("rollback") /\ Untouched("nfo-rollback") /\ Untouched("removal")
<1>1. PICK p \in Visible : UserWrites(p) \/ UserDeletes(p) \/ UserEdits(p)
  BY DEF UserActs
<1>2. /\ p \in Paths /\ p \in {"source", "target", "nfo"}
      /\ disk \in [Paths -> Inodes \cup {Absent}] /\ content \in [Inodes -> Data]
      /\ "temp" \in Paths /\ "nfo-temp" \in Paths /\ "manifest" \in Paths /\ Operation' = Operation
      /\ Absent # Manifest /\ Manifest # Original /\ Manifest \in Inodes /\ disk[p] # Manifest
      /\ spent'["user"] # 0 /\ Absent \notin Inodes
  BY WorldIs, PathsAre, InodesAre DEF Visible, Operation, FilesOurs, ManifestApart
<1>3. ASSUME /\ \A n \in Paths \ {p} : disk'[n] = disk[n] /\ Facts(n)' = Facts(n)
             /\ \/ disk'[p] \in {disk[p], Absent}
                \/ disk'[p] \in Inodes /\ ~Linked(disk'[p]) /\ disk'[p] \notin {Original, Manifest}
             /\ content'[Manifest] = content[Manifest]
      PROVE  /\ FilesOurs' /\ NoOriginal
             /\ Untouched("rollback") /\ Untouched("nfo-rollback") /\ Untouched("removal")
  <2>1. \A n \in Paths \ {p} : Untouched(n) /\ Theirs(n)' = Theirs(n)
    BY <1>3 DEF Untouched, Theirs
  <2>2. OneName'
    <3>1. CASE disk'[p] \in {disk[p], Absent}
      BY <1>2, <1>3, <3>1 DEF FilesOurs, OneName
    <3>2. CASE disk'[p] \in Inodes /\ ~Linked(disk'[p])
      BY <1>2, <1>3, <3>2 DEF FilesOurs, OneName, Linked
    <3> QED  BY <1>3, <3>1, <3>2
  <2>3. ManifestApart'
    BY <1>2, <1>3 DEF FilesOurs, ManifestApart
  <2>4. Authored'
    BY <1>2, <2>1 DEF FilesOurs, Authored
  <2>5. TempsOurs'
    BY <1>2, <2>1 DEF FilesOurs, TempsOurs
  <2>6. NoOriginal
    BY <1>2, <1>3, InodesAre DEF NoOriginal, Linked
  <2> QED  BY <1>2, <2>1, <2>2, <2>3, <2>4, <2>5, <2>6, PathsAre DEF FilesOurs
<1>4. CASE UserWrites(p)
  <2> DEFINE i == Fresh("user")
  <2>1. i \in Inodes /\ ~Linked(i) /\ i # Original /\ i # Manifest /\ i # Absent
    BY <1>4, FreshIs DEF UserWrites
  <2>2. disk' = [disk EXCEPT ![p] = i] /\ content' = [content EXCEPT ![i] = "other"]
    BY <1>4 DEF UserWrites
  <2> HIDE DEF i
  <2>3. disk'[p] = i /\ \A n \in Paths \ {p} : disk'[n] = disk[n]
    BY <1>2, <2>2
  <2>4. \A n \in Paths \ {p} : Facts(n)' = Facts(n)
    BY <1>2, <2>1, <2>2, <2>3 DEF Facts, Linked
  <2> QED  BY <1>2, <1>3, <2>1, <2>2, <2>3, <2>4
<1>5. CASE UserDeletes(p)
  <2>1. UNCHANGED content /\ disk'[p] = Absent /\ \A n \in Paths \ {p} : disk'[n] = disk[n]
    BY <1>2, <1>5 DEF UserDeletes, Unlinked
  <2>2. \A n \in Paths \ {p} : Facts(n)' = Facts(n)
    BY <2>1 DEF Facts
  <2> QED  BY <1>3, <2>1, <2>2
<1>6. CASE UserEdits(p)
  <2>1. UNCHANGED disk /\ disk[p] # Absent /\ content' = [content EXCEPT ![disk[p]] = "other"]
    BY <1>6 DEF UserEdits
  <2>2. \A n \in Paths \ {p} : Facts(n)' = Facts(n)
    <3>1. \A n \in Paths \ {p} : disk[n] # Absent => disk[n] # disk[p]
      BY <1>2, <2>1 DEF FilesOurs, OneName
    <3> QED  BY <1>2, <2>1, <3>1 DEF Facts
  <2> QED  BY <1>2, <1>3, <2>1, <2>2
<1> QED  BY <1>1, <1>4, <1>5, <1>6

-----------------------------------------------------------------------------
\* Only RemovalLook, which has just seen the file, and the removal itself lead to these steps.
LEMMA RemovalReads ==
    ASSUME Base, NEW r \in Runners, ReadStep(r) \/ RecordStep(r)
    PROVE  /\ run'[r].at = "removal-unlink" => Facts("removal") = Planned
           /\ run'[r].at = "removal-rename" => Facts("source") = Planned
           /\ run[r].at # "idle"
<1> DEFINE Removing == {"removal-unlink", "removal-rename"}
           Elsewhere == run'[r].at \notin Removing /\ run[r].at # "idle"
<1>1. /\ TypeOK /\ run[r].on \in {"file", "removal", "nfo"}
      /\ \A k \in JournalKinds : journal[k].status \in JournalStatuses
      /\ "file" \in JournalKinds /\ "removal" \in JournalKinds /\ "nfo" \in JournalKinds
  BY RunIs, WorldIs DEF Base, JournalKinds, Rows
<1>2. ASSUME NEW k \in JournalKinds, journal[k].status # "none"
      PROVE  Entry(k, journal[k].status) \notin Removing
  BY <1>1, <1>2, EntryCases
<1>3. ASSUME Inspect(r) \/ Observe(r) \/ Execute(r) \/ Recover(r) \/ Completed(r) PROVE Elsewhere
  BY <1>1, <1>3, InspectDoes, ObserveDoes, ExecuteDoes, RecoverDoes, CompletedDoes
     DEF Turned, Same, Ends, At, ExecuteStep
<1>4. ASSUME RemovalRecover(r) \/ FinishRemoval(r) \/ Complete(r) PROVE Elsewhere
  BY <1>1, <1>4, RemovalRecoverDoes, FinishRemovalDoes, CompleteDoes DEF Turned, Same, Ends, At
<1>5. ASSUME NfoLook(r) PROVE Elsewhere
  BY <1>1, <1>2, <1>5, NfoLookDoes DEF Turned, Ends, At
<1>6. ASSUME NfoInspect(r) \/ NfoExecute(r) \/ NfoExists(r) \/ NfoRecover(r) PROVE Elsewhere
  BY <1>1, <1>6, NfoInspectDoes, NfoExecuteDoes, NfoExistsDoes, NfoRecoverDoes DEF Turned, Same, Ends, At
<1>7. ASSUME Begin(r) PROVE Elsewhere
  BY <1>1, <1>7, BeginDoes DEF Turned, Ends, At, ExecuteStep
<1>8. ASSUME Mark(r) \/ Review(r) \/ ReviewResult(r) \/ Conclude(r) PROVE Elsewhere
  BY <1>1, <1>8, MarkDoes, ReviewDoes, ReviewResultDoes, ConcludeDoes DEF Turned, Ends, At
<1>9. ASSUME Verify(r) PROVE Elsewhere
  BY <1>1, <1>9, VerifyDoes DEF Turned, Ends, At
<1>10. ASSUME PrepareFile(r) PROVE Elsewhere
  BY <1>1, <1>2, <1>10, PrepareFileDoes DEF Turned, At
<1>11. ASSUME PrepareRemoval(r) PROVE Elsewhere
  BY <1>1, <1>2, <1>11, PrepareRemovalDoes DEF Turned, At
<1>12. ASSUME NfoPrepare(r) PROVE Elsewhere
  BY <1>1, <1>2, <1>12, NfoPrepareDoes DEF Turned, Ends, At
<1>13. ASSUME EnsurePartial(r) \/ NfoPending(r) \/ NfoFailed(r) \/ NfoFinish(r) \/ Catalog(r)
       PROVE  Elsewhere
  BY <1>1, <1>13, EnsurePartialDoes, NfoPendingDoes, NfoFailedDoes, NfoFinishDoes, CatalogDoes
     DEF Turned, Same, Ends, At
<1>14. CASE RemovalLook(r)
  BY <1>1, <1>14, RemovalLookDoes DEF Turned, Same, At, AfterRemoval
<1>15. CASE ~RemovalLook(r)
  <2>1. Elsewhere
    BY <1>3, <1>4, <1>5, <1>6, <1>7, <1>8, <1>9, <1>10, <1>11, <1>12, <1>13, <1>15 DEF ReadStep, RecordStep
  <2> QED  BY <2>1
<1> QED  BY <1>14, <1>15

LEMMA OtherCalls ==
    ASSUME Base, NEW r \in Runners, CallStep(r) \/ FailStep(r)
    PROVE  /\ run[r].at # "idle"
           /\ run[r].at \notin {"removal-rename", "removal-check", "removal-unlink"} =>
                 run'[r].at \notin {"removal-rename", "removal-unlink"}
<1>1. TypeOK /\ run[r].on \in {"file", "removal", "nfo"}
  BY RunIs DEF Base, JournalKinds
<1>2. CASE Copy(r) \/ Publish(r) \/ CopyFails(r) \/ Rename(r) \/ RenameUnsynced(r)
  BY <1>1, <1>2, CopyDoes, PublishDoes, CopyFailsDoes, RenameDoes, RenameUnsyncedDoes
     DEF Turned, Same, Ends, At
<1>3. CASE Confirm(r) \/ Undone(r) \/ CreateManifest(r) \/ PublishManifest(r) \/ ManifestFails(r)
  BY <1>1, <1>3, ConfirmDoes, UndoneDoes, CreateManifestDoes, PublishManifestDoes, ManifestFailsDoes
     DEF Turned, Same, Ends, At
<1>4. CASE NfoCreate(r) \/ NfoPublish(r) \/ NfoWriteFails(r) \/ CatalogFails(r)
  BY <1>1, <1>4, NfoCreateDoes, NfoPublishDoes, NfoWriteFailsDoes, CatalogFailsDoes
     DEF Turned, Same, Ends, At
<1>5. CASE RemovalRename(r) \/ RemovalCheck(r) \/ RemovalUnlink(r) \/ RemovalUnsynced(r)
  BY <1>5 DEF RemovalRename, RemovalCheck, RemovalUnlink, RemovalUnsynced, At
<1> QED  BY <1>2, <1>3, <1>4, <1>5 DEF CallStep, FailStep

\* Who is under way had the lease, has it, or is the one that lost it.
LEMMA OverlapKept ==
    ASSUME Overlap, UNCHANGED holder, spent["lost"] \in Nat, spent'["lost"] \in Nat,
           spent'["lost"] >= spent["lost"],
           \A s \in Runners : run'[s].at # "idle" => run[s].at # "idle"
    PROVE  Overlap'
<1>1. spent'["lost"] = 0 => spent["lost"] = 0
  OBVIOUS
<1>2. spent'["lost"] <= 1 => spent["lost"] <= 1
  OBVIOUS
<1> QED  BY <1>1, <1>2 DEF Overlap, Active

LEMMA OverlapNext ==
    ASSUME Base, Overlap, [Next]_vars
    PROVE  Overlap'
<1>1. /\ TypeOK /\ DoneRests /\ NoOne \notin Runners
      /\ spent["lost"] \in Nat /\ spent'["lost"] \in Nat /\ spent'["lost"] >= spent["lost"]
  BY WorldSteps, ActorsAssumption DEF Base, TypeOK, Incidents
<1>2. ASSUME UNCHANGED <<holder, run>> PROVE Overlap'
  BY <1>1, <1>2, OverlapKept
<1>3. ASSUME NEW r \in Runners, ReadStep(r) \/ RecordStep(r) \/ CallStep(r) \/ FailStep(r), UNCHANGED holder
      PROVE  Overlap'
  <2>1. RunGoesOn(r)
    BY <1>3, ReadsTyped, RecordsJournal, CallsKeepRows
  <2>2. run[r].at # "idle"
    BY <1>3, RemovalReads, OtherCalls
  <2> QED  BY <1>1, <1>3, <2>1, <2>2, OverlapKept DEF RunGoesOn
<1>4. ASSUME NEW r \in Runners, Commit(r) PROVE Overlap'
  <2>1. /\ run[r].at = "commit" /\ run'[r].at = "idle" /\ spent' = spent
        /\ \A s \in Runners : s # r => run'[s] = run[s]
    BY <1>1, <1>4, CommitDoes DEF Turned, At, world
  <2>2. CASE holder = r
    <3>1. holder' = NoOne
      BY <1>4, <2>2 DEF Commit, lease
    <3> QED  BY <2>1, <2>2, <3>1 DEF Overlap, Active
  <2>3. CASE holder # r
    <3>1. UNCHANGED holder
      BY <1>4, <2>3 DEF Commit, lease
    <3> QED  BY <1>1, <2>1, <3>1, OverlapKept
  <2> QED  BY <2>2, <2>3
<1>5. ASSUME NEW r \in Runners, StartStage(r) PROVE Overlap'
  <2>1. holder = NoOne /\ holder' = r /\ spent' = spent /\ \A s \in Runners : s # r => run'[s] = run[s]
    BY <1>1, <1>5, StartDoes DEF Turned, StartStage, world
  <2>2. spent["lost"] = 0 => \A s \in Runners : ~Active(s)
    BY <1>1, <2>1 DEF Overlap
  <2>3. spent["lost"] <= 1 => \E x \in Runners \cup {NoOne} : \A s \in Runners : Active(s) => s = x
    BY <1>1, <2>1 DEF Overlap
  <2> QED  BY <2>1, <2>2, <2>3 DEF Overlap, Active
<1>6. CASE LoseLease
  <2>1. UNCHANGED run /\ spent'["lost"] = spent["lost"] + 1
    BY <1>6 DEF LoseLease, Spend, TypeOK, Incidents, Base
  <2>2. spent'["lost"] # 0
    BY <1>1, <2>1
  <2>3. spent'["lost"] <= 1 => spent["lost"] = 0
    BY <1>1, <2>1
  <2>4. holder \in Runners \cup {NoOne}
    BY <1>1 DEF TypeOK
  <2> QED  BY <2>1, <2>2, <2>3, <2>4 DEF Overlap, Active
<1>7. CASE Crash
  <2>1. \A s \in Runners : run'[s].at = "idle"
    BY <1>7, NoRunIs DEF Crash
  <2> QED  BY <2>1 DEF Overlap, Active
<1>8. ASSUME NEW r \in Runners, RunStep(r) \/ RunFails(r) PROVE Overlap'
  BY <1>2, <1>3, <1>4, <1>8
     DEF RunStep, RunFails, Reads, Records, Calls, Works, ReadStep, RecordStep, CallStep, FailStep, lease
<1>9. ASSUME NEW c \in Callers, Ask(c) \/ RequestStep(c) PROVE Overlap'
  BY <1>2, <1>9 DEF Ask, RequestStep, Requested, Works, lease
<1>10. CASE (\E a \in Actors : WorkFails(a)) \/ RetryRequest \/ Users \/ UNCHANGED vars
  BY <1>2, <1>10 DEF WorkFails, RetryRequest, Users, vars, lease
<1> QED  BY <1>5, <1>6, <1>7, <1>8, <1>9, <1>10 DEF Next

LEMMA UserWorldInit == Init => UserWorld
<1> SUFFICES ASSUME Init PROVE UserWorld
  OBVIOUS
<1>1. TypeOK /\ content[Original] = "media"
  BY BaseInit, QuietInit DEF Base, QuietWorld, QuietFiles, MediaInodes
<1>2. /\ disk = [p \in Paths |-> IF p = "source" THEN Original ELSE Absent]
      /\ comp = [a \in Actors |-> NoComp] /\ undo = [c \in Callers |-> NoRequest]
      /\ journal = [k \in JournalKinds |-> NoRow] /\ run = [r \in Runners |-> NoRun]
  BY DEF Init, FilesInit
<1>3. content[Manifest] = "manifest"
  <2>1. Manifest \in Inodes /\ Manifest # Original
    BY InodesAre
  <2>2. content[Manifest] = CASE Manifest = Original -> "media"
                              [] Manifest = Manifest -> "manifest"
                              [] Manifest[1] = "copy" -> "media"
                              [] Manifest[1] = "nfo" -> "nfo"
                              [] OTHER -> "other"
    BY <2>1 DEF Init, FilesInit
  <2> QED  BY <2>1, <2>2 DEF Original, Manifest
<1>4. \A p \in Paths : ~Theirs(p)
  BY <1>1, <1>2, TheirsIs
<1>5. OneName /\ ManifestApart
  BY <1>2, <1>3, InodesAre, PathsAre DEF OneName, ManifestApart
<1>6. Authored /\ TempsOurs
  BY <1>4, PathsAre DEF Authored, TempsOurs
<1>7. HiddenHeld /\ CompOurs
  BY <1>2, NoCompIs DEF HiddenHeld, Holding, CompOurs, NoFacts
<1>8. \A k \in JournalKinds : RowOurs(k, NoRow)
  BY NoRunIs DEF RowOurs, NoFacts
<1>9. Ours
  BY <1>2, <1>8, NoRunIs DEF Ours, RunOurs, NoRequest, JournalKinds
<1>10. Overlap /\ RemovalOurs
  BY <1>2, NoRunIs DEF Overlap, Active, RemovalOurs
<1> QED  BY <1>5, <1>6, <1>7, <1>9, <1>10 DEF UserWorld

-----------------------------------------------------------------------------
\* What a step keeps, apart from the leases.
UserStep == FilesOurs' /\ HiddenHeld' /\ CompOurs' /\ Ours' /\ RemovalOurs'

LEMMA OursKept ==
    ASSUME UNCHANGED plan, \A k \in JournalKinds : RowOurs(k, journal'[k]), \A s \in Runners : RunOurs(run'[s]),
           \A c \in Callers : RowOurs("file", undo'[c].file) /\ RowOurs("nfo", undo'[c].nfo)
    PROVE  Ours'
<1>1. \A k \in JournalKinds : RowOurs(k, journal[k])'
  BY DEF RowOurs, Operation
<1>2. \A s \in Runners : RunOurs(run[s])'
  BY DEF RunOurs, RowOurs, Operation
<1>3. \A c \in Callers : RowOurs("file", undo[c].file)' /\ RowOurs("nfo", undo[c].nfo)'
  BY DEF RowOurs, Operation
<1> QED  BY <1>1, <1>2, <1>3 DEF Ours

LEMMA OursSame ==
    ASSUME Ours, UNCHANGED <<plan, journal, undo>>, \A s \in Runners : RunOurs(run'[s])
    PROVE  Ours'
BY OursKept DEF Ours

\* Steps that leave all files and everything to be taken back as it is.
LEMMA FilesSame ==
    ASSUME TypeOK, UserWorld, UNCHANGED <<files, plan>>, spent'["user"] = spent["user"],
           \A s \in Runners : /\ run'[s].at = "removal-unlink" =>
                                    run[s].at = "removal-unlink" \/ Facts("removal") = Planned
                              /\ run'[s].at = "removal-rename" =>
                                    run[s].at = "removal-rename" \/ Facts("source") = Planned
    PROVE  FilesOurs' /\ HiddenHeld' /\ CompOurs' /\ RemovalOurs' /\ Kept
<1>1. FilesOurs' /\ Kept /\ NoOriginal /\ \A p \in Paths : Untouched(p)
  BY NothingOurs DEF UserWorld, FilesOurs, files
<1>2. Untouched("rollback") /\ Untouched("nfo-rollback") /\ Untouched("removal")
  BY <1>1, PathsAre
<1>3. HiddenHeld' /\ CompOurs'
  BY <1>2, CompKept DEF UserWorld, files
<1>4. RemovalOurs'
  BY <1>1, <1>2, RemovalKept DEF UserWorld
<1> QED  BY <1>1, <1>3, <1>4

LEMMA UserRunStep ==
    ASSUME Base, Temporaries, UserWorld, Operation = "hardlink" => spent["user"] = 0,
           Operation \in Moves => TwoAtMost,
           NEW r \in Runners, RunStep(r) \/ RunFails(r) \/ StartStage(r)
    PROVE  UserStep /\ Kept
<1>1. /\ TypeOK /\ DoneRests /\ FilesOurs /\ HiddenHeld /\ CompOurs /\ Ours /\ RemovalOurs /\ r \in Actors
      /\ \A s \in Runners : RunOurs(run[s])
  BY DEF Base, UserWorld, FilesOurs, Ours, Actors
<1>2. ASSUME RunOurs(run'[r]), \A s \in Runners : s # r => run'[s] = run[s] PROVE \A s \in Runners : RunOurs(run'[s])
  BY <1>1, <1>2
<1>3. CASE Reads(r)
  <2>1. ReadStep(r) /\ UNCHANGED <<files, plan, journal, undo>> /\ spent' = spent
    BY <1>3 DEF Reads, ReadStep, world, db
  <2>2. RunOurs(run'[r]) /\ \A s \in Runners : s # r => run'[s] = run[s]
    BY <1>1, <2>1, OursReads, ReadsTyped DEF RunGoesOn
  <2>3. Ours'
    BY <1>1, <1>2, <2>1, <2>2, OursSame
  <2> QED  BY <1>1, <2>1, <2>2, <2>3, FilesSame, RemovalReads DEF UserStep
<1>4. CASE Records(r)
  <2>1. RecordStep(r) /\ UNCHANGED <<files, plan, undo>> /\ spent' = spent
    BY <1>4 DEF Records, RecordStep, world
  <2>2. RunOurs(run'[r]) /\ Journalled(r) /\ \A s \in Runners : s # r => run'[s] = run[s]
    BY <2>1, <1>1, OursRecords, RecordsJournal DEF RunGoesOn
  <2>3. \A k \in JournalKinds : RowOurs(k, journal'[k])
    BY <1>1, <2>2 DEF Journalled, RunOurs, Ours, TypeOK
  <2>4. Ours'
    BY <1>1, <1>2, <2>1, <2>2, <2>3, OursKept DEF Ours
  <2> QED  BY <1>1, <2>1, <2>2, <2>4, FilesSame, RemovalReads DEF UserStep
<1>5. CASE Calls(r) \/ RunFails(r)
  <2>1. (CallStep(r) \/ FailStep(r)) /\ UNCHANGED <<undo, plan, journal>> /\ spent'["user"] = spent["user"]
    BY <1>1, <1>5 DEF Calls, RunFails, CallStep, FailStep, world, db, Spend, TypeOK, Incidents
  <2>2. /\ FilesOurs' /\ Kept /\ NoOriginal /\ Untouched("rollback") /\ Untouched("nfo-rollback")
        /\ Untouched("removal") \/ run[r].at \in {"removal-rename", "removal-check", "removal-unlink"}
    BY <1>1, <2>1, CallsOurs
  <2>3. HiddenHeld' /\ CompOurs'
    BY <1>1, <2>1, <2>2, CallsComp
  <2>4. RunOurs(run'[r]) /\ \A s \in Runners : s # r => run'[s] = run[s]
    BY <1>1, <2>1, OursCalls, CallsKeepRows DEF RunGoesOn
  <2>5. Ours'
    BY <1>1, <1>2, <2>1, <2>4, OursSame
  <2>6. RemovalOurs'
    <3>1. CASE run[r].at \in {"removal-rename", "removal-check", "removal-unlink"}
      BY <1>1, <2>1, <2>2, <3>1, RemovalCallsOurs
    <3>2. CASE run[r].at \notin {"removal-rename", "removal-check", "removal-unlink"}
      BY <1>1, <2>1, <2>2, <2>4, <3>2, OtherCalls, RemovalKept
    <3> QED  BY <3>1, <3>2
  <2> QED  BY <2>2, <2>3, <2>5, <2>6 DEF UserStep
<1>6. CASE Works(r)
  <2>1. Compensate(r) /\ UNCHANGED <<plan, journal, undo, run>> /\ spent' = spent
    BY <1>6 DEF Works, world, db
  <2>2. FilesOurs' /\ Kept /\ NoOriginal /\ HiddenHeld' /\ CompOurs' /\ Untouched("removal")
    BY <1>1, <2>1, CompensateOurs
  <2> QED  BY <1>1, <2>1, <2>2, OursSame, RemovalKept DEF UserStep
<1>7. CASE Commit(r)
  <2>1. /\ UNCHANGED <<files, undo, plan, journal>> /\ spent' = spent
        /\ Turned(r, "idle", "file", NoRow, NoFacts, FALSE, "again")
    BY <1>1, <1>7, CommitDoes DEF db, world
  <2>2. RunOurs(run'[r])
    BY <2>1, NoRunIs DEF Turned, RunOurs, RowOurs, NoFacts
  <2>3. Ours'
    BY <1>1, <1>2, <2>1, <2>2, OursSame DEF Turned
  <2> QED  BY <1>1, <2>1, <2>3, FilesSame DEF UserStep, Turned
<1>8. CASE StartStage(r)
  <2>1. UNCHANGED <<files, undo, plan, journal>> /\ spent' = spent
    BY <1>8 DEF StartStage, db, world
  <2>2. PICK at \in {"observe", "nfo-look", "complete"} :
           Turned(r, at, "file", NoRow, NoFacts, FALSE, "again")
    BY <1>1, <1>8, StartDoes
  <2>3. RunOurs(run'[r])
    BY <2>2, NoRunIs DEF Turned, RunOurs, RowOurs, NoFacts
  <2>4. Ours'
    BY <1>1, <1>2, <2>1, <2>2, <2>3, OursSame DEF Turned
  <2> QED  BY <1>1, <2>1, <2>2, <2>4, FilesSame DEF UserStep, Turned
<1> QED  BY <1>3, <1>4, <1>5, <1>6, <1>7, <1>8 DEF RunStep

LEMMA UserOtherSteps ==
    ASSUME Base, UserWorld, NEW c \in Callers, Ask(c) \/ RequestStep(c)
    PROVE  UserStep /\ Kept
<1>1. /\ TypeOK /\ FilesOurs /\ HiddenHeld /\ CompOurs /\ Ours /\ RemovalOurs /\ c \in Actors
      /\ \A s \in Runners : RunOurs(run[s])
  BY DEF Base, UserWorld, FilesOurs, Ours, Actors
<1>2. CASE Ask(c)
  <2>1. UNCHANGED <<files, journal, run, plan>> /\ spent'["user"] = spent["user"]
    BY <1>1, <1>2 DEF Ask, db, Spend, TypeOK, Incidents
  <2>2. PICK k \in Keys : undo' = [undo EXCEPT ![c] =
             [NoRequest EXCEPT !.at = "check", !.key = k, !.wanted = result.version]]
    BY <1>2 DEF Ask
  <2> DEFINE new == [NoRequest EXCEPT !.at = "check", !.key = k, !.wanted = result.version]
  <2>3. new.file = NoRow /\ new.nfo = NoRow
    BY DEF NoRequest
  <2> HIDE DEF new
  <2>4. undo' = [undo EXCEPT ![c] = new] /\ undo \in [Callers -> Requests]
    BY <1>1, <2>2 DEF new, TypeOK
  <2>5. \A d \in Callers : RowOurs("file", undo'[d].file) /\ RowOurs("nfo", undo'[d].nfo)
    BY <1>1, <2>3, <2>4, NoRunIs DEF Ours, RowOurs, NoFacts
  <2>6. Ours'
    BY <1>1, <2>1, <2>5, OursKept DEF Ours
  <2> QED  BY <1>1, <2>1, <2>6, FilesSame DEF UserStep
<1>3. CASE Requested(c)
  <2>1. UNCHANGED <<disk, content, run, plan>> /\ spent' = spent
    BY <1>1, <1>3, RequestsTyped DEF Requested, world
  <2>2. FilesOurs' /\ Kept /\ NoOriginal /\ \A p \in Paths : Untouched(p)
    BY <1>1, <2>1, NothingOurs
  <2>3. Untouched("rollback") /\ Untouched("nfo-rollback") /\ Untouched("removal")
    BY <2>2, PathsAre
  <2>4. /\ HiddenHeld' /\ CompOurs'
        /\ \A k \in JournalKinds : RowOurs(k, journal'[k])
        /\ \A d \in Callers : RowOurs("file", undo'[d].file) /\ RowOurs("nfo", undo'[d].nfo)
    BY <1>1, <1>3, <2>3, RequestsOurs
  <2>5. Ours' /\ RemovalOurs'
    BY <1>1, <2>1, <2>2, <2>3, <2>4, OursKept, RemovalKept
  <2> QED  BY <2>2, <2>4, <2>5 DEF UserStep
<1>4. CASE Works(c)
  <2>1. Compensate(c) /\ UNCHANGED <<plan, journal, undo, run>> /\ spent' = spent
    BY <1>4 DEF Works, world, db
  <2>2. FilesOurs' /\ Kept /\ NoOriginal /\ HiddenHeld' /\ CompOurs' /\ Untouched("removal")
    BY <1>1, <2>1, CompensateOurs
  <2> QED  BY <1>1, <2>1, <2>2, OursSame, RemovalKept DEF UserStep
<1> QED  BY <1>2, <1>3, <1>4 DEF RequestStep

LEMMA UserWorldNext ==
    ASSUME Base, Temporaries, Limited, Limited', Careful, UserWorld, [Next]_vars
    PROVE  UserWorld' /\ (spent'["user"] = spent["user"] => Kept)
<1>1. /\ TypeOK /\ FilesOurs /\ HiddenHeld /\ CompOurs /\ Ours /\ Overlap /\ RemovalOurs
      /\ \A s \in Runners : RunOurs(run[s])
      /\ spent \in [Incidents -> Nat] /\ limits \in [Incidents -> Nat]
      /\ {"user", "lost"} \subseteq Incidents /\ plan' = plan /\ limits' = limits
  BY WorldSteps DEF Base, UserWorld, FilesOurs, Ours, TypeOK, Incidents
<1>2. spent["user"] <= limits["user"] /\ spent'["user"] <= limits["user"] /\ spent["lost"] <= limits["lost"]
  BY <1>1 DEF Limited
<1>3. Operation = "hardlink" => spent["user"] = 0
  BY <1>1, <1>2 DEF Careful
<1>4. Operation \in Moves => TwoAtMost
  BY <1>1, <1>2, OverlapIs DEF Careful
<1>5. Overlap'
  BY <1>1, OverlapNext
<1> SUFFICES UserStep /\ (spent'["user"] = spent["user"] => Kept)
  BY <1>5 DEF UserStep, UserWorld, FilesOurs
<1>6. CASE UNCHANGED vars \/ LoseLease \/ RetryRequest
  <2>1. UNCHANGED <<files, journal, undo, run>> /\ spent'["user"] = spent["user"]
    BY <1>1, <1>6 DEF vars, db, world, LoseLease, RetryRequest, Spend
  <2> QED  BY <1>1, <2>1, FilesSame, OursSame DEF UserStep
<1>7. CASE Crash
  <2>1. /\ run' = [r \in Runners |-> NoRun] /\ undo' = [c \in Callers |-> NoRequest]
        /\ comp' = [a \in Actors |-> NoComp] /\ UNCHANGED <<disk, content, journal>>
        /\ spent'["user"] = spent["user"]
    BY <1>1, <1>7 DEF Crash, db, Spend
  <2>2. FilesOurs' /\ Kept /\ NoOriginal /\ \A p \in Paths : Untouched(p)
    BY <1>1, <2>1, NothingOurs
  <2>3. HiddenHeld' /\ CompOurs'
    BY <2>1, NoCompIs DEF HiddenHeld, Holding, CompOurs, NoFacts
  <2>4. Ours'
    <3>1. \A s \in Runners : RunOurs(run'[s])
      BY <2>1, NoRunIs DEF RunOurs, RowOurs, NoFacts
    <3>2. \A c \in Callers : RowOurs("file", undo'[c].file) /\ RowOurs("nfo", undo'[c].nfo)
      BY <2>1, NoRunIs DEF RowOurs, NoRequest, NoFacts
    <3> QED  BY <1>1, <2>1, <3>1, <3>2, OursKept DEF Ours
  <2>5. RemovalOurs'
    BY <2>1, NoRunIs DEF RemovalOurs
  <2> QED  BY <2>2, <2>3, <2>4, <2>5 DEF UserStep
<1>8. ASSUME NEW a \in Actors, WorkFails(a) PROVE UserStep /\ Kept
  <2>1. /\ CompRemove(a, "failed") \/ CompRestore(a, "failed")
        /\ UNCHANGED <<plan, journal, undo, run>> /\ spent'["user"] = spent["user"]
    BY <1>1, <1>8 DEF WorkFails, db, Spend, Incidents
  <2>2. FilesOurs' /\ Kept /\ NoOriginal /\ HiddenHeld' /\ CompOurs' /\ Untouched("removal")
    BY <1>1, <2>1, CompensateOurs
  <2> QED  BY <1>1, <2>1, <2>2, OursSame, RemovalKept DEF UserStep
<1>9. CASE Users
  <2>1. UserActs /\ UNCHANGED <<journal, undo, run, plan>> /\ spent'["user"] = spent["user"] + 1
    BY <1>1, <1>9 DEF Users, db, Spend
  <2>2. UNCHANGED comp /\ spent["user"] \in Nat
    BY <1>1, <2>1 DEF UserActs, UserWrites, UserDeletes, UserEdits
  <2>3. Operation # "hardlink" /\ (Operation = "copy" => spent["user"] = 0)
    BY <1>1, <1>2, <2>1, <2>2 DEF Careful
  <2>4. FilesOurs' /\ NoOriginal /\ Untouched("rollback") /\ Untouched("nfo-rollback") /\ Untouched("removal")
    BY <1>1, <2>1, <2>2, <2>3, UsersOurs
  <2>5. HiddenHeld' /\ CompOurs'
    BY <1>1, <2>2, <2>4, CompKept
  <2>6. Ours' /\ RemovalOurs'
    BY <1>1, <2>1, <2>4, OursSame, RemovalKept
  <2> QED  BY <2>1, <2>2, <2>4, <2>5, <2>6 DEF UserStep
<1>10. ASSUME NEW r \in Runners, StartStage(r) \/ RunStep(r) \/ RunFails(r) PROVE UserStep /\ Kept
  BY <1>3, <1>4, <1>10, UserRunStep
<1> QED  BY <1>6, <1>7, <1>8, <1>9, <1>10, UserOtherSteps DEF Next

\* No step of a run or of a rollback takes the last name from a file a user wrote or changes it,
\* whatever crashes, fails and is taken back meanwhile, if the actions of users and the leases that are
\* lost are few enough for the core to tell the files apart: none over a hard link, whose target
\* is taken for the run's own, one over a copy, which is recognised by what it contains, and for
\* files that are moved any number beside two runs at a time.
THEOREM UserDataSafe == Spec /\ Careful => UserDataKept
<1>1. Init => Inductive /\ UserWorld
  BY InductiveInit, UserWorldInit
<1>2. Inductive /\ UserWorld /\ Careful /\ [Next]_vars =>
         Careful' /\ UserWorld' /\ (spent'["user"] = spent["user"] => Kept)
  <2> SUFFICES ASSUME Inductive, UserWorld, Careful, [Next]_vars
               PROVE  Careful' /\ UserWorld' /\ (spent'["user"] = spent["user"] => Kept)
    OBVIOUS
  <2>1. Base /\ Temporaries /\ Limited /\ Limited' /\ plan' = plan /\ limits' = limits
    BY LimitedNext, WorldSteps DEF Inductive, Base
  <2>2. Careful'
    BY <2>1 DEF Careful, Operation
  <2> QED  BY <2>1, <2>2, UserWorldNext
<1>3. Spec /\ Careful => [](UserWorld /\ Careful)
  BY <1>1, <1>2, InductiveHolds, PTL DEF Spec
<1>4. Inductive /\ UserWorld /\ Careful /\ [Next]_vars =>
         [spent'.user = spent.user =>
             \A i \in Inodes : Linked(i) /\ content[i] = "other" =>
                 Linked(i)' /\ content'[i] = "other"]_vars
  BY <1>2 DEF Kept
<1> QED  BY <1>3, <1>4, InductiveHolds, PTL DEF Spec, UserDataKept

-----------------------------------------------------------------------------
(***************************************************************************)
(* What a completed result rests on.                                       *)
(***************************************************************************)

\* Where nothing is removed by a row of its own, so that runs may overlap.
Straight ==
    \/ Operation \in {"copy", "hardlink"}
    \/ Operation = "move" /\ Placement = "same"
    \/ Operation = "quarantine" /\ Placement # "bind"

\* What the property needs: of two runs one can hide the source of the other, a rollback changes the
\* rows another run relies on, and a quarantine between mounts forgets its removal in a crash.
Orderly ==
    /\ limits["rollback"] = 0
    /\ Straight \/ (Operation = "move" /\ limits["lost"] = 0)

IsVerified(kind) == journal[kind].status = "verified"

\* A row that a run knows to be verified is verified, and is not reviewed.
RowStands(s) ==
    /\ s.row.status = "verified" => IsVerified(s.on)
    /\ s.at = "review" => s.row.status # "verified"
    /\ s.at = "conclude" => s.on = "file"
    /\ s.on = "nfo" => IsVerified("file")

RowsStand ==
    /\ \A r \in Runners : RowStands(run[r])
    /\ journal["nfo"].status # "none" => IsVerified("file")

\* A run that has no removal before it.
PlainRun(s) ==
    /\ s.on # "removal" /\ s.at \notin Removes
    /\ Operation = "quarantine" => ~s.direct

NoRemovals ==
    /\ journal["removal"].status = "none"
    /\ \A r \in Runners : PlainRun(run[r])
    /\ Operation = "move" => disk["source"] = Absent \/ disk["target"] = Absent

\* A removal that was begun and is not yet verified.
Removing == journal["removal"].status \notin {"none", "verified"}

\* The steps behind the file operation and its removal.
LateSteps == {"conclude", "nfo-look", "nfo-pending", "nfo-inspect", "nfo-prepare", "complete", "catalog"}
Late(s) ==
    \/ s.on = "nfo"
    \/ s.at \in LateSteps
    \/ s.at = "commit" /\ s.then \in {"nfo-pending", "organized", "completed"}

MoveStands(s) ==
    s.at # "idle" =>
        /\ Late(s) => ~Removing
        /\ s.at # "commit" /\ ~Late(s) => task.stage = "file-operation"
        /\ s.at \in {"prepare", "completed"} /\ Removing => disk["source"] # Absent
        /\ s.on = "file" /\ s.row.status \in {"prepared", "executing", "applied"} =>
              journal["removal"].status = "none"

\* The run, with no other beside it, knows how far the removal is.
MovesStand ==
    /\ task.stage # "file-operation" => ~Removing
    /\ \A r \in Runners : MoveStands(run[r])

Unhurried == Undisturbed /\ (Straight \/ (Operation = "move" /\ spent["lost"] = 0))
OrderedWorld ==
    /\ RowsStand
    /\ Straight => NoRemovals
    /\ ~Straight => MovesStand
\* A verified row is left as it is, for what reviews or changes a row has another one in memory.
Stays == \A k \in JournalKinds : IsVerified(k) => IsVerified(k)'

LEMMA RowsStay ==
    ASSUME Base, RowsStand, NEW r \in Runners, RecordStep(r)
    PROVE  Stays
<1>0. /\ TypeOK /\ run[r].row \in Rows /\ run[r].on \in JournalKinds /\ run[r].facts \in AllFacts
      /\ journal \in [JournalKinds -> Rows]
  BY RunIs DEF Base, TypeOK
<1>1. TypeOK /\ StatusFits(run[r]) /\ RowStands(run[r])
  BY DEF Base, StepFits, RowsStand
<1>2. ASSUME UNCHANGED journal PROVE Stays
  BY <1>2 DEF Stays, IsVerified
<1>3. ASSUME NEW row \in Rows, Current(run[r].on, run[r].row), run[r].row.status # "verified",
             journal' = [journal EXCEPT ![run[r].on] = row]
      PROVE  Stays
  BY <1>0, <1>1, <1>3 DEF Stays, IsVerified, Current
<1>4. ASSUME NEW k \in JournalKinds, NEW row \in Rows, journal[k].status = "none",
             journal' = [journal EXCEPT ![k] = row]
      PROVE  Stays
  BY <1>0, <1>1, <1>4 DEF Stays, IsVerified
<1>5. CASE Begin(r)
  <2>1. Moved(run[r].row, "executing") \in Rows
    BY <1>0, MovedIs DEF JournalStatuses
  <2> QED  BY <1>0, <1>1, <1>2, <1>3, <1>5, <2>1, BeginDoes DEF StatusFits, At
<1>6. CASE Mark(r)
  BY <1>0, <1>1, <1>2, <1>3, <1>6, AppliedIs, MarkDoes DEF StatusFits, At
<1>7. CASE Verify(r)
  <2>1. Moved(run[r].row, "verified") \in Rows
    BY <1>0, MovedIs DEF JournalStatuses
  <2> QED  BY <1>0, <1>1, <1>2, <1>3, <1>7, <2>1, VerifyDoes DEF StatusFits, At
<1>8. CASE Review(r)
  <2>1. Moved(run[r].row, "manual-review") \in Rows
    BY <1>0, MovedIs DEF JournalStatuses
  <2> QED  BY <1>0, <1>1, <1>2, <1>3, <1>8, <2>1, ReviewDoes DEF RowStands, At
<1>9. CASE PrepareFile(r) \/ PrepareRemoval(r)
  BY <1>0, <1>1, <1>2, <1>4, <1>9, PreparedRowIs, PrepareFileDoes, PrepareRemovalDoes DEF JournalKinds
<1>10. CASE NfoPrepare(r)
  BY <1>0, <1>1, <1>2, <1>4, <1>10, NfoRowIs, NfoPrepareDoes DEF JournalKinds
<1>11. CASE ReviewResult(r) \/ Conclude(r) \/ EnsurePartial(r) \/ NfoPending(r) \/ NfoFailed(r)
            \/ NfoFinish(r) \/ Catalog(r)
  BY <1>0, <1>1, <1>2, <1>11, ReviewResultDoes, ConcludeDoes, EnsurePartialDoes, NfoPendingDoes, NfoFailedDoes,
     NfoFinishDoes, CatalogDoes
<1> QED  BY <1>5, <1>6, <1>7, <1>8, <1>9, <1>10, <1>11 DEF RecordStep

LEMMA StandsCarried ==
    ASSUME RowsStand, NEW r \in Runners,
           \/ \E then \in Outcomes : Ends(r, then)
           \/ /\ run'[r].on = run[r].on /\ run'[r].row = run[r].row
              /\ run'[r].at = "review" => run[r].row.status # "verified"
              /\ run'[r].at = "conclude" => run[r].on = "file"
    PROVE  RowStands(run'[r])
BY NoRunIs DEF RowsStand, RowStands, Ends, Turned

LEMMA StandsEntry ==
    ASSUME Base, NEW r \in Runners, NEW kind \in JournalKinds, journal[kind].status # "none",
           kind = "nfo" => IsVerified("file"),
           Turned(r, Entry(kind, journal[kind].status), kind, journal[kind], run[r].facts, run[r].direct,
                  Taken(kind, journal[kind].status))
    PROVE  RowStands(run'[r])
<1>1. journal[kind].status \in JournalStatuses
  BY WorldIs DEF Base, Rows
<1>2. Entry(kind, journal[kind].status) \notin {"review", "conclude"}
  BY <1>1, EntryCases
<1> QED  BY <1>2 DEF RowStands, IsVerified, Turned

LEMMA StandsReads ==
    ASSUME Base, QuietWorld, RowsStand, NEW r \in Runners, ReadStep(r)
    PROVE  RowStands(run'[r])
<1>1. /\ TypeOK /\ StatusFits(run[r]) /\ KindFits(run[r]) /\ RowStands(run[r]) /\ QuietFiles
      /\ "file" \in JournalKinds /\ "nfo" \in JournalKinds /\ {"again", "review"} \subseteq Outcomes
  BY DEF Base, StepFits, RowsStand, QuietWorld, JournalKinds, Outcomes
<1>2. CASE Inspect(r) \/ Observe(r) \/ Complete(r)
  BY <1>1, <1>2, StandsCarried, InspectDoes, ObserveDoes, CompleteDoes DEF StatusFits, At, Same, Turned
<1>3. CASE Execute(r) \/ Recover(r)
  BY <1>1, <1>3, StandsCarried, ExecuteDoes, RecoverDoes
     DEF StatusFits, FileCalls, At, Same, Turned, ExecuteStep
<1>4. CASE Completed(r)
  <2>1. disk["source"] # Absent => Facts("source") = Planned
    BY <1>1, QuietFacts
  <2>2. \E at \in {"conclude", "partial"} : Goto(r, at)
    BY <1>4, <2>1 DEF Completed
  <2>3. At(r, "completed") /\ \E at \in {"conclude", "partial"} : Same(r, at)
    BY <1>1, <1>4, <2>2, GotoDoes DEF Completed, Steps, SharedSteps, RemovalSteps
  <2> QED  BY <1>1, <2>3, StandsCarried DEF KindFits, At, Same, Turned
<1>5. CASE RemovalRecover(r) \/ RemovalLook(r)
  BY <1>1, <1>5, StandsCarried, RemovalRecoverDoes, RemovalLookDoes
     DEF StatusFits, RemovalCalls, At, Same, Turned, AfterRemoval
<1>6. CASE FinishRemoval(r)
  BY <1>1, <1>6, FinishRemovalDoes DEF RowStands, IsVerified, Turned
<1>7. CASE NfoLook(r)
  <2>1. CASE Ends(r, "again")
    BY <1>1, <2>1, StandsCarried
  <2>2. CASE VerifiedFile /\ Turned(r, "nfo-pending", run[r].on, journal["file"], run[r].facts,
                                    run[r].direct, run[r].then)
    BY <1>1, <1>7, <2>2, NfoLookDoes DEF RowStands, IsVerified, VerifiedFile, KindFits, At, Turned
  <2>3. CASE journal["nfo"].status # "none" /\
             Turned(r, Entry("nfo", journal["nfo"].status), "nfo", journal["nfo"], run[r].facts,
                    run[r].direct, Taken("nfo", journal["nfo"].status))
    BY <1>1, <2>3, StandsEntry DEF RowsStand
  <2> QED  BY <1>1, <1>7, <2>1, <2>2, <2>3, NfoLookDoes
<1>8. CASE NfoInspect(r)
  BY <1>1, <1>8, StandsCarried, NfoInspectDoes DEF Turned
<1>9. CASE NfoExecute(r) \/ NfoExists(r) \/ NfoRecover(r)
  BY <1>1, <1>9, StandsCarried, NfoExecuteDoes, NfoExistsDoes, NfoRecoverDoes
     DEF StatusFits, NfoCalls, At, Same, Turned
<1> QED  BY <1>2, <1>3, <1>4, <1>5, <1>6, <1>7, <1>8, <1>9 DEF ReadStep

LEMMA StandsRecords ==
    ASSUME Base, RowsStand, NEW r \in Runners, RecordStep(r)
    PROVE  /\ Stays /\ RowStands(run[r])'
           /\ journal'["nfo"].status # "none" => IsVerified("file")'
<1>1. /\ TypeOK /\ StatusFits(run[r]) /\ KindFits(run[r]) /\ RowStands(run[r]) /\ Stays
      /\ run[r].row \in Rows /\ run[r].on \in JournalKinds /\ run[r].on \in {"file", "removal", "nfo"}
      /\ run[r].facts \in AllFacts /\ journal \in [JournalKinds -> Rows]
      /\ "file" \in JournalKinds /\ "nfo" \in JournalKinds /\ "removal" \in JournalKinds
      /\ {"again", "review", "nfo-pending", "organized", "completed"} \subseteq Outcomes
      /\ journal["nfo"].status # "none" => IsVerified("file")
  <2>1. /\ run[r].row \in Rows /\ run[r].on \in JournalKinds /\ run[r].on \in {"file", "removal", "nfo"}
        /\ run[r].facts \in AllFacts /\ journal \in [JournalKinds -> Rows]
    BY RunIs DEF Base, TypeOK, JournalKinds
  <2>2. /\ "file" \in JournalKinds /\ "nfo" \in JournalKinds /\ "removal" \in JournalKinds
        /\ {"again", "review", "nfo-pending", "organized", "completed"} \subseteq Outcomes
    BY DEF JournalKinds, Outcomes
  <2> QED  BY <2>1, <2>2, RowsStay DEF Base, StepFits, RowsStand
<1> DEFINE Done == RowStands(run[r])' /\ (journal'["nfo"].status # "none" => IsVerified("file")')
<1>2. ASSUME UNCHANGED journal, RowStands(run'[r]) PROVE Done
  BY <1>1, <1>2 DEF RowStands, IsVerified, Stays
<1>3. ASSUME NEW then \in Outcomes, UNCHANGED journal, Ends(r, then) PROVE Done
  BY <1>2, <1>3, StandsCarried
<1>4. ASSUME NEW row \in Rows, run'[r].row = row, run'[r].on = run[r].on,
             run'[r].at \notin {"review", "conclude"}, journal' = [journal EXCEPT ![run[r].on] = row]
      PROVE  Done
  BY <1>1, <1>4 DEF RowStands, IsVerified, Stays
<1>5. ASSUME NEW k \in JournalKinds, journal[k].status # "none", UNCHANGED journal, k = "nfo" => IsVerified("file"),
             Turned(r, Entry(k, journal[k].status), k, journal[k], run[r].facts, run[r].direct,
                    Taken(k, journal[k].status))
      PROVE  Done
  BY <1>2, <1>5, StandsEntry
<1>6. ASSUME NEW k \in JournalKinds, NEW row \in Rows, row.status = "prepared", k = "nfo" => IsVerified("file"),
             journal' = [journal EXCEPT ![k] = row],
             Turned(r, "begin", k, row, run[r].facts, run[r].direct, "review")
      PROVE  Done
  BY <1>1, <1>6 DEF RowStands, IsVerified, Stays, Turned
<1> HIDE DEF Done
<1>7. CASE Begin(r)
  <2>1. Moved(run[r].row, "executing") \in Rows
    BY <1>1, MovedIs DEF JournalStatuses
  <2> QED  BY <1>1, <1>3, <1>4, <1>7, <2>1, BeginDoes DEF Turned, ExecuteStep, Done
<1>8. CASE Mark(r)
  BY <1>1, <1>3, <1>4, <1>8, AppliedIs, MarkDoes DEF Turned, Done
<1>9. CASE Verify(r)
  <2>1. Moved(run[r].row, "verified") \in Rows
    BY <1>1, MovedIs DEF JournalStatuses
  <2> QED  BY <1>1, <1>3, <1>4, <1>9, <2>1, VerifyDoes DEF Turned, Done
<1>10. CASE Review(r)
  <2>1. Moved(run[r].row, "manual-review") \in Rows
    BY <1>1, MovedIs DEF JournalStatuses
  <2> QED  BY <1>1, <1>3, <1>4, <1>10, <2>1, ReviewDoes DEF Turned, Done
<1>11. CASE PrepareFile(r)
  BY <1>1, <1>5, <1>6, <1>11, PreparedRowIs, PrepareFileDoes DEF Done
<1>12. CASE PrepareRemoval(r)
  BY <1>1, <1>5, <1>6, <1>12, PreparedRowIs, PrepareRemovalDoes DEF Done
<1>13. CASE NfoPrepare(r)
  <2>1. IsVerified("file")
    BY <1>1, <1>13, NfoPrepareDoes DEF StatusFits, KindFits, NfoReads, RowStands, At
  <2> QED  BY <1>1, <1>3, <1>5, <1>6, <1>13, <2>1, NfoRowIs, NfoPrepareDoes DEF Done
<1>14. CASE EnsurePartial(r) \/ NfoPending(r)
  <2>1. UNCHANGED journal /\ (Same(r, "prepare-removal") \/ Same(r, "nfo-inspect"))
    BY <1>1, <1>14, EnsurePartialDoes, NfoPendingDoes
  <2> QED  BY <1>1, <1>2, <2>1, StandsCarried DEF Same, Turned, Done
<1>15. CASE ReviewResult(r) \/ Conclude(r) \/ NfoFailed(r) \/ NfoFinish(r) \/ Catalog(r)
  BY <1>1, <1>3, <1>15, ReviewResultDoes, ConcludeDoes, NfoFailedDoes, NfoFinishDoes, CatalogDoes DEF Done
<1> QED  BY <1>7, <1>8, <1>9, <1>10, <1>11, <1>12, <1>13, <1>14, <1>15 DEF RecordStep

LEMMA StandsCalls ==
    ASSUME Base, RowsStand, NEW r \in Runners, CallStep(r) \/ FailStep(r)
    PROVE  RowStands(run'[r])
<1>1. /\ TypeOK /\ StatusFits(run[r]) /\ KindFits(run[r]) /\ RowStands(run[r])
      /\ {"again", "review"} \subseteq Outcomes
  BY DEF Base, StepFits, RowsStand, Outcomes
<1>2. CASE Copy(r) \/ Publish(r) \/ CopyFails(r) \/ Rename(r) \/ RenameUnsynced(r)
  BY <1>1, <1>2, StandsCarried, CopyDoes, PublishDoes, CopyFailsDoes, RenameDoes, RenameUnsyncedDoes
     DEF StatusFits, FileCalls, At, Same, Turned
<1>3. CASE Confirm(r) \/ Undone(r)
  BY <1>1, <1>3, StandsCarried, ConfirmDoes, UndoneDoes DEF StatusFits, FileCalls, At, Same, Turned
<1>4. CASE CreateManifest(r) \/ PublishManifest(r) \/ ManifestFails(r)
  BY <1>1, <1>4, StandsCarried, CreateManifestDoes, PublishManifestDoes, ManifestFailsDoes
     DEF KindFits, At, Same, Turned
<1>5. CASE RemovalRename(r) \/ RemovalCheck(r) \/ RemovalUnlink(r) \/ RemovalUnsynced(r)
  BY <1>1, <1>5, StandsCarried, RemovalRenameDoes, RemovalCheckDoes, RemovalUnlinkDoes, RemovalUnsyncedDoes
     DEF StatusFits, RemovalCalls, At, Same, Turned, AfterRemoval
<1>6. CASE NfoCreate(r) \/ NfoPublish(r) \/ NfoWriteFails(r) \/ CatalogFails(r)
  BY <1>1, <1>6, StandsCarried, NfoCreateDoes, NfoPublishDoes, NfoWriteFailsDoes, CatalogFailsDoes
     DEF StatusFits, NfoCalls, At, Same, Turned
<1> QED  BY <1>2, <1>3, <1>4, <1>5, <1>6 DEF CallStep, FailStep

-----------------------------------------------------------------------------
\* Plans without a removal of their own never come to have one.
LEMMA PlainReads ==
    ASSUME Base, QuietWorld, RowsStand, Straight, NoRemovals, NEW r \in Runners, ReadStep(r)
    PROVE  PlainRun(run'[r])
<1>1. /\ TypeOK /\ KindFits(run[r]) /\ StatusFits(run[r]) /\ PlainRun(run[r]) /\ RowStands(run[r])
      /\ "file" \in JournalKinds /\ "nfo" \in JournalKinds
      /\ \A k \in JournalKinds : RowHolds(k, journal[k])
  BY DEF Base, StepFits, NoRemovals, RowsStand, JournalKinds, QuietWorld
<1>2. CASE Inspect(r) \/ Observe(r) \/ Recover(r) \/ Complete(r)
  BY <1>1, <1>2, InspectDoes, ObserveDoes, RecoverDoes, CompleteDoes
     DEF PlainRun, Same, Ends, Turned, Removes, ExecuteStep
<1>3. CASE Execute(r)
  BY <1>1, <1>3, ExecuteDoes DEF PlainRun, Same, Turned, Removes
<1>4. CASE Completed(r)
  <2>1. At(r, "completed") /\ Same(r, run'[r].at)
        /\ (Operation # "move" => run'[r].at = "conclude")
        /\ (disk["source"] = Absent => run'[r].at = "conclude")
    <3>1. ASSUME Operation # "move" \/ disk["source"] = Absent PROVE Goto(r, "conclude")
      <4>1. ~(Operation = "move" /\ Facts("source") = Planned)
        BY <3>1, InodesAre DEF Planned, Facts, NoFacts
      <4> HIDE DEF Goto
      <4> QED  BY <1>4, <3>1, <4>1 DEF Completed
    <3>2. Operation # "move" \/ disk["source"] = Absent => Same(r, "conclude")
      BY <1>1, <3>1, GotoDoes DEF Steps, SharedSteps
    <3> QED  BY <1>1, <1>4, <3>2, CompletedDoes DEF Same, Turned
  <2>2. Operation = "move" => disk["source"] = Absent
    BY <1>1, <2>1 DEF At, KindFits, StatusFits, RowStands, IsVerified, RowHolds, NoRemovals
  <2> QED  BY <1>1, <2>1, <2>2 DEF PlainRun, Same, Turned, Removes
<1>5. CASE RemovalRecover(r) \/ RemovalLook(r)
  BY <1>1, <1>5, RemovalRecoverDoes, RemovalLookDoes DEF PlainRun, Same, Turned, Removes, AfterRemoval
<1>6. CASE FinishRemoval(r)
  BY <1>1, <1>6, FinishRemovalDoes DEF PlainRun, KindFits, At
<1>7. CASE NfoLook(r)
  <2>1. journal["nfo"].status # "none" => Entry("nfo", journal["nfo"].status) \notin Removes
    <3>1. journal["nfo"].status \in JournalStatuses
      BY <1>1, WorldIs DEF Rows
    <3> QED  BY <1>1, <3>1, EntryCases DEF Removes
  <2> QED  BY <1>1, <1>7, <2>1, NfoLookDoes DEF PlainRun, Ends, Turned, Removes
<1>8. CASE NfoInspect(r) \/ NfoExecute(r) \/ NfoExists(r) \/ NfoRecover(r)
  BY <1>1, <1>8, NfoInspectDoes, NfoExecuteDoes, NfoExistsDoes, NfoRecoverDoes
     DEF PlainRun, Same, Turned, Removes
<1> QED  BY <1>2, <1>3, <1>4, <1>5, <1>6, <1>7, <1>8 DEF ReadStep

LEMMA PlainRecords ==
    ASSUME Base, Straight, NoRemovals, NEW r \in Runners, RecordStep(r)
    PROVE  PlainRun(run'[r]) /\ journal'["removal"] = journal["removal"]
<1>1. /\ TypeOK /\ KindFits(run[r]) /\ PlanFits(run[r]) /\ PlainRun(run[r])
      /\ "file" \in JournalKinds /\ "nfo" \in JournalKinds /\ "removal" \in JournalKinds
      /\ run[r].on \in {"file", "removal", "nfo"} /\ journal \in [JournalKinds -> Rows]
  <2>1. run[r].on \in {"file", "removal", "nfo"}
    BY RunIs DEF Base, JournalKinds
  <2> QED  BY <2>1 DEF Base, StepFits, NoRemovals, JournalKinds, TypeOK
<1>2. ASSUME NEW k \in {"file", "nfo"}, journal[k].status # "none"
      PROVE  Entry(k, journal[k].status) \notin Removes
  <2>1. k \in JournalKinds /\ journal[k].status \in JournalStatuses
    BY <1>1, WorldIs DEF JournalKinds, Rows
  <2> QED  BY <1>2, <2>1, EntryCases DEF Removes
<1>3. PlainRun(run'[r])
  <2>1. CASE Begin(r)
    BY <1>1, <2>1, BeginDoes DEF PlainRun, Ends, Turned, Removes, ExecuteStep
  <2>2. CASE Mark(r) \/ Review(r) \/ ReviewResult(r) \/ Conclude(r)
    BY <1>1, <2>2, MarkDoes, ReviewDoes, ReviewResultDoes, ConcludeDoes DEF PlainRun, Ends, Turned, Removes
  <2>3. CASE Verify(r)
    <3>1. ~run[r].direct
      BY <1>1 DEF PlanFits, PlainRun, Straight, Moves
    <3> QED  BY <1>1, <2>3, <3>1, VerifyDoes DEF PlainRun, Ends, Turned, Removes
  <2>4. CASE PrepareFile(r)
    BY <1>1, <1>2, <2>4, PrepareFileDoes DEF PlainRun, Turned, Removes
  <2>5. CASE PrepareRemoval(r) \/ EnsurePartial(r)
    BY <1>1, <2>5, PrepareRemovalDoes, EnsurePartialDoes DEF PlainRun, At, Removes
  <2>6. CASE NfoPrepare(r)
    BY <1>1, <1>2, <2>6, NfoPrepareDoes DEF PlainRun, Ends, Turned, Removes
  <2>7. CASE NfoPending(r) \/ NfoFailed(r) \/ NfoFinish(r) \/ Catalog(r)
    BY <1>1, <2>7, NfoPendingDoes, NfoFailedDoes, NfoFinishDoes, CatalogDoes
       DEF PlainRun, Same, Ends, Turned, Removes
  <2> QED  BY <2>1, <2>2, <2>3, <2>4, <2>5, <2>6, <2>7 DEF RecordStep
<1>4. Journalled(r)
  BY RecordsJournal
<1> QED  BY <1>1, <1>3, <1>4 DEF Journalled, PlainRun

LEMMA PlainCalls ==
    ASSUME Base, QuietWorld, Straight, NoRemovals, NEW r \in Runners, CallStep(r) \/ FailStep(r)
    PROVE  /\ PlainRun(run'[r])
           /\ Operation = "move" => disk'["source"] = Absent \/ disk'["target"] = Absent
<1>1. /\ TypeOK /\ KindFits(run[r]) /\ PlanFits(run[r]) /\ PlainRun(run[r])
      /\ disk \in [Paths -> Inodes \cup {Absent}]
      /\ Operation = "move" => disk["source"] = Absent \/ disk["target"] = Absent
  BY DEF Base, StepFits, NoRemovals, TypeOK
<1> DEFINE Apart == Operation = "move" => disk'["source"] = Absent \/ disk'["target"] = Absent
<1>2. CASE Copy(r) \/ Publish(r) \/ CopyFails(r)
  <2>1. PlainRun(run'[r])
    BY <1>1, <1>2, CopyDoes, PublishDoes, CopyFailsDoes DEF PlainRun, Same, Ends, Turned, Removes
  <2>2. Operation # "move"
    BY <1>1, <1>2, CopyDoes, PublishDoes, CopyFailsDoes DEF At, PlanFits, Straight
  <2> QED  BY <2>1, <2>2
<1>3. CASE Rename(r) \/ RenameUnsynced(r)
  <2>1. PlainRun(run'[r])
    BY <1>1, <1>3, RenameDoes, RenameUnsyncedDoes DEF PlainRun, Same, Ends, Turned, Removes, Straight
  <2>2. UNCHANGED disk \/ disk' = NamedTarget
    BY <1>1, <1>3, RenameDoes, RenameUnsyncedDoes
  <2>3. Apart
    BY <1>1, <2>2, PathsAre DEF NamedTarget, Renamed
  <2> QED  BY <2>1, <2>3
<1>4. CASE Confirm(r) \/ Undone(r) \/ CatalogFails(r)
  <2>1. UNCHANGED disk
    BY <1>1, <1>4, ConfirmDoes, UndoneDoes, CatalogFailsDoes DEF files
  <2> QED  BY <1>1, <1>4, <2>1, ConfirmDoes, UndoneDoes, CatalogFailsDoes
           DEF PlainRun, Same, Ends, Turned, Removes
<1>5. CASE CreateManifest(r) \/ PublishManifest(r) \/ ManifestFails(r)
  <2>1. PlainRun(run'[r])
    BY <1>1, <1>5, CreateManifestDoes, PublishManifestDoes, ManifestFailsDoes
       DEF PlainRun, Same, Ends, Turned, Removes
  <2>2. Operation # "move"
    BY <1>1, <1>5, CreateManifestDoes, PublishManifestDoes, ManifestFailsDoes DEF At, PlanFits
  <2> QED  BY <2>1, <2>2
<1>6. CASE RemovalRename(r) \/ RemovalCheck(r) \/ RemovalUnlink(r) \/ RemovalUnsynced(r)
  <2>1. PlainRun(run'[r])
    BY <1>1, <1>6, RemovalRenameDoes, RemovalCheckDoes, RemovalUnlinkDoes, RemovalUnsyncedDoes
       DEF PlainRun, Same, Ends, Turned, Removes, AfterRemoval
  <2>2. run[r].at \in {"removal-rename", "removal-check", "removal-unlink"}
    BY <1>1, <1>6, RemovalRenameDoes, RemovalCheckDoes, RemovalUnlinkDoes, RemovalUnsyncedDoes DEF At
  <2>3. Operation # "move"
    BY <1>1, <2>2 DEF KindFits, RemovalCalls, PlainRun
  <2> QED  BY <2>1, <2>3
<1>7. CASE NfoCreate(r) \/ NfoPublish(r) \/ NfoWriteFails(r)
  <2>1. PlainRun(run'[r])
    BY <1>1, <1>7, NfoCreateDoes, NfoPublishDoes, NfoWriteFailsDoes DEF PlainRun, Same, Turned, Removes
  <2>2. \/ UNCHANGED disk \/ disk' = Unlinked("nfo-temp") \/ disk' = Renamed("nfo-temp", "nfo")
        \/ CanCreate("nfo") /\ disk' = [disk EXCEPT !["nfo-temp"] = Fresh("nfo")]
    BY <1>1, <1>7, NfoCreateDoes, NfoPublishDoes, NfoWriteFailsDoes
  <2>3. disk'["source"] = disk["source"] /\ disk'["target"] = disk["target"]
    BY <1>1, <2>2, PathsAre DEF Unlinked, Renamed
  <2> QED  BY <1>1, <2>1, <2>3
<1> QED  BY <1>2, <1>3, <1>4, <1>5, <1>6, <1>7 DEF CallStep, FailStep

\* The four ways a run of a composed move goes on: to its end, among the late steps, before them, and
\* with the row it has.
LEMMA MoveEnds ==
    ASSUME NEW r \in Runners, NEW then \in Outcomes, Ends(r, then),
           then \in {"nfo-pending", "organized", "completed"} => ~Removing'
    PROVE  MoveStands(run[r])'
BY NoRunIs DEF MoveStands, Late, LateSteps, Ends, Turned, Removing

LEMMA MoveLate ==
    ASSUME NEW r \in Runners, ~Removing', run'[r].at \notin {"prepare", "completed"},
           run'[r].on = "nfo" \/ run'[r].at \in LateSteps,
           run'[r].on = "file" /\ run'[r].row.status \in {"prepared", "executing", "applied"} =>
              journal'["removal"].status = "none"
    PROVE  MoveStands(run[r])'
BY DEF MoveStands, Late, Removing

LEMMA MoveOn ==
    ASSUME NEW r \in Runners, run'[r].on # "nfo", run'[r].at \notin LateSteps,
           run'[r].at = "commit" => run'[r].then = "review", task'.stage = "file-operation",
           run'[r].at \in {"prepare", "completed"} /\ Removing' => disk'["source"] # Absent,
           run'[r].on = "file" /\ run'[r].row.status \in {"prepared", "executing", "applied"} =>
              journal'["removal"].status = "none"
    PROVE  MoveStands(run[r])'
BY DEF MoveStands, Late, Removing

LEMMA MoveCarried ==
    ASSUME MovesStand, NEW r \in Runners, UNCHANGED <<journal, task>>,
           run[r].at \notin LateSteps \cup {"idle", "commit"},
           run'[r].on = run[r].on, run'[r].row = run[r].row,
           run'[r].at \notin LateSteps \cup {"idle", "commit", "prepare", "completed"}
    PROVE  MoveStands(run[r])'
BY DEF MovesStand, MoveStands, Late, Removing

LEMMA MoveReads ==
    ASSUME Base, RowsStand, MovesStand, Operation = "move", NEW r \in Runners, ReadStep(r),
           UNCHANGED <<disk, journal, task>>
    PROVE  MoveStands(run[r])'
<1>1. /\ TypeOK /\ StatusFits(run[r]) /\ KindFits(run[r]) /\ RowStands(run[r]) /\ MoveStands(run[r])
      /\ Past /\ Removing' = Removing /\ {"again", "review"} \subseteq Outcomes
      /\ "file" \in JournalKinds /\ "nfo" \in JournalKinds
  BY DEF Base, StepFits, RowsStand, MovesStand, JournalKinds, Outcomes, Removing
<1>2. CASE Inspect(r) \/ Execute(r) \/ Recover(r) \/ RemovalRecover(r) \/ RemovalLook(r)
           \/ NfoExecute(r) \/ NfoExists(r) \/ NfoRecover(r)
  BY <1>1, <1>2, MoveCarried, InspectDoes, ExecuteDoes, RecoverDoes, RemovalRecoverDoes, RemovalLookDoes,
     NfoExecuteDoes, NfoExistsDoes, NfoRecoverDoes
     DEF At, Same, Turned, LateSteps, ExecuteStep, AfterRemoval
<1>3. CASE Observe(r)
  <2>1. CASE Ends(r, "review")
    BY <1>1, <2>1, MoveEnds
  <2>2. CASE Facts("source") = Planned /\ Same(r, "prepare")
    <3>1. disk["source"] # Absent
      BY <2>2, InodesAre DEF Facts, Planned, NoFacts
    <3>2. At(r, "observe") /\ run[r].on = "file"
      BY <1>1, <1>3, ObserveDoes DEF KindFits, At
    <3>3. task.stage = "file-operation"
      BY <1>1, <3>2 DEF MoveStands, Late, LateSteps, At
    <3> QED  BY <1>1, <2>2, <3>1, <3>2, <3>3, MoveOn DEF Same, Turned, LateSteps, MoveStands, At
  <2> QED  BY <1>1, <1>3, <2>1, <2>2, ObserveDoes
<1>4. CASE Completed(r)
  <2>1. At(r, "completed")
    BY <1>1, <1>4, CompletedDoes
  <2>2. CASE Same(r, "review") \/ Same(r, "partial")
    BY <1>1, <2>1, <2>2, MoveCarried DEF At, Same, Turned, LateSteps
  <2>3. CASE disk["source"] = Absent /\ Same(r, "conclude")
    BY <1>1, <2>1, <2>3, MoveLate DEF At, Same, Turned, LateSteps, MoveStands
  <2> QED  BY <1>1, <1>4, <2>2, <2>3, CompletedDoes
<1>5. CASE FinishRemoval(r)
  <2>1. /\ At(r, "finish-removal")
        /\ Turned(r, "conclude", "file", journal["file"], run[r].facts, run[r].direct, run[r].then)
    BY <1>1, <1>5, FinishRemovalDoes
  <2>2. run[r].on = "removal" /\ ~Removing /\ PastFile
    BY <1>1, <2>1 DEF At, KindFits, StatusFits, RowStands, IsVerified, Removing, Past
  <2> QED  BY <1>1, <2>1, <2>2, MoveLate DEF Turned, LateSteps, PastFile
<1>6. CASE NfoLook(r) \/ NfoInspect(r) \/ Complete(r)
  <2>1. ~Removing /\ run[r].at \in {"nfo-look", "nfo-inspect", "complete"}
    BY <1>1, <1>6, NfoLookDoes, NfoInspectDoes, CompleteDoes DEF MoveStands, Late, LateSteps, At
  <2>2. CASE Ends(r, "again")
    BY <1>1, <2>2, MoveEnds
  <2>3. CASE NfoLook(r) /\ ~Ends(r, "again")
    <3>1. journal["nfo"].status # "none" =>
             Entry("nfo", journal["nfo"].status) \notin {"prepare", "completed"}
      <4>1. journal["nfo"].status \in JournalStatuses
        BY <1>1, WorldIs DEF Rows
      <4> QED  BY <1>1, <4>1, EntryCases
    <3> QED  BY <1>1, <2>1, <2>3, <3>1, NfoLookDoes, MoveLate DEF Turned, LateSteps, VerifiedFile
  <2>4. CASE NfoInspect(r) \/ (Complete(r) /\ ~Ends(r, "again"))
    BY <1>1, <2>1, <2>4, NfoInspectDoes, CompleteDoes, MoveLate DEF Same, Turned, LateSteps, MoveStands
  <2> QED  BY <1>6, <2>2, <2>3, <2>4
<1> QED  BY <1>2, <1>3, <1>4, <1>5, <1>6 DEF ReadStep

LEMMA MoveWrites ==
    ASSUME TypeOK, MovesStand, NEW r \in Runners, UNCHANGED <<disk, task>>,
           run[r].at \in {"begin", "mark", "verify", "review"}, run[r].on \in JournalKinds, NEW row \in Rows,
           journal' = [journal EXCEPT ![run[r].on] = row], run'[r].on = run[r].on, run'[r].row = row,
           run'[r].at \notin LateSteps \cup {"idle", "commit", "prepare"},
           run'[r].at = "completed" => run[r].on = "file" /\ run[r].row.status = "applied",
           row.status \in {"prepared", "executing", "applied"} =>
              run[r].row.status \in {"prepared", "executing", "applied"}
    PROVE  /\ MoveStands(run[r])'
           /\ task.stage # "file-operation" => ~Removing'
<1>1. /\ MoveStands(run[r]) /\ "removal" \in JournalKinds /\ journal \in [JournalKinds -> Rows]
      /\ task.stage # "file-operation" => ~Removing
  BY DEF MovesStand, TypeOK, JournalKinds
<1>2. CASE run[r].on = "nfo"
  <2>1. ~Removing /\ journal'["removal"] = journal["removal"]
    BY <1>1, <1>2 DEF MoveStands, Late
  <2> QED  BY <1>1, <1>2, <2>1, MoveLate DEF Removing
<1>3. CASE run[r].on # "nfo"
  <2>1. task.stage = "file-operation"
    BY <1>1, <1>3 DEF MoveStands, Late, LateSteps
  <2>2. run[r].on = "file" => journal'["removal"] = journal["removal"]
    BY <1>1
  <2>3. run[r].on = "file" /\ run[r].row.status \in {"prepared", "executing", "applied"} =>
           journal["removal"].status = "none"
    BY <1>1 DEF MoveStands
  <2>4. run'[r].at = "completed" => ~Removing'
    BY <2>2, <2>3 DEF Removing
  <2> QED  BY <1>3, <2>1, <2>2, <2>3, <2>4, MoveOn
<1> QED  BY <1>2, <1>3

LEMMA MoveRecords ==
    ASSUME Base, RowsStand, MovesStand, Operation = "move", NEW r \in Runners, RecordStep(r),
           UNCHANGED <<disk, task>>
    PROVE  /\ MoveStands(run[r])'
           /\ task.stage # "file-operation" => ~Removing'
<1>1. /\ TypeOK /\ StatusFits(run[r]) /\ KindFits(run[r]) /\ RowStands(run[r]) /\ MoveStands(run[r]) /\ Past
      /\ task.stage # "file-operation" => ~Removing
      /\ {"again", "review", "nfo-pending", "organized", "completed"} \subseteq Outcomes
      /\ "file" \in JournalKinds /\ "nfo" \in JournalKinds /\ "removal" \in JournalKinds
  BY DEF Base, StepFits, RowsStand, MovesStand, JournalKinds, Outcomes
<1>2. /\ run[r].row \in Rows /\ run[r].on \in JournalKinds /\ run[r].on \in {"file", "removal", "nfo"}
      /\ run[r].facts \in AllFacts /\ journal \in [JournalKinds -> Rows]
  BY RunIs DEF Base, TypeOK, JournalKinds
<1> DEFINE Done == MoveStands(run[r])' /\ (task.stage # "file-operation" => ~Removing')
<1>3. ASSUME UNCHANGED journal, MoveStands(run[r])' PROVE Done
  BY <1>1, <1>3 DEF Removing
<1>4. ASSUME UNCHANGED journal, Ends(r, "again") \/ Ends(r, "review") PROVE Done
  BY <1>1, <1>3, <1>4, MoveEnds
<1> HIDE DEF Done
<1>5. CASE Begin(r)
  <2>1. /\ Moved(run[r].row, "executing") \in Rows /\ Moved(run[r].row, "executing").status = "executing"
        /\ run[r].row.status = "prepared" /\ At(r, "begin")
    BY <1>1, <1>2, <1>5, MovedIs, BeginDoes DEF JournalStatuses, StatusFits, At
  <2>2. CASE UNCHANGED journal /\ Ends(r, "again")
    BY <1>4, <2>2 DEF Done
  <2>3. CASE journal' = [journal EXCEPT ![run[r].on] = Moved(run[r].row, "executing")]
             /\ \E at \in {ExecuteStep, "removal-look", "nfo-execute"} :
                  Turned(r, at, run[r].on, Moved(run[r].row, "executing"), run[r].facts, run[r].direct, run[r].then)
    BY <1>1, <1>2, <2>1, <2>3, MoveWrites DEF Turned, At, LateSteps, ExecuteStep, Done
  <2> QED  BY <1>1, <1>2, <1>5, <2>2, <2>3, BeginDoes
<1>6. CASE Mark(r)
  <2>1. Applied(r) \in Rows /\ Applied(r).status = "applied" /\ run[r].row.status = "executing" /\ At(r, "mark")
    BY <1>1, <1>6, AppliedIs, MarkDoes DEF StatusFits, At
  <2>2. CASE UNCHANGED journal /\ Ends(r, "again")
    BY <1>4, <2>2 DEF Done
  <2>3. CASE journal' = [journal EXCEPT ![run[r].on] = Applied(r)]
             /\ Turned(r, "inspect", run[r].on, Applied(r), run[r].facts, run[r].direct, run[r].then)
    BY <1>1, <1>2, <2>1, <2>3, MoveWrites DEF Turned, At, LateSteps, Done
  <2> QED  BY <1>1, <1>6, <2>2, <2>3, MarkDoes
<1>7. CASE Verify(r)
  <2>1. /\ Moved(run[r].row, "verified") \in Rows /\ Moved(run[r].row, "verified").status = "verified"
        /\ run[r].row.status = "applied" /\ At(r, "verify")
    BY <1>1, <1>2, <1>7, MovedIs, VerifyDoes DEF JournalStatuses, StatusFits, At
  <2>2. CASE UNCHANGED journal /\ Ends(r, "again")
    BY <1>4, <2>2 DEF Done
  <2>3. CASE journal' = [journal EXCEPT ![run[r].on] = Moved(run[r].row, "verified")]
             /\ \E at \in {"partial", "completed", "finish-removal", "nfo-finish"} :
                  /\ at = "completed" => run[r].on = "file"
                  /\ Turned(r, at, run[r].on, Moved(run[r].row, "verified"), run[r].facts, run[r].direct, run[r].then)
    BY <1>1, <1>2, <2>1, <2>3, MoveWrites DEF Turned, At, LateSteps, Done
  <2> QED  BY <1>1, <1>2, <1>7, <2>2, <2>3, VerifyDoes
<1>8. CASE Review(r)
  <2>1. /\ Moved(run[r].row, "manual-review") \in Rows
        /\ Moved(run[r].row, "manual-review").status = "manual-review" /\ At(r, "review")
    BY <1>1, <1>2, <1>8, MovedIs, ReviewDoes DEF JournalStatuses
  <2>2. CASE UNCHANGED journal /\ Ends(r, "again")
    BY <1>4, <2>2 DEF Done
  <2>3. CASE journal' = [journal EXCEPT ![run[r].on] = Moved(run[r].row, "manual-review")]
             /\ Turned(r, "review-result", run[r].on, Moved(run[r].row, "manual-review"),
                       run[r].facts, run[r].direct, run[r].then)
    BY <1>1, <1>2, <2>1, <2>3, MoveWrites DEF Turned, At, LateSteps, Done
  <2> QED  BY <1>1, <1>8, <2>2, <2>3, ReviewDoes
<1>9. CASE PrepareFile(r) \/ PrepareRemoval(r)
  <2>1. run[r].at \in {"prepare", "prepare-removal"} /\ run[r].on = "file" /\ task.stage = "file-operation"
    BY <1>1, <1>9, PrepareFileDoes, PrepareRemovalDoes DEF At, KindFits, MoveStands, Late, LateSteps, Removes
  <2>2. \A k \in JournalKinds : journal[k].status # "none" =>
           Entry(k, journal[k].status) \notin LateSteps \cup {"idle", "prepare"}
    <3>1. \A k \in JournalKinds : journal[k].status \in JournalStatuses
      BY <1>1, WorldIs DEF Rows
    <3> QED  BY <3>1, EntryCases DEF LateSteps
  <2>3. CASE PrepareFile(r)
    <3>1. journal'["removal"] = journal["removal"]
      BY <1>1, <1>2, <2>3, PrepareFileDoes DEF JournalKinds
    <3>2. Removing => disk["source"] # Absent
      BY <1>1, <2>3, PrepareFileDoes DEF At, MoveStands
    <3>3. journal["file"].status \in {"none", "prepared", "executing", "applied"} =>
             journal["removal"].status = "none"
      BY <1>1 DEF Past, PastFile
    <3> QED  BY <1>1, <2>1, <2>2, <2>3, <3>1, <3>2, <3>3, PreparedRowIs, PrepareFileDoes, MoveOn
             DEF Turned, LateSteps, Removing, Taken, Done
  <2>4. CASE PrepareRemoval(r)
    <3>1. journal["removal"].status # "none" => Entry("removal", journal["removal"].status) # "completed"
      <4>1. journal["removal"].status \in JournalStatuses
        BY <1>1, WorldIs DEF Rows
      <4> QED  BY <1>1, <4>1, EntryCases
    <3> QED  BY <1>1, <2>1, <2>2, <2>4, <3>1, PrepareRemovalDoes, MoveOn DEF Turned, LateSteps, Taken, Done
  <2> QED  BY <1>9, <2>3, <2>4
<1>10. CASE ReviewResult(r) \/ NfoFailed(r)
  BY <1>1, <1>4, <1>10, ReviewResultDoes, NfoFailedDoes DEF Done
<1>11. CASE EnsurePartial(r)
  <2>1. At(r, "partial") /\ UNCHANGED journal /\ Same(r, "prepare-removal")
    BY <1>1, <1>11, EnsurePartialDoes
  <2> QED  BY <1>1, <1>3, <2>1, MoveCarried DEF At, Same, Turned, LateSteps, Done
<1>12. CASE Conclude(r) \/ NfoFinish(r) \/ Catalog(r)
  <2>1. UNCHANGED journal /\ run[r].at \in {"conclude", "nfo-finish", "catalog"}
        /\ \E then \in Outcomes : Ends(r, then)
    BY <1>1, <1>12, ConcludeDoes, NfoFinishDoes, CatalogDoes DEF At
  <2>2. ~Removing'
    BY <1>1, <2>1 DEF KindFits, MoveStands, Late, LateSteps, Removing
  <2> QED  BY <1>1, <1>3, <2>1, <2>2, MoveEnds
<1>13. CASE NfoPending(r)
  <2>1. At(r, "nfo-pending") /\ UNCHANGED journal /\ Same(r, "nfo-inspect")
    BY <1>1, <1>13, NfoPendingDoes
  <2>2. ~Removing'
    BY <1>1, <2>1 DEF At, MoveStands, Late, LateSteps, Removing
  <2> QED  BY <1>1, <1>3, <2>1, <2>2, MoveLate DEF At, Same, Turned, LateSteps, MoveStands
<1>14. CASE NfoPrepare(r)
  <2>1. At(r, "nfo-prepare") /\ journal'["removal"] = journal["removal"]
    BY <1>1, <1>2, <1>14, NfoPrepareDoes DEF JournalKinds
  <2>2. ~Removing'
    BY <1>1, <2>1 DEF At, MoveStands, Late, LateSteps, Removing
  <2>3. journal["nfo"].status # "none" => Entry("nfo", journal["nfo"].status) \notin {"prepare", "completed"}
    <3>1. journal["nfo"].status \in JournalStatuses
      BY <1>1, WorldIs DEF Rows
    <3> QED  BY <1>1, <3>1, EntryCases
  <2>4. CASE UNCHANGED journal /\ Ends(r, "again")
    BY <1>4, <2>4 DEF Done
  <2>5. CASE ~Ends(r, "again")
    BY <1>1, <1>14, <2>2, <2>3, <2>5, NfoPrepareDoes, MoveLate DEF Turned, Done
  <2>6. CASE Ends(r, "again") /\ ~UNCHANGED journal
    BY <1>1, <2>2, <2>6, MoveEnds DEF Done
  <2> QED  BY <2>4, <2>5, <2>6
<1> QED  BY <1>5, <1>6, <1>7, <1>8, <1>9, <1>10, <1>11, <1>12, <1>13, <1>14 DEF RecordStep, Done

LEMMA MoveCalls ==
    ASSUME Base, MovesStand, Operation = "move", NEW r \in Runners, CallStep(r) \/ FailStep(r),
           UNCHANGED <<journal, task>>
    PROVE  MoveStands(run[r])'
<1>1. TypeOK /\ PlanFits(run[r]) /\ {"again", "review"} \subseteq Outcomes
  BY DEF Base, StepFits, Outcomes
<1>2. ASSUME Ends(r, "again") PROVE MoveStands(run[r])'
  BY <1>1, <1>2, MoveEnds
<1>3. ASSUME run[r].at \notin LateSteps \cup {"idle", "commit"},
             \E at \in Steps \ (LateSteps \cup {"idle", "commit", "prepare", "completed"}) :
                 run'[r].at = at /\ run'[r].on = run[r].on /\ run'[r].row = run[r].row
      PROVE  MoveStands(run[r])'
  BY <1>3, MoveCarried
<1>4. CASE Copy(r) \/ Publish(r) \/ CopyFails(r) \/ Rename(r) \/ RenameUnsynced(r)
  BY <1>1, <1>2, <1>3, <1>4, CopyDoes, PublishDoes, CopyFailsDoes, RenameDoes, RenameUnsyncedDoes
     DEF At, Same, Turned, LateSteps, Steps, FileSteps, RemovalSteps, SharedSteps
<1>5. CASE Confirm(r) \/ Undone(r) \/ CatalogFails(r)
  BY <1>1, <1>2, <1>3, <1>5, ConfirmDoes, UndoneDoes, CatalogFailsDoes
     DEF At, Same, Turned, LateSteps, Steps, FileSteps, SharedSteps
<1>6. CASE CreateManifest(r) \/ PublishManifest(r) \/ ManifestFails(r)
  BY <1>1, <1>6, CreateManifestDoes, PublishManifestDoes, ManifestFailsDoes DEF At, PlanFits
<1>7. CASE RemovalRename(r) \/ RemovalCheck(r) \/ RemovalUnlink(r) \/ RemovalUnsynced(r)
  BY <1>1, <1>2, <1>3, <1>7, RemovalRenameDoes, RemovalCheckDoes, RemovalUnlinkDoes, RemovalUnsyncedDoes
     DEF At, Same, Turned, LateSteps, Steps, FileSteps, RemovalSteps, SharedSteps, AfterRemoval
<1>8. CASE NfoCreate(r) \/ NfoPublish(r) \/ NfoWriteFails(r)
  BY <1>1, <1>2, <1>3, <1>8, NfoCreateDoes, NfoPublishDoes, NfoWriteFailsDoes
     DEF At, Same, Turned, LateSteps, Steps, NfoSteps, SharedSteps
<1> QED  BY <1>4, <1>5, <1>6, <1>7, <1>8 DEF CallStep, FailStep

\* What the steps of one run leave in order.
LEMMA RowsGoOn ==
    ASSUME TypeOK, RowsStand, Stays, NEW r \in Runners, \A s \in Runners : s # r => run'[s] = run[s],
           RowStands(run[r])', journal'["nfo"].status # "none" => IsVerified("file")'
    PROVE  RowsStand'
<1>1. ASSUME NEW s \in Runners, run'[s] = run[s] PROVE RowStands(run[s])'
  <2>1. run[s].on \in JournalKinds /\ "file" \in JournalKinds
    BY RunIs DEF JournalKinds
  <2>2. RowStands(run[s])
    BY DEF RowsStand
  <2> QED  BY <1>1, <2>1, <2>2 DEF RowStands, Stays, IsVerified
<1> QED  BY <1>1 DEF RowsStand

LEMMA RowsSameStand ==
    ASSUME RowsStand, UNCHANGED journal, NEW r \in Runners, \A s \in Runners : s # r => run'[s] = run[s],
           RowStands(run'[r])
    PROVE  RowsStand'
BY DEF RowsStand, RowStands, IsVerified

LEMMA RemovalsGoOn ==
    ASSUME NoRemovals, NEW r \in Runners, \A s \in Runners : s # r => run'[s] = run[s], PlainRun(run'[r]),
           UNCHANGED plan, journal'["removal"] = journal["removal"],
           Operation = "move" => disk'["source"] = Absent \/ disk'["target"] = Absent
    PROVE  NoRemovals'
BY DEF NoRemovals, PlainRun, Operation

LEMMA MovesGoOn ==
    ASSUME MovesStand, NEW r \in Runners, \A s \in Runners : s # r => run[s].at = "idle" /\ run'[s] = run[s],
           MoveStands(run[r])', task'.stage # "file-operation" => ~Removing'
    PROVE  MovesStand'
BY DEF MovesStand, MoveStands

LEMMA OthersIdle ==
    ASSUME Overlap, spent["lost"] = 0, NEW r \in Runners, run[r].at # "idle" \/ holder = NoOne, NoOne \notin Runners
    PROVE  \A s \in Runners : s # r => run[s].at = "idle"
BY DEF Overlap, Active

LEMMA OrderedRunStep ==
    ASSUME Base, QuietWorld, Overlap, OrderedWorld, Straight \/ (Operation = "move" /\ spent["lost"] = 0),
           NEW r \in Runners, RunStep(r) \/ RunFails(r) \/ StartStage(r), plan' = plan
    PROVE  OrderedWorld'
<1>1. /\ TypeOK /\ DoneRests /\ QuietFiles /\ RowsStand /\ (Straight => NoRemovals) /\ (~Straight => MovesStand)
      /\ NoOne \notin Runners /\ (Straight' <=> Straight) /\ run \in [Runners -> Runs]
      /\ ~Straight => Operation = "move" /\ spent["lost"] = 0
  BY ActorsAssumption DEF Base, QuietWorld, OrderedWorld, Straight, Operation, Placement, TypeOK
<1>2. ASSUME ~Straight, run[r].at # "idle", MoveStands(run[r])', task'.stage # "file-operation" => ~Removing',
             \A s \in Runners : s # r => run'[s] = run[s]
      PROVE  MovesStand'
  BY <1>1, <1>2, OthersIdle, MovesGoOn
<1>3. ASSUME RowsStand', Straight => NoRemovals', ~Straight => MovesStand' PROVE OrderedWorld'
  BY <1>1, <1>3 DEF OrderedWorld
<1>4. ~Straight => (task.stage # "file-operation" => ~Removing)
  BY <1>1 DEF MovesStand
<1>5. CASE Reads(r)
  <2>1. ReadStep(r) /\ UNCHANGED <<disk, journal, task, plan>>
    BY <1>5 DEF Reads, ReadStep, files, db, lease, world
  <2>2. RowStands(run'[r]) /\ RunGoesOn(r) /\ run[r].at # "idle"
    BY <1>1, <2>1, StandsReads, ReadsTyped, RemovalReads
  <2>3. ASSUME Straight PROVE NoRemovals'
    <3>1. PlainRun(run'[r])
      BY <1>1, <2>1, <2>3, PlainReads
    <3> QED  BY <1>1, <2>1, <2>2, <2>3, <3>1, RemovalsGoOn DEF RunGoesOn, NoRemovals
  <2>4. ASSUME ~Straight PROVE MovesStand'
    <3>1. MoveStands(run[r])'
      BY <1>1, <2>1, <2>4, MoveReads
    <3> QED  BY <1>2, <1>4, <2>1, <2>2, <2>4, <3>1 DEF RunGoesOn, Removing
  <2>5. RowsStand'
    BY <1>1, <2>1, <2>2, RowsSameStand DEF RunGoesOn
  <2> QED  BY <1>3, <2>3, <2>4, <2>5
<1>6. CASE Records(r)
  <2>1. RecordStep(r) /\ UNCHANGED <<disk, task, plan>>
    BY <1>6 DEF Records, RecordStep, files, lease, world
  <2>2. /\ Stays /\ RowStands(run[r])' /\ RunGoesOn(r) /\ run[r].at # "idle"
        /\ journal'["nfo"].status # "none" => IsVerified("file")'
    BY <1>1, <2>1, StandsRecords, RecordsJournal, RemovalReads
  <2>3. ASSUME Straight PROVE NoRemovals'
    <3>1. PlainRun(run'[r]) /\ journal'["removal"] = journal["removal"]
      BY <1>1, <2>1, <2>3, PlainRecords
    <3> QED  BY <1>1, <2>1, <2>2, <2>3, <3>1, RemovalsGoOn DEF RunGoesOn, NoRemovals
  <2>4. ASSUME ~Straight PROVE MovesStand'
    <3>1. MoveStands(run[r])' /\ (task'.stage # "file-operation" => ~Removing')
      BY <1>1, <2>1, <2>4, MoveRecords
    <3> QED  BY <1>2, <2>2, <2>4, <3>1 DEF RunGoesOn
  <2>5. RowsStand'
    BY <1>1, <2>2, RowsGoOn DEF RunGoesOn
  <2> QED  BY <1>3, <2>3, <2>4, <2>5
<1>7. CASE Calls(r) \/ RunFails(r)
  <2>1. (CallStep(r) \/ FailStep(r)) /\ UNCHANGED <<journal, task, plan>>
    BY <1>7 DEF Calls, RunFails, CallStep, FailStep, world, db, lease, Spend
  <2>2. RowStands(run'[r]) /\ RunGoesOn(r) /\ run[r].at # "idle"
    BY <1>1, <2>1, StandsCalls, CallsKeepRows, OtherCalls
  <2>3. ASSUME Straight PROVE NoRemovals'
    <3>1. PlainRun(run'[r]) /\ (Operation = "move" => disk'["source"] = Absent \/ disk'["target"] = Absent)
      BY <1>1, <2>1, <2>3, PlainCalls
    <3> QED  BY <1>1, <2>1, <2>2, <2>3, <3>1, RemovalsGoOn DEF RunGoesOn
  <2>4. ASSUME ~Straight PROVE MovesStand'
    <3>1. MoveStands(run[r])'
      BY <1>1, <2>1, <2>4, MoveCalls
    <3> QED  BY <1>2, <1>4, <2>1, <2>2, <2>4, <3>1 DEF RunGoesOn, Removing
  <2>5. RowsStand'
    BY <1>1, <2>1, <2>2, RowsSameStand DEF RunGoesOn
  <2> QED  BY <1>3, <2>3, <2>4, <2>5
<1>8. CASE Works(r)
  <2>1. Compensate(r) /\ r \in Actors
    BY <1>8 DEF Works, Actors
  <2> QED  BY <1>1, <2>1, CompensateTyped DEF QuietFiles
<1>9. CASE Commit(r)
  <2>1. /\ At(r, "commit") /\ UNCHANGED <<disk, journal>>
        /\ Turned(r, "idle", "file", NoRow, NoFacts, FALSE, "again")
    BY <1>1, <1>9, CommitDoes DEF files, db
  <2>2. RowStands(run'[r]) /\ PlainRun(run'[r]) /\ MoveStands(run[r])'
    BY <2>1, NoRunIs DEF Turned, RowStands, PlainRun, Removes, MoveStands
  <2>3. ASSUME Straight PROVE NoRemovals'
    BY <1>1, <2>1, <2>2, <2>3, RemovalsGoOn DEF Turned, NoRemovals
  <2>4. ASSUME ~Straight PROVE MovesStand'
    <3>1. Late(run[r]) => ~Removing
      BY <1>1, <2>1, <2>4 DEF MovesStand, MoveStands, At
    <3>2. task' = task \/ task' = CommittedTask(run[r].then)
      BY <1>9 DEF Commit, lease
    <3>3. run[r].then \in Outcomes
      BY <1>1, RunIs
    <3>4. task'.stage # "file-operation" => ~Removing
      <4>1. CASE run[r].then \in {"nfo-pending", "organized", "completed"}
        BY <2>1, <3>1, <4>1 DEF Late, At
      <4>2. CASE run[r].then \in {"again", "review"}
        <5>1. task'.stage = task.stage
          BY <1>1, <3>2, <4>2 DEF CommittedTask, Waiting, TypeOK
        <5> QED  BY <1>4, <2>4, <5>1
      <4> QED  BY <3>3, <4>1, <4>2 DEF Outcomes
    <3> QED  BY <1>2, <2>1, <2>2, <2>4, <3>4 DEF At, Turned, Removing
  <2>5. RowsStand'
    BY <1>1, <2>1, <2>2, RowsSameStand DEF Turned
  <2> QED  BY <1>3, <2>3, <2>4, <2>5
<1>10. CASE StartStage(r)
  <2>1. UNCHANGED <<disk, journal, task>> /\ holder = NoOne
    BY <1>10 DEF StartStage, files, db
  <2>2. PICK at \in {"observe", "nfo-look", "complete"} :
           Turned(r, at, "file", NoRow, NoFacts, FALSE, "again")
    BY <1>1, <1>10, StartDoes
  <2>3. RowStands(run'[r]) /\ PlainRun(run'[r])
    BY <2>2, NoRunIs DEF Turned, RowStands, PlainRun, Removes
  <2>4. ASSUME Straight PROVE NoRemovals'
    BY <1>1, <2>1, <2>2, <2>3, <2>4, RemovalsGoOn DEF Turned, NoRemovals
  <2>5. ASSUME ~Straight PROVE MovesStand'
    <3>1. task.stage = "file-operation" => at = "observe"
      <4>1. run'[r].at = FirstStep(task.stage)
        BY <1>1, <1>10 DEF StartStage, NoRun
      <4> QED  BY <2>2, <4>1 DEF FirstStep, Turned
    <3>2. task.stage # "file-operation" => at \in LateSteps
      <4>1. run'[r].at = FirstStep(task.stage) /\ task.stage \in {"file-operation", "nfo", "completion"}
        BY <1>1, <1>10 DEF StartStage, NoRun, DoneRests, TypeOK, TaskStages
      <4> QED  BY <2>2, <4>1 DEF FirstStep, Turned, LateSteps
    <3>3. MoveStands(run[r])'
      <4>1. CASE task.stage = "file-operation"
        BY <2>1, <2>2, <3>1, <4>1, MoveOn, NoRunIs DEF Turned, LateSteps
      <4>2. CASE task.stage # "file-operation"
        <5>1. ~Removing'
          BY <1>4, <2>1, <2>5, <4>2 DEF Removing
        <5>2. /\ run'[r].at \in LateSteps /\ run'[r].at \notin {"prepare", "completed"}
              /\ run'[r].row.status = "none"
          BY <2>2, <3>2, <4>2, NoRunIs DEF Turned
        <5> QED  BY <5>1, <5>2, MoveLate
      <4> QED  BY <4>1, <4>2
    <3>4. \A s \in Runners : s # r => run[s].at = "idle"
      BY <1>1, <2>1, <2>5, OthersIdle
    <3> QED  BY <1>1, <1>4, <2>1, <2>2, <2>5, <3>3, <3>4, MovesGoOn DEF Turned, Removing
  <2>6. RowsStand'
    BY <1>1, <2>1, <2>2, <2>3, RowsSameStand DEF Turned
  <2> QED  BY <1>3, <2>4, <2>5, <2>6
<1> QED  BY <1>5, <1>6, <1>7, <1>8, <1>9, <1>10 DEF RunStep

LEMMA OrderedSame ==
    ASSUME OrderedWorld, UNCHANGED <<disk, journal, plan>>, task'.stage = task.stage,
           \A s \in Runners : run'[s] = run[s] \/ run'[s] = NoRun
    PROVE  OrderedWorld'
<1>1. (Straight' <=> Straight) /\ (Removing' <=> Removing)
  BY DEF Straight, Operation, Placement, Removing
<1>2. ASSUME NEW s \in Runners, RowStands(run[s]) PROVE RowStands(run[s])'
  BY <1>2, NoRunIs DEF RowStands, IsVerified
<1>3. ASSUME NEW s \in Runners, PlainRun(run[s]) PROVE PlainRun(run[s])'
  BY <1>3, NoRunIs DEF PlainRun, Removes, Operation
<1>4. ASSUME NEW s \in Runners, MoveStands(run[s]) PROVE MoveStands(run[s])'
  BY <1>1, <1>4, NoRunIs DEF MoveStands, Late
<1>5. RowsStand'
  BY <1>2 DEF OrderedWorld, RowsStand, IsVerified
<1>6. Straight => NoRemovals'
  BY <1>3 DEF OrderedWorld, NoRemovals, Operation
<1>7. ~Straight => MovesStand'
  BY <1>1, <1>4 DEF OrderedWorld, MovesStand
<1> QED  BY <1>1, <1>5, <1>6, <1>7 DEF OrderedWorld

LEMMA OrderedNext ==
    ASSUME Base, Undisturbed => QuietWorld, Overlap, Unhurried => OrderedWorld, [Next]_vars
    PROVE  Unhurried' => OrderedWorld'
<1> SUFFICES ASSUME Unhurried' PROVE OrderedWorld'
  OBVIOUS
<1>1. TypeOK /\ spent \in [Incidents -> Nat] /\ {"user", "rollback", "crash", "lost", "retry"} \subseteq Incidents
  BY DEF Base, TypeOK, Incidents
<1>2. plan' = plan /\ Unhurried /\ Undisturbed'
  BY <1>1, WorldSteps DEF Unhurried, Undisturbed, Straight, Operation, Placement
<1>3. QuietWorld /\ QuietFiles /\ OrderedWorld /\ Undisturbed /\ (Straight \/ (Operation = "move" /\ spent["lost"] = 0))
  BY <1>2 DEF QuietWorld, Unhurried
<1>4. ASSUME NEW what \in {"user", "rollback"}, Spend(what) PROVE FALSE
  BY <1>1, <1>2, <1>3, <1>4 DEF Spend, Undisturbed
<1>5. CASE UNCHANGED vars \/ LoseLease \/ RetryRequest
  <2>1. UNCHANGED <<disk, journal, run>> /\ task'.stage = task.stage
    BY <1>1, <1>5 DEF vars, files, db, lease, LoseLease, RetryRequest, TypeOK
  <2> QED  BY <1>2, <1>3, <2>1, OrderedSame
<1>6. CASE Crash
  BY <1>2, <1>3, <1>6, OrderedSame DEF Crash, db
<1>7. ASSUME NEW c \in Callers, Ask(c) \/ RequestStep(c) PROVE OrderedWorld'
  <2>1. c \in Actors /\ undo[c].at = "idle" /\ comp[c].at = "none"
    BY <1>3 DEF QuietFiles, Actors
  <2>2. ~Ask(c)
    BY <1>4 DEF Ask
  <2>3. ~Requested(c)
    BY <2>1 DEF Requested, Check, Load, NfoTaken, NfoManual, FileTaken, Finish, UndoAt
  <2>4. ~Works(c)
    BY <1>1, <2>1, CompensateTyped DEF Works
  <2> QED  BY <1>7, <2>2, <2>3, <2>4 DEF RequestStep
<1>8. ASSUME NEW a \in Actors, WorkFails(a) PROVE OrderedWorld'
  BY <1>1, <1>3, <1>8, CompensateTyped DEF WorkFails, QuietFiles
<1>9. CASE Users
  BY <1>4, <1>9 DEF Users
<1> QED  BY <1>2, <1>3, <1>5, <1>6, <1>7, <1>8, <1>9, OrderedRunStep DEF Next

\* A run that completes the result has the verified row of its last step.
LEMMA RecordsComplete ==
    ASSUME Base, OrderedWorld, NEW r \in Runners, RecordStep(r),
           result.status # "completed", result'.status = "completed"
    PROVE  /\ IsVerified("file")
           /\ journal["removal"].status \in {"none", "verified"}
           /\ plan.nfo => IsVerified("nfo")
<1>1. /\ TypeOK /\ result \in Results /\ StatusFits(run[r]) /\ KindFits(run[r]) /\ RowStands(run[r])
      /\ Straight => journal["removal"].status = "none"
      /\ ~Straight => MoveStands(run[r])
  BY DEF Base, StepFits, TypeOK, OrderedWorld, RowsStand, NoRemovals, MovesStand
<1>2. ASSUME run[r].at \in {"conclude", "nfo-pending", "nfo-finish"}
      PROVE  journal["removal"].status \in {"none", "verified"}
  BY <1>1, <1>2 DEF KindFits, MoveStands, Late, LateSteps, Removing
<1>3. ASSUME ConcludeResult PROVE ~plan.nfo
  <2>1. CASE NeedsConclusion
    BY <1>1, <1>3, <2>1, ConcludedIs, ChangeTyped DEF ConcludeResult
  <2>2. CASE ~NeedsConclusion
    BY <1>3, <2>2 DEF ConcludeResult
  <2> QED  BY <2>1, <2>2
<1>4. CASE Conclude(r)
  <2>1. At(r, "conclude") /\ run[r].row.status = "verified" /\ ConcludeResult
    BY <1>4 DEF Conclude
  <2> QED  BY <1>1, <1>2, <1>3, <2>1 DEF At, RowStands
<1>5. CASE NfoPending(r)
  <2>1. At(r, "nfo-pending") /\ ConcludeResult
    BY <1>5 DEF NfoPending
  <2>2. run[r].on = "file" /\ run[r].row.status = "verified"
    BY <1>1, <2>1 DEF At, KindFits, StatusFits, NfoReads
  <2> QED  BY <1>1, <1>2, <1>3, <2>1, <2>2 DEF At, RowStands
<1>6. CASE NfoFinish(r)
  <2>1. At(r, "nfo-finish")
    BY <1>6 DEF NfoFinish
  <2>2. run[r].on = "nfo" /\ run[r].row.status = "verified"
    BY <1>1, <2>1 DEF At, KindFits, StatusFits
  <2> QED  BY <1>1, <1>2, <2>1, <2>2 DEF At, RowStands
<1>7. ASSUME ReviewResult(r) \/ EnsurePartial(r) \/ NfoFailed(r) \/ Catalog(r) PROVE FALSE
  <2>1. CASE UNCHANGED result
    BY <2>1
  <2>2. CASE ReviewResult(r) /\ Change([result EXCEPT !.status = "manual-review"])
    BY <1>1, <2>2 DEF Change, Results
  <2>3. CASE EnsurePartial(r)
             /\ Change([NoResult EXCEPT !.status = "partial-success", !.remaining = "source-removal"])
    BY <2>3 DEF Change, NoResult
  <2>4. CASE NfoFailed(r) /\ Change([result EXCEPT !.nfo = "failed", !.remaining = "nfo"])
    BY <1>1, <2>4 DEF Change, Results
  <2>5. CASE Catalog(r) /\ Change([result EXCEPT !.catalog = TRUE])
    BY <1>1, <2>5 DEF Change, Results
  <2> QED  BY <1>7, <2>1, <2>2, <2>3, <2>4, <2>5 DEF ReviewResult, EnsurePartial, NfoFailed, Catalog
<1>8. ASSUME Begin(r) \/ Mark(r) \/ Verify(r) \/ Review(r) \/ PrepareFile(r) \/ PrepareRemoval(r) \/ NfoPrepare(r)
      PROVE  FALSE
  BY <1>8 DEF Begin, Mark, Verify, Review, PrepareFile, PrepareRemoval, NfoPrepare
<1> QED  BY <1>4, <1>5, <1>6, <1>7, <1>8 DEF RecordStep

LEMMA OrderedCompletes ==
    ASSUME Base, QuietWorld, OrderedWorld, [Next]_vars,
           result.status # "completed", result'.status = "completed", spent["rollback"] = 0
    PROVE  /\ IsVerified("file")
           /\ journal["removal"].status \in {"none", "verified"}
           /\ plan.nfo => IsVerified("nfo")
<1>1. ~UNCHANGED db
  BY DEF db
<1>2. ASSUME NEW r \in Runners, RunStep(r) \/ RunFails(r) \/ StartStage(r) PROVE RecordStep(r)
  BY <1>1, <1>2 DEF RunStep, RunFails, StartStage, Reads, Records, Calls, Works, Commit, RecordStep
<1>3. ASSUME NEW c \in Callers, Ask(c) \/ RequestStep(c) PROVE FALSE
  <2>1. undo[c].at = "idle"
    BY DEF QuietWorld, QuietFiles
  <2>2. ~Requested(c)
    BY <2>1 DEF Requested, Check, Load, NfoTaken, NfoManual, FileTaken, Finish, UndoAt
  <2> QED  BY <1>1, <1>3, <2>2 DEF Ask, RequestStep, Works
<1>4. PICK r \in Runners : RecordStep(r)
  BY <1>1, <1>2, <1>3 DEF Next, WorkFails, Crash, LoseLease, RetryRequest, Users, vars
<1> QED  BY <1>4, RecordsComplete

LEMMA OrderedInit == Init => Overlap /\ OrderedWorld
<1> SUFFICES ASSUME Init PROVE Overlap /\ OrderedWorld
  OBVIOUS
<1>1. /\ \A r \in Runners : run[r] = NoRun
      /\ \A k \in JournalKinds : journal[k] = NoRow
      /\ disk["target"] = Absent /\ task.stage = "file-operation"
      /\ "nfo" \in JournalKinds /\ "removal" \in JournalKinds
  BY PathsAre DEF Init, FilesInit, JournalKinds
<1>2. RowsStand /\ NoRemovals /\ MovesStand
  BY <1>1, NoRunIs DEF RowsStand, RowStands, NoRemovals, PlainRun, Removes, MovesStand, MoveStands, Removing
<1> QED  BY <1>2, UserWorldInit DEF UserWorld, OrderedWorld

\* As long as no user interferes, a result becomes completed (LocalResultStatus::Completed) when every
\* step of its plan is verified: the file, the removal of its source if there is one, and the NFO that
\* was asked for.
THEOREM CompletedRests == Spec /\ Orderly => CompletedOnVerified
<1> DEFINE Ordered == Overlap /\ (Unhurried => OrderedWorld)
<1>1. Init => Inductive /\ Ordered
  BY InductiveInit, OrderedInit
<1>2. Inductive /\ Ordered /\ Orderly /\ [Next]_vars => Ordered' /\ Orderly'
  <2> SUFFICES ASSUME Inductive, Ordered, Orderly, [Next]_vars PROVE Ordered' /\ Orderly'
    OBVIOUS
  <2>1. Base /\ (Undisturbed => QuietWorld) /\ Overlap' /\ plan' = plan /\ limits' = limits
    BY OverlapNext, WorldSteps DEF Inductive, Base
  <2>2. Orderly'
    BY <2>1 DEF Orderly, Straight, Operation, Placement
  <2> QED  BY <2>1, <2>2, OrderedNext
<1>3. Inductive /\ Ordered /\ Orderly /\ [Next]_vars =>
         [result.status # "completed" /\ result'.status = "completed" /\ spent.user = 0 =>
             /\ journal["file"].status = "verified"
             /\ journal["removal"].status \in {"none", "verified"}
             /\ plan.nfo => journal["nfo"].status = "verified"]_vars
  <2> SUFFICES ASSUME Inductive, Ordered, Orderly, [Next]_vars,
                      result.status # "completed", result'.status = "completed", spent["user"] = 0
               PROVE  /\ journal["file"].status = "verified"
                      /\ journal["removal"].status \in {"none", "verified"}
                      /\ plan.nfo => journal["nfo"].status = "verified"
    OBVIOUS
  <2>1. /\ Base /\ spent["rollback"] = 0
        /\ Operation = "move" /\ limits["lost"] = 0 => spent["lost"] = 0
    <3>1. /\ spent["rollback"] <= limits["rollback"] /\ spent["lost"] <= limits["lost"]
          /\ spent["rollback"] \in Nat /\ spent["lost"] \in Nat
      BY DEF Inductive, Limited, Base, TypeOK, Incidents
    <3> QED  BY <3>1 DEF Inductive, Orderly
  <2>2. QuietWorld /\ OrderedWorld
    BY <2>1 DEF Inductive, Undisturbed, Unhurried, Orderly
  <2> QED  BY <2>1, <2>2, OrderedCompletes DEF IsVerified
<1> HIDE DEF Ordered
<1>4. Spec /\ Orderly => [](Ordered /\ Orderly)
  BY <1>1, <1>2, InductiveHolds, PTL DEF Spec
<1> QED  BY <1>3, <1>4, InductiveHolds, PTL DEF Spec, CompletedOnVerified

-----------------------------------------------------------------------------
(***************************************************************************)
(* What a rollback gives back.                                             *)
(***************************************************************************)

\* Plans whose file a rollback removes, or can rename to where it came from.
Returnable == Operation \in {"copy", "hardlink"} \/ Placement = "same"

\* What the property needs: a crash, and a run without its lease, can make or give back the target
\* behind a rollback's back, and so can a second rollback of what cannot be renamed.
Returning == Returnable /\ limits["crash"] = 0 /\ limits["lost"] = 0

Steady == Returnable /\ spent["user"] = 0 /\ spent["crash"] = 0 /\ spent["lost"] = 0

\* The steps of the stages behind the file operation.
StageSteps == {"nfo-look", "nfo-pending", "nfo-inspect", "nfo-prepare", "complete", "catalog"}

\* Where a run can be in its stage; in that of the file operation a result is its last word.
RunPlaced(s) ==
    s.at # "idle" =>
        /\ s.at \notin RemovalCalls
        /\ s.at = "conclude" => s.on = "file"
        /\ task.stage = "file-operation" =>
              /\ s.on # "nfo" /\ s.at \notin StageSteps
              /\ result.status # "none" => s.at = "commit" /\ s.then \in {"nfo-pending", "organized"}
        /\ task.stage # "file-operation" => s.on = "nfo" \/ s.at \in StageSteps \cup {"commit"}

Placed ==
    /\ \A r \in Runners : RunPlaced(run[r])
    /\ task.stage = "file-operation" /\ result.status # "none" => \E r \in Runners : Active(r)

\* Before there is a result nothing is taken back, and what is moved is at one of its two places.
Before ==
    /\ spent["rollback"] = 0
    /\ disk["rollback"] = Absent
    /\ Operation \in Moves =>
          \/ disk["source"] = Original /\ disk["target"] = Absent
          \/ disk["source"] = Absent /\ disk["target"] = Original

\* With a result, the file is the one the row describes, at its target, in the hands of a request that
\* takes it back, or, if it is moved, at its source again.
Handed == journal["file"].applied
HoldsTarget(c) == Holding(c) /\ comp[c].path = "target"
Behind ==
    /\ disk["target"] # Absent => Facts("target") = Handed
    /\ disk["rollback"] # Absent =>
          /\ Facts("rollback") = Handed /\ disk["target"] = Absent
          /\ \E c \in Callers : HoldsTarget(c)
    /\ result.status = "compensated" => disk["target"] = Absent
    /\ Operation \in Moves =>
          /\ Handed = Planned
          /\ \E p \in {"source", "target", "rollback"} : disk[p] # Absent
          /\ disk["source"] # Absent =>
                Facts("source") = Planned /\ disk["target"] = Absent /\ disk["rollback"] = Absent

\* How far a request is, and what it has in hand.
Requesting(c) ==
    /\ undo[c].at \in {"nfo", "nfo-manual", "file", "finish"} => undo[c].file.applied = Handed
    /\ undo[c].at = "file" => comp[c].path = "target"
    /\ undo[c].at = "finish" /\ ~undo[c].manual => disk["target"] = Absent
    /\ comp[c].at # "none" =>
          /\ undo[c].at \in {"nfo", "file"}
          /\ comp[c].path = "nfo" => ~comp[c].restores
          /\ comp[c].path = "target" =>
                /\ comp[c].facts = Handed /\ (comp[c].restores <=> Operation \in Moves)
                /\ comp[c].at \in {"absent", "removed", "restored"} => disk["target"] = Absent
                /\ Holding(c) => disk["rollback"] # Absent
                                 /\ \A d \in Callers : HoldsTarget(d) => d = c

AllRequesting ==
    /\ \A c \in Callers : Requesting(c)
    /\ \A r \in Runners : comp[r].at = "none"

ReturnWorld ==
    /\ Placed
    /\ result.status = "none" => Before
    /\ result.status # "none" => Behind /\ AllRequesting

LEMMA PlacedIs ==
    ASSUME Base, NEW r \in Runners, RunPlaced(run[r]), run[r].at \notin {"idle", "commit"},
           result.status = "none" => PlainRun(run[r])
    PROVE  /\ run[r].at \notin RemovalCalls \cup Removes \cup {"finish-removal"}
           /\ run[r].on # "removal" \/ run[r].at \in {"complete", "catalog"}
           /\ task.stage = "file-operation" =>
                 run[r].on = "file" /\ run[r].at \notin StageSteps /\ result.status = "none"
           /\ task.stage # "file-operation" => run[r].on = "nfo" \/ run[r].at \in StageSteps
<1>1. KindFits(run[r]) /\ run[r].on \in {"file", "removal", "nfo"}
  BY RunIs DEF Base, StepFits, JournalKinds
<1> QED  BY <1>1 DEF RunPlaced, PlainRun, KindFits, Removes, StageSteps, NfoReads

\* The ways a run goes on in its stage: with its journal, to its end, or to a step of a later stage.
LEMMA PlacedOn ==
    ASSUME NEW r \in Runners, RunPlaced(run[r]), run[r].at \notin {"idle", "commit"} \cup StageSteps,
           run'[r].on = run[r].on, run'[r].at \notin StageSteps \cup RemovalCalls,
           run'[r].at = "conclude" => run'[r].on = "file", UNCHANGED <<task, result>>
    PROVE  RunPlaced(run[r])'
BY DEF RunPlaced

LEMMA PlacedEnds ==
    ASSUME NEW r \in Runners, NEW then \in Outcomes, Ends(r, then), UNCHANGED task,
           task.stage = "file-operation" /\ result'.status # "none" => then \in {"nfo-pending", "organized"}
    PROVE  RunPlaced(run[r])'
BY DEF RunPlaced, Ends, Turned, RemovalCalls, StageSteps

LEMMA PlacedLater ==
    ASSUME NEW r \in Runners, UNCHANGED task, task.stage # "file-operation",
           run'[r].on = "nfo" \/ run'[r].at \in StageSteps \cup {"commit"},
           run'[r].at \notin RemovalCalls \cup {"conclude"}
    PROVE  RunPlaced(run[r])'
BY DEF RunPlaced

LEMMA PlacedReads ==
    ASSUME Base, NEW r \in Runners, RunPlaced(run[r]), result.status = "none" => PlainRun(run[r]),
           ReadStep(r), UNCHANGED <<task, result>>
    PROVE  RunPlaced(run[r])'
<1>1. /\ TypeOK /\ KindFits(run[r]) /\ "nfo" \in JournalKinds
      /\ run[r].at \notin {"idle", "commit"}
  <2>1. run[r].at \notin {"idle", "commit"}
    BY DEF ReadStep, At, Inspect, Observe, Execute, Recover, Completed, RemovalRecover, RemovalLook, FinishRemoval,
           NfoLook, NfoInspect, NfoExecute, NfoExists, NfoRecover, Complete
  <2> QED  BY <2>1 DEF Base, StepFits, JournalKinds
<1>2. /\ run[r].at \notin RemovalCalls \cup Removes \cup {"finish-removal"}
      /\ task.stage = "file-operation" =>
            run[r].on = "file" /\ run[r].at \notin StageSteps /\ result.status = "none"
      /\ task.stage # "file-operation" => run[r].on = "nfo" \/ run[r].at \in StageSteps
  BY <1>1, PlacedIs
<1>3. ASSUME NEW then \in {"again", "review"}, Ends(r, then), result.status = "none" \/ task.stage # "file-operation"
      PROVE  RunPlaced(run[r])'
  BY <1>3, PlacedEnds DEF Outcomes
<1>4. CASE Inspect(r) \/ Execute(r) \/ Recover(r)
  <2>1. /\ run[r].at \in {"inspect", "execute", "recover"} /\ run'[r].on = run[r].on
        /\ run'[r].at \in {"review", "verify", "copy", "rename", "mark", "execute"}
    BY <1>1, <1>4, InspectDoes, ExecuteDoes, RecoverDoes DEF At, Same, Turned, ExecuteStep
  <2> QED  BY <1>1, <2>1, PlacedOn DEF StageSteps, RemovalCalls
<1>5. CASE Observe(r)
  <2>1. run[r].at = "observe" /\ (Ends(r, "review") \/ Same(r, "prepare"))
    BY <1>1, <1>5, ObserveDoes DEF At
  <2>2. CASE Same(r, "prepare")
    BY <1>1, <2>1, <2>2, PlacedOn DEF StageSteps, RemovalCalls, Same, Turned
  <2> QED  BY <1>2, <1>3, <2>1, <2>2
<1>6. CASE Completed(r)
  <2>1. run[r].at = "completed" /\ run'[r].on = run[r].on /\ run'[r].at \in {"review", "conclude", "partial"}
    BY <1>1, <1>6, CompletedDoes DEF At, Same, Turned
  <2>2. run[r].on = "file"
    BY <1>1, <2>1 DEF KindFits
  <2> QED  BY <1>1, <2>1, <2>2, PlacedOn DEF StageSteps, RemovalCalls
<1>7. CASE RemovalRecover(r) \/ RemovalLook(r) \/ FinishRemoval(r)
  BY <1>1, <1>2, <1>7, RemovalRecoverDoes, RemovalLookDoes, FinishRemovalDoes DEF At, RemovalCalls
<1>8. CASE NfoLook(r) \/ NfoInspect(r) \/ Complete(r)
  <2>1. run[r].at \in {"nfo-look", "nfo-inspect", "complete"}
    BY <1>1, <1>8, NfoLookDoes, NfoInspectDoes, CompleteDoes DEF At
  <2>2. task.stage # "file-operation"
    BY <1>2, <2>1 DEF StageSteps
  <2>3. journal["nfo"].status # "none" => Entry("nfo", journal["nfo"].status) \notin RemovalCalls \cup {"conclude"}
    <3>1. journal["nfo"].status \in JournalStatuses
      BY <1>1, WorldIs DEF Rows
    <3> QED  BY <1>1, <3>1, EntryCases DEF RemovalCalls
  <2>4. /\ run'[r].on = "nfo" \/ run'[r].at \in StageSteps \cup {"commit"}
        /\ run'[r].at \notin RemovalCalls \cup {"conclude"}
    <3>1. CASE NfoLook(r)
      BY <1>1, <2>3, <3>1, NfoLookDoes DEF Ends, Turned, StageSteps, RemovalCalls
    <3>2. CASE NfoInspect(r) \/ Complete(r)
      BY <1>1, <3>2, NfoInspectDoes, CompleteDoes DEF Same, Ends, Turned, StageSteps, RemovalCalls
    <3> QED  BY <1>8, <3>1, <3>2
  <2> QED  BY <2>2, <2>4, PlacedLater
<1>9. CASE NfoExecute(r) \/ NfoExists(r) \/ NfoRecover(r)
  <2>1. /\ run[r].at \in {"nfo-execute", "nfo-exists", "nfo-recover"} /\ run'[r].on = run[r].on
        /\ run'[r].at \in {"nfo-create", "mark", "review"}
    BY <1>1, <1>9, NfoExecuteDoes, NfoExistsDoes, NfoRecoverDoes DEF At, Same, Turned
  <2> QED  BY <1>1, <2>1, PlacedOn DEF StageSteps, RemovalCalls
<1> QED  BY <1>4, <1>5, <1>6, <1>7, <1>8, <1>9 DEF ReadStep

\* A result stays one, and a run makes none compensated.
LEMMA ResultGoesOn ==
    ASSUME Base, NEW r \in Runners, RecordStep(r)
    PROVE  \/ result'.status = result.status
           \/ /\ result'.status \in {"partial-success", "completed", "manual-review"}
              /\ result.status = "none" => run[r].at \in {"conclude", "partial", "nfo-pending", "nfo-finish"}
<1>1. TypeOK /\ result \in Results /\ NoResult \in Results
  BY NoResultIs DEF Base, TypeOK
<1> DEFINE Grows == \/ result'.status = result.status
                    \/ /\ result'.status \in {"partial-success", "completed", "manual-review"}
                       /\ result.status = "none" =>
                             run[r].at \in {"conclude", "partial", "nfo-pending", "nfo-finish"}
<1>2. ASSUME UNCHANGED result PROVE Grows
  BY <1>2
<1>3. CASE Conclude(r) \/ NfoPending(r)
  <2>1. run[r].at \in {"conclude", "nfo-pending"} /\ (UNCHANGED result \/ Change(Concluded))
    BY <1>3 DEF Conclude, NfoPending, ConcludeResult, At
  <2>2. Concluded.status \in {"partial-success", "completed"} \/ Concluded.status = result.status
    <3>1. CASE result.status = "none"
      <4>1. Concluded.status \in {"none", "partial-success", "completed"}
        <5> DEFINE status == IF plan.nfo THEN "partial-success" ELSE "completed"
                   remaining == IF plan.nfo THEN "nfo" ELSE "none"
        <5>1. Concluded = [NoResult EXCEPT !.status = status, !.remaining = remaining]
          BY <3>1 DEF Concluded
        <5>2. status \in {"partial-success", "completed"}
          OBVIOUS
        <5> HIDE DEF status, remaining
        <5> QED  BY <1>1, <5>1, <5>2 DEF Results
      <4> QED  BY <3>1, <4>1
    <3>2. CASE result.status # "none" /\ plan.nfo
      <4> DEFINE nfo == IF result.nfo = "failed" THEN "failed" ELSE "not-requested"
      <4>1. Concluded = [result EXCEPT !.remaining = "nfo", !.nfo = nfo]
        BY <1>1, <3>2 DEF Concluded, Results
      <4> HIDE DEF nfo
      <4> QED  BY <1>1, <4>1 DEF Results
    <3>3. CASE result.status # "none" /\ ~plan.nfo
      BY <1>1, <3>3, ConcludedIs
    <3> QED  BY <3>1, <3>2, <3>3
  <2> QED  BY <1>1, <2>1, <2>2, ConcludedIs, ChangeTyped
<1>4. CASE EnsurePartial(r)
  <2>1. /\ [NoResult EXCEPT !.status = "partial-success", !.remaining = "source-removal"] \in Results
        /\ [NoResult EXCEPT !.status = "partial-success", !.remaining = "source-removal"].status = "partial-success"
    BY <1>1 DEF Results, ResultStatuses
  <2> QED  BY <1>4, <2>1, ChangeTyped DEF EnsurePartial, At
<1>5. CASE ReviewResult(r)
  <2>1. /\ [result EXCEPT !.status = "manual-review"] \in Results
        /\ [result EXCEPT !.status = "manual-review"].status = "manual-review"
    BY <1>1 DEF Results, ResultStatuses
  <2> QED  BY <1>5, <2>1, ChangeTyped DEF ReviewResult
<1>6. CASE NfoFailed(r)
  <2>1. /\ [result EXCEPT !.nfo = "failed", !.remaining = "nfo"] \in Results
        /\ [result EXCEPT !.nfo = "failed", !.remaining = "nfo"].status = result.status
    BY <1>1 DEF Results, NfoStatuses
  <2> QED  BY <1>6, <2>1, ChangeTyped DEF NfoFailed
<1>7. CASE NfoFinish(r)
  <2> DEFINE outcome == run[r].row.outcome
             new == [result EXCEPT !.status = "completed", !.remaining = "none", !.nfo = outcome]
  <2>1. run[r].at = "nfo-finish" /\ (Change(new) \/ UNCHANGED result)
    BY <1>7 DEF NfoFinish, At
  <2> HIDE DEF outcome
  <2>2. Change(new) => result'.status = "completed"
    BY <1>1 DEF Change, Results
  <2> QED  BY <2>1, <2>2
<1>8. CASE Catalog(r)
  <2>1. /\ [result EXCEPT !.catalog = TRUE] \in Results
        /\ [result EXCEPT !.catalog = TRUE].status = result.status
    BY <1>1 DEF Results
  <2> QED  BY <1>8, <2>1, ChangeTyped DEF Catalog
<1>9. CASE Begin(r) \/ Mark(r) \/ Verify(r) \/ Review(r) \/ PrepareFile(r) \/ PrepareRemoval(r) \/ NfoPrepare(r)
  BY <1>2, <1>9 DEF Begin, Mark, Verify, Review, PrepareFile, PrepareRemoval, NfoPrepare
<1> QED  BY <1>3, <1>4, <1>5, <1>6, <1>7, <1>8, <1>9 DEF RecordStep

LEMMA PlacedRecords ==
    ASSUME Base, NEW r \in Runners, RunPlaced(run[r]), result.status = "none" => PlainRun(run[r]),
           RecordStep(r), UNCHANGED task
    PROVE  RunPlaced(run[r])' /\ run'[r].at # "idle"
<1>1. /\ TypeOK /\ KindFits(run[r]) /\ "nfo" \in JournalKinds /\ "file" \in JournalKinds
      /\ run[r].at \notin {"idle", "commit"} /\ run[r].on \in {"file", "removal", "nfo"}
  <2>1. run[r].at \notin {"idle", "commit"}
    BY DEF RecordStep, At, Begin, Mark, Verify, Review, ReviewResult, PrepareFile, Conclude, EnsurePartial,
           PrepareRemoval, NfoPending, NfoPrepare, NfoFailed, NfoFinish, Catalog
  <2> QED  BY <2>1, RunIs DEF Base, StepFits, JournalKinds
<1>2. /\ run[r].at \notin RemovalCalls \cup Removes \cup {"finish-removal"}
      /\ run[r].on # "removal" \/ run[r].at \in {"complete", "catalog"}
      /\ task.stage = "file-operation" =>
            run[r].on = "file" /\ run[r].at \notin StageSteps /\ result.status = "none"
      /\ task.stage # "file-operation" => run[r].on = "nfo" \/ run[r].at \in StageSteps
  BY <1>1, PlacedIs
<1> DEFINE Done == RunPlaced(run[r])' /\ run'[r].at # "idle"
<1> HIDE DEF Done
<1>3. ASSUME NEW then \in Outcomes, Ends(r, then), UNCHANGED result \/ task.stage # "file-operation" PROVE Done
  BY <1>2, <1>3, PlacedEnds DEF Ends, Turned, Done
<1>4. ASSUME NEW k \in {"file", "nfo"}, journal[k].status # "none"
      PROVE  Entry(k, journal[k].status) \notin RemovalCalls \cup {"conclude", "idle"} \cup StageSteps
  <2>1. k \in JournalKinds /\ journal[k].status \in JournalStatuses
    BY <1>1, WorldIs DEF Rows, JournalKinds
  <2> QED  BY <1>4, <2>1, EntryCases DEF RemovalCalls, StageSteps
<1>5. ASSUME run[r].at \notin StageSteps, run'[r].on = run[r].on, UNCHANGED result,
             run'[r].at \notin StageSteps \cup RemovalCalls \cup {"conclude", "idle"}
      PROVE  Done
  BY <1>1, <1>5, PlacedOn DEF Done
<1>6. CASE Begin(r) \/ Mark(r) \/ Verify(r) \/ Review(r)
  <2>1. UNCHANGED result /\ run[r].at \in {"begin", "mark", "verify", "review"}
    BY <1>6 DEF Begin, Mark, Verify, Review, At
  <2>2. run[r].on # "removal"
    BY <1>2, <2>1
  <2>3. \/ Ends(r, "again")
        \/ /\ run'[r].on = run[r].on
           /\ run'[r].at \in {"copy", "execute", "nfo-execute", "inspect", "partial", "completed", "nfo-finish",
                              "review-result"}
    <3>1. CASE Begin(r)
      BY <1>1, <2>2, <3>1, BeginDoes DEF Turned, ExecuteStep
    <3>2. CASE Mark(r) \/ Review(r)
      BY <1>1, <3>2, MarkDoes, ReviewDoes DEF Turned
    <3>3. CASE Verify(r)
      BY <1>1, <2>2, <3>3, VerifyDoes DEF Turned
    <3> QED  BY <1>6, <3>1, <3>2, <3>3
  <2>4. CASE Ends(r, "again")
    BY <1>3, <2>1, <2>4 DEF Outcomes, Done
  <2> QED  BY <1>5, <2>1, <2>3, <2>4 DEF StageSteps, RemovalCalls, Done
<1>7. CASE ReviewResult(r) \/ NfoFailed(r) \/ NfoFinish(r) \/ Catalog(r)
  <2>1. \E then \in Outcomes : Ends(r, then)
    BY <1>1, <1>7, ReviewResultDoes, NfoFailedDoes, NfoFinishDoes, CatalogDoes DEF Outcomes
  <2>2. UNCHANGED result \/ task.stage # "file-operation"
    <3>1. CASE ReviewResult(r)
      BY <1>2, <3>1 DEF ReviewResult
    <3>2. CASE NfoFailed(r) \/ NfoFinish(r) \/ Catalog(r)
      BY <1>1, <1>2, <3>2, NfoFailedDoes, NfoFinishDoes, CatalogDoes DEF At, KindFits, NfoCalls, StageSteps
    <3> QED  BY <1>7, <3>1, <3>2
  <2> QED  BY <1>3, <2>1, <2>2 DEF Done
<1>8. CASE PrepareFile(r)
  <2>1. UNCHANGED result /\ run[r].at = "prepare" /\ run[r].on = "file"
    BY <1>1, <1>8 DEF PrepareFile, At, KindFits
  <2>2. run'[r].on = "file" /\ (run'[r].at = "begin" \/ (journal["file"].status # "none"
                                                        /\ run'[r].at = Entry("file", journal["file"].status)))
    BY <1>1, <1>8, PrepareFileDoes DEF Turned
  <2> QED  BY <1>4, <1>5, <2>1, <2>2 DEF StageSteps, RemovalCalls, Done
<1>9. CASE Conclude(r)
  <2>1. run[r].at = "conclude" /\ task.stage = "file-operation" /\ result.status = "none"
    BY <1>1, <1>2, <1>9 DEF Conclude, At, RunPlaced, StageSteps
  <2>2. \/ UNCHANGED result /\ End(r, "again")
        \/ \E then \in {"nfo-pending", "organized"} : End(r, then)
    BY <1>9 DEF Conclude
  <2>3. \/ UNCHANGED result /\ Ends(r, "again")
        \/ \E then \in {"nfo-pending", "organized"} : Ends(r, then)
    BY <1>1, <2>2, EndDoes DEF Outcomes
  <2>4. ASSUME NEW then \in {"nfo-pending", "organized"}, Ends(r, then) PROVE Done
    BY <2>4, PlacedEnds DEF Outcomes, Ends, Turned, Done
  <2> QED  BY <1>3, <2>3, <2>4 DEF Outcomes, Done
<1>10. CASE EnsurePartial(r) \/ PrepareRemoval(r)
  BY <1>1, <1>2, <1>10, EnsurePartialDoes, PrepareRemovalDoes DEF At, Removes
<1>11. CASE NfoPending(r) \/ NfoPrepare(r)
  <2>1. task.stage # "file-operation"
    BY <1>1, <1>2, <1>11, NfoPendingDoes, NfoPrepareDoes DEF At, StageSteps
  <2>2. CASE NfoPending(r)
    BY <1>1, <2>1, <2>2, NfoPendingDoes, PlacedLater DEF Same, Turned, StageSteps, RemovalCalls, Done
  <2>3. CASE NfoPrepare(r)
    <3>1. \/ Ends(r, "again")
          \/ run'[r].on = "nfo" /\ run'[r].at = "begin"
          \/ run'[r].on = "nfo" /\ journal["nfo"].status # "none"
             /\ run'[r].at = Entry("nfo", journal["nfo"].status)
      BY <1>1, <2>3, NfoPrepareDoes DEF Turned
    <3>2. CASE Ends(r, "again")
      BY <1>3, <2>1, <3>2 DEF Outcomes, Done
    <3>3. CASE run'[r].on = "nfo" /\ run'[r].at \notin RemovalCalls \cup {"conclude", "idle"}
      BY <2>1, <3>3, PlacedLater DEF Done
    <3> QED  BY <1>4, <3>1, <3>2, <3>3 DEF RemovalCalls
  <2> QED  BY <1>11, <2>2, <2>3
<1> QED  BY <1>6, <1>7, <1>8, <1>9, <1>10, <1>11 DEF RecordStep

LEMMA PlacedCalls ==
    ASSUME Base, Returnable, NEW r \in Runners, RunPlaced(run[r]), result.status = "none" => PlainRun(run[r]),
           CallStep(r) \/ FailStep(r), UNCHANGED <<task, result>>
    PROVE  RunPlaced(run[r])' /\ run'[r].at # "idle"
<1>1. /\ TypeOK /\ KindFits(run[r]) /\ PlanFits(run[r]) /\ run[r].at \notin {"idle", "commit"}
  <2>1. run[r].at \notin {"idle", "commit"}
    BY DEF CallStep, FailStep, At, Copy, Publish, Rename, Confirm, Undone, CreateManifest, PublishManifest,
           RemovalRename, RemovalCheck, RemovalUnlink, NfoCreate, NfoPublish, CopyFails, RenameUnsynced,
           ManifestFails, RemovalUnsynced, NfoWriteFails, CatalogFails
  <2> QED  BY <2>1 DEF Base, StepFits
<1>2. /\ run[r].at \notin RemovalCalls
      /\ task.stage = "file-operation" =>
            run[r].on = "file" /\ run[r].at \notin StageSteps /\ result.status = "none"
      /\ task.stage # "file-operation" => run[r].on = "nfo" \/ run[r].at \in StageSteps
  BY <1>1, PlacedIs
<1>3. run[r].at \in FileCalls \cup {"manifest", "manifest-publish"} =>
         run[r].on = "file" /\ run[r].at \notin StageSteps /\ result.status = "none"
  BY <1>1, <1>2 DEF KindFits, FileCalls, StageSteps
<1> DEFINE Done == RunPlaced(run[r])' /\ run'[r].at # "idle"
<1> HIDE DEF Done
<1>4. ASSUME NEW then \in Outcomes, Ends(r, then), result.status = "none" \/ task.stage # "file-operation" PROVE Done
  BY <1>2, <1>4, PlacedEnds DEF Ends, Turned, Done
<1>5. ASSUME run[r].at \notin StageSteps, run'[r].on = run[r].on,
             run'[r].at \notin StageSteps \cup RemovalCalls \cup {"idle"},
             run'[r].at = "conclude" => run'[r].on = "file"
      PROVE  Done
  BY <1>1, <1>5, PlacedOn DEF Done
<1>6. CASE Copy(r) \/ Publish(r) \/ CopyFails(r) \/ Rename(r) \/ RenameUnsynced(r) \/ Confirm(r) \/ Undone(r)
           \/ CreateManifest(r) \/ PublishManifest(r) \/ ManifestFails(r)
  <2> DEFINE Goes == \/ Ends(r, "again")
                     \/ /\ run'[r].on = run[r].on
                        /\ run'[r].at \in {"review", "publish", "mark", "confirm", "copy", "manifest", "undoing",
                                           "manifest-publish", "conclude"}
  <2>1. run[r].at \in FileCalls \cup {"manifest", "manifest-publish"}
    BY <1>6 DEF At, Copy, Publish, CopyFails, Rename, RenameUnsynced, Confirm, Undone, CreateManifest,
               PublishManifest, ManifestFails, FileCalls
  <2>2. ASSUME Copy(r) \/ CopyFails(r) \/ Rename(r) \/ RenameUnsynced(r) PROVE Goes
    BY <1>1, <2>2, CopyDoes, CopyFailsDoes, RenameDoes, RenameUnsyncedDoes DEF Same, Turned
  <2>3. ASSUME Publish(r) PROVE Goes
    <3>1. ~(Operation = "quarantine")
      BY <1>1, <2>3, PublishDoes DEF At, PlanFits, Returnable
    <3> QED  BY <1>1, <2>3, <3>1, PublishDoes DEF Same, Turned
  <2>4. ASSUME Confirm(r) \/ Undone(r) PROVE Goes
    BY <1>1, <2>4, ConfirmDoes, UndoneDoes DEF Same, Turned
  <2>5. ASSUME CreateManifest(r) \/ PublishManifest(r) \/ ManifestFails(r) PROVE Goes
    BY <1>1, <2>5, CreateManifestDoes, PublishManifestDoes, ManifestFailsDoes DEF Same, Turned
  <2>6. Goes
    BY <1>6, <2>2, <2>3, <2>4, <2>5
  <2>7. CASE Ends(r, "again")
    BY <1>3, <1>4, <2>1, <2>7 DEF Outcomes, Done
  <2>8. CASE /\ run'[r].on = run[r].on
             /\ run'[r].at \in {"review", "publish", "mark", "confirm", "copy", "manifest", "undoing",
                                "manifest-publish", "conclude"}
    BY <1>3, <1>5, <2>1, <2>8 DEF StageSteps, RemovalCalls, Done
  <2> QED  BY <2>6, <2>7, <2>8
<1>7. CASE RemovalRename(r) \/ RemovalCheck(r) \/ RemovalUnlink(r) \/ RemovalUnsynced(r)
  BY <1>2, <1>7 DEF RemovalRename, RemovalCheck, RemovalUnlink, RemovalUnsynced, At, RemovalCalls
<1>8. CASE NfoCreate(r) \/ NfoPublish(r) \/ NfoWriteFails(r)
  <2>1. /\ run[r].at \notin StageSteps /\ run'[r].on = run[r].on
        /\ run'[r].at \in {"review", "nfo-publish", "nfo-exists", "mark", "nfo-failed"}
    BY <1>1, <1>8, NfoCreateDoes, NfoPublishDoes, NfoWriteFailsDoes DEF At, Same, Turned, StageSteps
  <2> QED  BY <1>5, <2>1 DEF StageSteps, RemovalCalls, Done
<1>9. CASE CatalogFails(r)
  BY <1>1, <1>2, <1>4, <1>9, CatalogFailsDoes DEF Outcomes, Done, At, StageSteps
<1> QED  BY <1>6, <1>7, <1>8, <1>9 DEF CallStep, FailStep

\* The writing of an NFO leaves the other files alone.
LEMMA NfoCalled ==
    ASSUME TypeOK, NEW r \in Runners, NfoCreate(r) \/ NfoPublish(r) \/ NfoWriteFails(r)
    PROVE  /\ UNCHANGED comp
           /\ \A p \in {"source", "target", "rollback"} : disk'[p] = disk[p] /\ Facts(p)' = Facts(p)
<1> DEFINE names == {"source", "target", "rollback"}
<1>1. /\ UNCHANGED comp /\ disk \in [Paths -> Inodes \cup {Absent}] /\ names \subseteq Paths
      /\ \/ UNCHANGED disk \/ disk' = Unlinked("nfo-temp") \/ disk' = Renamed("nfo-temp", "nfo")
         \/ disk' = [disk EXCEPT !["nfo-temp"] = Fresh("nfo")]
  BY NfoCreateDoes, NfoPublishDoes, NfoWriteFailsDoes, PathsAre DEF TypeOK
<1>2. \A p \in names : disk'[p] = disk[p]
  BY <1>1, PathsAre DEF Unlinked, Renamed
<1>3. \/ UNCHANGED content
      \/ CanCreate("nfo") /\ content' = [content EXCEPT ![Fresh("nfo")] = "nfo"]
  BY NfoCreateDoes, NfoPublishDoes, NfoWriteFailsDoes
<1>4. \/ UNCHANGED content
      \/ \E i \in Inodes, d \in Data : ~Linked(i) /\ content' = [content EXCEPT ![i] = d]
  BY <1>3, FreshIs DEF Data
<1>5. ASSUME NEW p \in names PROVE Facts(p)' = Facts(p)
  BY <1>1, <1>2, <1>4, FactsStay
<1> QED  BY <1>1, <1>2, <1>5

\* Behind the file operation only NFOs are written.
LEMMA BehindCalls ==
    ASSUME Base, NEW r \in Runners, RunPlaced(run[r]), result.status # "none", CallStep(r) \/ FailStep(r)
    PROVE  /\ UNCHANGED comp
           /\ \A p \in {"source", "target", "rollback"} : disk'[p] = disk[p] /\ Facts(p)' = Facts(p)
<1>1. TypeOK /\ KindFits(run[r])
  BY DEF Base, StepFits
<1>2. ASSUME run[r].at \in FileCalls \cup {"manifest", "manifest-publish"} PROVE FALSE
  BY <1>1, <1>2 DEF KindFits, RunPlaced, FileCalls, StageSteps
<1>3. CASE Copy(r) \/ Publish(r) \/ CopyFails(r) \/ Rename(r) \/ RenameUnsynced(r) \/ Confirm(r) \/ Undone(r)
           \/ CreateManifest(r) \/ PublishManifest(r) \/ ManifestFails(r)
  BY <1>2, <1>3 DEF At, Copy, Publish, CopyFails, Rename, RenameUnsynced, Confirm, Undone, CreateManifest,
                    PublishManifest, ManifestFails, FileCalls
<1>4. CASE RemovalRename(r) \/ RemovalCheck(r) \/ RemovalUnlink(r) \/ RemovalUnsynced(r)
  BY <1>4 DEF RunPlaced, RemovalRename, RemovalCheck, RemovalUnlink, RemovalUnsynced, At, RemovalCalls
<1>5. CASE NfoCreate(r) \/ NfoPublish(r) \/ NfoWriteFails(r)
  BY <1>1, <1>5, NfoCalled
<1>6. CASE CatalogFails(r)
  BY <1>1, <1>6, CatalogFailsDoes DEF files, Facts
<1> QED  BY <1>3, <1>4, <1>5, <1>6 DEF CallStep, FailStep

LEMMA BeforeCalls ==
    ASSUME Base, Returnable, Before, NEW r \in Runners, RunPlaced(run[r]), CallStep(r) \/ FailStep(r),
           UNCHANGED plan, spent'["rollback"] = 0
    PROVE  Before'
<1>1. /\ TypeOK /\ KindFits(run[r]) /\ PlanFits(run[r]) /\ disk \in [Paths -> Inodes \cup {Absent}]
      /\ disk["rollback"] = Absent
  BY DEF Base, StepFits, TypeOK, Before
<1>2. ASSUME disk'["rollback"] = Absent, disk'["source"] = disk["source"], disk'["target"] = disk["target"]
      PROVE  Before'
  BY <1>2 DEF Before, Operation
<1>3. CASE Copy(r) \/ Publish(r) \/ CopyFails(r)
  <2>1. Operation \notin Moves
    BY <1>1, <1>3 DEF Copy, Publish, CopyFails, At, PlanFits, Returnable, Moves
  <2>2. \/ UNCHANGED disk \/ disk' = [disk EXCEPT !["temp"] = Fresh("copy")]
        \/ disk' = Unlinked("temp") \/ disk' = Renamed("temp", "target")
    BY <1>1, <1>3, CopyDoes, PublishDoes, CopyFailsDoes DEF Cleaned
  <2>3. disk'["rollback"] = Absent
    BY <1>1, <2>2, PathsAre DEF Unlinked, Renamed
  <2> QED  BY <2>1, <2>3 DEF Before, Operation
<1>4. CASE Rename(r) \/ RenameUnsynced(r)
  <2>1. UNCHANGED disk \/ (Renamable /\ disk' = NamedTarget)
    BY <1>1, <1>4, RenameDoes, RenameUnsyncedDoes
  <2>2. CASE UNCHANGED disk
    BY <1>1, <1>2, <2>2
  <2>3. CASE Renamable /\ disk' = NamedTarget
    <3>1. disk'["rollback"] = Absent
      BY <1>1, <2>3, PathsAre DEF NamedTarget, Renamed
    <3>2. Operation \in Moves => disk'["source"] = Absent /\ disk'["target"] = Original
      BY <1>1, <2>3, PathsAre, InodesAre DEF NamedTarget, Renamed, Renamable, Before, Moves
    <3> QED  BY <3>1, <3>2 DEF Before, Operation
  <2> QED  BY <2>1, <2>2, <2>3
<1>5. CASE Confirm(r) \/ Undone(r) \/ CatalogFails(r)
  <2>1. UNCHANGED disk
    BY <1>1, <1>5, ConfirmDoes, UndoneDoes, CatalogFailsDoes DEF files
  <2> QED  BY <1>1, <1>2, <2>1
<1>6. CASE CreateManifest(r) \/ PublishManifest(r) \/ ManifestFails(r)
  <2>1. \/ UNCHANGED disk \/ disk' = [disk EXCEPT !["temp"] = Manifest]
        \/ disk' = Unlinked("temp") \/ disk' = Renamed("temp", "manifest")
    BY <1>1, <1>6, CreateManifestDoes, PublishManifestDoes, ManifestFailsDoes DEF Cleaned
  <2> QED  BY <1>1, <1>2, <2>1, PathsAre DEF Unlinked, Renamed
<1>7. CASE RemovalRename(r) \/ RemovalCheck(r) \/ RemovalUnlink(r) \/ RemovalUnsynced(r)
  BY <1>7 DEF RunPlaced, RemovalRename, RemovalCheck, RemovalUnlink, RemovalUnsynced, At, RemovalCalls
<1>8. CASE NfoCreate(r) \/ NfoPublish(r) \/ NfoWriteFails(r)
  BY <1>1, <1>2, <1>8, NfoCalled
<1> QED  BY <1>3, <1>4, <1>5, <1>6, <1>7, <1>8 DEF CallStep, FailStep

\* Nor is the row of the file operation written behind it by a run.
LEMMA LateRecords ==
    ASSUME Base, NEW r \in Runners, RunPlaced(run[r]), result.status # "none", RecordStep(r)
    PROVE  journal'["file"] = journal["file"]
<1>1. TypeOK /\ KindFits(run[r]) /\ "file" \in JournalKinds /\ journal \in [JournalKinds -> Rows]
  BY DEF Base, StepFits, TypeOK, JournalKinds
<1>2. ASSUME run[r].at \notin StageSteps \cup {"idle", "commit"} PROVE run[r].on = "nfo"
  BY <1>2 DEF RunPlaced
<1>3. CASE Begin(r) \/ Mark(r) \/ Verify(r) \/ Review(r)
  <2>1. run[r].on = "nfo"
    BY <1>2, <1>3 DEF Begin, Mark, Verify, Review, At, StageSteps
  <2>2. CASE Begin(r) \/ Mark(r)
    BY <1>1, <2>1, <2>2, BeginDoes, MarkDoes
  <2>3. CASE Verify(r) \/ Review(r)
    BY <1>1, <2>1, <2>3, VerifyDoes, ReviewDoes
  <2> QED  BY <1>3, <2>2, <2>3
<1>4. CASE PrepareFile(r) \/ PrepareRemoval(r)
  <2>1. run[r].at \in {"prepare", "prepare-removal"}
    BY <1>4 DEF PrepareFile, PrepareRemoval, At
  <2> QED  BY <1>1, <1>2, <2>1 DEF KindFits, Removes, StageSteps
<1>5. CASE NfoPrepare(r)
  BY <1>1, <1>5, NfoPrepareDoes
<1>6. CASE ReviewResult(r) \/ Conclude(r) \/ EnsurePartial(r) \/ NfoPending(r) \/ NfoFailed(r)
           \/ NfoFinish(r) \/ Catalog(r)
  BY <1>1, <1>6, ReviewResultDoes, ConcludeDoes, EnsurePartialDoes, NfoPendingDoes, NfoFailedDoes,
     NfoFinishDoes, CatalogDoes
<1> QED  BY <1>3, <1>4, <1>5, <1>6 DEF RecordStep

\* Who makes the result knows the file operation to be verified.
LEMMA ResultRests ==
    ASSUME Base, RowsStand, NEW r \in Runners, PlainRun(run[r]), RecordStep(r),
           result.status = "none", result'.status # "none"
    PROVE  IsVerified("file") /\ UNCHANGED journal /\ run[r].at \in {"conclude", "nfo-pending", "nfo-finish"}
<1>1. /\ TypeOK /\ StatusFits(run[r]) /\ KindFits(run[r]) /\ RowStands(run[r])
      /\ run[r].at \in {"conclude", "nfo-pending", "nfo-finish"}
  BY ResultGoesOn DEF Base, StepFits, RowsStand, PlainRun, Removes
<1>2. Conclude(r) \/ NfoPending(r) \/ NfoFinish(r)
  BY <1>1 DEF RecordStep, At, Begin, Mark, Verify, Review, ReviewResult, PrepareFile, EnsurePartial,
              PrepareRemoval, NfoPrepare, NfoFailed, Catalog
<1>3. UNCHANGED journal
  BY <1>1, <1>2, ConcludeDoes, NfoPendingDoes, NfoFinishDoes
<1>4. Conclude(r) => run[r].row.status = "verified" /\ run[r].on = "file"
  BY <1>1 DEF Conclude, RowStands, At
<1>5. NfoPending(r) => run[r].row.status = "verified" /\ run[r].on = "file"
  BY <1>1 DEF NfoPending, StatusFits, KindFits, NfoReads, At
<1>6. NfoFinish(r) => run[r].on = "nfo"
  BY <1>1 DEF NfoFinish, KindFits, At
<1> QED  BY <1>1, <1>2, <1>3, <1>4, <1>5, <1>6 DEF RowStands

LEMMA BehindStarts ==
    ASSUME TypeOK, QuietWorld, Before, IsVerified("file"), UNCHANGED <<files, journal, undo, plan>>,
           result'.status # "compensated"
    PROVE  Behind' /\ AllRequesting'
<1>1. /\ QuietFiles /\ RowHolds("file", journal["file"]) /\ Callers \subseteq Actors /\ Runners \subseteq Actors
      /\ UNCHANGED <<disk, content, comp>>
  BY DEF QuietWorld, JournalKinds, Actors, files
<1>2. /\ disk["target"] # Absent /\ Handed = Facts("target")
      /\ disk["rollback"] = Absent
  BY <1>1 DEF RowHolds, IsVerified, Handed, Before
<1>3. Operation \in Moves => disk["source"] = Absent /\ Handed = Planned
  <2>1. Operation \in Moves => disk["source"] = Absent /\ disk["target"] = Original
    BY <1>2 DEF Before
  <2>2. disk["target"] # Absent => Facts("target").data = "media"
    BY <1>1, QuietFacts
  <2> QED  BY <1>2, <2>1, <2>2 DEF Facts, Planned
<1>4. Behind'
  BY <1>1, <1>2, <1>3 DEF Behind, Handed, Facts, Operation
<1>5. AllRequesting'
  BY <1>1 DEF AllRequesting, Requesting, QuietFiles
<1> QED  BY <1>4, <1>5

\* What keeps the file, and what keeps a request that has no step.
LEMMA BehindKept ==
    ASSUME Behind, UNCHANGED plan, Handed' = Handed,
           \A p \in {"source", "target", "rollback"} : disk'[p] = disk[p] /\ Facts(p)' = Facts(p),
           \A c \in Callers : HoldsTarget(c) => HoldsTarget(c)',
           result'.status = "compensated" => result.status = "compensated" \/ disk["target"] = Absent
    PROVE  Behind'
<1>1. Operation' = Operation
  BY DEF Operation
<1>2. /\ disk'["source"] = disk["source"] /\ Facts("source")' = Facts("source")
      /\ disk'["target"] = disk["target"] /\ Facts("target")' = Facts("target")
      /\ disk'["rollback"] = disk["rollback"] /\ Facts("rollback")' = Facts("rollback")
  OBVIOUS
<1> QED  BY <1>1, <1>2 DEF Behind

LEMMA RequestingKept ==
    ASSUME NEW c \in Callers, Requesting(c), undo'[c] = undo[c], comp'[c] = comp[c], UNCHANGED plan,
           Handed' = Handed, disk["target"] = Absent => disk'["target"] = Absent,
           HoldsTarget(c) => /\ disk["rollback"] # Absent => disk'["rollback"] # Absent
                             /\ \A d \in Callers : HoldsTarget(d)' => HoldsTarget(d)
    PROVE  Requesting(c)'
<1>1. Operation' = Operation /\ (Holding(c)' <=> Holding(c)) /\ (HoldsTarget(c)' <=> HoldsTarget(c))
  BY DEF Operation, Holding, HoldsTarget
<1> QED  BY <1>1 DEF Requesting, HoldsTarget

LEMMA RequestingOn ==
    ASSUME NEW c \in Callers, Requesting(c), undo'[c] = undo[c], comp[c].at # "none", comp'[c].path = comp[c].path,
           comp'[c].facts = comp[c].facts, comp'[c].restores = comp[c].restores, UNCHANGED plan,
           Handed' = Handed, disk["target"] = Absent => disk'["target"] = Absent,
           comp[c].path = "target" /\ comp'[c].at \in {"absent", "removed", "restored"} => disk'["target"] = Absent,
           HoldsTarget(c)' => disk'["rollback"] # Absent /\ \A d \in Callers : HoldsTarget(d)' => d = c
    PROVE  Requesting(c)'
<1>1. Operation' = Operation
  BY DEF Operation
<1> QED  BY <1>1 DEF Requesting, HoldsTarget

\* A request takes back the file that the row describes, alone.
LEMMA CompensateBehind ==
    ASSUME TypeOK, Returnable, Behind, AllRequesting, NEW a \in Callers,
           Compensate(a) \/ CompRemove(a, "failed") \/ CompRestore(a, "failed"),
           UNCHANGED <<journal, undo, plan, result>>
    PROVE  Behind' /\ AllRequesting'
<1> DEFINE path == comp[a].path
           names == {"source", "target", "rollback"}
<1>1. /\ a \in Actors /\ Callers \subseteq Actors /\ Runners \cap Callers = {} /\ Runners \subseteq Actors
      /\ UNCHANGED content /\ Handed' = Handed /\ FilesTyped
      /\ disk \in [Paths -> Inodes \cup {Absent}] /\ names \subseteq Paths
  BY CompensateTyped, ActorsAssumption, PathsAre DEF Actors, Handed, TypeOK, FilesTyped
<1>2. /\ \A b \in Actors : b # a => comp'[b] = comp[b]
      /\ comp[a].at \in {"look", "rename", "verify", "settle"}
      /\ comp'[a].path = path /\ comp'[a].facts = comp[a].facts
      /\ comp'[a].restores = comp[a].restores /\ comp'[a].at # "none"
      /\ path \in {"target", "nfo"} /\ Hidden("target") = "rollback" /\ Hidden("nfo") = "nfo-rollback"
  BY <1>1, CompensateTyped, HiddenIs
<1>3. \A c \in Callers : Requesting(c)
  BY DEF AllRequesting
<1>4. \A c \in Callers : c # a => (HoldsTarget(c)' <=> HoldsTarget(c)) /\ comp'[c] = comp[c]
  BY <1>1, <1>2 DEF HoldsTarget, Holding
<1>5. \A r \in Runners : comp'[r].at = "none"
  BY <1>1, <1>2 DEF AllRequesting
<1>6. ASSUME Behind', Requesting(a)', disk["target"] = Absent => disk'["target"] = Absent,
             HoldsTarget(a)' => HoldsTarget(a) \/ disk["rollback"] = Absent,
             HoldsTarget(a) \/ (disk["rollback"] # Absent => disk'["rollback"] # Absent)
      PROVE  Behind' /\ AllRequesting'
  <2>1. ASSUME NEW c \in Callers, c # a PROVE Requesting(c)'
    <3>1. Requesting(c) /\ undo'[c] = undo[c] /\ comp'[c] = comp[c] /\ Handed' = Handed
      BY <1>1, <1>3, <1>4, <2>1
    <3>2. ASSUME HoldsTarget(c) PROVE disk["rollback"] # Absent /\ ~HoldsTarget(a)
      BY <2>1, <3>1, <3>2 DEF Requesting, HoldsTarget, Holding
    <3>3. HoldsTarget(c) => /\ disk["rollback"] # Absent => disk'["rollback"] # Absent
                            /\ \A d \in Callers : HoldsTarget(d)' => HoldsTarget(d)
      BY <1>4, <1>6, <3>2
    <3> QED  BY <1>6, <3>1, <3>3, RequestingKept
  <2> QED  BY <1>5, <1>6, <2>1 DEF AllRequesting
<1>7. ASSUME \A p \in names : disk'[p] = disk[p], HoldsTarget(a) => HoldsTarget(a)'
      PROVE  Behind'
  <2>1. \A p \in names : Facts(p)' = Facts(p)
    BY <1>1, <1>7 DEF Facts
  <2>2. \A c \in Callers : HoldsTarget(c) => HoldsTarget(c)'
    BY <1>4, <1>7
  <2> QED  BY <1>1, <1>7, <2>1, <2>2, BehindKept
<1>8. ASSUME path = "nfo" PROVE Behind' /\ AllRequesting'
  <2>1. ~comp[a].restores /\ ~HoldsTarget(a) /\ ~HoldsTarget(a)'
    BY <1>2, <1>3, <1>8 DEF Requesting, HoldsTarget
  <2>2. \/ UNCHANGED disk \/ disk' = Renamed("nfo", "nfo-rollback")
        \/ disk' = Renamed("nfo-rollback", "nfo") \/ disk' = Unlinked("nfo-rollback")
    BY <1>2, <1>8, <2>1 DEF Compensate, CompLook, CompRename, CompVerify, CompRemove, CompRestore, GivenBack
  <2>3. \A p \in names : disk'[p] = disk[p]
    BY <1>1, <2>2, PathsAre DEF Renamed, Unlinked
  <2>4. Requesting(a)'
    BY <1>1, <1>2, <1>3, <1>8, <2>1, <2>3, RequestingOn
  <2> QED  BY <1>6, <1>7, <2>1, <2>3, <2>4
<1>9. ASSUME path = "target" PROVE Behind' /\ AllRequesting'
  <2>1. /\ comp[a].facts = Handed /\ (comp[a].restores <=> Operation \in Moves)
        /\ HoldsTarget(a) <=> comp[a].at \in {"verify", "settle"}
        /\ HoldsTarget(a) => disk["rollback"] # Absent /\ disk["target"] = Absent
                             /\ Facts("rollback") = Handed
                             /\ \A d \in Callers : HoldsTarget(d) => d = a
        /\ HoldsTarget(a)' <=> comp'[a].at \in {"verify", "settle"}
    BY <1>2, <1>3, <1>9 DEF Requesting, HoldsTarget, Holding, Behind
  <2>2. ASSUME CompLook(a) PROVE Behind' /\ AllRequesting'
    <3>1. /\ UNCHANGED disk /\ comp[a].at = "look"
          /\ comp'[a].at \in {"absent", "manual", "rename"}
          /\ comp'[a].at = "absent" => disk["target"] = Absent
      <4>1. \/ CompTo(a, "absent") /\ disk["target"] = Absent
            \/ CompTo(a, "manual") \/ CompTo(a, "rename")
        BY <1>9, <2>2 DEF CompLook
      <4> QED  BY <1>1, <2>2, <4>1, CompTyped DEF CompLook, CompSteps, CompOutcomes, TypeOK
    <3>2. Requesting(a)'
      BY <1>1, <1>2, <1>3, <2>1, <3>1, RequestingOn
    <3> QED  BY <1>6, <1>7, <2>1, <3>1, <3>2
  <2>3. ASSUME CompRename(a) PROVE Behind' /\ AllRequesting'
    <3>1. comp[a].at = "rename"
          /\ \/ UNCHANGED disk /\ CompTo(a, "manual")
             \/ /\ disk["target"] # Absent /\ disk["rollback"] = Absent
                /\ disk' = Renamed("target", "rollback") /\ CompTo(a, "verify")
      BY <1>2, <1>9, <2>3 DEF CompRename
    <3>2. CASE UNCHANGED disk /\ CompTo(a, "manual")
      <4>1. comp'[a].at = "manual"
        BY <1>1, <3>2, CompTyped DEF CompSteps, CompOutcomes, TypeOK
      <4>2. Requesting(a)'
        BY <1>1, <1>2, <1>3, <2>1, <3>1, <3>2, <4>1, RequestingOn
      <4> QED  BY <1>6, <1>7, <2>1, <3>1, <3>2, <4>1, <4>2
    <3>3. CASE disk["target"] # Absent /\ disk["rollback"] = Absent
               /\ disk' = Renamed("target", "rollback") /\ CompTo(a, "verify")
      <4>1. comp'[a].at = "verify"
        BY <1>1, <3>3, CompTyped DEF CompSteps, CompOutcomes, TypeOK
      <4>2. disk'["target"] = Absent /\ disk'["rollback"] = disk["target"] /\ disk'["source"] = disk["source"]
        BY <1>1, <3>3, PathsAre DEF Renamed
      <4>3. Facts("rollback")' = Handed /\ (Operation \in Moves => disk["source"] = Absent)
        BY <1>1, <3>3, <4>2 DEF Facts, Behind
      <4>4. HoldsTarget(a)'
        BY <2>1, <4>1
      <4>5. Behind'
        BY <1>1, <3>3, <4>2, <4>3, <4>4 DEF Behind, Operation
      <4>6. \A d \in Callers : HoldsTarget(d) => d = a
        BY <1>3, <3>3, <2>1 DEF Requesting, HoldsTarget, Holding
      <4>7. Requesting(a)'
        <5>1. \A d \in Callers : HoldsTarget(d)' => d = a
          BY <1>4, <4>6
        <5> QED  BY <1>1, <1>2, <1>3, <3>3, <4>1, <4>2, <5>1, RequestingOn
      <4> QED  BY <1>6, <3>3, <4>2, <4>5, <4>7
    <3> QED  BY <3>1, <3>2, <3>3
  <2>4. ASSUME CompVerify(a) PROVE Behind' /\ AllRequesting'
    <3>1. comp[a].at = "verify" /\ Intact(a)
      BY <1>2, <1>9, <2>1, <2>4 DEF CompVerify, Intact
    <3>2. UNCHANGED disk /\ CompTo(a, "settle")
      BY <2>4, <3>1 DEF CompVerify
    <3>3. comp'[a].at = "settle"
      BY <1>1, <3>2, CompTyped DEF CompSteps, CompOutcomes, TypeOK
    <3>4. Requesting(a)'
      <4>1. \A d \in Callers : HoldsTarget(d)' => d = a
        BY <1>4, <2>1, <3>1
      <4> QED  BY <1>1, <1>2, <1>3, <2>1, <3>1, <3>2, <3>3, <4>1, RequestingOn
    <3> QED  BY <1>6, <1>7, <2>1, <3>1, <3>2, <3>3, <3>4
  <2>5. ASSUME comp[a].at = "settle", comp'[a].at \notin {"verify", "settle"},
               disk'["target"] = Absent, disk'["rollback"] = Absent,
               Operation \notin Moves \/ (disk'["source"] = disk["rollback"])
        PROVE  Behind' /\ AllRequesting'
    <3>1. Operation \in Moves => Facts("source")' = Planned
      BY <1>1, <2>1, <2>5 DEF Facts, Behind
    <3>2. Operation \in Moves => disk'["source"] # Absent /\ Handed = Planned
      BY <2>1, <2>5 DEF Behind
    <3>3. Behind'
      BY <1>1, <2>5, <3>1, <3>2 DEF Behind, Operation
    <3>4. Requesting(a)'
      BY <1>1, <1>2, <1>3, <2>1, <2>5, RequestingOn
    <3> QED  BY <1>6, <2>1, <2>5, <3>3, <3>4
  <2>6. ASSUME NEW outcome \in {"removed", "failed"}, CompRemove(a, outcome) PROVE Behind' /\ AllRequesting'
    <3>1. comp[a].at = "settle" /\ Operation \notin Moves /\ disk' = Unlinked("rollback")
          /\ (CompTo(a, "failed") \/ CompTo(a, outcome))
      BY <1>2, <1>9, <2>1, <2>6 DEF CompRemove
    <3>2. comp'[a].at \in {"removed", "failed"}
      BY <1>1, <3>1, CompTyped DEF CompSteps, CompOutcomes, TypeOK
    <3>3. disk'["rollback"] = Absent /\ disk'["target"] = Absent
      BY <1>1, <2>1, <3>1, PathsAre, RenamedTyped
    <3> QED  BY <2>5, <3>1, <3>2, <3>3
  <2>7. ASSUME NEW outcome \in {"restored", "failed"}, CompRestore(a, outcome) PROVE Behind' /\ AllRequesting'
    <3>1. comp[a].at = "settle" /\ Operation \in Moves
      BY <2>1, <2>7 DEF CompRestore
    <3>2. Placement = "same" /\ disk["rollback"] # Absent /\ disk["source"] = Absent
      BY <2>1, <3>1 DEF Returnable, Moves, Behind
    <3>3. /\ disk' = [Renamed("rollback", "source") EXCEPT !["manifest"] = IF outcome = "restored" THEN Absent ELSE @]
          /\ CompTo(a, outcome)
      BY <1>2, <1>9, <2>7, <3>2 DEF CompRestore
    <3>4. comp'[a].at = outcome
      BY <1>1, <3>3, CompTyped DEF CompSteps, CompOutcomes, TypeOK
    <3>5. /\ disk'["rollback"] = Absent /\ disk'["target"] = Absent /\ disk'["source"] = disk["rollback"]
      <4> DEFINE new == Renamed("rollback", "source")
      <4>1. /\ new["rollback"] = Absent /\ new["target"] = disk["target"] /\ new["source"] = disk["rollback"]
            /\ new \in [Paths -> Inodes \cup {Absent}]
        BY <1>1, PathsAre DEF Renamed
      <4> HIDE DEF new
      <4>2. \A p \in names : disk'[p] = new[p]
        BY <1>1, <3>3, <4>1, PathsAre DEF new
      <4> QED  BY <2>1, <3>1, <4>1, <4>2
    <3> QED  BY <2>5, <3>1, <3>4, <3>5
  <2> QED  BY <2>2, <2>3, <2>4, <2>6, <2>7 DEF Compensate
<1> QED  BY <1>2, <1>8, <1>9

\* A request knows the row it works on, and compensates it when the target is gone.
LEMMA RequestsBehind ==
    ASSUME TypeOK, Behind, AllRequesting, NEW c \in Callers, Requested(c), UNCHANGED plan
    PROVE  Behind' /\ AllRequesting' /\ (result'.status = result.status \/ result'.status # "none")
<1> DEFINE u == undo[c]
           Done == Behind' /\ AllRequesting' /\ (result'.status = result.status \/ result'.status # "none")
<1>1. /\ c \in Actors /\ Callers \subseteq Actors /\ Runners \cap Callers = {} /\ Runners \subseteq Actors
      /\ UNCHANGED <<disk, content>> /\ \A b \in Actors : b # c => comp'[b] = comp[b]
      /\ undo \in [Callers -> Requests] /\ comp \in [Actors -> Compensations]
      /\ journal \in [JournalKinds -> Rows] /\ JournalKinds = {"file", "removal", "nfo"}
      /\ Requesting(c) /\ NoRequest.at = "idle" /\ result \in Results
  BY RequestsTyped, UndoTyped, ActorsAssumption DEF Actors, TypeOK, AllRequesting, JournalKinds
<1>2. /\ u \in Requests /\ u.file \in Rows /\ u.nfo \in Rows /\ NoComp.at = "none"
  BY UndoTyped, NoCompIs
<1>3. /\ u.at \in {"idle", "check", "load", "nfo-manual", "finish"} => comp[c].at = "none"
      /\ comp[c].at \in CompOutcomes \cup {"none"} => ~HoldsTarget(c)
  BY <1>1 DEF Requesting, HoldsTarget, Holding, CompOutcomes
<1> HIDE DEF Done
<1>4. ASSUME ~HoldsTarget(c), ~HoldsTarget(c)', Requesting(c)', Handed' = Handed,
             \A d \in Callers : d # c => undo'[d] = undo[d],
             \/ result' = result
             \/ result'.status = "manual-review"
             \/ result'.status = "compensated" /\ disk["target"] = Absent
      PROVE  Done
  <2>1. \A p \in {"source", "target", "rollback"} : disk'[p] = disk[p] /\ Facts(p)' = Facts(p)
    BY <1>1 DEF Facts
  <2>2. \A d \in Callers : HoldsTarget(d)' <=> HoldsTarget(d)
    BY <1>1, <1>4 DEF HoldsTarget, Holding
  <2>3. Behind'
    BY <1>4, <2>1, <2>2, BehindKept
  <2>4. ASSUME NEW d \in Callers, d # c PROVE Requesting(d)'
    <3>1. Requesting(d) /\ undo'[d] = undo[d] /\ comp'[d] = comp[d]
      BY <1>1, <1>4, <2>4 DEF AllRequesting
    <3> QED  BY <1>1, <1>4, <2>2, <3>1, RequestingKept
  <2>5. AllRequesting'
    BY <1>1, <1>4, <2>4 DEF AllRequesting
  <2> QED  BY <1>4, <2>3, <2>5 DEF Done
<1>5. ASSUME undo'[c].at \in {"idle", "check", "load"}, comp'[c].at = "none" PROVE Requesting(c)' /\ ~HoldsTarget(c)'
  BY <1>5 DEF Requesting, HoldsTarget, Holding
<1>6. ASSUME UNCHANGED <<journal, result>>, Refuse(c), comp'[c].at = "none", ~HoldsTarget(c) PROVE Done
  <2>1. undo'[c] = NoRequest /\ \A d \in Callers : d # c => undo'[d] = undo[d]
    BY <1>1, <1>6 DEF Refuse
  <2>2. Handed' = Handed
    BY <1>6 DEF Handed
  <2> QED  BY <1>1, <1>4, <1>5, <1>6, <2>1, <2>2
<1>7. ASSUME NEW at \in {"check", "load", "nfo-manual"}, UndoGoto(c, at)
      PROVE  /\ undo'[c].at = at /\ undo'[c].file = u.file /\ undo'[c].manual = u.manual
             /\ \A d \in Callers : d # c => undo'[d] = undo[d]
  BY <1>1, <1>2, <1>7 DEF UndoGoto, Requests
<1>8. ASSUME NEW row \in Rows, row.applied = Handed, TakeBackFile(c, row), UNCHANGED journal,
             undo'[c].at = "file", undo'[c].file.applied = Handed
      PROVE  Requesting(c)' /\ ~HoldsTarget(c)'
  <2> DEFINE restores == Operation \in {"move", "quarantine"}
  <2>1. restores \in BOOLEAN /\ row.applied \in AllFacts /\ TakeBack(c, "target", row, restores)
    BY <1>8 DEF Rows, TakeBackFile
  <2>2. (restores <=> Operation \in Moves) /\ Operation' = Operation /\ Handed' = Handed
    BY <1>8 DEF Moves, Operation, Handed
  <2> HIDE DEF restores
  <2>3. comp'[c].at = "look" /\ comp'[c].path = "target" /\ comp'[c].facts = Handed
        /\ comp'[c].restores = restores
    BY <1>1, <1>8, <2>1, BegunIs DEF TakeBack
  <2> QED  BY <1>8, <2>2, <2>3 DEF Requesting, HoldsTarget, Holding
<1>9. CASE Check(c)
  <2>1. u.at = "check" /\ UNCHANGED <<journal, result, comp>> /\ (UndoGoto(c, "load") \/ Refuse(c))
    BY <1>9 DEF Check, UndoAt, files, db
  <2>2. comp[c].at = "none" /\ ~HoldsTarget(c) /\ Handed' = Handed
    BY <1>3, <2>1 DEF Handed
  <2>3. CASE UndoGoto(c, "load")
    BY <1>4, <1>5, <1>7, <2>1, <2>2, <2>3 DEF Done
  <2> QED  BY <1>6, <2>1, <2>2, <2>3 DEF Done
<1>10. CASE Load(c)
  <2>1. u.at = "load" /\ UNCHANGED <<journal, result>> /\ comp[c].at = "none" /\ ~HoldsTarget(c) /\ Handed' = Handed
    BY <1>3, <1>10 DEF Load, UndoAt, db, Handed
  <2>2. CASE journal["file"].status # "verified"
    <3>1. Refuse(c) /\ UNCHANGED comp
      BY <1>10, <2>2 DEF Load
    <3> QED  BY <1>6, <2>1, <3>1 DEF Done
  <2>3. CASE journal["file"].status = "verified"
    <3> DEFINE at == IF GeneratedNfo THEN "nfo" ELSE "file"
               file == journal["file"]
               nfo == journal["nfo"]
               new == [u EXCEPT !.file = file, !.nfo = nfo, !.at = at]
    <3>1. /\ undo' = [undo EXCEPT ![c] = new]
          /\ GeneratedNfo => TakeBack(c, "nfo", nfo, FALSE)
          /\ ~GeneratedNfo => TakeBackFile(c, file)
      BY <1>10, <2>3 DEF Load
    <3>2. file \in Rows /\ nfo \in Rows /\ at \in {"nfo", "file"} /\ file.applied = Handed
          /\ (GeneratedNfo => at = "nfo") /\ (~GeneratedNfo => at = "file")
      BY <1>1 DEF Handed
    <3> HIDE DEF u, at, file, nfo
    <3>3. new.at = at /\ new.file = file
      BY <1>2 DEF Requests
    <3> HIDE DEF new
    <3>4. undo'[c].at = at /\ undo'[c].file.applied = Handed /\ \A d \in Callers : d # c => undo'[d] = undo[d]
      BY <1>1, <3>1, <3>2, <3>3
    <3>5. Requesting(c)' /\ ~HoldsTarget(c)'
      <4>1. CASE GeneratedNfo
        <5>1. nfo.applied \in AllFacts
          BY <3>2 DEF Rows
        <5>2. comp' = [comp EXCEPT ![c] = Begun("nfo", nfo.applied, FALSE)]
          BY <3>1, <4>1 DEF TakeBack
        <5>3. FALSE \in BOOLEAN
          OBVIOUS
        <5>4. /\ Begun("nfo", nfo.applied, FALSE).at = "look" /\ Begun("nfo", nfo.applied, FALSE).path = "nfo"
              /\ Begun("nfo", nfo.applied, FALSE).restores = FALSE
          BY <5>1, <5>3, BegunIs DEF Paths
        <5> HIDE DEF nfo
        <5>5. comp'[c] = Begun("nfo", nfo.applied, FALSE)
          BY <1>1, <5>2
        <5>6. comp'[c].at = "look" /\ comp'[c].path = "nfo" /\ ~comp'[c].restores
          BY <5>4, <5>5
        <5> QED  BY <2>1, <3>2, <3>4, <4>1, <5>6 DEF Requesting, HoldsTarget, Holding
      <4>2. CASE ~GeneratedNfo
        BY <1>8, <2>1, <3>1, <3>2, <3>4, <4>2
      <4> QED  BY <4>1, <4>2
    <3> QED  BY <1>4, <2>1, <3>4, <3>5 DEF Done
  <2> QED  BY <2>2, <2>3
<1>11. CASE NfoTaken(c)
  <2>1. /\ u.at = "nfo" /\ UNCHANGED <<journal, result>> /\ Handed' = Handed /\ u.file.applied = Handed
        /\ comp[c].at \in CompOutcomes /\ ~HoldsTarget(c)
    BY <1>1, <1>3, <1>11 DEF NfoTaken, UndoAt, db, Handed, CompOutcomes, Requesting
  <2>2. CASE comp[c].at \in {"absent", "removed"}
    <3> DEFINE new == [u EXCEPT !.additional = TRUE, !.at = "file"]
    <3>1. undo' = [undo EXCEPT ![c] = new] /\ TakeBackFile(c, u.file)
      BY <1>11, <2>2 DEF NfoTaken
    <3> HIDE DEF u
    <3>2. new.at = "file" /\ new.file = u.file
      BY <1>2 DEF Requests
    <3> HIDE DEF new
    <3>3. undo'[c].at = "file" /\ undo'[c].file.applied = Handed /\ \A d \in Callers : d # c => undo'[d] = undo[d]
      BY <1>1, <2>1, <3>1, <3>2
    <3> QED  BY <1>2, <1>4, <1>8, <2>1, <3>1, <3>3 DEF Done
  <2>3. CASE comp[c].at = "manual"
    <3>1. UndoGoto(c, "nfo-manual") /\ comp' = [comp EXCEPT ![c] = NoComp]
      BY <1>11, <2>3 DEF NfoTaken
    <3>2. /\ undo'[c].at = "nfo-manual" /\ undo'[c].file = u.file /\ comp'[c].at = "none"
          /\ \A d \in Callers : d # c => undo'[d] = undo[d]
      BY <1>1, <1>2, <1>7, <3>1
    <3>3. Requesting(c)' /\ ~HoldsTarget(c)'
      BY <2>1, <3>2 DEF Requesting, HoldsTarget, Holding
    <3> QED  BY <1>4, <2>1, <3>2, <3>3 DEF Done
  <2>4. CASE comp[c].at = "failed"
    <3>1. Refuse(c) /\ comp'[c].at = "none"
      BY <1>1, <1>2, <1>11, <2>4 DEF NfoTaken
    <3> QED  BY <1>6, <2>1, <3>1 DEF Done
  <2> QED  BY <1>11, <2>2, <2>3, <2>4 DEF NfoTaken
<1>12. CASE NfoManual(c)
  <2>1. /\ u.at = "nfo-manual" /\ UNCHANGED <<result, comp>> /\ comp[c].at = "none" /\ ~HoldsTarget(c)
        /\ u.file.applied = Handed
    BY <1>1, <1>3, <1>12 DEF NfoManual, UndoAt, files, Requesting
  <2>2. CASE Current("nfo", u.nfo)
    <3> DEFINE new == [u EXCEPT !.manual = TRUE, !.at = "finish"]
    <3>1. undo' = [undo EXCEPT ![c] = new] /\ journal' = [journal EXCEPT !["nfo"] = Moved(u.nfo, "manual-review")]
      BY <1>12, <2>2 DEF NfoManual
    <3>2. Handed' = Handed
      BY <1>1, <3>1 DEF Handed
    <3> HIDE DEF u
    <3>3. new.at = "finish" /\ new.file = u.file /\ new.manual
      BY <1>2 DEF Requests
    <3> HIDE DEF new
    <3>4. undo'[c] = new /\ \A d \in Callers : d # c => undo'[d] = undo[d]
      BY <1>1, <3>1
    <3>5. Requesting(c)' /\ ~HoldsTarget(c)'
      BY <2>1, <3>2, <3>3, <3>4 DEF Requesting, HoldsTarget, Holding
    <3> QED  BY <1>4, <2>1, <3>2, <3>4, <3>5 DEF Done
  <2>3. CASE ~Current("nfo", u.nfo)
    <3>1. Refuse(c) /\ UNCHANGED journal
      BY <1>12, <2>3 DEF NfoManual
    <3> QED  BY <1>6, <2>1, <3>1 DEF Done
  <2> QED  BY <2>2, <2>3
<1>13. CASE FileTaken(c)
  <2>1. /\ u.at = "file" /\ UNCHANGED <<journal, result>> /\ Handed' = Handed /\ u.file.applied = Handed
        /\ comp[c].at \in CompOutcomes /\ ~HoldsTarget(c) /\ comp'[c].at = "none" /\ comp[c].path = "target"
    BY <1>1, <1>2, <1>3, <1>13 DEF FileTaken, UndoAt, db, Handed, CompOutcomes, Requesting
  <2>2. CASE comp[c].at \in {"absent", "removed", "restored", "manual"}
    <3> DEFINE manual == comp[c].at = "manual"
               new == [u EXCEPT !.manual = manual, !.at = "finish"]
    <3>1. undo' = [undo EXCEPT ![c] = new]
      BY <1>13, <2>2 DEF FileTaken
    <3>2. ~manual => disk["target"] = Absent
      BY <1>1, <2>1, <2>2 DEF Requesting
    <3> HIDE DEF u, manual
    <3>3. new.at = "finish" /\ new.file = u.file /\ new.manual = manual
      BY <1>2 DEF Requests
    <3> HIDE DEF new
    <3>4. undo'[c] = new /\ \A d \in Callers : d # c => undo'[d] = undo[d]
      BY <1>1, <3>1
    <3>5. Requesting(c)' /\ ~HoldsTarget(c)'
      BY <1>1, <2>1, <3>2, <3>3, <3>4 DEF Requesting, HoldsTarget, Holding
    <3> QED  BY <1>4, <2>1, <3>4, <3>5 DEF Done
  <2>3. CASE comp[c].at = "failed"
    BY <1>6, <1>13, <2>1, <2>3 DEF FileTaken, Done
  <2> QED  BY <2>1, <2>2, <2>3 DEF CompOutcomes
<1>14. CASE Finish(c)
  <2>1. /\ u.at = "finish" /\ UNCHANGED comp /\ Refuse(c) /\ comp[c].at = "none" /\ ~HoldsTarget(c)
        /\ u.file.applied = Handed /\ (~u.manual => disk["target"] = Absent)
    BY <1>1, <1>3, <1>14 DEF Finish, UndoAt, files, Requesting
  <2>2. CASE UNCHANGED db
    BY <1>6, <2>1, <2>2 DEF Done, db
  <2>3. CASE /\ journal' = Rolledback(c)
             /\ Change([result EXCEPT !.status = IF u.manual THEN "manual-review" ELSE "compensated"])
    <3> DEFINE status == IF u.manual THEN "manual-review" ELSE "compensated"
               new == [result EXCEPT !.status = status]
    <3>1. /\ status \in JournalStatuses /\ status \in ResultStatuses
          /\ status = "manual-review" \/ (status = "compensated" /\ disk["target"] = Absent)
      BY <2>1 DEF JournalStatuses, ResultStatuses
    <3>2. journal'["file"] = Moved(u.file, status) /\ Change(new)
      BY <2>3 DEF Rolledback
    <3> HIDE DEF u, status
    <3>3. Handed' = Handed
      BY <1>2, <2>1, <3>1, <3>2, MovedIs DEF Handed
    <3>4. new \in Results /\ new.status = status
      BY <1>1, <3>1 DEF Results
    <3> HIDE DEF new
    <3>5. result'.status = status
      BY <3>2, <3>4, ChangeTyped
    <3>6. undo'[c] = NoRequest /\ \A d \in Callers : d # c => undo'[d] = undo[d]
      BY <1>1, <2>1 DEF Refuse
    <3> QED  BY <1>1, <1>4, <1>5, <2>1, <3>1, <3>3, <3>5, <3>6 DEF Done
  <2> QED  BY <1>14, <2>2, <2>3 DEF Finish
<1> QED  BY <1>9, <1>10, <1>11, <1>12, <1>13, <1>14 DEF Requested

\* Nothing but the memory of the runs changes.
LEMMA ReturnKept ==
    ASSUME ReturnWorld, Placed', UNCHANGED <<disk, content, comp, journal, result, undo, plan>>,
           spent'["rollback"] = spent["rollback"]
    PROVE  ReturnWorld'
<1>1. Operation' = Operation /\ Handed' = Handed /\ (Before => Before') /\ (\A p \in Paths : Facts(p)' = Facts(p))
      /\ (\A c \in Callers : HoldsTarget(c)' <=> HoldsTarget(c))
  BY DEF Operation, Handed, Before, Facts, HoldsTarget, Holding
<1>2. Behind => Behind'
  BY <1>1, PathsAre DEF Behind
<1>3. AllRequesting => AllRequesting'
  <2>1. ASSUME NEW c \in Callers, Requesting(c) PROVE Requesting(c)'
    BY <1>1, <2>1, RequestingKept
  <2> QED  BY <2>1 DEF AllRequesting
<1> QED  BY <1>1, <1>2, <1>3 DEF ReturnWorld

\* One run at a time: what it does keeps the others where they are.
LEMMA ReturnRunStep ==
    ASSUME Base, Overlap, Steady, ReturnWorld, result.status = "none" => QuietWorld /\ OrderedWorld,
           NEW r \in Runners, RunStep(r) \/ RunFails(r) \/ StartStage(r), plan' = plan
    PROVE  ReturnWorld'
<1>1. /\ TypeOK /\ DoneRests /\ NoOne \notin Runners /\ Returnable /\ Straight /\ spent["lost"] = 0 /\ Placed
      /\ RunPlaced(run[r]) /\ r \in Actors /\ Operation' = Operation /\ Runners \cap Callers = {}
      /\ spent \in [Incidents -> Nat] /\ "rollback" \in Incidents /\ task \in [stage : TaskStages, ready : BOOLEAN]
  <2>1. Straight
    BY PlanIs DEF Base, Steady, Returnable, Straight
  <2> QED  BY <2>1, ActorsAssumption DEF Base, Steady, Actors, ReturnWorld, Placed, TypeOK, Incidents, Operation
<1>2. /\ result.status = "none" => PlainRun(run[r]) /\ RowsStand /\ Before /\ QuietFiles
      /\ result.status # "none" => Behind /\ AllRequesting
  BY <1>1 DEF OrderedWorld, NoRemovals, ReturnWorld, QuietWorld
<1>3. comp[r].at = "none"
  BY <1>1, <1>2 DEF QuietFiles, AllRequesting
<1>4. ASSUME run[r].at # "idle" \/ holder = NoOne, \A s \in Runners : s # r => run'[s] = run[s] PROVE
         /\ \A s \in Runners : s # r => run'[s].at = "idle"
         /\ RunPlaced(run[r])' => \A s \in Runners : RunPlaced(run[s])'
  <2>1. \A s \in Runners : s # r => run'[s].at = "idle"
    BY <1>1, <1>4, OthersIdle
  <2>2. RunPlaced(run[r])' => \A s \in Runners : RunPlaced(run[s])'
    BY <2>1 DEF RunPlaced
  <2> QED  BY <2>1, <2>2
<1>5. ASSUME run[r].at # "idle", \A s \in Runners : s # r => run'[s] = run[s], RunPlaced(run[r])', run'[r].at # "idle"
      PROVE  Placed'
  BY <1>4, <1>5 DEF Placed, Active
<1>6. ASSUME result.status # "none", result'.status # "none", Placed', UNCHANGED <<undo, comp>>, Handed' = Handed,
             \A p \in {"source", "target", "rollback"} : disk'[p] = disk[p] /\ Facts(p)' = Facts(p),
             result'.status = "compensated" => result.status = "compensated"
      PROVE  ReturnWorld'
  <2>1. \A c \in Callers : HoldsTarget(c)' <=> HoldsTarget(c)
    BY <1>6 DEF HoldsTarget, Holding
  <2>2. Behind'
    BY <1>2, <1>6, <2>1, BehindKept
  <2>3. ASSUME NEW c \in Callers PROVE Requesting(c)'
    BY <1>2, <1>6, <2>1, RequestingKept DEF AllRequesting
  <2> QED  BY <1>2, <1>6, <2>2, <2>3 DEF AllRequesting, ReturnWorld
<1>7. CASE Reads(r)
  <2>1. ReadStep(r) /\ UNCHANGED <<disk, content, comp, journal, result, undo, plan, task, spent>>
    BY <1>7 DEF Reads, ReadStep, files, db, lease, world
  <2>2. RunGoesOn(r) /\ run[r].at # "idle" /\ RunPlaced(run[r])'
    BY <1>1, <1>2, <2>1, ReadsTyped, RemovalReads, PlacedReads
  <2>3. run[r].at # "commit"
    BY <2>1 DEF ReadStep, Inspect, Observe, Execute, Recover, Completed, RemovalRecover, RemovalLook, FinishRemoval,
       NfoLook, NfoInspect, NfoExecute, NfoExists, NfoRecover, Complete, At
  <2>4. ~(task.stage = "file-operation" /\ result.status # "none")
    BY <1>1, <2>2, <2>3 DEF RunPlaced
  <2>5. Placed'
    BY <1>4, <2>1, <2>2, <2>4 DEF Placed, RunGoesOn
  <2> QED  BY <2>1, <2>5, ReturnKept
<1>8. CASE Records(r)
  <2>1. RecordStep(r) /\ UNCHANGED <<files, disk, content, comp, undo, plan, task, spent>>
    BY <1>8 DEF Records, RecordStep, files, lease, world
  <2>2. RunGoesOn(r) /\ run[r].at # "idle" /\ RunPlaced(run[r])' /\ run'[r].at # "idle"
    BY <1>1, <1>2, <2>1, RecordsJournal, RemovalReads, PlacedRecords
  <2>3. Placed'
    BY <1>5, <2>2 DEF RunGoesOn
  <2>4. /\ result'.status # "none" \/ result.status = "none"
        /\ result'.status = "compensated" => result.status = "compensated"
    BY <2>1, ResultGoesOn
  <2>5. CASE result'.status = "none"
    <3>1. Before'
      BY <1>1, <1>2, <2>1, <2>4, <2>5 DEF Before
    <3> QED  BY <2>3, <2>5, <3>1 DEF ReturnWorld
  <2>6. CASE result'.status # "none" /\ result.status = "none"
    <3>1. IsVerified("file") /\ UNCHANGED journal
      BY <1>2, <2>1, <2>6, ResultRests
    <3>2. Behind' /\ AllRequesting'
      BY <1>1, <1>2, <2>1, <2>4, <2>6, <3>1, BehindStarts
    <3> QED  BY <2>3, <2>6, <3>2 DEF ReturnWorld
  <2>7. CASE result.status # "none"
    <3>1. Handed' = Handed /\ \A p \in {"source", "target", "rollback"} : disk'[p] = disk[p] /\ Facts(p)' = Facts(p)
      BY <1>1, <2>1, <2>7, LateRecords DEF Handed, Facts
    <3> QED  BY <1>6, <2>1, <2>3, <2>4, <2>7, <3>1
  <2> QED  BY <2>5, <2>6, <2>7
<1>9. CASE Calls(r) \/ RunFails(r)
  <2>1. (CallStep(r) \/ FailStep(r)) /\ UNCHANGED <<journal, result, undo, plan, task>>
    BY <1>9 DEF Calls, CallStep, RunFails, FailStep, db, lease, world
  <2>2. spent'["rollback"] = spent["rollback"]
    BY <1>1, <1>9 DEF Calls, RunFails, Spend, world
  <2>3. RunGoesOn(r) /\ run[r].at # "idle" /\ RunPlaced(run[r])' /\ run'[r].at # "idle"
    BY <1>1, <1>2, <2>1, CallsKeepRows, OtherCalls, PlacedCalls
  <2>4. Placed'
    BY <1>5, <2>3 DEF RunGoesOn
  <2>5. CASE result.status = "none"
    <3>1. Before'
      BY <1>1, <1>2, <2>1, <2>2, <2>5, BeforeCalls DEF Before
    <3> QED  BY <2>1, <2>4, <2>5, <3>1 DEF ReturnWorld
  <2>6. CASE result.status # "none"
    <3>1. Handed' = Handed
      BY <2>1 DEF Handed
    <3> QED  BY <1>1, <1>6, <2>1, <2>4, <2>6, <3>1, BehindCalls
  <2> QED  BY <2>5, <2>6
<1>10. CASE Works(r)
  BY <1>1, <1>3, <1>10, CompensateTyped DEF Works
<1>11. CASE Commit(r)
  <2>1. /\ run[r].at = "commit" /\ run'[r].at = "idle" /\ \A s \in Runners : s # r => run'[s] = run[s]
        /\ UNCHANGED <<disk, content, comp, journal, result, undo, plan, spent>>
    BY <1>1, <1>11, CommitDoes DEF Turned, At, files, db, world
  <2>2. holder = r
    BY <1>1, <2>1 DEF Overlap, Active
  <2>3. ~(task'.stage = "file-operation" /\ result.status # "none")
    <3>1. task' = CommittedTask(run[r].then) /\ run[r].then \in Outcomes
      BY <1>1, <1>11, <2>2, RunIs DEF Commit, lease
    <3>2. task'.stage = "file-operation" => task.stage = "file-operation" /\ run[r].then \notin {"nfo-pending", "organized"}
      BY <1>1, <3>1 DEF CommittedTask, Waiting, Outcomes
    <3> QED  BY <1>1, <2>1, <3>2 DEF RunPlaced
  <2>4. Placed'
    BY <1>4, <2>1, <2>3 DEF Placed, RunPlaced
  <2> QED  BY <2>1, <2>4, ReturnKept
<1>12. CASE StartStage(r)
  <2>1. holder = NoOne /\ UNCHANGED <<disk, content, comp, journal, result, undo, plan, spent, task>> /\ task.ready
    BY <1>12 DEF StartStage, files, db, world
  <2>2. PICK at \in {"observe", "nfo-look", "complete"} : Turned(r, at, "file", NoRow, NoFacts, FALSE, "again")
    BY <1>1, <1>12, StartDoes
  <2>3. run'[r].at = FirstStep(task.stage) /\ task.stage \in {"file-operation", "nfo", "completion"}
    BY <1>1, <1>12, <2>1 DEF StartStage, NoRun, DoneRests, TypeOK, TaskStages
  <2>4. /\ task.stage = "file-operation" => at = "observe"
        /\ task.stage # "file-operation" => at \in {"nfo-look", "complete"}
    BY <2>2, <2>3 DEF FirstStep, Turned
  <2>5. ~(task.stage = "file-operation" /\ result.status # "none")
    BY <1>1, <2>1 DEF Placed, Overlap
  <2>6. RunPlaced(run[r])'
    BY <2>1, <2>2, <2>4, <2>5 DEF Turned, RunPlaced, RemovalCalls, StageSteps
  <2>7. Placed'
    BY <1>4, <2>1, <2>2, <2>5, <2>6 DEF Placed, Turned
  <2> QED  BY <2>1, <2>7, ReturnKept
<1> QED  BY <1>7, <1>8, <1>9, <1>10, <1>11, <1>12 DEF RunStep

LEMMA ReturnNext ==
    ASSUME Base, Overlap, Undisturbed => QuietWorld, Unhurried => OrderedWorld, Steady => ReturnWorld, [Next]_vars
    PROVE  Steady' => ReturnWorld'
<1> SUFFICES ASSUME Steady' PROVE ReturnWorld'
  OBVIOUS
<1>1. /\ TypeOK /\ spent \in [Incidents -> Nat] /\ {"user", "rollback", "crash", "lost"} \subseteq Incidents
      /\ task \in [stage : TaskStages, ready : BOOLEAN]
  BY DEF Base, TypeOK, Incidents
<1>2. plan' = plan /\ Steady
  BY <1>1, WorldSteps DEF Steady, Returnable, Operation, Placement
<1>3. ReturnWorld /\ Returnable
  BY <1>2 DEF Steady
<1>4. result.status = "none" => QuietWorld /\ OrderedWorld
  <2>1. Straight
    BY <1>1, <1>3, PlanIs DEF Returnable, Straight
  <2> QED  BY <1>2, <1>3, <2>1 DEF Steady, ReturnWorld, Before, Undisturbed, Unhurried
<1>5. ASSUME NEW what \in {"user", "crash", "lost"}, Spend(what) PROVE FALSE
  BY <1>1, <1>2, <1>5 DEF Spend, Steady
<1>6. ASSUME UNCHANGED run, task'.stage = task.stage,
             result'.status = result.status \/ (result.status # "none" /\ result'.status # "none")
      PROVE  Placed'
  <2>1. ASSUME NEW r \in Runners, RunPlaced(run[r]) PROVE RunPlaced(run[r])'
    BY <1>6, <2>1 DEF RunPlaced
  <2> QED  BY <1>3, <1>6, <2>1 DEF ReturnWorld, Placed, Active
<1>7. ASSUME NEW a \in Actors, comp[a].at # "none"
      PROVE  result.status # "none" /\ a \in Callers /\ Behind /\ AllRequesting
  BY <1>3, <1>4, <1>7 DEF Actors, QuietWorld, QuietFiles, ReturnWorld, AllRequesting
<1>8. ASSUME NEW a \in Actors, Works(a) \/ WorkFails(a) PROVE ReturnWorld'
  <2>1. /\ Compensate(a) \/ CompRemove(a, "failed") \/ CompRestore(a, "failed")
        /\ UNCHANGED <<journal, undo, plan, result, run, task>>
    BY <1>2, <1>8 DEF Works, WorkFails, db, lease
  <2>2. result.status # "none" /\ a \in Callers /\ Behind /\ AllRequesting
    BY <1>1, <1>7, <2>1, CompensateTyped
  <2> QED  BY <1>1, <1>3, <1>6, <2>1, <2>2, CompensateBehind DEF ReturnWorld
<1>9. ASSUME NEW c \in Callers, Ask(c) \/ RequestStep(c) PROVE ReturnWorld'
  <2>1. c \in Actors
    BY DEF Actors
  <2>2. CASE Ask(c)
    <3>1. /\ result.status # "none" /\ undo[c].at = "idle" /\ undo \in [Callers -> Requests]
          /\ UNCHANGED <<disk, content, comp, journal, result, run, task>>
      BY <1>1, <2>2 DEF Ask, UndoAt, files, db, lease, TypeOK
    <3>2. undo'[c].at = "check" /\ \A d \in Callers : d # c => undo'[d] = undo[d]
      BY <2>2, <3>1 DEF Ask, NoRequest
    <3>3. Behind /\ AllRequesting
      BY <1>3, <3>1 DEF ReturnWorld
    <3>4. /\ Handed' = Handed /\ (\A p \in {"source", "target", "rollback"} : disk'[p] = disk[p] /\ Facts(p)' = Facts(p))
          /\ \A d \in Callers : HoldsTarget(d)' <=> HoldsTarget(d)
      BY <3>1 DEF Handed, Facts, HoldsTarget, Holding
    <3>5. Behind'
      BY <1>2, <3>1, <3>3, <3>4, BehindKept
    <3>6. Requesting(c)'
      BY <3>1, <3>2, <3>3 DEF AllRequesting, Requesting
    <3>7. ASSUME NEW d \in Callers, d # c PROVE Requesting(d)'
      BY <1>2, <3>1, <3>2, <3>3, <3>4, <3>7, RequestingKept DEF AllRequesting
    <3> QED  BY <1>6, <3>1, <3>3, <3>5, <3>6, <3>7 DEF ReturnWorld, AllRequesting
  <2>3. CASE Requested(c)
    <3>1. undo[c].at # "idle" /\ UNCHANGED <<run, task>>
      BY <2>3 DEF Requested, Check, Load, NfoTaken, NfoManual, FileTaken, Finish, UndoAt, lease
    <3>2. result.status # "none" /\ Behind /\ AllRequesting
      BY <1>3, <1>4, <3>1 DEF QuietWorld, QuietFiles, ReturnWorld
    <3>3. Behind' /\ AllRequesting' /\ result'.status # "none"
      BY <1>1, <1>2, <2>3, <3>2, RequestsBehind
    <3> QED  BY <1>6, <3>1, <3>2, <3>3 DEF ReturnWorld
  <2> QED  BY <1>8, <1>9, <2>1, <2>2, <2>3 DEF RequestStep
<1>10. CASE UNCHANGED vars \/ RetryRequest
  <2>1. /\ UNCHANGED <<disk, content, comp, journal, result, undo, plan, run>> /\ task'.stage = task.stage
        /\ spent'["rollback"] = spent["rollback"]
    BY <1>1, <1>2, <1>10 DEF vars, files, db, lease, world, RetryRequest, Spend
  <2> QED  BY <1>3, <1>6, <2>1, ReturnKept
<1>11. ~Crash /\ ~LoseLease /\ ~Users
  BY <1>5 DEF Crash, LoseLease, Users
<1> QED  BY <1>1, <1>2, <1>3, <1>4, <1>8, <1>9, <1>10, <1>11, ReturnRunStep DEF Next

LEMMA ReturnInit == Init => ReturnWorld
<1> SUFFICES ASSUME Init PROVE ReturnWorld
  OBVIOUS
<1>1. /\ \A r \in Runners : run[r] = NoRun
      /\ disk["source"] = Original /\ disk["target"] = Absent /\ disk["rollback"] = Absent
      /\ spent["rollback"] = 0 /\ result.status = "none"
  BY PathsAre DEF Init, FilesInit, NoResult, Incidents
<1> QED  BY <1>1, NoRunIs DEF ReturnWorld, Placed, RunPlaced, Before

\* As long as no user interferes, a rollback that has reported success, with nothing under way, has
\* left no file at the target and the planned file at the source (organization_rollback.rs:42-44),
\* however many rollbacks of one result ran beside one another and beside the stages, and whatever
\* failed in them.
THEOREM RollbackReturns == Spec /\ Returning => []CompensatedIsRestored
<1> DEFINE Turning == /\ Overlap /\ (Unhurried => OrderedWorld) /\ (Steady => ReturnWorld)
<1>1. Init => Inductive /\ Turning
  BY InductiveInit, OrderedInit, ReturnInit
<1>2. Inductive /\ Turning /\ Returning /\ [Next]_vars => Turning' /\ Returning'
  <2> SUFFICES ASSUME Inductive, Turning, Returning, [Next]_vars PROVE Turning' /\ Returning'
    OBVIOUS
  <2>1. Base /\ (Undisturbed => QuietWorld) /\ Overlap' /\ plan' = plan /\ limits' = limits
    BY OverlapNext, WorldSteps DEF Inductive, Base
  <2>2. Returning'
    BY <2>1 DEF Returning, Returnable, Operation, Placement
  <2> QED  BY <2>1, <2>2, OrderedNext, ReturnNext
<1>3. Inductive /\ Turning /\ Returning => CompensatedIsRestored
  <2> SUFFICES ASSUME Inductive, Turning, Returning, result.status = "compensated", Quiet, spent["user"] = 0
               PROVE  disk["target"] = Absent /\ Facts("source") = Planned
    BY DEF CompensatedIsRestored
  <2>1. Base /\ TypeOK /\ Steady
    <3>1. /\ spent["crash"] <= limits["crash"] /\ spent["lost"] <= limits["lost"] /\ Base /\ TypeOK
          /\ spent["crash"] \in Nat /\ spent["lost"] \in Nat
      BY DEF Inductive, Limited, Base, TypeOK, Incidents
    <3> QED  BY <3>1 DEF Returning, Steady
  <2>2. Behind /\ AllRequesting
    BY <2>1 DEF ReturnWorld
  <2>3. disk["target"] = Absent
    BY <2>2 DEF Behind
  <2>4. disk["rollback"] = Absent
    <3>1. ASSUME NEW c \in Callers PROVE ~HoldsTarget(c)
      BY <2>2 DEF AllRequesting, Requesting, HoldsTarget, Holding, Quiet, NoRequest
    <3> QED  BY <2>2, <3>1 DEF Behind
  <2>5. CASE Operation \in Moves
    BY <2>2, <2>3, <2>4, <2>5 DEF Behind
  <2>6. CASE Operation \notin Moves
    <3>1. disk["source"] = Original /\ content[Original] = "media"
      BY <2>1, <2>6, PlanIs DEF Inductive, SourceKept, Moves
    <3> QED  BY <2>3, <3>1, InodesAre DEF Facts, Planned
  <2> QED  BY <2>3, <2>5, <2>6
<1> QED  BY <1>1, <1>2, <1>3, InductiveHolds, PTL DEF Spec
=============================================================================
