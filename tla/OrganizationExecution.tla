----------------------- MODULE OrganizationExecution -----------------------
(***************************************************************************)
(* organization/executor.rs with its journal (journal_store.rs), its file  *)
(* operations (platform/capability_fs.rs), the handlers that run it for a  *)
(* leased task (organization/coordinator.rs) and the rollback request, for *)
(* one task with one immutable plan.                                       *)
(*                                                                         *)
(* A run is one call of a stage handler under a lease.  A run whose lease  *)
(* was lost goes on until its commit is refused, beside the run of the     *)
(* worker that took the task over; a rollback request is bound to no lease *)
(* at all.  A step is one statement or transaction of SQLite or one system *)
(* call.  A run keeps the journal row it last read or wrote, and every     *)
(* write of a row asks for that status and version.                        *)
(*                                                                         *)
(* A crash forgets all runs and requests and keeps the files, among them   *)
(* the hidden ones.  Crashes, faults, lost leases, actions of users and    *)
(* requests are bounded by the limits of a scenario.                       *)
(***************************************************************************)
EXTENDS OrganizationFiles

CONSTANTS
    Keys,           \* idempotency keys of rollback requests
    NoOne,
    Scenarios       \* the plans to look at, each with a limit to what may happen to it

\* "bind": one file system behind two mounts that the kernel does not tell apart by a
\* mount id, so that only the rename itself finds out.  The planner gives no NFO to a
\* quarantine.
Plans ==
    {p \in [operation : {"copy", "move", "hardlink", "quarantine"},
            placement : {"same", "cross", "bind"}, nfo : BOOLEAN] :
        p.nfo => p.operation # "quarantine"}

Incidents == {"crash", "fault", "lost", "user", "retry", "rollback"}

ASSUME ScenariosAssumption ==
    \A s \in Scenarios : s.plan \in Plans /\ s.limits \in [Incidents -> Nat]

ASSUME ActorsAssumption == NoOne \notin Runners \cup Keys /\ Runners \cap Callers = {}

VARIABLES
    journal,        \* organization_file_operation_journals, by operation of the plan
    result,         \* organization_local_results of the plan
    receipts,       \* organization_rollback_receipts: the result version a key is bound to
    task,           \* stage of the task, and whether it may be claimed
    holder,         \* the run with the task's lease
    run,            \* what each stage run has in memory
    undo,           \* what each rollback request has in memory
    limits, spent   \* how many incidents may happen, and how many did

files == <<disk, content, comp>>
db == <<journal, result, receipts>>
lease == <<task, holder>>
world == <<plan, limits, spent>>
vars == <<files, db, lease, run, undo, world>>

-----------------------------------------------------------------------------
(***************************************************************************)
(* Values.                                                                 *)
(***************************************************************************)

JournalKinds == {"file", "removal", "nfo"}
JournalStatuses ==
    {"none", "prepared", "executing", "applied", "verified", "compensated", "manual-review"}
ResultStatuses == {"none", "partial-success", "completed", "compensated", "manual-review"}
NfoStatuses == {"not-requested", "preserved", "generated", "failed"}

\* preexisting is nfo_preexisting, outcome is nfo_outcome.
Rows == [status : JournalStatuses, version : Nat, applied : AllFacts,
         preexisting : BOOLEAN, outcome : {"none", "preserved", "generated"}]

NoRow == [status |-> "none", version |-> 0, applied |-> NoFacts,
          preexisting |-> FALSE, outcome |-> "none"]

PreparedRow == [NoRow EXCEPT !.status = "prepared", !.version = 1]

Results == [status : ResultStatuses, remaining : {"none", "source-removal", "nfo"},
            nfo : NfoStatuses, version : Nat, catalog : BOOLEAN]

NoResult == [status |-> "none", remaining |-> "none", nfo |-> "not-requested",
             version |-> 0, catalog |-> FALSE]

TaskStages == {"file-operation", "nfo", "completion", "done"}

FileSteps == {"observe", "prepare", "execute", "copy", "publish", "rename", "confirm",
              "undoing", "manifest", "manifest-publish", "completed", "recover"}
RemovalSteps == {"partial", "prepare-removal", "removal-recover", "removal-look",
                 "removal-rename", "removal-check", "removal-unlink", "finish-removal"}
NfoSteps == {"nfo-look", "nfo-pending", "nfo-inspect", "nfo-prepare", "nfo-execute",
             "nfo-create", "nfo-publish", "nfo-exists", "nfo-failed", "nfo-recover",
             "nfo-finish"}
SharedSteps == {"idle", "begin", "mark", "inspect", "verify", "conclude", "review",
                "review-result", "complete", "catalog", "commit"}

Outcomes == {"again", "review", "nfo-pending", "organized", "completed"}

Runs == [at : FileSteps \cup RemovalSteps \cup NfoSteps \cup SharedSteps,
         on : JournalKinds,         \* the journal it advances
         row : Rows,                \* that journal, as last read or written
         facts : AllFacts,          \* the file it published or inspected
         seen : Nat,                \* the result version the completion read
         direct : BOOLEAN,          \* in execute_composite_move
         then : Outcomes]

NoRun == [at |-> "idle", on |-> "file", row |-> NoRow, facts |-> NoFacts, seen |-> 0,
          direct |-> FALSE, then |-> "again"]

\* wanted is the version the caller confirmed, additional says that the NFO was
\* compensated too.
Requests == [at : {"idle", "check", "load", "nfo", "nfo-manual", "file", "finish"},
             key : Keys \cup {NoOne}, wanted : Nat, file : Rows, nfo : Rows,
             additional : BOOLEAN, manual : BOOLEAN]

NoRequest == [at |-> "idle", key |-> NoOne, wanted |-> 0, file |-> NoRow, nfo |-> NoRow,
              additional |-> FALSE, manual |-> FALSE]

Spend(what) ==
    /\ spent[what] < limits[what]
    /\ spent' = [spent EXCEPT ![what] = @ + 1]
    /\ UNCHANGED <<plan, limits>>

Init ==
    /\ FilesInit
    /\ comp = [a \in Actors |-> NoComp]
    /\ journal = [k \in JournalKinds |-> NoRow]
    /\ result = NoResult
    /\ receipts = [k \in Keys |-> 0]
    /\ task = [stage |-> "file-operation", ready |-> TRUE]
    /\ holder = NoOne
    /\ run = [r \in Runners |-> NoRun]
    /\ undo = [c \in Callers |-> NoRequest]
    /\ \E s \in Scenarios : plan = s.plan /\ limits = s.limits
    /\ spent = [i \in Incidents |-> 0]

-----------------------------------------------------------------------------
(***************************************************************************)
(* What the steps of a run are made of.                                    *)
(***************************************************************************)

At(r, at) == run[r].at = at
Goto(r, at) == run' = [run EXCEPT ![r].at = at]
Ended(outcome) == [NoRun EXCEPT !.at = "commit", !.then = outcome]
End(r, outcome) == run' = [run EXCEPT ![r] = Ended(outcome)]

\* UPDATE ... WHERE status=? AND projection_version=?
Current(kind, row) == /\ journal[kind].status = row.status
                      /\ journal[kind].version = row.version

Moved(row, status) == [row EXCEPT !.status = status, !.version = @ + 1]

\* The run writes its journal and reads it back; a stale write is a conflict error.
Write(r, new, at) ==
    LET kind == run[r].on IN
    \/ /\ Current(kind, run[r].row)
       /\ journal' = [journal EXCEPT ![kind] = new]
       /\ run' = [run EXCEPT ![r].row = new, ![r].at = at]
    \/ /\ ~Current(kind, run[r].row)
       /\ End(r, "again")
       /\ UNCHANGED journal

\* Where advance, advance_source_removal and advance_nfo take up a row.
Entry(kind, status) ==
    CASE status \in {"manual-review", "compensated"} -> "commit"
      [] status = "prepared" -> "begin"
      [] status = "executing" -> [file |-> "recover", removal |-> "removal-recover",
                                  nfo |-> "nfo-recover"][kind]
      [] status = "applied" -> "inspect"
      [] status = "verified" -> [file |-> "completed", removal |-> "finish-removal",
                                 nfo |-> "nfo-finish"][kind]

\* The NFO handler returns an error for a compensated row, the others end in review.
Advance(r, kind, row) ==
    run' = [run EXCEPT ![r].on = kind, ![r].row = row, ![r].at = Entry(kind, row.status),
                       ![r].then = IF kind = "nfo" /\ row.status = "compensated"
                                   THEN "again" ELSE "review"]

\* A transaction that inserts the row of an operation unless it is there.
Ensure(r, kind, new) ==
    IF journal[kind].status = "none"
    THEN /\ journal' = [journal EXCEPT ![kind] = new]
         /\ Advance(r, kind, new)
    ELSE /\ Advance(r, kind, journal[kind])
         /\ UNCHANGED journal

\* An UPDATE of the result.
Change(new) == result' = [new EXCEPT !.version = @ + 1]

\* mark_executing, then execute, execute_source_removal or execute_nfo.
ExecuteStep == IF Operation = "copy" THEN "copy" ELSE "execute"

Begin(r) ==
    /\ At(r, "begin")
    /\ Write(r, Moved(run[r].row, "executing"),
             [file |-> ExecuteStep, removal |-> "removal-look",
              nfo |-> "nfo-execute"][run[r].on])
    /\ UNCHANGED <<result, receipts>>

\* mark_applied, mark_source_removed or mark_nfo_applied, with the facts of the file.
Applied(r) ==
    LET row == Moved(run[r].row, "applied") IN
    CASE run[r].on = "removal" -> row
      [] run[r].on = "file" -> [row EXCEPT !.applied = run[r].facts]
      [] run[r].on = "nfo" -> [row EXCEPT !.applied = run[r].facts,
             !.outcome = IF row.preexisting THEN "preserved" ELSE "generated"]

Mark(r) ==
    /\ At(r, "mark")
    /\ Write(r, Applied(r), "inspect")
    /\ UNCHANGED <<result, receipts>>

\* verify_applied, verify_source_removal and verify_nfo look at the disk again.
Holds(kind, row) ==
    CASE kind = "file" -> Facts("target") = row.applied
      [] kind = "removal" -> disk["source"] = Absent
      [] kind = "nfo" -> Facts("nfo") = row.applied

Inspect(r) ==
    /\ At(r, "inspect")
    /\ Goto(r, IF Holds(run[r].on, run[r].row) THEN "verify" ELSE "review")

Verify(r) ==
    /\ At(r, "verify")
    /\ Write(r, Moved(run[r].row, "verified"),
             [file |-> IF run[r].direct THEN "partial" ELSE "completed",
              removal |-> "finish-removal", nfo |-> "nfo-finish"][run[r].on])
    /\ UNCHANGED <<result, receipts>>

\* manual_review: two transactions, the journal's and the result's.
Review(r) ==
    /\ At(r, "review")
    /\ Write(r, Moved(run[r].row, "manual-review"), "review-result")
    /\ UNCHANGED <<result, receipts>>

ReviewResult(r) ==
    /\ At(r, "review-result")
    /\ IF result.status \in {"none", "manual-review"}
       THEN UNCHANGED result
       ELSE Change([result EXCEPT !.status = "manual-review"])
    /\ End(r, "review")
    /\ UNCHANGED <<journal, receipts>>

-----------------------------------------------------------------------------
(***************************************************************************)
(* The file operation.                                                     *)
(***************************************************************************)

\* run_file_stage: the plan's source must be there unchanged.
Observe(r) ==
    /\ At(r, "observe")
    /\ IF Facts("source") = Planned THEN Goto(r, "prepare") ELSE End(r, "review")

PrepareFile(r) ==
    /\ At(r, "prepare")
    /\ Ensure(r, "file", PreparedRow)
    /\ UNCHANGED <<result, receipts>>

\* move_no_clobber, hardlink_no_clobber and quarantine_no_clobber up to the rename.  A
\* move to another device is composed of a copy and a removal by the executor
\* (direct), a quarantine does the same within the call.
Execute(r) ==
    /\ At(r, "execute")
    /\ run' = [run EXCEPT ![r] =
         IF Facts("source") # Planned \/ (Placement = "cross" /\ Operation = "hardlink")
         THEN [@ EXCEPT !.at = "review"]
         ELSE IF Placement = "cross" THEN [@ EXCEPT !.at = "copy", !.direct = Operation = "move"]
         ELSE [@ EXCEPT !.at = "rename"]]

\* copy_no_clobber: the temporary file is created exclusively.
Copy(r) ==
    /\ At(r, "copy")
    /\ \/ /\ Facts("source") # Planned \/ disk["temp"] # Absent
          /\ Goto(r, "review")
          /\ UNCHANGED <<disk, content>>
       \/ /\ Facts("source") = Planned /\ disk["temp"] = Absent
          /\ CanCreate("copy")
          /\ disk' = [disk EXCEPT !["temp"] = Fresh("copy")]
          /\ content' = [content EXCEPT ![Fresh("copy")] = Planned.data]
          /\ Goto(r, "publish")
    /\ UNCHANGED comp

\* The source is compared with its snapshot again, through the descriptor it was read by.
\* (Mutant: the rename replaces a target.)
PublishableOver == content[Original] = Planned.data
Publishable == content[Original] = Planned.data /\ disk["target"] = Absent

\* remove_temporary.  (Mutant: the target is removed.)
CleanedTarget == Unlinked("target")
Cleaned == Unlinked("temp")

Publish(r) ==
    /\ At(r, "publish")
    /\ \/ /\ ~Publishable
          /\ disk' = Cleaned
          /\ Goto(r, "review")
       \/ /\ Publishable
          /\ disk' = Renamed("temp", "target")
          /\ run' = [run EXCEPT ![r].facts = Facts("temp"),
                       ![r].at = IF Operation = "quarantine" /\ ~run[r].direct
                                 THEN "removal-look" ELSE "mark"]
    /\ UNCHANGED <<content, comp>>

\* The copy fails, or its directory cannot be synced after it was published.
CopyFails(r) ==
    /\ At(r, "publish")
    /\ \/ disk' = Cleaned
       \/ Publishable /\ disk' = Renamed("temp", "target")
    /\ End(r, "again")
    /\ UNCHANGED <<content, comp>>

Renamable == Placement # "bind" /\ disk["source"] # Absent /\ disk["target"] = Absent

NamedTarget == IF Operation = "hardlink"
               THEN [disk EXCEPT !["target"] = disk["source"]]
               ELSE Renamed("source", "target")

\* renameat2(NOREPLACE), or linkat.
Rename(r) ==
    /\ At(r, "rename")
    /\ \/ /\ Renamable
          /\ disk' = NamedTarget
          /\ Goto(r, "confirm")
       \/ /\ ~Renamable
          /\ run' = [run EXCEPT ![r] =
               CASE Placement = "bind" /\ Operation = "hardlink" -> [@ EXCEPT !.at = "review"]
                 [] Placement = "bind" /\ Operation # "hardlink" ->
                        [@ EXCEPT !.at = "copy", !.direct = TRUE]
                 [] Placement # "bind" /\ disk["source"] = Absent -> Ended("again")
                 [] OTHER -> [@ EXCEPT !.at = "review"]]
          /\ UNCHANGED disk
    /\ UNCHANGED <<content, comp>>

\* The directories cannot be synced after the rename.
RenameUnsynced(r) ==
    /\ At(r, "rename")
    /\ Renamable
    /\ disk' = NamedTarget
    /\ End(r, "again")
    /\ UNCHANGED <<content, comp>>

\* Whether the file that was renamed is the planned one.
Confirm(r) ==
    LET moved == Facts("target")
        planned == moved.inode = Original /\ content[Original] = Planned.data
    IN
    /\ At(r, "confirm")
    /\ \/ /\ moved = NoFacts
          /\ End(r, "again")
          /\ UNCHANGED comp
       \/ /\ moved # NoFacts /\ (planned \/ Operation = "quarantine")
          /\ run' = [run EXCEPT ![r].facts = moved,
                       ![r].at = IF Operation = "quarantine" THEN "manifest" ELSE "mark"]
          /\ UNCHANGED comp
       \/ /\ moved # NoFacts /\ ~planned /\ Operation # "quarantine"
          /\ comp' = [comp EXCEPT ![r] = Begun("target", moved, Operation = "move")]
          /\ Goto(r, "undoing")
    /\ UNCHANGED <<disk, content>>

\* A wrong file was renamed or linked, and is taken back.
Undone(r) ==
    /\ At(r, "undoing")
    /\ comp[r].at \in CompOutcomes
    /\ \/ /\ comp[r].at \in (IF Operation = "move" THEN {"restored"} ELSE {"removed", "absent"})
          /\ Goto(r, "review")
       \/ /\ comp[r].at \notin (IF Operation = "move" THEN {"restored"} ELSE {"removed", "absent"})
          /\ End(r, "again")
    /\ comp' = [comp EXCEPT ![r] = NoComp]
    /\ UNCHANGED <<disk, content>>

\* publish_quarantine_manifest, of a renamed file, of a copied one and after a removal with
\* a row of its own.  Within the file operation a failure is reviewed, later it is retried.
ManifestRefused(r) ==
    IF run[r].row.status = "executing" THEN Goto(r, "review") ELSE End(r, "again")

CreateManifest(r) ==
    LET expected == run[r].row.status # "executing" \/ run[r].facts.inode = Original IN
    /\ At(r, "manifest")
    /\ \/ /\ expected /\ disk["temp"] = Absent
          /\ disk' = [disk EXCEPT !["temp"] = Manifest]
          /\ Goto(r, "manifest-publish")
       \/ /\ ~(expected /\ disk["temp"] = Absent)
          /\ ManifestRefused(r)
          /\ UNCHANGED disk
    /\ UNCHANGED <<content, comp>>

PublishManifest(r) ==
    /\ At(r, "manifest-publish")
    /\ \/ /\ disk["manifest"] = Absent
          /\ disk' = Renamed("temp", "manifest")
          /\ Goto(r, IF run[r].row.status = "executing" THEN "mark" ELSE "conclude")
       \/ /\ disk["manifest"] # Absent
          /\ disk' = Cleaned
          /\ ManifestRefused(r)
    /\ UNCHANGED <<content, comp>>

\* The manifest cannot be written, or its directory not synced.
ManifestFails(r) ==
    /\ At(r, "manifest-publish")
    /\ \/ disk' = Cleaned
       \/ disk["manifest"] = Absent /\ disk' = Renamed("temp", "manifest")
    /\ End(r, "again")
    /\ UNCHANGED <<content, comp>>

\* executing_target_matches.
TargetMatches ==
    LET source == Facts("source")  target == Facts("target") IN
    CASE Operation = "copy" -> source.inode = Original /\ source.data = target.data
      [] Operation = "hardlink" -> target.inode = Original
      [] Operation = "quarantine" -> source = NoFacts
      [] Operation = "move" -> /\ source \in {NoFacts, Planned}
                               /\ target.inode = Original \/ source.data = target.data

\* recover_executing.
Recover(r) ==
    /\ At(r, "recover")
    /\ run' = [run EXCEPT ![r] =
         CASE disk["target"] # Absent /\ TargetMatches ->
                [@ EXCEPT !.facts = Facts("target"), !.at = "mark"]
           [] disk["target"] = Absent /\ Facts("source") = Planned ->
                [@ EXCEPT !.at = ExecuteStep]
           [] OTHER -> [@ EXCEPT !.at = "review"]]

\* A moved file whose source is still there has to be removed from it.  (Mutant: the
\* operation ends here.)
CompletedAtOnce(r) ==
    /\ At(r, "completed")
    /\ Goto(r, "conclude")
Completed(r) ==
    /\ At(r, "completed")
    /\ Goto(r, CASE Operation # "move" \/ disk["source"] = Absent -> "conclude"
                 [] Operation = "move" /\ Facts("source") = Planned -> "partial"
                 [] OTHER -> "review")

\* start_nfo_or_complete with ensure_completed_result or ensure_nfo_pending_result, which
\* ask the row in memory whether it is verified.
Concluded ==
    CASE result.status = "none" ->
           [NoResult EXCEPT !.status = IF plan.nfo THEN "partial-success" ELSE "completed",
                            !.remaining = IF plan.nfo THEN "nfo" ELSE "none"]
      [] result.status # "none" /\ ~plan.nfo -> [result EXCEPT !.status = "completed", !.remaining = "none"]
      [] OTHER -> [result EXCEPT !.remaining = "nfo",
                     !.nfo = IF @ = "failed" THEN "failed" ELSE "not-requested"]

NeedsConclusion ==
    \/ result.status = "none"
    \/ ~plan.nfo /\ result.status # "completed"
    \/ plan.nfo /\ result.status = "partial-success" /\ result.remaining # "nfo"

ConcludeResult == IF NeedsConclusion THEN Change(Concluded) ELSE UNCHANGED result

Conclude(r) ==
    /\ At(r, "conclude")
    /\ \/ /\ run[r].row.status = "verified"
          /\ ConcludeResult
          /\ End(r, IF result'.remaining = "nfo" THEN "nfo-pending" ELSE "organized")
       \/ /\ run[r].row.status # "verified"
          /\ End(r, "again")
          /\ UNCHANGED result
    /\ UNCHANGED <<journal, receipts>>

-----------------------------------------------------------------------------
(***************************************************************************)
(* The removal of the source after a copy: remove_verified_source, for a   *)
(* row of its own or, of a quarantine to another device, within the file   *)
(* operation.                                                              *)
(***************************************************************************)

\* start_source_removal.
EnsurePartial(r) ==
    /\ At(r, "partial")
    /\ IF result.status = "none"
       THEN Change([NoResult EXCEPT !.status = "partial-success", !.remaining = "source-removal"])
       ELSE UNCHANGED result
    /\ Goto(r, "prepare-removal")
    /\ UNCHANGED <<journal, receipts>>

PrepareRemoval(r) ==
    /\ At(r, "prepare-removal")
    /\ Ensure(r, "removal", PreparedRow)
    /\ UNCHANGED <<result, receipts>>

RemovalRecover(r) ==
    /\ At(r, "removal-recover")
    /\ Goto(r, IF Facts("source") \in {NoFacts, Planned} THEN "removal-look" ELSE "review")

AfterRemoval(r) == IF run[r].on = "removal" THEN "mark" ELSE "manifest"

RemovalLook(r) ==
    /\ At(r, "removal-look")
    /\ Goto(r, IF disk["removal"] # Absent
               THEN IF disk["source"] = Absent /\ Facts("removal") = Planned
                    THEN "removal-unlink" ELSE "review"
               ELSE IF disk["source"] = Absent THEN AfterRemoval(r)
               ELSE IF Facts("source") = Planned THEN "removal-rename" ELSE "review")

RemovalRename(r) ==
    /\ At(r, "removal-rename")
    /\ \/ /\ disk["source"] # Absent /\ disk["removal"] = Absent
          /\ disk' = Renamed("source", "removal")
          /\ Goto(r, "removal-check")
       \/ /\ disk["source"] = Absent
          /\ End(r, "again")
          /\ UNCHANGED disk
       \/ /\ disk["source"] # Absent /\ disk["removal"] # Absent
          /\ Goto(r, "review")
          /\ UNCHANGED disk
    /\ UNCHANGED <<content, comp>>

\* (Mutant: the file is not looked at again.)
SourceHiddenAlways == disk["removal"] # Absent
SourceHidden == Facts("removal") = Planned

\* A file that is not the planned one goes back to its name, if that is still free.
RemovalCheck(r) ==
    /\ At(r, "removal-check")
    /\ \/ /\ disk["removal"] = Absent
          /\ End(r, "again")
          /\ UNCHANGED disk
       \/ /\ SourceHidden
          /\ Goto(r, "removal-unlink")
          /\ UNCHANGED disk
       \/ /\ disk["removal"] # Absent /\ ~SourceHidden
          /\ disk' = IF disk["source"] = Absent THEN Renamed("removal", "source") ELSE disk
          /\ Goto(r, "review")
    /\ UNCHANGED <<content, comp>>

RemovalUnlink(r) ==
    /\ At(r, "removal-unlink")
    /\ disk' = Unlinked("removal")
    /\ IF disk["removal"] = Absent THEN End(r, "again") ELSE Goto(r, AfterRemoval(r))
    /\ UNCHANGED <<content, comp>>

\* The directory cannot be synced after the source was removed.
RemovalUnsynced(r) ==
    /\ At(r, "removal-unlink")
    /\ disk' = Unlinked("removal")
    /\ End(r, "again")
    /\ UNCHANGED <<content, comp>>

\* finish_source_removal goes on with the row of the file operation.
FinishRemoval(r) ==
    /\ At(r, "finish-removal")
    /\ run' = [run EXCEPT ![r].on = "file", ![r].row = journal["file"],
                 ![r].at = IF Operation = "quarantine" THEN "manifest" ELSE "conclude"]
-----------------------------------------------------------------------------
(***************************************************************************)
(* The NFO beside the target: run_nfo_stage and advance_nfo.               *)
(***************************************************************************)

\* A quarantined file is not looked for.
VerifiedFile == journal["file"].status = "verified" /\ Operation # "quarantine"

NfoLook(r) ==
    /\ At(r, "nfo-look")
    /\ \/ /\ journal["nfo"].status # "none"
          /\ Advance(r, "nfo", journal["nfo"])
       \/ /\ journal["nfo"].status = "none" /\ VerifiedFile
          /\ run' = [run EXCEPT ![r].row = journal["file"], ![r].at = "nfo-pending"]
       \/ /\ journal["nfo"].status = "none" /\ ~VerifiedFile
          /\ End(r, "again")

NfoPending(r) ==
    /\ At(r, "nfo-pending")
    /\ ConcludeResult
    /\ Goto(r, "nfo-inspect")
    /\ UNCHANGED <<journal, receipts>>

NfoInspect(r) ==
    /\ At(r, "nfo-inspect")
    /\ run' = [run EXCEPT ![r].facts = Facts("nfo"), ![r].at = "nfo-prepare"]

\* prepare_nfo: a row that is there must have seen the same file.
NfoPrepare(r) ==
    LET seen == run[r].facts  stored == journal["nfo"]
        agrees == /\ stored.preexisting = (seen # NoFacts)
                  /\ stored.preexisting => stored.applied = seen
        new == [PreparedRow EXCEPT !.preexisting = seen # NoFacts, !.applied = seen]
    IN
    /\ At(r, "nfo-prepare")
    /\ IF stored.status = "none" \/ agrees
       THEN Ensure(r, "nfo", new)
       ELSE End(r, "again") /\ UNCHANGED journal
    /\ UNCHANGED <<result, receipts>>

NfoExecute(r) ==
    /\ At(r, "nfo-execute")
    /\ IF run[r].row.preexisting
       THEN run' = [run EXCEPT ![r].facts = run[r].row.applied, ![r].at = "mark"]
       ELSE Goto(r, "nfo-create")

\* publish_bytes: temporary file, then a rename that replaces nothing.
NfoCreate(r) ==
    /\ At(r, "nfo-create")
    /\ \/ /\ disk["nfo-temp"] # Absent
          /\ Goto(r, "review")
          /\ UNCHANGED <<disk, content>>
       \/ /\ disk["nfo-temp"] = Absent /\ CanCreate("nfo")
          /\ disk' = [disk EXCEPT !["nfo-temp"] = Fresh("nfo")]
          /\ content' = [content EXCEPT ![Fresh("nfo")] = "nfo"]
          /\ Goto(r, "nfo-publish")
    /\ UNCHANGED comp

NfoFree == disk["nfo"] = Absent

NfoPublish(r) ==
    /\ At(r, "nfo-publish")
    /\ \/ /\ ~NfoFree
          /\ disk' = Unlinked("nfo-temp")
          /\ Goto(r, "nfo-exists")
       \/ /\ NfoFree
          /\ disk' = Renamed("nfo-temp", "nfo")
          /\ run' = [run EXCEPT ![r].facts = Facts("nfo-temp"), ![r].at = "mark"]
    /\ UNCHANGED <<content, comp>>

NfoWriteFails(r) ==
    /\ At(r, "nfo-publish")
    /\ \/ disk' = Unlinked("nfo-temp")
       \/ NfoFree /\ disk' = Renamed("nfo-temp", "nfo")
    /\ Goto(r, "nfo-failed")
    /\ UNCHANGED <<content, comp>>

\* A file with the bytes that were to be written is taken for the run's own.
NfoExists(r) ==
    /\ At(r, "nfo-exists")
    /\ run' = [run EXCEPT ![r] =
         IF Facts("nfo").data = "nfo" THEN [@ EXCEPT !.facts = Facts("nfo"), !.at = "mark"]
                                      ELSE [@ EXCEPT !.at = "review"]]

\* mark_nfo_failed_result.
NfoFailed(r) ==
    /\ At(r, "nfo-failed")
    /\ IF result.status = "partial-success" /\ (result.nfo # "failed" \/ result.remaining # "nfo")
       THEN Change([result EXCEPT !.nfo = "failed", !.remaining = "nfo"])
       ELSE UNCHANGED result
    /\ End(r, "review")
    /\ UNCHANGED <<journal, receipts>>

\* recover_nfo_executing.
NfoRecover(r) ==
    LET row == run[r].row  seen == Facts("nfo")
        own == IF row.preexisting THEN seen = row.applied ELSE seen.data = "nfo"
    IN
    /\ At(r, "nfo-recover")
    /\ run' = [run EXCEPT ![r] =
         CASE own -> [@ EXCEPT !.facts = seen, !.at = "mark"]
           [] ~own /\ ~row.preexisting /\ seen = NoFacts -> [@ EXCEPT !.at = "nfo-create"]
           [] OTHER -> [@ EXCEPT !.at = "review"]]

\* finish_nfo_result, which asks nothing of the status the result has.
NfoFinish(r) ==
    LET new == [result EXCEPT !.status = "completed", !.remaining = "none",
                              !.nfo = run[r].row.outcome]
    IN
    /\ At(r, "nfo-finish")
    /\ IF new # result THEN Change(new) ELSE UNCHANGED result
    /\ End(r, "organized")
    /\ UNCHANGED <<journal, receipts>>

-----------------------------------------------------------------------------
(***************************************************************************)
(* Completion, and the frame of a stage: claim and commit.                 *)
(***************************************************************************)

\* The result is read; its status is not looked at (verified_local_result).
Complete(r) ==
    /\ At(r, "complete")
    /\ IF result.status # "none" /\ VerifiedFile
       THEN run' = [run EXCEPT ![r].seen = result.version, ![r].at = "catalog"]
       ELSE End(r, "again")

\* apply_local_result, repeatable, then mark_catalog_committed.
Catalog(r) ==
    /\ At(r, "catalog")
    /\ \/ /\ result.catalog
          /\ End(r, "completed")
          /\ UNCHANGED result
       \/ /\ ~result.catalog /\ result.version = run[r].seen
          /\ Change([result EXCEPT !.catalog = TRUE])
          /\ End(r, "completed")
       \/ /\ ~result.catalog /\ result.version # run[r].seen
          /\ End(r, "again")
          /\ UNCHANGED result
    /\ UNCHANGED <<journal, receipts>>

CatalogFails(r) ==
    /\ At(r, "catalog")
    /\ End(r, "again")
    /\ UNCHANGED files

FirstStep(stage) ==
    CASE stage = "file-operation" -> "observe"
      [] stage = "nfo" -> "nfo-look"
      [] stage = "completion" -> "complete"

\* claim_next gives the task to a run, which starts the handler of its stage.
StartStage(r) ==
    /\ At(r, "idle")
    /\ holder = NoOne
    /\ task.ready
    /\ holder' = r
    /\ run' = [run EXCEPT ![r] = [NoRun EXCEPT !.at = FirstStep(task.stage)]]
    /\ UNCHANGED <<files, db, task, undo, world>>

\* The task waits for an administrator.  (Mutant: it is retried without one.)
WaitingRetried == task
Waiting == [task EXCEPT !.ready = FALSE]

\* The finish_organization_... the handler ends with; "again" is a pause with a retry.
CommittedTask(outcome) ==
    CASE outcome = "again" -> task
      [] outcome = "review" -> Waiting
      [] outcome = "nfo-pending" -> [task EXCEPT !.stage = "nfo"]
      [] outcome = "organized" -> [task EXCEPT !.stage = "completion"]
      [] outcome = "completed" -> [stage |-> "done", ready |-> FALSE]

\* A run without the lease commits nothing.
Commit(r) ==
    /\ At(r, "commit")
    /\ \/ /\ holder = r
          /\ task' = CommittedTask(run[r].then)
          /\ holder' = NoOne
       \/ /\ holder # r
          /\ UNCHANGED lease
    /\ run' = [run EXCEPT ![r] = NoRun]
    /\ UNCHANGED <<files, db, undo, world>>

\* A step that only reads rows and files.
Reads(r) ==
    /\ \/ Inspect(r) \/ Observe(r) \/ Execute(r) \/ Recover(r) \/ Completed(r)
       \/ RemovalRecover(r) \/ RemovalLook(r) \/ FinishRemoval(r)
       \/ NfoLook(r) \/ NfoInspect(r) \/ NfoExecute(r) \/ NfoExists(r) \/ NfoRecover(r)
       \/ Complete(r)
    /\ UNCHANGED <<files, db, lease, undo, world>>

\* A transaction.
Records(r) ==
    /\ \/ Begin(r) \/ Mark(r) \/ Verify(r) \/ Review(r) \/ ReviewResult(r)
       \/ PrepareFile(r) \/ Conclude(r) \/ EnsurePartial(r) \/ PrepareRemoval(r)
       \/ NfoPending(r) \/ NfoPrepare(r) \/ NfoFailed(r) \/ NfoFinish(r) \/ Catalog(r)
    /\ UNCHANGED <<files, lease, undo, world>>

\* A system call.
Calls(r) ==
    /\ \/ Copy(r) \/ Publish(r) \/ Rename(r) \/ Confirm(r) \/ Undone(r)
       \/ CreateManifest(r) \/ PublishManifest(r)
       \/ RemovalRename(r) \/ RemovalCheck(r) \/ RemovalUnlink(r)
       \/ NfoCreate(r) \/ NfoPublish(r)
    /\ UNCHANGED <<db, lease, undo, world>>

RunFails(r) ==
    /\ \/ CopyFails(r) \/ RenameUnsynced(r) \/ ManifestFails(r)
       \/ RemovalUnsynced(r) \/ NfoWriteFails(r) \/ CatalogFails(r)
    /\ Spend("fault")
    /\ UNCHANGED <<db, lease, undo>>

Works(a) == Compensate(a) /\ UNCHANGED <<db, lease, run, undo, world>>

WorkFails(a) ==
    /\ CompRemove(a, "failed") \/ CompRestore(a, "failed")
    /\ Spend("fault")
    /\ UNCHANGED <<db, lease, run, undo>>
-----------------------------------------------------------------------------
(***************************************************************************)
(* rollback: the result is checked, the files are taken back, then rows,   *)
(* result and receipt change in one transaction.  A key with a receipt is  *)
(* answered from it, so only a key without one is asked with; a version    *)
(* older than the result's is refused, as it is when the result changes    *)
(* between the question and Check.                                         *)
(***************************************************************************)

UndoAt(c, at) == undo[c].at = at
UndoGoto(c, at) == undo' = [undo EXCEPT ![c].at = at]
Refuse(c) == undo' = [undo EXCEPT ![c] = NoRequest]

Ask(c) ==
    /\ UndoAt(c, "idle")
    /\ result.status # "none"
    /\ Spend("rollback")
    /\ \E k \in Keys :
        /\ receipts[k] = 0
        /\ undo' = [undo EXCEPT ![c] =
             [NoRequest EXCEPT !.at = "check", !.key = k, !.wanted = result.version]]
    /\ UNCHANGED <<files, db, lease, run>>

\* rollback_candidate.
Candidate(version) == /\ result.version = version
                      /\ result.status \in {"completed", "partial-success"}

Check(c) ==
    /\ UndoAt(c, "check")
    /\ IF Candidate(undo[c].wanted) THEN UndoGoto(c, "load") ELSE Refuse(c)
    /\ UNCHANGED <<files, db>>

TakeBack(c, path, row, restores) ==
    comp' = [comp EXCEPT ![c] = Begun(path, row.applied, restores)]

\* (Mutant: the other file is taken back.)
TakeBackOther(c, row) == TakeBack(c, "nfo", row, FALSE)
TakeBackFile(c, row) == TakeBack(c, "target", row, Operation \in {"move", "quarantine"})

GeneratedNfo == /\ journal["nfo"].status = "verified"
                /\ journal["nfo"].outcome = "generated"

\* A generated NFO is taken back before the file.
Load(c) ==
    /\ UndoAt(c, "load")
    /\ \/ /\ journal["file"].status # "verified"
          /\ Refuse(c)
          /\ UNCHANGED comp
       \/ /\ journal["file"].status = "verified"
          /\ undo' = [undo EXCEPT ![c].file = journal["file"], ![c].nfo = journal["nfo"],
                        ![c].at = IF GeneratedNfo THEN "nfo" ELSE "file"]
          /\ IF GeneratedNfo THEN TakeBack(c, "nfo", journal["nfo"], FALSE)
                             ELSE TakeBackFile(c, journal["file"])
    /\ UNCHANGED <<disk, content, db>>

NfoTaken(c) ==
    /\ UndoAt(c, "nfo")
    /\ \/ /\ comp[c].at \in {"absent", "removed"}
          /\ undo' = [undo EXCEPT ![c].additional = TRUE, ![c].at = "file"]
          /\ TakeBackFile(c, undo[c].file)
       \/ /\ comp[c].at = "manual"
          /\ UndoGoto(c, "nfo-manual")
          /\ comp' = [comp EXCEPT ![c] = NoComp]
       \/ /\ comp[c].at = "failed"
          /\ Refuse(c)
          /\ comp' = [comp EXCEPT ![c] = NoComp]
    /\ UNCHANGED <<disk, content, db>>

\* A changed NFO stops the rollback; its row is written before the transaction.
NfoManual(c) ==
    LET row == undo[c].nfo IN
    /\ UndoAt(c, "nfo-manual")
    /\ \/ /\ Current("nfo", row)
          /\ journal' = [journal EXCEPT !["nfo"] = Moved(row, "manual-review")]
          /\ undo' = [undo EXCEPT ![c].manual = TRUE, ![c].at = "finish"]
       \/ /\ ~Current("nfo", row)
          /\ Refuse(c)
          /\ UNCHANGED journal
    /\ UNCHANGED <<files, result, receipts>>

FileTaken(c) ==
    /\ UndoAt(c, "file")
    /\ \/ /\ comp[c].at \in {"absent", "removed", "restored", "manual"}
          /\ undo' = [undo EXCEPT ![c].manual = comp[c].at = "manual", ![c].at = "finish"]
       \/ /\ comp[c].at = "failed"
          /\ Refuse(c)
    /\ comp' = [comp EXCEPT ![c] = NoComp]
    /\ UNCHANGED <<disk, content, db>>

\* finish_rollback changes everything or, if the result or a row was changed meanwhile,
\* nothing.  The row of a removed source is compensated with its file.
Rolledback(c) ==
    LET u == undo[c]
        status == IF u.manual THEN "manual-review" ELSE "compensated"
        removal == journal["removal"]
    IN  [file |-> Moved(u.file, status),
         removal |-> IF ~u.manual /\ removal.status = "verified"
                     THEN Moved(removal, "compensated") ELSE removal,
         nfo |-> IF u.additional THEN Moved(u.nfo, "compensated") ELSE journal["nfo"]]

Finish(c) ==
    LET u == undo[c]
        accepted == /\ receipts[u.key] = 0
                    /\ result.version = u.wanted
                    /\ Current("file", u.file)
                    /\ u.additional => Current("nfo", u.nfo)
    IN
    /\ UndoAt(c, "finish")
    /\ \/ /\ accepted
          /\ journal' = Rolledback(c)
          /\ Change([result EXCEPT !.status = IF u.manual THEN "manual-review" ELSE "compensated"])
          /\ receipts' = [receipts EXCEPT ![u.key] = u.wanted]
       \/ /\ ~accepted
          /\ UNCHANGED db
    /\ Refuse(c)
    /\ UNCHANGED files

Requested(c) ==
    /\ Check(c) \/ Load(c) \/ NfoTaken(c) \/ NfoManual(c) \/ FileTaken(c) \/ Finish(c)
    /\ UNCHANGED <<lease, run, world>>

-----------------------------------------------------------------------------
(***************************************************************************)
(* What happens around the runs.                                           *)
(***************************************************************************)

\* The process dies and starts again: hidden files and rows stay as they are.
Crash ==
    /\ Spend("crash")
    /\ run' = [r \in Runners |-> NoRun]
    /\ undo' = [c \in Callers |-> NoRequest]
    /\ comp' = [a \in Actors |-> NoComp]
    /\ holder' = NoOne
    /\ UNCHANGED <<disk, content, db, task>>

\* The lease expires or is taken over while the run goes on.
LoseLease ==
    /\ holder # NoOne
    /\ Spend("lost")
    /\ holder' = NoOne
    /\ UNCHANGED <<files, db, task, run, undo>>

\* An administrator retries a task that waits for one.
RetryRequest ==
    /\ ~task.ready /\ task.stage # "done"
    /\ Spend("retry")
    /\ task' = [task EXCEPT !.ready = TRUE]
    /\ UNCHANGED <<files, db, holder, run, undo>>

Users ==
    /\ UserActs
    /\ Spend("user")
    /\ UNCHANGED <<db, lease, run, undo>>

RunStep(r) == Reads(r) \/ Records(r) \/ Calls(r) \/ Works(r) \/ Commit(r)

RequestStep(c) == Requested(c) \/ Works(c)

Next ==
    \/ \E r \in Runners : StartStage(r) \/ RunStep(r) \/ RunFails(r)
    \/ \E c \in Callers : Ask(c) \/ RequestStep(c)
    \/ \E a \in Actors : WorkFails(a)
    \/ Crash \/ LoseLease \/ RetryRequest \/ Users

Spec == Init /\ [][Next]_vars

(***************************************************************************)
(* A handler that runs goes on to its end, and a task that may be claimed  *)
(* is claimed by some worker.  Nothing is assumed of faults, users and     *)
(* requests.                                                               *)
(***************************************************************************)
Fairness ==
    /\ \A r \in Runners : WF_vars(RunStep(r))
    /\ \A c \in Callers : WF_vars(RequestStep(c))
    /\ WF_vars(\E r \in Runners : StartStage(r))

FairSpec == Spec /\ Fairness

-----------------------------------------------------------------------------
(***************************************************************************)
(* Properties.                                                             *)
(***************************************************************************)

TypeOK ==
    /\ disk \in [Paths -> Inodes \cup {Absent}]
    /\ content \in [Inodes -> Data]
    /\ comp \in [Actors -> Compensations]
    /\ journal \in [JournalKinds -> Rows]
    /\ result \in Results
    /\ receipts \in [Keys -> Nat]
    /\ task \in [stage : TaskStages, ready : BOOLEAN]
    /\ holder \in Runners \cup {NoOne}
    /\ run \in [Runners -> Runs]
    /\ undo \in [Callers -> Requests]
    /\ plan \in Plans
    /\ limits \in [Incidents -> Nat]
    /\ spent \in [Incidents -> Nat]

\* Nothing a user wrote is lost by what the core does: no step of a run or a rollback
\* unlinks the last name of such a file or changes it.  Each operation looks at a name
\* first and acts on the name later, when it may lead to another file.
UserDataKept ==
    [][spent'.user = spent.user =>
          \A i \in Inodes : Linked(i) /\ content[i] = "other" =>
              Linked(i)' /\ content'[i] = "other"]_vars

Quiet == /\ \A r \in Runners : run[r] = NoRun
         /\ \A c \in Callers : undo[c] = NoRequest

InLibrary == \E p \in {"source", "target"} : Facts(p).data = "media"

\* As long as no user interferes, the media has a name that is not a temporary file, and
\* once everything is quiet a visible one, unless a crash or fault came between hiding a
\* file and showing it again.
MediaSurvives ==
    spent.user = 0 =>
        /\ \E p \in Paths \ {"temp"} : Facts(p).data = "media"
        /\ Quiet /\ spent.crash = 0 /\ spent.fault = 0 => InLibrary

\* What the journal calls verified is so, whatever crashed and whoever else ran, until a
\* user or a rollback changes it.
JournalMatchesDisk ==
    spent.user = 0 /\ spent.rollback = 0 =>
        \A k \in JournalKinds : journal[k].status = "verified" =>
            /\ Holds(k, journal[k])
            /\ k = "file" => journal[k].applied.data = "media"
            /\ k = "file" /\ Operation \in {"copy", "hardlink"} => Facts("source") = Planned

\* Rows, runs and files have their shapes, and the journal is right about the files.
ExecutionInvariant == TypeOK /\ JournalMatchesDisk

\* As long as no user interferes, a result becomes completed when all its steps are
\* verified: the file, the removal of its source if there is one, and the NFO that was
\* asked for (LocalResultStatus::Completed).
CompletedOnVerified ==
    [][result.status # "completed" /\ result'.status = "completed" /\ spent.user = 0 =>
          /\ journal["file"].status = "verified"
          /\ journal["removal"].status \in {"none", "verified"}
          /\ plan.nfo => journal["nfo"].status = "verified"]_vars

\* When a rollback has reported success and nothing is under way, the target is gone and
\* the source is where it was (organization_rollback.rs:42-44).
CompensatedIsRestored ==
    result.status = "compensated" /\ Quiet /\ spent.user = 0 =>
        disk["target"] = Absent /\ Facts("source") = Planned

\* The task comes to rest: it is done or waits for a person.
ComesToRest == <>[](~task.ready)

=============================================================================
