------------------------------- MODULE Backups ------------------------------
(* Backups of the database and the deployment roots: made before a migration  *)
(* and on demand, one file after the other, and restored into an empty        *)
(* directory.  Processes die and files rot in between.                        *)
EXTENDS Naturals

CONSTANTS
    Release,      \* the newest schema version of the program
    MaxBackups,   \* backups in all
    MaxData,      \* changes of the data, and of the deployment roots
    Accidents     \* files that rot, and restores that are cut short

ASSUME BackupAssumption == {Release, MaxBackups, MaxData, Accidents} \subseteq Nat

VARIABLES
    live,        \* the database, [schema, data], and the deployment roots file
    before,      \* the database when the program that runs now was started
    program,     \* off, starting, migrating or serving
    making,      \* the backup being made: its number and what was done, or none
    files,       \* by number: the database, the roots and the manifest of a backup
    restoring,   \* the restore command
    restored,    \* the directory it restores into: what is in place, and whether copies lie beside
    accidents

backupVars == <<live, before, program, making, files, restoring, restored, accidents>>

NoFile == [is |-> "none"]
Holding(content) == [is |-> "file", content |-> content]
Rotten == [is |-> "rotten"]   \* whatever it held, it has another digest now

NoBackup == [db |-> NoFile, roots |-> NoFile, manifest |-> NoFile]
NotMaking == [at |-> "none", number |-> 0]
NotRestoring == [at |-> "none"]
EmptyTarget == [db |-> NoFile, roots |-> NoFile, staged |-> FALSE]

BackupInit ==
    /\ \E s \in 0 .. Release : live = [db |-> [schema |-> s, data |-> 0], roots |-> 0]
    /\ before = live.db
    /\ program = "off"
    /\ making = NotMaking
    /\ files = [n \in 1 .. MaxBackups |-> NoBackup]
    /\ restoring = NotRestoring
    /\ restored = EmptyTarget
    /\ accidents = 0

Kept == {n \in 1 .. MaxBackups : files[n] # NoBackup}
Schema(db) == db.schema
Pending == live.db.schema < Release
Existing == live.db.schema > 0

-----------------------------------------------------------------------------
(* The program. *)

StartProgram ==
    /\ program = "off"
    /\ program' = "starting" /\ before' = live.db
    /\ UNCHANGED <<live, making, files, restoring, restored, accidents>>

\* Pending migrations of a database that has a schema.
BacksUp == Pending /\ Existing

ToMigrations ==
    /\ program = "starting" /\ making = NotMaking /\ ~BacksUp
    /\ program' = "migrating"
    /\ UNCHANGED <<live, before, making, files, restoring, restored, accidents>>

\* Every migration is a transaction.
Migrate ==
    /\ program = "migrating" /\ Pending
    /\ live' = [live EXCEPT !.db.schema = @ + 1]
    /\ UNCHANGED <<before, program, making, files, restoring, restored, accidents>>

Serve ==
    /\ program = "migrating" /\ ~Pending
    /\ program' = "serving"
    /\ UNCHANGED <<live, before, making, files, restoring, restored, accidents>>

ChangeData ==
    /\ program = "serving" /\ live.db.data < MaxData
    /\ live' = [live EXCEPT !.db.data = @ + 1]
    /\ UNCHANGED <<before, program, making, files, restoring, restored, accidents>>

EditRoots ==
    /\ live.roots < MaxData
    /\ live' = [live EXCEPT !.roots = @ + 1]
    /\ UNCHANGED <<before, program, making, files, restoring, restored, accidents>>

\* A stop or a crash: what the backup had written so far stays.
StopProgram ==
    /\ program # "off"
    /\ program' = "off" /\ making' = NotMaking
    /\ UNCHANGED <<live, before, files, restoring, restored, accidents>>

-----------------------------------------------------------------------------
(* Making a backup. *)

Write(n, file, content) == files' = [files EXCEPT ![n][file] = Holding(content)]

\* At startup, or when an administrator asks for one.  The schema version is read first.
BeginBackup ==
    /\ making = NotMaking
    /\ (program = "starting" /\ BacksUp) \/ program = "serving"
    /\ \E n \in 1 .. MaxBackups :
        /\ files[n] = NoBackup /\ \A m \in 1 .. n - 1 : files[m] # NoBackup
        /\ making' = [at |-> "db", number |-> n, schema |-> live.db.schema]
    /\ UNCHANGED <<live, before, program, files, restoring, restored, accidents>>

\* The online copy starts over as long as the source changes under it, and is checked.
CopyDatabase ==
    /\ making.at = "db"
    /\ Write(making.number, "db", live.db)
    /\ making' = [making EXCEPT !.at = "roots"]
    /\ UNCHANGED <<live, before, program, restoring, restored, accidents>>

CopyRoots ==
    /\ making.at = "roots"
    /\ Write(making.number, "roots", live.roots)
    /\ making' = [making EXCEPT !.at = "manifest"]
    /\ UNCHANGED <<live, before, program, restoring, restored, accidents>>

\* The manifest, with the digests of both copies, appears at once; then a start goes on.
WriteManifest ==
    /\ making.at = "manifest"
    /\ LET b == files[making.number] IN
        Write(making.number, "manifest",
              [schema |-> making.schema, db |-> b.db.content, roots |-> b.roots.content])
    /\ making' = NotMaking
    /\ program' = IF program = "starting" THEN "migrating" ELSE program
    /\ UNCHANGED <<live, before, restoring, restored, accidents>>

\* Whatever fails, the files go, and a start fails with it.
FailBackup ==
    /\ making # NotMaking
    /\ files' = [files EXCEPT ![making.number] = NoBackup]
    /\ making' = NotMaking
    /\ program' = IF program = "starting" THEN "off" ELSE program
    /\ UNCHANGED <<live, before, restoring, restored, accidents>>

Rot ==
    /\ accidents < Accidents
    /\ \E n \in Kept, file \in {"db", "roots"} :
        /\ files[n][file] # NoFile
        /\ making.number # n
        /\ files' = [files EXCEPT ![n][file] = Rotten]
    /\ accidents' = accidents + 1
    /\ UNCHANGED <<live, before, program, making, restoring, restored>>

-----------------------------------------------------------------------------
(* The restore command. *)

Restore(at) == restoring' = [restoring EXCEPT !.at = at]

Matches(b, m) ==
    /\ b.manifest # NoFile
    /\ b.db = Holding(m.db) /\ b.roots = Holding(m.roots)

\* Into an empty directory, and from files that agree with the manifest.
BeginRestore ==
    /\ restoring = NotRestoring /\ restored = EmptyTarget
    /\ \E n \in Kept :
        /\ files[n].manifest # NoFile /\ Matches(files[n], files[n].manifest.content)
        /\ files[n].manifest.content.schema = Schema(files[n].manifest.content.db)
        /\ restoring' = [at |-> "stage", number |-> n, manifest |-> files[n].manifest.content]
    /\ UNCHANGED <<live, before, program, making, files, restored, accidents>>

\* Copies beside the place they are for.
Stage ==
    /\ restoring.at = "stage"
    /\ \A file \in {"db", "roots"} : files[restoring.number][file] # NoFile
    /\ restored' = [restored EXCEPT !.staged = TRUE]
    /\ restoring' = [at |-> "verify", number |-> restoring.number, manifest |-> restoring.manifest,
                     db |-> files[restoring.number].db, roots |-> files[restoring.number].roots]
    /\ UNCHANGED <<live, before, program, making, files, accidents>>

\* (Mutant: the copies are taken to be what was checked before.)
StagedAsChecked == TRUE

\* The copies are checked again, by digest and content.
StagedIntact ==
    /\ restoring.db = Holding(restoring.manifest.db)
    /\ restoring.roots = Holding(restoring.manifest.roots)

\* Any error removes what was published and staged.
Clear ==
    /\ restoring' = NotRestoring
    /\ restored' = EmptyTarget

VerifyStaged ==
    /\ restoring.at = "verify"
    /\ IF StagedIntact THEN Restore("publish db") /\ UNCHANGED restored ELSE Clear
    /\ UNCHANGED <<live, before, program, making, files, accidents>>

PublishDatabase ==
    /\ restoring.at = "publish db"
    /\ restored' = [restored EXCEPT !.db = restoring.db]
    /\ Restore("publish roots")
    /\ UNCHANGED <<live, before, program, making, files, accidents>>

PublishRoots ==
    /\ restoring.at = "publish roots"
    /\ restored' = [restored EXCEPT !.roots = restoring.roots, !.staged = FALSE]
    /\ Restore("done")
    /\ UNCHANGED <<live, before, program, making, files, accidents>>

FailRestore ==
    /\ restoring.at \in {"stage", "verify", "publish db", "publish roots"}
    /\ Clear
    /\ UNCHANGED <<live, before, program, making, files, accidents>>

\* The command dies with its guard: what it wrote stays, and the next one refuses the directory.
KillRestore ==
    /\ restoring.at \notin {"none", "done"} /\ accidents < Accidents
    /\ restoring' = [at |-> "killed"]
    /\ accidents' = accidents + 1
    /\ UNCHANGED <<live, before, program, making, files, restored>>

\* The operator takes another, empty directory.
NewTarget ==
    /\ restoring.at \in {"done", "killed"}
    /\ Clear
    /\ UNCHANGED <<live, before, program, making, files, accidents>>

BackupNext ==
    \/ StartProgram \/ ToMigrations \/ Migrate \/ Serve \/ ChangeData \/ EditRoots \/ StopProgram
    \/ BeginBackup \/ CopyDatabase \/ CopyRoots \/ WriteManifest \/ FailBackup \/ Rot
    \/ BeginRestore \/ Stage \/ VerifyStaged \/ PublishDatabase \/ PublishRoots \/ FailRestore
    \/ KillRestore \/ NewTarget

BackupSpec == BackupInit /\ [][BackupNext]_backupVars

-----------------------------------------------------------------------------
(* Properties. *)

\* Wherever a backup or a restore is cut short, and whatever rots in between: what a restore puts
\* into place is the database and the roots of one backup as they were written down, never one of
\* them damaged nor both of different backups, and a restore that is done put both there.
RestoresWhatWasBackedUp ==
    /\ restored.db # NoFile => restored.db # Rotten
    /\ restored.roots # NoFile => restored.roots # Rotten
    /\ restoring.at = "done" =>
        /\ restored.db = Holding(restoring.manifest.db)
        /\ restored.roots = Holding(restoring.manifest.roots)
        /\ restoring.manifest.schema = restored.db.content.schema

\* A schema that a start of the program has moved on from can be had back, unless its backup rots:
\* wherever backups and starts are cut short, no migration comes before one of what it changes.
MigratesWhatIsKept ==
    (before.schema > 0 /\ live.db.schema > before.schema) =>
        \E n \in Kept : files[n].manifest # NoFile /\ files[n].manifest.content.db = before

\* What is to be had back can be had back: the backup before a migration is there, and a restore
\* puts back what a backup holds.
BackupsHold == RestoresWhatWasBackedUp /\ MigratesWhatIsKept
=============================================================================
