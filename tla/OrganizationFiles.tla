------------------------- MODULE OrganizationFiles -------------------------
(***************************************************************************)
(* The part of the file system one organization plan touches, as           *)
(* platform/capability_fs.rs sees it: a source, a target, an NFO beside    *)
(* the target, and the hidden names the core uses itself (temporary files, *)
(* names a file has while it is removed or taken back, the manifest of a   *)
(* quarantined file).  Directories, permissions and roots are left out.    *)
(*                                                                         *)
(* A path leads to an inode and an inode has data, so a hard link and a    *)
(* rename keep the inode and an edit in place is seen through every link.  *)
(* What the code compares (identity, length, modification time, SHA-256)   *)
(* is the inode with its data: an edit in place changes the data and with  *)
(* it the time.  All files have the same length, the case in which the     *)
(* code's comparison of lengths decides nothing.                           *)
(*                                                                         *)
(* Every system call that changes a name is one step, so users and other   *)
(* processes act between any two of them.                                  *)
(***************************************************************************)
EXTENDS Integers, FiniteSets

CONSTANTS
    Runners,        \* stage runs of the organization handlers that may overlap
    Callers         \* rollback requests that may overlap

VARIABLES
    plan,           \* the plan, which is immutable: its operation, where source and
                    \* target lie, and whether it has an NFO to ensure
    disk,           \* the inode a path leads to, or Absent
    content,        \* the data of each inode
    comp            \* the compensation each run or request is in, if any

Operation == plan.operation
Placement == plan.placement

Visible == {"source", "target", "nfo"}

\* "temp": .mediaflow-<id>.tmp beside the target, "rollback": .mediaflow-<id>.rollback,
\* "removal": .mediaflow-<id>.source-removal beside the source.
Paths == Visible \cup {"temp", "rollback", "removal", "manifest", "nfo-temp", "nfo-rollback"}

Data == {"media", "nfo", "manifest", "other"}

Absent == <<"absent", 0>>
Original == <<"original", 0>>
Manifest == <<"manifest", 0>>

\* A number is free again when the last link to its file is gone.
Slots == 1 .. 3
Inodes == {Original, Manifest} \cup ({"user", "copy", "nfo"} \X Slots)

NoFacts == [inode |-> Absent, data |-> "none"]

\* ObservedFile and AppliedFile: the identity of a file and what it holds.
AllFacts == [inode : Inodes, data : Data] \cup {NoFacts}

Facts(p) == IF disk[p] = Absent THEN NoFacts
                                ELSE [inode |-> disk[p], data |-> content[disk[p]]]

\* The snapshot of the source the plan was made for.
Planned == [inode |-> Original, data |-> "media"]

Linked(i) == \E p \in Paths : disk[p] = i

CanCreate(kind) == \E n \in Slots : ~Linked(<<kind, n>>)
Fresh(kind) == <<kind, CHOOSE n \in Slots : ~Linked(<<kind, n>>)>>

Renamed(p, q) == [disk EXCEPT ![q] = disk[p], ![p] = Absent]

Unlinked(p) == [disk EXCEPT ![p] = Absent]

FilesInit ==
    /\ disk = [p \in Paths |-> IF p = "source" THEN Original ELSE Absent]
    /\ content = [i \in Inodes |-> CASE i = Original -> "media"
                                     [] i = Manifest -> "manifest"
                                     [] i[1] = "copy" -> "media"
                                     [] i[1] = "nfo" -> "nfo"
                                     [] OTHER -> "other"]

-----------------------------------------------------------------------------
(***************************************************************************)
(* compensate_created: take a file back under a hidden name, look at it    *)
(* again there, then remove it or rename it to where it came from.         *)
(***************************************************************************)

Actors == Runners \cup Callers

CompSteps == {"none", "look", "rename", "verify", "settle"}
CompOutcomes == {"absent", "manual", "failed", "removed", "restored"}

Compensations == [at : CompSteps \cup CompOutcomes, path : {"target", "nfo"},
                  facts : AllFacts, restores : BOOLEAN]

NoComp == [at |-> "none", path |-> "target", facts |-> NoFacts, restores |-> FALSE]

\* Copy, hard link and NFO are removed; move and quarantine are put back.
Begun(path, facts, restores) ==
    [at |-> "look", path |-> path, facts |-> facts, restores |-> restores]

Hidden(path) == IF path = "target" THEN "rollback" ELSE "nfo-rollback"

CompTo(a, at) == comp' = [comp EXCEPT ![a].at = at]

\* restore_quarantine: back to its visible name unless that is taken; errors are ignored.
GivenBack(path) ==
    IF disk[Hidden(path)] # Absent /\ disk[path] = Absent
    THEN Renamed(Hidden(path), path)
    ELSE disk

CompLook(a) ==
    /\ comp[a].at = "look"
    /\ CompTo(a, CASE disk[comp[a].path] = Absent -> "absent"
                   [] disk[comp[a].path] # Absent /\ Facts(comp[a].path) # comp[a].facts -> "manual"
                   [] OTHER -> "rename")
    /\ UNCHANGED <<disk, content>>

CompRename(a) ==
    LET path == comp[a].path IN
    /\ comp[a].at = "rename"
    /\ \/ /\ disk[path] = Absent \/ disk[Hidden(path)] # Absent
          /\ CompTo(a, "manual")
          /\ UNCHANGED disk
       \/ /\ disk[path] # Absent /\ disk[Hidden(path)] = Absent
          /\ disk' = Renamed(path, Hidden(path))
          /\ CompTo(a, "verify")
    /\ UNCHANGED content

\* What was hidden is what was looked at.
Intact(a) == Facts(Hidden(comp[a].path)) = comp[a].facts

CompVerify(a) ==
    LET path == comp[a].path IN
    /\ comp[a].at = "verify"
    /\ \/ /\ Intact(a)
          /\ CompTo(a, "settle")
          /\ UNCHANGED disk
       \/ /\ ~Intact(a)
          /\ disk' = GivenBack(path)
          /\ CompTo(a, IF disk[Hidden(path)] = Absent THEN "failed" ELSE "manual")
    /\ UNCHANGED content

\* The file with its checked facts is removed.  A file that is gone but not synced is
\* reported as failed.
CompRemove(a, outcome) ==
    LET hidden == Hidden(comp[a].path) IN
    /\ comp[a].at = "settle" /\ ~comp[a].restores
    /\ disk' = Unlinked(hidden)
    /\ CompTo(a, IF disk[hidden] = Absent THEN "failed" ELSE outcome)
    /\ UNCHANGED content

\* restore_move; the manifest of a quarantined file goes with it.
CompRestore(a, outcome) ==
    LET path == comp[a].path
        possible == /\ Placement = "same"
                    /\ disk[Hidden(path)] # Absent
                    /\ disk["source"] = Absent
    IN
    /\ comp[a].at = "settle" /\ comp[a].restores
    /\ \/ /\ possible
          /\ disk' = [Renamed(Hidden(path), "source") EXCEPT
                        !["manifest"] = IF outcome = "restored" THEN Absent ELSE @]
          /\ CompTo(a, outcome)
       \/ /\ ~possible
          /\ disk' = GivenBack(path)
          /\ CompTo(a, "manual")
    /\ UNCHANGED content

Compensate(a) ==
    CompLook(a) \/ CompRename(a) \/ CompVerify(a) \/ CompRemove(a, "removed")
    \/ CompRestore(a, "restored")

-----------------------------------------------------------------------------
(***************************************************************************)
(* Users and other programs, at the visible names.                         *)
(***************************************************************************)

UserWrites(p) ==
    /\ CanCreate("user")
    /\ disk' = [disk EXCEPT ![p] = Fresh("user")]
    /\ content' = [content EXCEPT ![Fresh("user")] = "other"]

UserDeletes(p) ==
    /\ disk[p] # Absent
    /\ disk' = Unlinked(p)
    /\ UNCHANGED content

UserEdits(p) ==
    /\ disk[p] # Absent
    /\ content' = [content EXCEPT ![disk[p]] = "other"]
    /\ UNCHANGED disk

UserActs == (\E p \in Visible : UserWrites(p) \/ UserDeletes(p) \/ UserEdits(p))
            /\ UNCHANGED comp
=============================================================================
