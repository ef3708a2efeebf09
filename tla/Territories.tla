---------------------------- MODULE Territories -----------------------------
(* Where media comes from and where it goes to: inboxes and organization      *)
(* targets are directories of a deployment root, made and changed by requests *)
(* that look before they write.                                               *)
EXTENDS Naturals, SequencesExt

CONSTANTS
    Directories,   \* directories below a root, as sequences of names
    Administrators,
    MaxEdits       \* requests in all

ASSUME TerritoryAssumption == MaxEdits \in Nat

VARIABLES
    inboxes,     \* the inboxes' directories
    targets,     \* by identity, the request that made it: its directory, version and automatic flag
    engaged,     \* the targets that a plan without a finished result refers to
    edits,       \* by administrator: the request under way
    edited       \* requests so far

territoryVars == <<inboxes, targets, engaged, edits, edited>>

TargetIds == 1 .. MaxEdits
NoTarget == [version |-> 0]
NoEdit == [at |-> "none"]

TerritoryInit ==
    /\ inboxes = {}
    /\ targets = [t \in TargetIds |-> NoTarget]
    /\ engaged = {}
    /\ edits = [a \in Administrators |-> NoEdit]
    /\ edited = 0

\* One directory is the other or lies somewhere below it.
Overlaps(p, q) == IsPrefix(p, q) \/ IsPrefix(q, p)

Made == {t \in TargetIds : targets[t] # NoTarget}

OverlapsInbox(p) == \E q \in inboxes : Overlaps(p, q)
OverlapsTarget(p, besides) == \E t \in Made \ besides : Overlaps(p, targets[t].path)

-----------------------------------------------------------------------------
(* Requests. *)

Edit(a, e) == edits' = [edits EXCEPT ![a] = e]

\* An inbox goes straight to its transaction.
AskInbox(a, p) ==
    /\ edits[a] = NoEdit /\ edited < MaxEdits
    /\ edited' = edited + 1
    /\ Edit(a, [at |-> "inbox", path |-> p])
    /\ UNCHANGED <<inboxes, targets, engaged>>

\* A new target gets an identity; a change names the version that it was read at.
AskTarget(a, t, p, auto) ==
    /\ edits[a] = NoEdit /\ edited < MaxEdits
    /\ t \in Made \cup {edited + 1}
    /\ edited' = edited + 1
    /\ Edit(a, [at |-> "inboxes", id |-> t, path |-> p, automatic |-> auto, saw |-> targets[t].version])
    /\ UNCHANGED <<inboxes, targets, engaged>>

\* The checks before the transaction: the inboxes, then the other targets.
CheckInboxes(a) ==
    /\ edits[a].at = "inboxes"
    /\ Edit(a, IF OverlapsInbox(edits[a].path) THEN NoEdit ELSE [edits[a] EXCEPT !.at = "targets"])
    /\ UNCHANGED <<inboxes, targets, engaged, edited>>

CheckTargets(a) ==
    /\ edits[a].at = "targets"
    /\ Edit(a, IF OverlapsTarget(edits[a].path, {edits[a].id}) THEN NoEdit
               ELSE [edits[a] EXCEPT !.at = "write"])
    /\ UNCHANGED <<inboxes, targets, engaged, edited>>

-----------------------------------------------------------------------------
(* The immediate transactions, that check again. *)

\* (Mutant: the directories are taken to be free, as the checks before found them.)
FreeAsChecked(p, besides) == TRUE

Free(p, besides) == ~OverlapsInbox(p) /\ ~OverlapsTarget(p, besides)

CreateInbox(a) ==
    /\ edits[a].at = "inbox"
    /\ inboxes' = IF Free(edits[a].path, {}) THEN inboxes \cup {edits[a].path} ELSE inboxes
    /\ Edit(a, NoEdit)
    /\ UNCHANGED <<targets, engaged, edited>>

InsertTarget(a) ==
    /\ edits[a].at = "write" /\ edits[a].saw = 0
    /\ LET e == edits[a] IN
        targets' = IF Free(e.path, {})
                   THEN [targets EXCEPT ![e.id] = [version |-> 1, path |-> e.path,
                                                   automatic |-> e.automatic]]
                   ELSE targets
    /\ Edit(a, NoEdit)
    /\ UNCHANGED <<inboxes, engaged, edited>>

\* A request that changes nothing at the version it names is answered without a transaction.
Unchanged(e) ==
    /\ targets[e.id] # NoTarget /\ targets[e.id].version = e.saw
    /\ targets[e.id].path = e.path /\ targets[e.id].automatic = e.automatic

\* The target is replaced whole, at the version the request names.
ReplaceTargetWhole(a) ==
    /\ edits[a].at = "write" /\ edits[a].saw > 0
    /\ LET e == edits[a] IN
        targets' = IF ~Unchanged(e) /\ Free(e.path, {e.id}) /\ targets[e.id].version = e.saw
                   THEN [targets EXCEPT ![e.id] = [version |-> e.saw + 1, path |-> e.path,
                                                   automatic |-> e.automatic]]
                   ELSE targets
    /\ Edit(a, NoEdit)
    /\ UNCHANGED <<inboxes, engaged, edited>>

\* Refused while a plan that is not finished refers to it.
RemoveTarget(a, t) ==
    /\ edits[a] = NoEdit /\ edited < MaxEdits
    /\ t \in Made \ engaged
    /\ edited' = edited + 1
    /\ targets' = [targets EXCEPT ![t] = NoTarget]
    /\ UNCHANGED <<inboxes, engaged, edits>>

\* A plan of some task is drawn for it, or its last one is finished.
Engage(t) ==
    /\ t \in Made \ engaged
    /\ engaged' = engaged \cup {t}
    /\ UNCHANGED <<inboxes, targets, edits, edited>>

Disengage(t) ==
    /\ t \in engaged
    /\ engaged' = engaged \ {t}
    /\ UNCHANGED <<inboxes, targets, edits, edited>>

TerritoryNext ==
    \/ \E a \in Administrators :
        \/ \E p \in Directories : AskInbox(a, p)
        \/ \E t \in TargetIds, p \in Directories, auto \in BOOLEAN : AskTarget(a, t, p, auto)
        \/ CheckInboxes(a) \/ CheckTargets(a)
        \/ CreateInbox(a) \/ InsertTarget(a) \/ ReplaceTargetWhole(a)
        \/ \E t \in TargetIds : RemoveTarget(a, t)
    \/ \E t \in TargetIds : Engage(t) \/ Disengage(t)

TerritorySpec == TerritoryInit /\ [][TerritoryNext]_territoryVars

-----------------------------------------------------------------------------
(* Properties. *)

\* However creations and moves overlap in time, what is put into a target never lands in an inbox
\* where it would be found and processed again, nor in another target; and no inbox contains another.
Disjoint ==
    /\ \A p, q \in inboxes : p # q => ~Overlaps(p, q)
    /\ \A t \in Made : /\ ~OverlapsInbox(targets[t].path)
                       /\ ~OverlapsTarget(targets[t].path, {t})
=============================================================================
