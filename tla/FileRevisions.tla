--------------------------- MODULE FileRevisions ---------------------------
(***************************************************************************)
(* discovery/revisions.rs: what the service remembers of the files of one  *)
(* inbox.  A tracked file has one current revision, named by the facts the *)
(* file was seen with (identity, size and modification time); a revision   *)
(* becomes stable, and is handed to processing once, when it was seen      *)
(* unchanged over an interval and its modification lies far enough back.   *)
(*                                                                         *)
(* Times are reduced to the two questions the code asks of them: has the   *)
(* observation interval passed since the revision was last counted, and is *)
(* the modification time of the facts older than the minimum age.  The     *)
(* column next_check_at_us is left out: no code reads it.                  *)
(***************************************************************************)
EXTENDS Naturals, FiniteSets, Sequences

CONSTANTS
    Paths,          \* where files may be in the inbox
    Auxiliary,      \* the paths classify_auxiliary takes for samples, trailers and extras
    Facts,          \* what a file may be seen with
    NoFacts

ASSUME FilesAssumption == Auxiliary \subseteq Paths /\ NoFacts \notin Facts

VARIABLES
    disk,           \* the facts of the file at each path now
    old,            \* facts whose modification time is older than the minimum age
    tracked,        \* discovery_tracked_files with their revisions
    requests,       \* discovery_processing_requests, as pairs of path and facts
    sighting        \* history: what the last observations of a path agreed on, and for how long

files == <<disk, old, tracked, requests, sighting>>

RevisionStatuses ==
    {"none", "observing", "stable", "missing", "superseded", "skipped-auxiliary"}

\* matching_observations counts to 2, the only number the code compares it with; rested says of
\* a revision under observation that the interval has passed since last_counted_observed_at_us.
Revisions == [status : RevisionStatuses, matching : 0..2, rested : BOOLEAN]

NoRevision == [status |-> "none", matching |-> 0, rested |-> FALSE]

TrackedFiles == [current : Facts \cup {NoFacts}, missing : BOOLEAN, revision : [Facts -> Revisions]]

Untracked == [current |-> NoFacts, missing |-> FALSE, revision |-> [f \in Facts |-> NoRevision]]

Sightings == [facts : Facts \cup {NoFacts}, lasting : BOOLEAN]

Unseen == [facts |-> NoFacts, lasting |-> FALSE]

FilesInit ==
    /\ disk \in [Paths -> Facts \cup {NoFacts}]
    /\ old = {}
    /\ tracked = [p \in Paths |-> Untracked]
    /\ requests = {}
    /\ sighting = [p \in Paths |-> Unseen]

FilesTypeOK ==
    /\ disk \in [Paths -> Facts \cup {NoFacts}]
    /\ old \subseteq Facts
    /\ tracked \in [Paths -> TrackedFiles]
    /\ requests \subseteq Paths \X Facts
    /\ sighting \in [Paths -> Sightings]

-----------------------------------------------------------------------------
(***************************************************************************)
(* One observation of a file: observe_in_connection.                       *)
(***************************************************************************)

FirstStatus(p) == IF p \in Auxiliary THEN "skipped-auxiliary" ELSE "observing"

\* A revision that is new, or comes back after others: the count starts again.
CreatedOrReactivated(p) == [status |-> FirstStatus(p), matching |-> 1, rested |-> FALSE]

\* (Mutant: the observations of one moment count twice.)
AdvancedAtOnce(p, f, r) ==
    [r EXCEPT !.matching = 2,
              !.status = IF @ = "observing" /\ f \in old THEN "stable"
                         ELSE IF @ = "missing" THEN FirstStatus(p) ELSE @]

\* (Mutant: a revision turns stable only in the observation that completes its count.)
AdvancedOnce(p, f, r) ==
    LET counts == r.status = "observing" /\ r.rested /\ r.matching < 2 IN
    [status |-> CASE r.status = "missing" -> FirstStatus(p)
                  [] counts /\ f \in old -> "stable"
                  [] OTHER -> r.status,
     matching |-> IF r.status = "missing" THEN 1 ELSE IF counts THEN 2 ELSE r.matching,
     rested |-> FALSE]

\* The current revision is seen again.
Advanced(p, f, r) ==
    LET back == r.status = "missing"
        counts == r.status = "observing" /\ r.rested
        status == IF back THEN FirstStatus(p) ELSE r.status
        matching == IF back THEN 1 ELSE IF counts THEN 2 ELSE r.matching
    IN [status |-> IF status = "observing" /\ matching = 2 /\ f \in old THEN "stable" ELSE status,
        matching |-> matching,
        rested |-> r.rested /\ ~counts /\ ~back]

\* (Mutant: the row of the earlier revision is not updated.)
SupersededNever(r) == r

Superseded(r) ==
    IF r.status = "missing" THEN r ELSE [r EXCEPT !.status = "superseded", !.rested = FALSE]

Observed(p, f) ==
    LET t == tracked[p] IN
    [current |-> f,
     missing |-> FALSE,
     revision |->
        IF t.current = f
        THEN [t.revision EXCEPT ![f] = Advanced(p, f, @)]
        ELSE [g \in Facts |->
                CASE g = f -> CreatedOrReactivated(p)
                  [] g = t.current -> Superseded(t.revision[g])
                  [] OTHER -> t.revision[g]]]

\* ensure_processing_request: a revision is asked for at most once, ever.
RequestsOf(p, t) ==
    IF t.current # NoFacts /\ t.revision[t.current].status = "stable"
    THEN {<<p, t.current>>} ELSE {}

Sighted(p, f) ==
    IF sighting[p].facts = f THEN sighting[p] ELSE [facts |-> f, lasting |-> FALSE]

\* The files of one batch, where seen[p] is what p was seen with, or NoFacts.
ObserveAll(seen) ==
    LET found == {p \in Paths : seen[p] # NoFacts} IN
    /\ tracked' = [p \in Paths |-> IF p \in found THEN Observed(p, seen[p]) ELSE tracked[p]]
    /\ requests' = requests \cup
            UNION {IF tracked[p].current = seen[p] THEN RequestsOf(p, tracked'[p]) ELSE {}
                    : p \in found}
    /\ sighting' = [p \in Paths |-> IF p \in found THEN Sighted(p, seen[p]) ELSE sighting[p]]
    /\ UNCHANGED <<disk, old>>

(***************************************************************************)
(* The end of a complete scan: every tracked file the batch has no         *)
(* observation of is missing.                                              *)
(***************************************************************************)

Missed(t) ==
    IF t.current = NoFacts THEN t
    ELSE [t EXCEPT !.missing = TRUE,
                   !.revision[t.current] = [@ EXCEPT !.status = "missing", !.rested = FALSE]]

MarkUnseenMissing(unseen) ==
    /\ tracked' = [p \in Paths |-> IF p \in unseen THEN Missed(tracked[p]) ELSE tracked[p]]
    /\ sighting' = [p \in Paths |-> IF p \in unseen THEN Unseen ELSE sighting[p]]
    /\ UNCHANGED <<disk, old, requests>>

(***************************************************************************)
(* Time.                                                                   *)
(***************************************************************************)

\* stable_observation_interval_seconds pass.
IntervalPasses(p) ==
    /\ tracked' = [tracked EXCEPT ![p].revision =
            [f \in Facts |-> [@[f] EXCEPT !.rested = tracked[p].revision[f].status = "observing"]]]
    /\ sighting' = [sighting EXCEPT ![p].lasting = sighting[p].facts # NoFacts]
    /\ UNCHANGED <<disk, old, requests>>

\* minimum_age_seconds have passed since the modification time of f.
Ages(f) ==
    /\ old' = old \cup {f}
    /\ UNCHANGED <<disk, tracked, requests, sighting>>

(***************************************************************************)
(* Properties.                                                             *)
(***************************************************************************)

\* Of the revisions of a path at most one is alive, and it is the one the tracked file points
\* to; a file that is missing has none.
OneLiveRevision ==
    \A p \in Paths : \A f \in Facts :
        tracked[p].revision[f].status \in {"observing", "stable", "skipped-auxiliary"} <=>
            tracked[p].current = f /\ ~tracked[p].missing

\* Processing is asked for a file only when every observation over more than the interval saw
\* it with the same facts and no complete scan missed it in between, and never for an
\* auxiliary file.  (A file that is still being copied is not touched.)
RequestsAreEarned ==
    [][\A r \in requests' \ requests :
        /\ sighting[r[1]] = [facts |-> r[2], lasting |-> TRUE]
        /\ r[2] \in old
        /\ r[1] \notin Auxiliary]_files
=============================================================================
