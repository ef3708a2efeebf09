------------------------------- MODULE Paging -------------------------------
(* The lists the HTTP API hands out a page at a time. The first page answers  *)
(* a cursor, and a page is everything in order behind the cursor it was given.*)
(* The task and catalogue tables write every change of a row to a history as  *)
(* it is made (the triggers of migrations 0006, 0012, 0016 and 0017), and the *)
(* cursor of a walk over them names the newest entry that its first page saw; *)
(* the other lists are read as they stand.                                    *)
EXTENDS Integers, Sequences, FiniteSets

CONSTANTS
    Items,      \* the rows of the listed table
    Early,      \* those that are there at the start
    MaxHistory, \* bound: the changes of the table, those of the start included
    Times,      \* bound: what the clock may say; it is taken not to be set back
    PageLimit   \* the limit of every request of a walk

\* Rows and times are told apart by their order, and a page has at least one row.
ASSUME PagingAssumption ==
    /\ Items \subseteq Nat /\ IsFiniteSet(Items) /\ Early \subseteq Items
    /\ Times \subseteq Nat /\ Times # {}
    /\ PageLimit \in Nat \ {0}

VARIABLES
    history,    \* the entries the triggers wrote, oldest first: their place is their revision
    walk        \* the one walk: its list and filter, its cursor (the last row shown, and
                \* the revision of the snapshot: of a live list it marks the beginning
                \* only), the rows of a page it is about to read (ids, with the last of
                \* them), and what it has shown on how many pages

pageVars == <<history, walk>>

Frozen == {"task-center", "catalog"}
Ordered == {"scan-tasks", "processing-tasks", "reviews"}
Growing == {"scan-files", "scan-errors"}
Live == {"targets", "connections", "sources", "downloads", "events", "inboxes"}
Lists == Frozen \union Ordered \union Growing \union Live

\* What a filter lets through: everything, or the rows that are still open.
Filters(list) ==
    IF list \in {"reviews", "task-center", "catalog", "downloads", "events"}
    THEN {"all", "open"} ELSE {"all"}

Fits(filter, status) == filter = "all" \/ status = "open"

(* --------------------------- What the tables hold ------------------------- *)

Entries(i, revision) == {n \in 1..revision : history[n].item = i}
Present(revision) == {i \in Items : Entries(i, revision) # {}}
Latest(i, revision) == history[CHOOSE n \in Entries(i, revision) :
                                    \A m \in Entries(i, revision) : m <= n]
FirstSeen(i) == CHOOSE n \in Entries(i, Len(history)) :
                    \A m \in Entries(i, Len(history)) : n <= m
RowAsIs(i) == Latest(i, Len(history))

\* The order of a list: by the time of the change and then by id, both of them
\* downwards, but for the files of a scan (by path), its errors and the inboxes
\* (by the time they were first seen), which go upwards.
Upwards(list) == list \in Growing \union {"inboxes"}

Comes(list, k, l) ==
    LET less(a, b) == a[1] < b[1] \/ (a[1] = b[1] /\ a[2] < b[2])
    IN  IF Upwards(list) THEN less(k, l) ELSE less(l, k)

RowShown(i, at, status) == [item |-> i, key |-> <<at, i>>, status |-> status]

(* -------------------------- What a query would return --------------------- *)

\* The task center and the catalogue take order, filter and content from the
\* history as it stood.
SnapshotRows(filter, revision) ==
    {RowShown(i, Latest(i, revision).at, Latest(i, revision).status) :
        i \in {j \in Present(revision) : Fits(filter, Latest(j, revision).status)}}
TaskCenterRows(filter, revision) == SnapshotRows(filter, revision)
CatalogRows(filter, revision) == SnapshotRows(filter, revision)

\* The older lists of tasks take the order from the history and the content from the row.
OrderedRows(revision) ==
    {RowShown(i, Latest(i, revision).at, RowAsIs(i).status) : i \in Present(revision)}
ScanTaskRows(revision) == OrderedRows(revision)
ProcessingTaskRows(revision) == OrderedRows(revision)

\* A review case is listed when it was active then (the levels and the inbox that
\* a filter may name are those of the case as it stands).
ReviewRows(filter, revision) ==
    {r \in OrderedRows(revision) : Latest(r.item, revision).status = "open"}

\* The files and the errors of a scan are numbered as they are first seen.
ScanFileRows(revision) ==
    {RowShown(i, 0, RowAsIs(i).status) : i \in {j \in Present(Len(history)) : FirstSeen(j) <= revision}}
ScanErrorRows(revision) ==
    {RowShown(i, history[FirstSeen(i)].at, RowAsIs(i).status) :
        i \in {j \in Present(Len(history)) : FirstSeen(j) <= revision}}

\* The rest are read as they are.
LiveRows(filter) ==
    {RowShown(i, RowAsIs(i).at, RowAsIs(i).status) :
        i \in {j \in Present(Len(history)) : Fits(filter, RowAsIs(j).status)}}
ConnectionRows == LiveRows("all")
SourceRows == LiveRows("all")
DownloadRows(filter) == LiveRows(filter)
EventRows(filter) == LiveRows(filter)
TargetRows == LiveRows("all")
InboxRows == {RowShown(i, history[FirstSeen(i)].at, RowAsIs(i).status) : i \in Present(Len(history))}

Listed(list, filter, revision) ==
    CASE list = "task-center"      -> TaskCenterRows(filter, revision)
      [] list = "catalog"          -> CatalogRows(filter, revision)
      [] list = "scan-tasks"       -> ScanTaskRows(revision)
      [] list = "processing-tasks" -> ProcessingTaskRows(revision)
      [] list = "reviews"          -> ReviewRows(filter, revision)
      [] list = "scan-files"       -> ScanFileRows(revision)
      [] list = "scan-errors"      -> ScanErrorRows(revision)
      [] list = "connections"      -> ConnectionRows
      [] list = "sources"          -> SourceRows
      [] list = "downloads"        -> DownloadRows(filter)
      [] list = "events"           -> EventRows(filter)
      [] list = "targets"          -> TargetRows
      [] list = "inboxes"          -> InboxRows

(* ------------------------------- The walk --------------------------------- *)

NoWalk == [at |-> "idle", list |-> "inboxes", filter |-> "all", cursor |-> <<>>,
           revision |-> 0, counted |-> 0, ids |-> {}, last |-> 0, shown |-> {}, pages |-> 0]

PageInit ==
    /\ history \in [1..Cardinality(Early) ->
                       [item : Early, at : {CHOOSE t \in Times : TRUE}, status : {"open"}]]
    /\ \A m, n \in DOMAIN history : m < n => history[m].item < history[n].item
    /\ \E l \in Lists : \E f \in Filters(l) : walk = [NoWalk EXCEPT !.list = l, !.filter = f]

\* A row is written: it is new, or it changes, and the trigger adds its entry.
WriteRow(i) ==
    /\ Len(history) < MaxHistory
    /\ \E t \in {u \in Times : \A n \in DOMAIN history : history[n].at <= u},
          s \in {"open", "closed"} :
        history' = Append(history, [item |-> i, at |-> t, status |-> s])
    /\ UNCHANGED walk

\* The first request of a walk: it reads the newest revision before it reads a row.
BeginWalk ==
    /\ walk.at = "idle"
    /\ walk' = [walk EXCEPT !.at = IF walk.list = "task-center" THEN "counting" ELSE "reading",
                            !.revision = Len(history)]
    /\ UNCHANGED history

\* Every page of the task center brings the number of the tasks of its snapshot, in whatever group:
\* the group of the filter is left out of the count (the other conditions hold for page and count
\* alike).
CountTasks ==
    /\ walk.at = "counting"
    /\ walk' = [walk EXCEPT !.at = "reading",
                            !.counted = Cardinality(TaskCenterRows("all", walk.revision))]
    /\ UNCHANGED history

StillToCome(w, key) == w.cursor = <<>> \/ Comes(w.list, w.cursor, key)

\* The rows behind the cursor.  (Mutant: they are those of the newest history, not of
\* the one the cursor names.)
FollowingNow(w) == {r \in Listed(w.list, w.filter, Len(history)) : StillToCome(w, r.key)}
Following(w) == {r \in Listed(w.list, w.filter, w.revision) : StillToCome(w, r.key)}

\* The first of them in order are the page; one more is asked for to know whether
\* there is another.
Before(list, r, rows) == {s \in rows : Comes(list, s.key, r.key)}
PageRows(w) == {r \in Following(w) : Cardinality(Before(w.list, r, Following(w))) < PageLimit}
MoreRows(w) == PageRows(w) # Following(w)
LastOf(list, rows) == CHOOSE r \in rows : \A s \in rows : s = r \/ Comes(list, s.key, r.key)

\* The walk after a page: its cursor is at the last row.
PageTurned(w, rows, cursor, more) ==
    [w EXCEPT !.at = IF ~more THEN "done" ELSE IF w.list = "task-center" THEN "counting" ELSE "reading",
              !.shown = @ \union {[item |-> r.item, status |-> r.status, page |-> w.pages] : r \in rows},
              !.pages = @ + 1, !.ids = {}, !.last = 0,
              !.cursor = IF rows = {} THEN @ ELSE cursor]

ReadPage ==
    LET rows == PageRows(walk) IN
    /\ walk.at = "reading" /\ walk.list # "targets"
    /\ walk' = PageTurned(walk, rows, LastOf(walk.list, rows).key, MoreRows(walk))
    /\ UNCHANGED history

\* The page of the targets is read as ids, and each target is then read again:
\* what is shown, the cursor with it, is the target as it stands by then.
ReadTargetIds ==
    LET rows == PageRows(walk) IN
    /\ walk.at = "reading" /\ walk.list = "targets"
    /\ walk' = [walk EXCEPT !.at = IF MoreRows(walk) THEN "getting" ELSE "getting-last",
                            !.ids = {r.item : r \in rows},
                            !.last = IF rows = {} THEN 0 ELSE LastOf(walk.list, rows).item]
    /\ UNCHANGED history

TargetRow(i) == RowShown(i, RowAsIs(i).at, RowAsIs(i).status)

GetTargets ==
    /\ walk.at \in {"getting", "getting-last"}
    /\ walk' = PageTurned(walk, {TargetRow(i) : i \in walk.ids}, TargetRow(walk.last).key,
                          walk.at = "getting")
    /\ UNCHANGED history

PageNext ==
    \/ \E i \in Items : WriteRow(i)
    \/ BeginWalk \/ CountTasks \/ ReadPage \/ ReadTargetIds \/ GetTargets

PageSpec == PageInit /\ [][PageNext]_pageVars

(* ------------------------------ Properties -------------------------------- *)

Showings(i) == {s \in walk.shown : s.item = i}

\* What belonged to the list when the walk began.
Snapshot == {i \in Present(walk.revision) :
                \/ walk.filter = "all" /\ walk.list # "reviews"
                \/ Latest(i, walk.revision).status = "open"}

UntouchedRows ==
    {i \in Snapshot : /\ Latest(i, walk.revision) = RowAsIs(i)
                      /\ Entries(i, walk.revision) = Entries(i, Len(history))}

ShownOnce(i) == \E s \in walk.shown : Showings(i) = {s}

\* A walk that reached its end over a list with a snapshot has shown what
\* belonged to the list when it began, all of it and each row once, whatever was
\* written since; the task center and the catalogue have shown it as it was
\* then, and the count beside the page is of the same moment, over all groups. Over the other
\* lists it has shown every row that nobody touched during the walk, and but for
\* the targets, whose pages may overlap, no such row twice.
WalkIsWhole ==
    walk.at = "done" =>
        IF walk.list \in Live
        THEN \A i \in UntouchedRows : IF walk.list = "targets" THEN Showings(i) # {} ELSE ShownOnce(i)
        ELSE /\ {s.item : s \in walk.shown} = Snapshot
             /\ \A i \in Snapshot : ShownOnce(i)
             /\ walk.list \in Frozen =>
                    \A s \in walk.shown : s.status = Latest(s.item, walk.revision).status
             /\ walk.list = "task-center" => walk.counted = Cardinality(Present(walk.revision))
=============================================================================
