----------------------------- MODULE EventStream ----------------------------
(* The outbox and its readers: events are appended in the transactions of the *)
(* domain, kept as a prefix-pruned log, and streamed to clients that resume   *)
(* with the id of the last event they saw.                                    *)
EXTENDS Naturals, FiniteSets, SequencesExt

CONSTANTS
    MaxId,       \* events that the runs commit
    Successors,  \* events that stay behind any deleted one, 100,000 in the code
    PageSize,    \* events of one read, 100 in the code
    Breaks       \* how often a client is cut off

ASSUME StreamAssumption ==
    /\ MaxId \in Nat /\ Breaks \in Nat
    /\ Successors \in Nat \ {0} /\ PageSize \in Nat \ {0}

VARIABLES
    log,      \* the ids in the outbox
    latest,   \* the last id that was given: AUTOINCREMENT never gives it again
    reader,   \* the server's side of the client's stream
    client,   \* its Last-Event-ID, the ids and gaps it saw, and what its first read began after
    session   \* whether the client's session or device token is valid

streamVars == <<log, latest, reader, client, session>>

None == 0   \* no Last-Event-ID

NoReader == [at |-> "none"]

\* A new stream fetches at once.
Opened(cursor) ==
    [at |-> "open", cursor |-> cursor, pending |-> <<>>, fetch |-> TRUE, closing |-> FALSE]

StreamInit ==
    /\ log = {}
    /\ latest = 0
    /\ reader = NoReader
    /\ client = [last |-> None, seen |-> <<>>, gaps |-> {}, from |-> 0, breaks |-> 0]
    /\ session = "valid"

Least(S) == CHOOSE x \in S : \A y \in S : x <= y
Above(x) == {y \in log : y > x}

\* The first n ids above x.
Page(x, n) == {y \in Above(x) : Cardinality({z \in Above(x) : z < y}) < n}

\* The members of a set of ids, the one with i - 1 below it in the i-th place.
Ascending(S) == [i \in 1 .. Cardinality(S) |-> CHOOSE x \in S : Cardinality({y \in S : y < x}) = i - 1]

-----------------------------------------------------------------------------
(* The outbox. *)

\* An event commits with its transaction; the notifier that wakes the streams only hastens a poll.
Commit ==
    /\ latest < MaxId
    /\ latest' = latest + 1
    /\ log' = log \cup {latest + 1}
    /\ UNCHANGED <<reader, client, session>>

\* Old events go, a prefix of the log at a time, as long as enough newer ones stay.
Deletable(old) ==
    {x \in log : /\ Cardinality(Above(x)) >= Successors
                 /\ \A y \in log : y <= x => y \in old}

Cleanup ==
    /\ \E old \in SUBSET log : Deletable(old) # {} /\ log' = log \ Deletable(old)
    /\ UNCHANGED <<latest, reader, client, session>>

-----------------------------------------------------------------------------
(* A stream. Its loop is asked for the next frame: it checks the session when *)
(* that is due, sends what it holds, else reads a page, else waits.           *)

Connect ==
    /\ reader = NoReader
    /\ session = "valid"
    /\ reader' = Opened(client.last)
    /\ UNCHANGED <<log, latest, client, session>>

\* The client or the server goes; what was pending is lost with the stream.
Break ==
    /\ reader.at = "open" /\ client.breaks < Breaks
    /\ reader' = NoReader
    /\ client' = [client EXCEPT !.breaks = @ + 1]
    /\ UNCHANGED <<log, latest, session>>

Revoke ==
    /\ session = "valid"
    /\ session' = "revoked"
    /\ UNCHANGED <<log, latest, reader, client>>

\* A pass of the loop that is due to look at the session again ends the stream of a revoked one.
Revalidate ==
    /\ reader.at = "open" /\ session = "revoked"
    /\ reader' = NoReader
    /\ UNCHANGED <<log, latest, client, session>>

\* A frame passes to the client. After a gap the stream closes: the client resumes at its boundary.
Send ==
    /\ reader.at = "open" /\ reader.pending # <<>>
    /\ LET frame == Head(reader.pending) IN
        /\ client' = [client EXCEPT !.last = frame.id,
                            !.seen = IF frame.gap THEN @ ELSE Append(@, frame.id),
                            !.gaps = IF frame.gap THEN @ \cup {frame.id} ELSE @]
        /\ reader' = [reader EXCEPT !.cursor = frame.id, !.pending = Tail(@)]
    /\ UNCHANGED <<log, latest, session>>

Close ==
    /\ reader.at = "open" /\ reader.pending = <<>> /\ reader.closing
    /\ reader' = NoReader
    /\ UNCHANGED <<log, latest, client, session>>

\* (Mutant: a log whose first event is the one after next is taken to be complete.)
BehindByOne(cursor) == cursor # None /\ cursor < Least(log) - 2

\* The cursor lies before what is left.
Behind(cursor) == cursor # None /\ cursor + 1 < Least(log)

\* (Mutant: the gap ends one event short of what is left.)
BoundaryShort == Least(log) - 2

\* Where a client behind the log resumes.
Boundary == Least(log) - 1

\* One read transaction. A full page is followed by another read at once.
Fetch ==
    /\ reader.at = "open" /\ reader.pending = <<>> /\ ~reader.closing
    /\ reader.fetch
    /\ LET fresh == reader.cursor = None /\ log # {}
           page == Page(IF fresh THEN Least(log) - 1 ELSE reader.cursor, PageSize)
       IN  /\ client' = [client EXCEPT !.from = IF fresh THEN Least(log) - 1 ELSE @]
           /\ reader' =
                IF log # {} /\ Behind(reader.cursor)
                THEN [reader EXCEPT !.fetch = FALSE, !.closing = TRUE,
                                    !.pending = <<[gap |-> TRUE, id |-> Boundary]>>]
                ELSE [reader EXCEPT !.fetch = Cardinality(page) = PageSize,
                                    !.pending = [i \in DOMAIN Ascending(page) |->
                                                    [gap |-> FALSE, id |-> Ascending(page)[i]]]]
    /\ UNCHANGED <<log, latest, session>>

\* It waits: for the notifier, or for the next poll.
Wake ==
    /\ reader.at = "open" /\ reader.pending = <<>> /\ ~reader.closing
    /\ ~reader.fetch
    /\ reader' = [reader EXCEPT !.fetch = TRUE]
    /\ UNCHANGED <<log, latest, client, session>>

StreamNext ==
    \/ Commit \/ Cleanup \/ Connect \/ Break \/ Revoke \/ Revalidate \/ Send
    \/ Close \/ Fetch \/ Wake

StreamSpec == StreamInit /\ [][StreamNext]_streamVars

-----------------------------------------------------------------------------
(* Properties. *)

\* Whatever is committed, pruned, cut off or resumed while it reads, a client gets every event
\* after the one it started from, once and in order, or is told of a gap that covers it.
SeesAllOrGap ==
    /\ \A i, j \in DOMAIN client.seen : i < j => client.seen[i] < client.seen[j]
    /\ \A x \in (client.from + 1) .. client.last :
            x \in Range(client.seen) \/ \E gap \in client.gaps : x <= gap

\* A client whose session stays valid catches up with the log.
CatchesUp == (session = "valid" /\ latest = MaxId) ~> (session = "revoked" \/ client.last = MaxId)
=============================================================================
