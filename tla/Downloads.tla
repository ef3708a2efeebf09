------------------------------ MODULE Downloads -----------------------------
(* Download tasks: the rows of the store, the one worker that keeps them in   *)
(* step with the downloaders, and the connections it reaches them through.    *)
EXTENDS Naturals, FiniteSets

CONSTANTS
    Downloads,      \* rows of download_tasks, in the order in which they are accepted
    Connections,    \* rows of downloader_connections
    Transmission,   \* the connections of kind "transmission"; the others are qBittorrent's
    Happens         \* bounds on what happens to the service: how many faults, how many acts of
                    \* administrators on connections and sources, of users, of feeds; and of all

ASSUME DownloadsAssumption ==
    /\ Downloads \subseteq Nat \ {0}
    /\ Transmission \subseteq Connections
    /\ \A kind \in DOMAIN Happens : Happens[kind] \in Nat

VARIABLES
    download,  \* the rows
    signal,    \* the rows of download_completion_signals
    conn,      \* the connections
    server,    \* what the downloaders hold for each download, found by its tag
    batch,     \* what the worker holds in memory
    probing,   \* the probe of a saved connection that a request is running
    happened   \* how much of it has happened

downloadVars == <<download, signal, conn, server, batch, probing, happened>>

Running == {"queued", "submitting", "monitoring", "retry-wait"}
Ended == {"completed", "failed"}

Terminal == {"invalid", "missing"}        \* DownloadSourceErrors that nothing will mend
Retryable == {"unavailable", "timeout"}
UntilConfig == {"unauthorized"}
Judging == {"unauthorized", "unavailable"}  \* those that say something about the connection
Errors == Terminal \cup Retryable \cup UntilConfig

\* What a probe of a saved connection may store; the last two are failures.
Verdicts == {"healthy", "unauthorized", "unavailable"}

RemoteStates == {"downloading", "completed", "failed"}

NoDownload == [status |-> "free"]
NoConnection == [state |-> "absent"]
Idle == [at |-> "idle"]
NoProbe == [at |-> "none"]

Saved(version, enabled) ==
    [state |-> "saved", version |-> version, enabled |-> enabled, health |-> "degraded",
     judged |-> [url |-> version, secret |-> version]]

Exists(c) == conn[c].state = "saved"
Reached(d) == download[d].status # "free"

DownloadInit ==
    /\ download = [d \in Downloads |-> NoDownload]
    /\ signal = [d \in Downloads |-> "none"]
    /\ \E saved \in SUBSET Connections :
          conn = [c \in Connections |-> IF c \in saved THEN Saved(1, TRUE) ELSE NoConnection]
    /\ server = [d \in Downloads |-> [state |-> "absent", adds |-> 0, hidden |-> FALSE,
                                     removed |-> FALSE]]
    /\ batch = Idle
    /\ probing = NoProbe
    /\ happened = [kind \in DOMAIN Happens |-> 0]

Happening(kind) ==
    /\ happened[kind] < Happens[kind] /\ happened.all < Happens.all
    /\ happened' = [happened EXCEPT ![kind] = @ + 1, !.all = @ + 1]

Fault == Happening("fault")
Administers == Happening("admin")

-----------------------------------------------------------------------------
(* The task store. *)

\* A new row. The same key with the same request answers the row it already has.
Queued(c) ==
    [status |-> "queued", conn |-> c, linked |-> FALSE, remote |-> "unknown",
     failure |-> "none", blocked |-> 0, refused |-> 0, lease |-> "none"]

Accepted(d, c) ==
    /\ ~Reached(d)
    /\ \A e \in Downloads : e < d => Reached(e)
    /\ Exists(c)
    /\ download' = [download EXCEPT ![d] = Queued(c)]

\* A row nobody holds, or whose lease or retry time has passed (ripe).
Eligible(d, ripe) ==
    /\ download[d].status \in Running
    /\ (download[d].status = "retry-wait" \/ download[d].lease # "none") => d \in ripe

Oldest(S) == CHOOSE d \in S : \A e \in S : d <= e

\* Every eligible row of the connection of the oldest one.
Batch(ripe) ==
    LET due == {d \in Downloads : Eligible(d, ripe)}
    IN  {d \in due : download[d].conn = download[Oldest(due)].conn}

Claimed(S) ==
    download' = [d \in Downloads |->
        IF d \in S
        THEN [download[d] EXCEPT !.lease = "held",
                                 !.status = IF download[d].linked THEN "monitoring" ELSE "submitting"]
        ELSE download[d]]

Holding(d) == download[d].lease = "held"

Linked(d) ==
    /\ Holding(d) /\ download[d].status \in {"submitting", "monitoring"}
    /\ download' = [download EXCEPT ![d].linked = TRUE, ![d].remote = "unknown",
                        ![d].status = "monitoring", ![d].failure = "none", ![d].blocked = 0]

\* What a snapshot makes of the row; a completed download leaves its signal.
Observed(d, seen) ==
    /\ Holding(d) /\ download[d].linked /\ download[d].status \in {"submitting", "monitoring"}
    /\ download' = [download EXCEPT
            ![d].remote = seen, ![d].blocked = 0,
            ![d].status = IF seen \in Ended THEN seen ELSE "monitoring",
            ![d].failure = IF seen = "failed" THEN "invalid" ELSE "none",
            ![d].lease = IF seen \in Ended THEN "none" ELSE @]
    /\ signal' = IF seen = "completed" /\ signal[d] = "none"
                 THEN [signal EXCEPT ![d] = "pending"] ELSE signal

Postponed(d, error) ==
    /\ Holding(d) /\ download[d].status \notin Ended
    /\ download' = [download EXCEPT ![d].status = "retry-wait", ![d].failure = error,
                        ![d].blocked = 0, ![d].lease = "none"]

Failed(d, error) ==
    /\ Holding(d) /\ download[d].status \notin Ended
    /\ download' = [download EXCEPT ![d].status = "failed", ![d].failure = error,
                        ![d].blocked = 0, ![d].lease = "none"]

\* Failed until the connection has a newer configuration than the one that was refused.
Blocked(d, version, secret) ==
    /\ Holding(d) /\ download[d].status \notin Ended
    /\ download' = [download EXCEPT ![d].status = "failed", ![d].failure = "unauthorized",
                        ![d].blocked = version, ![d].refused = secret, ![d].lease = "none"]

\* At startup: the rows that a configuration since replaced had blocked are queued again.
Requeued(rows) ==
    [d \in Downloads |->
        IF /\ rows[d].status = "failed"
           /\ rows[d].blocked > 0
           /\ Exists(rows[d].conn)
           /\ conn[rows[d].conn].enabled
           /\ conn[rows[d].conn].version > rows[d].blocked
        THEN [rows[d] EXCEPT !.status = "queued", !.failure = "none", !.blocked = 0]
        ELSE rows[d]]

-----------------------------------------------------------------------------
(* The connections. Replacing or deleting one asks for the version it had; a  *)
(* probe is stored only with the version that it was made of.                 *)

Probe(c, version) == [at |-> "read", conn |-> c, url |-> version, secret |-> 0, verdict |-> "none"]

\* (Mutant: the version is not compared.)
CurrentWhatever(c, version) == Exists(c)

\* A verdict is stored only while the configuration is still the one that was tried.
Current(c, version) == Exists(c) /\ conn[c].version = version

Judged(c, url, secret, verdict) ==
    [conn EXCEPT ![c].health = verdict, ![c].judged = [url |-> url, secret |-> secret]]

CreateConnection(c) ==
    /\ conn[c].state = "absent"
    /\ probing = NoProbe
    /\ conn' = [conn EXCEPT ![c] = Saved(1, TRUE)]
    /\ probing' = Probe(c, 1)
    /\ Administers
    /\ UNCHANGED <<download, signal, server, batch>>

\* The probe of an earlier request may still be running: this one's then has no turn in the model.
ReplaceConnection(c, enabled) ==
    /\ Exists(c)
    /\ Administers
    /\ conn' = [conn EXCEPT ![c] = Saved(conn[c].version + 1, enabled)]
    /\ probing' = IF probing = NoProbe THEN Probe(c, conn[c].version + 1) ELSE probing
    /\ UNCHANGED <<download, signal, server, batch>>

DeleteConnection(c) ==
    /\ Exists(c)
    /\ Administers
    /\ \A d \in Downloads : Reached(d) /\ download[d].conn = c => download[d].status \in Ended
    /\ conn' = [conn EXCEPT ![c] = [state |-> "deleted"]]
    /\ UNCHANGED <<download, signal, server, batch, probing>>

\* The saved row is known; its credentials are read by a query of their own, then tried.
\* Those of another version than the address may be refused.
ProbeSaved(verdict) ==
    /\ probing.at = "read"
    /\ IF Exists(probing.conn)
       THEN LET secret == conn[probing.conn].version
            IN  /\ probing' = [probing EXCEPT !.at = "answered", !.secret = secret, !.verdict = verdict]
                /\ verdict = "unauthorized" => secret # probing.url
       ELSE probing' = NoProbe
    /\ UNCHANGED <<download, signal, conn, server, batch, happened>>

CommitProbe ==
    /\ probing.at = "answered"
    /\ conn' = IF Current(probing.conn, probing.url)
               THEN Judged(probing.conn, probing.url, probing.secret, probing.verdict)
               ELSE conn
    /\ probing' = NoProbe
    /\ UNCHANGED <<download, signal, server, batch, happened>>

-----------------------------------------------------------------------------
(* The downloaders, which are outside: what the code counts on and survives.  *)

Listed(d) == server[d].state \in RemoteStates

\* (Mutant: the worker adds what it has no hash for.)
KnownNever(d) == FALSE

\* The tag of a download finds it.
Known(d) == Listed(d)

\* The downloader takes the torrent; it may keep it pending, not yet listed under its tag.
Takes(d, hidden) ==
    server' = [server EXCEPT ![d].adds = @ + 1,
                   ![d].hidden = @ \/ hidden,
                   ![d].state = IF @ # "absent" THEN @
                                ELSE IF hidden THEN "pending" ELSE "downloading"]

ServerAdvances(d) ==
    /\ \/ /\ server[d].state = "pending"
          /\ server' = [server EXCEPT ![d].state = "downloading"]
       \/ /\ server[d].state = "downloading"
          /\ \E end \in {"completed", "failed"} : server' = [server EXCEPT ![d].state = end]
    /\ UNCHANGED <<download, signal, conn, batch, probing, happened>>

\* Somebody removes the torrent: from then on no add of it counts.
UserRemoves(d) ==
    /\ Listed(d)
    /\ Fault
    /\ server' = [server EXCEPT ![d].state = "absent", ![d].adds = 0, ![d].removed = TRUE]
    /\ UNCHANGED <<download, signal, conn, batch, probing>>

-----------------------------------------------------------------------------
(* The worker. Each step ends at a request to a downloader, a read or a       *)
(* transaction; what it keeps in between is in batch.                         *)

AcceptDownload(d, c) ==
    /\ Accepted(d, c)
    /\ Happening("user")
    /\ UNCHANGED <<signal, conn, server, batch, probing>>

ClaimBatch ==
    /\ batch = Idle
    /\ \E ripe \in SUBSET {d \in Downloads : Reached(d)} :
        /\ \A d \in ripe : download[d].status = "retry-wait" \/ download[d].lease # "none"
        /\ \E d \in Downloads : Eligible(d, ripe)
        /\ LET S == Batch(ripe) IN
            /\ Claimed(S)
            /\ batch' = [at |-> "config", conn |-> download[Oldest(S)].conn, version |-> 0,
                         secret |-> 0, todo |-> S, linked |-> {d \in S : download[d].linked},
                         answer |-> "none", for |-> 0, sync |-> FALSE,
                         seen |-> [d \in Downloads |-> "unlisted"]]
    /\ UNCHANGED <<signal, conn, server, probing, happened>>

\* The turn ends: everything is done, or an error is returned and the rows keep their leases.
Turn == batch' = Idle

ReadConfig ==
    /\ batch.at = "config"
    /\ batch' = IF Exists(batch.conn) /\ conn[batch.conn].enabled
                THEN [batch EXCEPT !.at = "secret", !.version = conn[batch.conn].version]
                ELSE [batch EXCEPT !.at = "refuse"]
    /\ UNCHANGED <<download, signal, conn, server, probing, happened>>

\* The connection is missing or disabled: each row fails, one transaction after the other.
RefuseOne ==
    /\ batch.at = "refuse"
    /\ IF batch.todo = {} THEN Turn /\ UNCHANGED download
       ELSE LET d == Oldest(batch.todo)
            IN  /\ Failed(d, "not-configured")
                /\ batch' = [batch EXCEPT !.todo = @ \ {d}]
    /\ UNCHANGED <<signal, conn, server, probing, happened>>

ReadSecret ==
    /\ batch.at = "secret"
    /\ IF Exists(batch.conn)
       THEN batch' = [batch EXCEPT !.at = "link", !.secret = conn[batch.conn].version,
                                   !.todo = @ \ batch.linked]
       ELSE Turn
    /\ UNCHANGED <<download, signal, conn, server, probing, happened>>

\* The address of one configuration with the credentials of another may be refused.
MayRefuse == batch.version # batch.secret

Answered(answer) == batch' = [batch EXCEPT !.at = "decide", !.answer = answer]

\* Transmission answers no query by tag: its client refuses the query as invalid.
Lookup ==
    /\ batch.at = "link" /\ batch.todo # {}
    /\ LET d == Oldest(batch.todo)
           asked == [batch EXCEPT !.for = d]
       IN  \/ /\ batch.conn \in Transmission
              /\ batch' = [asked EXCEPT !.at = "decide", !.answer = "invalid"]
              /\ UNCHANGED happened
           \/ /\ batch.conn \notin Transmission
              /\ batch' = IF Known(d) THEN [asked EXCEPT !.at = "found"]
                                      ELSE [asked EXCEPT !.at = "add"]
              /\ UNCHANGED happened
           \/ /\ MayRefuse
              /\ batch' = [asked EXCEPT !.at = "decide", !.answer = "unauthorized"]
              /\ UNCHANGED happened
           \/ \E error \in Errors \ {"missing"} :
              /\ Fault
              /\ batch' = [asked EXCEPT !.at = "decide", !.answer = error]
    /\ UNCHANGED <<download, signal, conn, server, probing>>

\* createTags, add and the query by tag that tells the hash. The add may be taken though its
\* answer is lost, and may be taken without being listed yet; an add that is refused is final.
AddRemote ==
    /\ batch.at = "add"
    /\ LET d == batch.for IN
       \/ /\ Takes(d, FALSE) /\ batch' = [batch EXCEPT !.at = "found"] /\ UNCHANGED happened
       \/ /\ Fault /\ Takes(d, TRUE) /\ Answered("missing")
       \/ /\ Fault /\ Takes(d, FALSE) /\ \E error \in Errors \ {"missing"} : Answered(error)
       \/ /\ Fault /\ UNCHANGED server /\ \E error \in Errors : Answered(error)
    /\ UNCHANGED <<download, signal, conn, probing>>

CommitRemoteRef ==
    /\ batch.at = "found"
    /\ Linked(batch.for)
    /\ batch' = [batch EXCEPT !.at = "link", !.todo = @ \ {batch.for},
                              !.linked = @ \cup {batch.for}]
    /\ UNCHANGED <<signal, conn, server, probing, happened>>

\* handle_error, first transaction: what the answer says of the connection. When the connection
\* has been replaced since, the turn ends with that conflict.
JudgeConnection ==
    /\ batch.at = "decide"
    /\ IF batch.answer \notin Judging
       THEN batch' = [batch EXCEPT !.at = "conclude"] /\ UNCHANGED conn
       ELSE IF Current(batch.conn, batch.version)
            THEN /\ conn' = Judged(batch.conn, batch.version, batch.secret, batch.answer)
                 /\ batch' = [batch EXCEPT !.at = "conclude"]
            ELSE Turn /\ UNCHANGED conn
    /\ UNCHANGED <<download, signal, server, probing, happened>>

\* handle_error, second transaction: what it says of the row.
Conclude ==
    /\ batch.at = "conclude"
    /\ \/ batch.answer \in UntilConfig /\ Blocked(batch.for, batch.version, batch.secret)
       \/ batch.answer \in Retryable /\ Postponed(batch.for, batch.answer)
       \/ batch.answer \in Terminal /\ Failed(batch.for, batch.answer)
    /\ batch' = IF batch.sync
                THEN [batch EXCEPT !.at = "sync", !.linked = @ \ {batch.for}]
                ELSE [batch EXCEPT !.at = "link", !.todo = @ \ {batch.for}, !.answer = "none"]
    /\ UNCHANGED <<signal, conn, server, probing, happened>>

\* One query for all linked rows.
FetchLinked ==
    /\ batch.at = "link" /\ batch.todo = {}
    /\ IF batch.linked = {} THEN Turn /\ UNCHANGED happened
       ELSE LET asked == [batch EXCEPT !.at = "sync", !.sync = TRUE] IN
            \/ /\ batch' = [asked EXCEPT !.seen = [d \in Downloads |->
                                IF Listed(d) THEN server[d].state ELSE "unlisted"]]
               /\ UNCHANGED happened
            \/ MayRefuse /\ batch' = [asked EXCEPT !.answer = "unauthorized"] /\ UNCHANGED happened
            \/ \E error \in Errors \ {"missing"} :
                Fault /\ batch' = [asked EXCEPT !.answer = error]
    /\ UNCHANGED <<download, signal, conn, server, probing>>

\* The rows of the answer, one transaction after the other.
SyncOne ==
    /\ batch.at = "sync"
    /\ IF batch.linked = {} THEN Turn /\ UNCHANGED <<download, signal>>
       ELSE LET d == Oldest(batch.linked) IN
            IF batch.answer # "none"
            THEN /\ batch' = [batch EXCEPT !.at = "decide", !.for = d]
                 /\ UNCHANGED <<download, signal>>
            ELSE /\ IF batch.seen[d] = "unlisted"
                    THEN Failed(d, "missing") /\ UNCHANGED signal
                    ELSE Observed(d, batch.seen[d])
                 /\ batch' = [batch EXCEPT !.linked = @ \ {d}]
    /\ UNCHANGED <<conn, server, probing, happened>>

Worker ==
    \/ ClaimBatch \/ ReadConfig \/ RefuseOne \/ ReadSecret \/ Lookup \/ AddRemote
    \/ CommitRemoteRef \/ JudgeConnection \/ Conclude \/ FetchLinked \/ SyncOne

Downloaders == \E d \in Downloads : ServerAdvances(d) \/ UserRemoves(d)

-----------------------------------------------------------------------------
(* Properties. *)

\* What a probe, or an answer to the worker, says of a connection is stored only with the
\* configuration it was an answer to: its address and its credentials. The worker, and the probe
\* of a saved connection, read the two with two queries, and the connection may be replaced
\* between any two steps. The same holds of the version that a refused row waits to see replaced.
VerdictFitsConfig ==
    /\ \A c \in Connections : Exists(c) =>
          conn[c].judged = [url |-> conn[c].version, secret |-> conn[c].version]
    /\ \A d \in Downloads : Reached(d) /\ download[d].blocked > 0 =>
          download[d].refused = download[d].blocked

\* A downloader that lists what it takes under its tag takes each download once, whatever was lost
\* or crashed between the add and the commit; and a download is given up as missing only when the
\* downloader hid it or somebody removed it.
AddedOnce ==
    \A d \in Downloads :
        /\ server[d].adds > 1 => server[d].hidden
        /\ Reached(d) /\ download[d].failure = "missing" =>
              server[d].hidden \/ server[d].removed \/ server[d].adds = 0
=============================================================================
