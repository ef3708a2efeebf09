----------------------------- MODULE Automation -----------------------------
(* Automation: the sources (an RSS feed, a webhook, a mapping of completed     *)
(* downloads to an inbox), the events they raise, and the one loop that        *)
(* dispatches completions, runs events and polls the feed. An event asks for a *)
(* download or for a reconcile of an inbox; a completed download raises one.   *)
EXTENDS Downloads, Sequences

CONSTANTS
    Events,        \* rows of automation_events, in the order of their creation
    Items,         \* entries of the feed, by the guid that deduplicates them
    Nonces,        \* nonces of signed webhook calls
    CommandKeys,   \* idempotency keys of cancel and retry
    MaxAttempts,   \* 10 in the code
    Stranding      \* whether the service may come back before its old leases expire

ASSUME AutomationAssumption ==
    /\ Events \subseteq Nat \ {0} /\ IsFiniteSet(Events)
    /\ Items \subseteq Nat /\ IsFiniteSet(Items)
    /\ MaxAttempts \in Nat \ {0}
    /\ Stranding \in BOOLEAN

VARIABLES
    source,    \* the rows of automation_sources with their runtime rows, by kind
    event,     \* the rows of automation_events
    receipt,   \* the receipts of commands
    feed,      \* what the feed shows: the edition of each item, 0 when absent
    tries,     \* how often each signal was claimed
    loop,      \* what the loop holds in memory
    webhook,   \* a signed call between its checks and its transaction
    madeFor,   \* the event whose idempotency key made each download
    asked      \* the events whose idempotency key asked for a reconcile

automationVars == <<source, event, receipt, feed, tries, loop, webhook, madeFor, asked>>
acquisitionVars == <<downloadVars, automationVars>>

Kinds == {"rss", "webhook", "completion"}

NoSource == [state |-> "absent"]
NoEvent == [status |-> "free"]
Resting == [at |-> "completion"]
NoCall == [at |-> "none"]
NeverFetched == [i \in Items |-> 0]

\* The source rows: a replacement raises the version and forgets the cursor and the lease.
Configured(version, enabled, c) ==
    [state |-> "saved", version |-> version, enabled |-> enabled, conn |-> c,
     fetched |-> NeverFetched, leased |-> FALSE, rotations |-> {}]

Saves(k) == source[k].state = "saved"

AutomationInit ==
    /\ \E k \in Kinds, c \in Connections :
          source = [l \in Kinds |-> IF l = k /\ Exists(c) THEN Configured(1, TRUE, c) ELSE NoSource]
    /\ event = [e \in Events |-> NoEvent]
    /\ receipt = [e \in Events |-> [k \in CommandKeys |-> "none"]]
    /\ feed = NeverFetched
    /\ tries = [d \in Downloads |-> 0]
    /\ loop = Resting
    /\ webhook = NoCall
    /\ madeFor = [d \in Downloads |-> 0]
    /\ asked = {}

Raised(e) == event[e].status # "free"
Active == {"pending", "running", "retry-wait"}
Settled == {"completed", "failed", "cancelled"}

-----------------------------------------------------------------------------
(* The sources. *)

\* What a source names has to exist.
References(c) == Exists(c)

CreateSource(k, c) ==
    /\ source[k].state = "absent"
    /\ References(c)
    /\ Administers
    /\ source' = [source EXCEPT ![k] = Configured(1, TRUE, c)]
    /\ UNCHANGED <<event, receipt, feed, tries, loop, webhook, madeFor, asked>>
    /\ UNCHANGED <<download, signal, conn, server, batch, probing>>

ReplaceSource(k, enabled, c) ==
    /\ Saves(k) /\ References(c)
    /\ Administers
    /\ source' = [source EXCEPT ![k] =
            [Configured(@.version + 1, enabled, c) EXCEPT !.rotations = source[k].rotations]]
    /\ UNCHANGED <<event, receipt, feed, tries, loop, webhook, madeFor, asked>>
    /\ UNCHANGED <<download, signal, conn, server, batch, probing>>

DeleteSource(k) ==
    /\ Saves(k) /\ ~source[k].enabled
    /\ Administers
    /\ \A e \in Events : Raised(e) /\ event[e].source = k => event[e].status \notin Active
    /\ source' = [source EXCEPT ![k] = [state |-> "deleted"]]
    /\ UNCHANGED <<event, receipt, feed, tries, loop, webhook, madeFor, asked>>
    /\ UNCHANGED <<download, signal, conn, server, batch, probing>>

\* A new secret for the webhook, once per idempotency key: a repeated request is answered with
\* the secret of its receipt and changes nothing. Calls that were signed before are refused.
RotateSecret(key) ==
    /\ Saves("webhook") /\ key \notin source["webhook"].rotations
    /\ Administers
    /\ source' = [source EXCEPT !["webhook"].version = @ + 1, !["webhook"].rotations = @ \cup {key}]
    /\ UNCHANGED <<event, receipt, feed, tries, loop, webhook, madeFor, asked>>
    /\ UNCHANGED <<download, signal, conn, server, batch, probing>>

\* An item appears, is edited under the guid it had, or leaves the feed.
FeedChanges(i) ==
    /\ Happening("feed")
    /\ feed' = [feed EXCEPT ![i] = IF @ = 2 THEN 0 ELSE @ + 1]
    /\ UNCHANGED <<source, event, receipt, tries, loop, webhook, madeFor, asked>>
    /\ UNCHANGED <<download, signal, conn, server, batch, probing>>

-----------------------------------------------------------------------------
(* The events. *)

\* A new event: of a source in its present version, with the key that deduplicates it.
Fresh(k, version, key, action, edition, c) ==
    [status |-> "pending", source |-> k, version |-> version, key |-> key,
     action |-> action, edition |-> edition, conn |-> c, attempts |-> 0, downstream |-> 0]

Unused == {e \in Events : ~Raised(e)}
FirstUnused == {e \in Unused : \A f \in Unused : e <= f}

KeyTaken(k, key) == \E e \in Events : Raised(e) /\ event[e].source = k /\ event[e].key = key

\* cancel and retry, each once per key; another command under the same key is a conflict.
Command(e, op, key) ==
    /\ Raised(e)
    /\ receipt[e][key] = "none"
    /\ Happening("user")
    /\ \/ /\ op = "cancel"
          /\ event[e].status \in {"pending", "retry-wait"} /\ event[e].downstream = 0
          /\ event' = [event EXCEPT ![e].status = "cancelled"]
       \/ /\ op = "retry"
          /\ event[e].status = "failed"
          /\ event' = [event EXCEPT ![e].status = "pending", ![e].attempts = 0]
    /\ receipt' = [receipt EXCEPT ![e][key] = op]
    /\ UNCHANGED <<source, feed, tries, loop, webhook, madeFor, asked>>
    /\ UNCHANGED <<download, signal, conn, server, batch, probing>>

\* A signed webhook call: the source and its secret are read, the signature, the replay and the
\* action are checked.
CheckCall(n) ==
    /\ webhook = NoCall
    /\ Saves("webhook") /\ source["webhook"].enabled
    /\ ~KeyTaken("webhook", n)
    /\ Happening("user")
    /\ webhook' = [at |-> "checked", nonce |-> n, version |-> source["webhook"].version,
                   conn |-> source["webhook"].conn]
    /\ UNCHANGED <<source, event, receipt, feed, tries, loop, madeFor, asked>>
    /\ UNCHANGED <<download, signal, conn, server, batch, probing>>

\* Then its transaction, which checks again.
Acceptable ==
    /\ Saves("webhook") /\ source["webhook"].enabled
    /\ source["webhook"].version = webhook.version
    /\ Exists(webhook.conn)
    /\ ~KeyTaken("webhook", webhook.nonce)

AcceptCall ==
    /\ webhook.at = "checked"
    /\ webhook' = NoCall
    /\ IF Acceptable
       THEN \E e \in FirstUnused :
                event' = [event EXCEPT ![e] =
                    Fresh("webhook", webhook.version, webhook.nonce, "download", 1, webhook.conn)]
       ELSE UNCHANGED event
    /\ UNCHANGED <<source, receipt, feed, tries, loop, madeFor, asked>>
    /\ UNCHANGED downloadVars

-----------------------------------------------------------------------------
(* The loop: a completion, then an event, then a poll. An error ends the turn. *)

KeepsRequests == UNCHANGED <<receipt, feed, webhook>>
KeepsDownloads == UNCHANGED <<download, conn, server, batch, probing>>

Turns(at) == loop' = [at |-> at]

ClaimCompletion ==
    /\ loop.at = "completion"
    /\ LET due == {d \in Downloads : signal[d] = "pending" /\ tries[d] < MaxAttempts} IN
        IF due = {} THEN Turns("event") /\ UNCHANGED <<signal, tries>>
        ELSE LET d == Oldest(due) IN
             /\ signal' = [signal EXCEPT ![d] = "running"]
             /\ tries' = [tries EXCEPT ![d] = @ + 1]
             /\ loop' = [at |-> "dispatch", download |-> d]
    /\ UNCHANGED <<source, event, madeFor, asked, happened>>
    /\ KeepsRequests /\ KeepsDownloads

Mapped(d) ==
    Saves("completion") /\ source["completion"].enabled /\ source["completion"].conn = download[d].conn

\* The event, or the lack of a mapping, and the end of the signal are one transaction.
Dispatch ==
    /\ loop.at = "dispatch"
    /\ LET d == loop.download IN
        IF Mapped(d)
        THEN \E e \in FirstUnused :
             /\ event' = [event EXCEPT ![e] = Fresh("completion", source["completion"].version, d,
                                                    "reconcile", 1, download[d].conn)]
             /\ signal' = [signal EXCEPT ![d] = "dispatched"]
        ELSE signal' = [signal EXCEPT ![d] = "unmapped"] /\ UNCHANGED event
    /\ Turns("event")
    /\ UNCHANGED <<source, tries, madeFor, asked, happened>>
    /\ KeepsRequests /\ KeepsDownloads

\* Only pending events and those whose retry is due (ripe) are claimed: never a running one.
Runnable(ripe) ==
    {e \in Events : /\ event[e].status = "pending" \/ e \in ripe
                    /\ event[e].attempts < MaxAttempts}

ClaimEvent ==
    /\ loop.at = "event"
    /\ \E ripe \in SUBSET {e \in Events : event[e].status = "retry-wait"} :
        IF Runnable(ripe) = {} THEN Turns("poll") /\ UNCHANGED event
        ELSE LET e == Oldest(Runnable(ripe)) IN
             /\ event' = [event EXCEPT ![e].status = "running", ![e].attempts = @ + 1]
             /\ loop' = [at |-> "act", event |-> e]
    /\ UNCHANGED <<source, signal, tries, madeFor, asked, happened>>
    /\ KeepsRequests /\ KeepsDownloads

Result(e, result, downstream) ==
    loop' = [at |-> "settle", event |-> e, result |-> result, downstream |-> downstream]

\* (Mutant: every attempt has an idempotency key of its own.)
MadeForNone(e) == {}

MadeFor(e) == {d \in Downloads : madeFor[d] = e}

\* create_download under the key of the event: the download it made before, or a new one.
ActDownload ==
    /\ loop.at = "act" /\ event[loop.event].action = "download"
    /\ LET e == loop.event IN
       \/ /\ MadeFor(e) # {}
          /\ Result(e, "done", Oldest(MadeFor(e)))
          /\ UNCHANGED <<download, madeFor, happened>>
       \/ /\ MadeFor(e) = {}
          /\ \E d \in Downloads :
                /\ Accepted(d, event[e].conn)
                /\ madeFor' = [madeFor EXCEPT ![d] = e]
                /\ \/ Result(e, "done", d) /\ UNCHANGED happened
                   \/ Result(e, "again", 0) /\ Fault
       \/ /\ MadeFor(e) = {}
          /\ Result(e, "again", 0)
          /\ UNCHANGED <<download, madeFor>>
          /\ \/ ~Exists(event[e].conn) /\ UNCHANGED happened
             \/ Exists(event[e].conn) /\ Fault
    /\ UNCHANGED <<source, event, tries, asked, signal, conn, server, batch, probing>>
    /\ KeepsRequests

\* reconcile_inbox under the key of the event: it answers the request it has, or makes one.
ActReconcile ==
    /\ loop.at = "act" /\ event[loop.event].action = "reconcile"
    /\ LET e == loop.event IN
       \/ asked' = asked \cup {e} /\ Result(e, "done", 0) /\ UNCHANGED happened
       \/ asked' = asked \cup {e} /\ Result(e, "again", 0) /\ Fault
       \/ UNCHANGED asked /\ \E result \in {"again", "never"} : Result(e, result, 0) /\ Fault
    /\ UNCHANGED <<source, event, tries, madeFor, signal>>
    /\ KeepsRequests /\ KeepsDownloads

\* complete, or fail with a retry while attempts are left. The write itself may fail.
Settle ==
    /\ loop.at = "settle"
    /\ LET e == loop.event
           retry == loop.result = "again" /\ event[e].attempts < MaxAttempts
       IN  \/ /\ event' = [event EXCEPT
                    ![e].status = IF loop.result = "done" THEN "completed"
                                  ELSE IF retry THEN "retry-wait" ELSE "failed",
                    ![e].downstream = IF loop.result = "done" THEN loop.downstream ELSE @]
              /\ Turns("poll") /\ UNCHANGED happened
           \/ Stranding /\ Fault /\ Turns("completion") /\ UNCHANGED event
    /\ UNCHANGED <<source, signal, tries, madeFor, asked>>
    /\ KeepsRequests /\ KeepsDownloads

\* The feed is due and nobody holds it, or the lease of an earlier turn has run out.
ClaimFeed ==
    /\ loop.at = "poll"
    /\ \/ Turns("completion") /\ UNCHANGED source
       \/ /\ Saves("rss") /\ source["rss"].enabled
          /\ source' = [source EXCEPT !["rss"].leased = TRUE]
          /\ loop' = [at |-> "fetch", version |-> source["rss"].version,
                      conn |-> source["rss"].conn, cursor |-> source["rss"].fetched,
                      seen |-> NeverFetched]
    /\ UNCHANGED <<event, signal, tries, madeFor, asked, happened>>
    /\ KeepsRequests /\ KeepsDownloads

\* What the feed shows; an answer that nothing changed names no item.
Fetch ==
    /\ loop.at = "fetch"
    /\ \/ loop' = [loop EXCEPT !.at = "commit", !.cursor = feed,
                               !.seen = IF loop.cursor = feed THEN NeverFetched ELSE feed]
          /\ UNCHANGED happened
       \/ loop' = [loop EXCEPT !.at = "give up"] /\ Fault
    /\ UNCHANGED <<source, event, signal, tries, madeFor, asked>>
    /\ KeepsRequests /\ KeepsDownloads

\* (Mutant: neither the version nor the lease is compared.)
StillMineWhatever == Saves("rss")

\* The poll may still be recorded: its source is the one that was claimed.
StillMine ==
    Saves("rss") /\ source["rss"].enabled /\ source["rss"].leased /\ source["rss"].version = loop.version

EventOf(i) == {e \in Events : Raised(e) /\ event[e].source = "rss" /\ event[e].key = i}

\* The same guid with another payload: what it asks to download, or where, has changed.
Conflicts(i) ==
    loop.seen[i] > 0 /\ \E e \in EventOf(i) : event[e].edition # loop.seen[i] \/ event[e].conn # loop.conn

NewItems == {i \in Items : loop.seen[i] > 0 /\ EventOf(i) = {}}

RankIn(S, x) == Cardinality({y \in S : y < x})

\* One transaction: the events of the new items and the cursor; a conflict undoes it all and the
\* lease stays, a refusal is recorded nowhere.
CommitPoll ==
    /\ loop.at = "commit"
    /\ Turns("completion")
    /\ \/ /\ StillMine
          /\ \A i \in Items : ~Conflicts(i)
          /\ Cardinality(NewItems) <= Cardinality(Unused)
          /\ event' = [e \in Events |->
                IF e \in Unused /\ \E i \in NewItems : RankIn(NewItems, i) = RankIn(Unused, e)
                THEN LET i == CHOOSE i \in NewItems : RankIn(NewItems, i) = RankIn(Unused, e)
                     IN  Fresh("rss", loop.version, i, "download", loop.seen[i], loop.conn)
                ELSE event[e]]
          /\ source' = [source EXCEPT !["rss"].fetched = loop.cursor, !["rss"].leased = FALSE]
          /\ UNCHANGED happened
       \/ /\ ~StillMine \/ \E i \in Items : Conflicts(i)
          /\ UNCHANGED <<event, source, happened>>
       \/ StillMine /\ Fault /\ UNCHANGED <<event, source>>
    /\ UNCHANGED <<signal, tries, madeFor, asked>>
    /\ KeepsRequests /\ KeepsDownloads

\* commit_failure: the lease is given back and the next poll is put off.
FailPoll ==
    /\ loop.at = "give up"
    /\ source' = IF StillMine THEN [source EXCEPT !["rss"].leased = FALSE] ELSE source
    /\ Turns("completion")
    /\ UNCHANGED <<event, signal, tries, madeFor, asked, happened>>
    /\ KeepsRequests /\ KeepsDownloads

-----------------------------------------------------------------------------
(* The process. *)

\* (Mutant: what was running stays so.)
TakenBackNever(e) == event[e]

\* prepare looks once, before the loop starts: what was running is taken back only if its lease
\* has run out by then.
TakenBack(e) ==
    IF event[e].status = "running"
    THEN [event[e] EXCEPT !.status = IF event[e].attempts >= MaxAttempts THEN "failed" ELSE "retry-wait"]
    ELSE event[e]

SignalTakenBack(d) ==
    IF signal[d] = "running"
    THEN IF tries[d] >= MaxAttempts THEN "failed" ELSE "pending"
    ELSE signal[d]

RestartAll ==
    /\ Fault
    /\ download' = Requeued([d \in Downloads |->
            IF Reached(d) /\ download[d].lease = "held"
            THEN [download[d] EXCEPT !.lease = "orphan"] ELSE download[d]])
    /\ \E expired \in (IF Stranding THEN BOOLEAN ELSE {TRUE}) :
        /\ event' = IF expired THEN [e \in Events |-> TakenBack(e)] ELSE event
        /\ signal' = IF expired THEN [d \in Downloads |-> SignalTakenBack(d)] ELSE signal
    /\ batch' = Idle /\ probing' = NoProbe
    /\ loop' = Resting /\ webhook' = NoCall
    /\ UNCHANGED <<conn, server, source, receipt, feed, tries, madeFor, asked>>

\* A connection that a source names cannot be deleted.
DownloadSide ==
    /\ \/ Worker \/ Downloaders \/ CommitProbe
       \/ \E d \in Downloads, c \in Connections : AcceptDownload(d, c)
       \/ \E c \in Connections : CreateConnection(c)
       \/ \E c \in Connections, enabled \in BOOLEAN : ReplaceConnection(c, enabled)
       \/ \E verdict \in Verdicts : ProbeSaved(verdict)
       \/ \E c \in Connections :
            /\ \A k \in Kinds : Saves(k) => source[k].conn # c
            /\ DeleteConnection(c)
    /\ UNCHANGED automationVars

Sources ==
    \/ \E k \in Kinds, c \in Connections : CreateSource(k, c)
    \/ \E k \in Kinds, c \in Connections, enabled \in BOOLEAN : ReplaceSource(k, enabled, c)
    \/ \E k \in Kinds : DeleteSource(k)
    \/ \E key \in CommandKeys : RotateSecret(key)
    \/ \E i \in Items : FeedChanges(i)
    \/ \E n \in Nonces : CheckCall(n)
    \/ AcceptCall
    \/ \E e \in Events, op \in {"cancel", "retry"}, key \in CommandKeys : Command(e, op, key)

Loop ==
    \/ ClaimCompletion \/ Dispatch \/ ClaimEvent \/ ActDownload \/ ActReconcile \/ Settle
    \/ ClaimFeed \/ Fetch \/ CommitPoll \/ FailPoll

AcquisitionInit == DownloadInit /\ AutomationInit
AcquisitionNext == DownloadSide \/ Sources \/ Loop \/ RestartAll

AcquisitionSpec == AcquisitionInit /\ [][AcquisitionNext]_acquisitionVars

\* The worker's loop and the automation loop are never left for ever; leases expire and retries
\* become due; the downloaders finish what they took.
AcquisitionFairness ==
    /\ WF_acquisitionVars(Worker /\ UNCHANGED automationVars)
    /\ WF_acquisitionVars(Loop)
    /\ \A d \in Downloads :
        /\ WF_acquisitionVars(ServerAdvances(d) /\ UNCHANGED automationVars)
        /\ SF_acquisitionVars(ClaimBatch /\ d \in batch'.todo /\ UNCHANGED automationVars)
    /\ \A e \in Events : SF_acquisitionVars(ClaimEvent /\ event'[e].status # event[e].status)

-----------------------------------------------------------------------------
(* Properties. *)

\* An event asks for at most one download, however often it was attempted, taken back or retried,
\* and a completed one names the download that was made under its key.
OneDownloadPerEvent ==
    \A e \in Events :
        /\ Cardinality(MadeFor(e)) <= 1
        /\ Raised(e) /\ event[e].status = "completed" /\ event[e].action = "download" =>
              MadeFor(e) = {event[e].downstream}

\* The cursor never gets ahead of the events: what the last recorded poll saw has its event, with
\* the edition that was seen.
CursorBehindEvents ==
    Saves("rss") => \A i \in Items :
        source["rss"].fetched[i] > 0 =>
            \E e \in EventOf(i) : event[e].edition = source["rss"].fetched[i]

\* What a feed lists is downloaded once and only once: its event is there when the poll that saw
\* it is recorded, and asks for one download.
FeedTakenOnce == OneDownloadPerEvent /\ CursorBehindEvents

\* A poll and a signed call take time, and their source may be replaced or disabled meanwhile: an
\* event is only ever raised under the configuration that is then in force.
RaisedUnderItsSource ==
    [][\A e \in Events : ~Raised(e) /\ event'[e].status # "free" =>
         LET s == source[event'[e].source]
         IN  s.state = "saved" /\ s.enabled /\ s.version = event'[e].version /\ s.conn = event'[e].conn
      ]_acquisitionVars

\* Every event comes to an end and every completed download is dispatched.
AutomationEnds ==
    /\ \A e \in Events : (Raised(e) /\ event[e].status \in Active) ~> (event[e].status \in Settled)
    /\ \A d \in Downloads : (signal[d] \in {"pending", "running"}) ~>
          (signal[d] \in {"dispatched", "unmapped", "failed"})

\* Every accepted download completes or fails.
DownloadsEnd == \A d \in Downloads : Reached(d) ~> (download[d].status \in Ended)

\* Under the fairness above everything that was accepted comes to an end.
AcquisitionEnds == AutomationEnds /\ DownloadsEnd
=============================================================================
