----------------------------- MODULE Reconcile -----------------------------
(***************************************************************************)
(* discovery/coordinator.rs, watcher.rs, policy.rs and reconcile_service.rs*)
(* for one inbox: the operating system's watcher and its bounded channel,  *)
(* the coalescing of hints, the tick of the coordinator that turns hints,  *)
(* overflows and due times into reconcile scans, the projection of their   *)
(* results, and the requests of automations to reconcile.                  *)
(*                                                                         *)
(* The due time of an inbox is reduced to whether it has come; hints are   *)
(* their paths, and a coalesced hint is fresh until its window has passed. *)
(* The owner's account exists, so a schedule is Unavailable exactly when   *)
(* the inbox is.  A finished automatic scan that nobody refers to any more *)
(* leaves its slot of Tasks: the table only grows, but no code reads such  *)
(* a row again.                                                            *)
(***************************************************************************)
EXTENDS ScanTask

CONSTANTS
    AskKeys,            \* idempotency keys of the requests of automations
    ChannelCapacity,    \* WATCH_CHANNEL_CAPACITY
    CoalescerCapacity   \* WATCH_COALESCER_CAPACITY

ASSUME ReconcileAssumption == ChannelCapacity \in Nat \ {0} /\ CoalescerCapacity \in Nat \ {0}

VARIABLES
    watch,          \* discovery_inbox_policies and discovery_watch_states
    os,             \* NotifyFileWatch: what it believes it watches, and what the kernel does
    unreported,     \* the paths of changes the kernel has not delivered yet
    channel,        \* the hints between the callback of the watcher and the tick
    overflow,       \* the flag beside the channel
    pending,        \* WatchCoalescer
    tick,           \* where the tick of the coordinator is
    ask             \* discovery_reconcile_requests, by key

watching == <<os, unreported, channel, overflow, pending, tick>>
vars == <<files, scans, absent, world, watch, watching, ask>>

Healths == {"pending", "healthy", "degraded", "unavailable", "disabled"}

Ticks == {"idle", "drain", "ready", "due"}

Asks == [task : Tasks \cup {NoTask}, status : {"none", "accepted", "completed", "failed"}]

NoWatch == [watched |-> FALSE, kernel |-> FALSE]
NoHints == [p \in Paths |-> "none"]

Init ==
    /\ ScanInit
    /\ watch = [health |-> "pending", listening |-> FALSE, enabled |-> TRUE, due |-> TRUE,
                active |-> NoTask, error |-> "none"]
    /\ os = NoWatch
    /\ unreported = {}
    /\ channel = << >>
    /\ overflow = FALSE
    /\ pending = NoHints
    /\ tick = "idle"
    /\ ask = [k \in AskKeys |-> [task |-> NoTask, status |-> "none"]]

-----------------------------------------------------------------------------
(***************************************************************************)
(* The user and the operating system.                                      *)
(***************************************************************************)

Report(p) == unreported' = IF os.kernel THEN unreported \cup {p} ELSE unreported

Change(p, f) ==
    /\ Changed(p, f)
    /\ Report(p)
    /\ UNCHANGED <<watch, os, channel, overflow, pending, tick, ask>>

\* The kernel's watch goes with the root, and nobody is told.
Unmount ==
    /\ Unmounted
    /\ os' = [os EXCEPT !.kernel = FALSE]
    /\ UNCHANGED <<watch, unreported, channel, overflow, pending, tick, ask>>

\* The callback of the watcher; a path it has no mapping for any more counts as an overflow.
WatchEvent(p) ==
    /\ p \in unreported
    /\ unreported' = unreported \ {p}
    /\ IF os.watched /\ Len(channel) < ChannelCapacity
       THEN channel' = Append(channel, p) /\ UNCHANGED overflow
       ELSE overflow' = TRUE /\ UNCHANGED channel
    /\ UNCHANGED <<files, scans, absent, world, watch, os, pending, tick, ask>>

\* The kernel's own queue overflows, or the watcher reports an error: events are lost and the
\* callback only learns that.
WatchError ==
    /\ unreported # {} /\ Spend("watch")
    /\ unreported' = {}
    /\ overflow' = TRUE
    /\ UNCHANGED <<files, scans, absent, root, server, watch, os, channel, pending, tick, ask>>

\* DiscoveryPolicyStore::put; the version in the request is the current one.
PutPolicy(enabled) ==
    /\ server = "up" /\ Spend("policy")
    /\ watch' = [watch EXCEPT
            !.enabled = enabled,
            !.health = IF ~enabled THEN "disabled" ELSE IF @ = "disabled" THEN "pending" ELSE @,
            !.listening = enabled /\ @,
            !.due = FALSE]
    /\ UNCHANGED <<files, scans, absent, root, server, watching, ask>>

-----------------------------------------------------------------------------
(***************************************************************************)
(* Scheduling: schedule_reconcile_in_tx.                                   *)
(***************************************************************************)

OpenReconciles == {t \in Tasks : task[t].reason # "manual" /\ task[t].status \in Open}

\* What is kept of the table once the watch state points to active.
Kept(rows, active) ==
    [t \in Tasks |->
        IF /\ rows[t].reason # "manual" /\ rows[t].status \notin Open /\ t # active
           /\ \A k \in AskKeys : ask[k].task # t \/ ask[k].status # "accepted"
           /\ \A w \in Workers : scan[w].task # t
        THEN Absent ELSE rows[t]]

OrderOf(rows) == order \cap (InUse(rows) \X InUse(rows))

AbsentOf(rows) ==
    [t \in Tasks |-> IF rows[t].status \in Open \/ rows[t].reason = "manual" THEN absent[t] ELSE {}]

\* A new reconcile scan in a free slot; its watch state was watched before.
Started(t, reason, watched) ==
    /\ task[t] = Absent
    /\ watch' = [watched EXCEPT !.active = t]
    /\ task' = Kept([task EXCEPT ![t] = NewRow(reason)], t)
    /\ order' = OrderOf(task') \cup ((InUse(task') \ {t}) \X {t})
    /\ absent' = [AbsentOf(task') EXCEPT ![t] = {p \in Paths : disk[p] = NoFacts}]

\* (Mutant: only a scan that runs counts as open.)
ScheduleUnlessRunning(reason, watched) ==
    IF {t \in OpenReconciles : task[t].status = "running"} = {} /\ root.available
    THEN \E t \in Tasks : Started(t, reason, watched)
    ELSE watch' = watched /\ UNCHANGED <<task, order, absent>>

\* What scheduling for a reason does; nothing when a reconcile scan is open or the inbox is
\* unavailable.
Schedule(reason, watched) ==
    IF OpenReconciles = {} /\ root.available
    THEN \E t \in Tasks : Started(t, reason, watched)
    ELSE watch' = watched /\ UNCHANGED <<task, order, absent>>

(***************************************************************************)
(* The tick of the coordinator: every 250 ms, one part after the other.    *)
(***************************************************************************)

At(part, next) == server = "up" /\ tick = part /\ tick' = next

TickStill == UNCHANGED <<files, scans, absent, root, server, spent, ask>>

WatcherUnavailable(watched) ==
    IF ~watched.enabled \/ ~root.available
        \/ (watched.health = "unavailable" /\ ~watched.listening /\ watched.error = "watcher")
    THEN watched
    ELSE [watched EXCEPT !.health = "unavailable", !.listening = FALSE, !.error = "watcher",
                         !.due = TRUE]

\* refresh_watches: replace returns at once when it already watches what is wanted.
Target == root.available /\ watch.enabled

ReplaceSucceeds ==
    /\ os.watched = Target \/ (Target => root.readable)
    /\ os' = IF os.watched = Target THEN os ELSE [watched |-> Target, kernel |-> Target]
    /\ UNCHANGED <<overflow, spent>>

ReplaceFails ==
    /\ os.watched # Target
    /\ IF Target /\ ~root.readable THEN UNCHANGED spent ELSE Spend("watch")
    /\ overflow' = TRUE
    /\ UNCHANGED os

\* finish_projection.
Projected(watched, r) ==
    [watched EXCEPT !.active = NoTask,
        !.due = FALSE,
        !.health = CASE r.status = "completed" -> "healthy"
                     [] r.status # "completed" /\ r.rootFailed -> "unavailable"
                     [] OTHER -> "degraded",
        !.error = CASE r.status = "completed" -> "none"
                    [] r.status # "completed" /\ r.rootFailed -> "watcher"
                    [] OTHER -> "reconcile"]

\* (Mutant: the result of a scan is not projected.)
SettledNever(watched) == watched

Settled(watched) ==
    IF watched.active # NoTask /\ task[watched.active].status \notin Open
    THEN Projected(watched, task[watched.active]) ELSE watched

\* refresh_watches and refresh_completed write different columns of the watch state.
Refreshed ==
    \/ ReplaceSucceeds /\ watch' = Settled([watch EXCEPT !.listening = Target])
    \/ ReplaceFails /\ watch' = Settled(WatcherUnavailable(watch))

Refresh ==
    /\ At("idle", "drain")
    /\ Refreshed
    /\ task' = Kept(task, watch'.active) /\ order' = OrderOf(task') /\ absent' = AbsentOf(task')
    /\ UNCHANGED <<files, binding, scan, root, server, unreported, channel, pending, ask>>

\* One hint of the channel; a coalescer that is full counts as an overflow.
Drain ==
    /\ At("drain", "drain") /\ channel # << >>
    /\ LET p == Head(channel)
           fits == \/ pending[p] # "none"
                   \/ Cardinality({q \in Paths : pending[q] # "none"}) < CoalescerCapacity
       IN
       /\ channel' = Tail(channel)
       /\ IF ~watch.enabled THEN UNCHANGED <<watch, pending, overflow>>
          ELSE /\ watch' = [watch EXCEPT !.listening = TRUE,
                                !.health = IF @ = "pending" THEN "healthy" ELSE @]
               /\ pending' = IF fits /\ pending[p] = "none"
                             THEN [pending EXCEPT ![p] = "fresh"] ELSE pending
               /\ overflow' = (overflow \/ ~fits)
    /\ TickStill /\ UNCHANGED <<os, unreported>>

\* The channel is empty; all_inboxes(true) asks for the policy.
TakeOverflow ==
    /\ At("drain", "ready") /\ channel = << >>
    /\ overflow' = FALSE
    /\ pending' = IF overflow THEN NoHints ELSE pending
    /\ IF overflow /\ watch.enabled THEN Schedule("watch_recovery", watch)
       ELSE UNCHANGED <<task, order, absent, watch>>
    /\ UNCHANGED <<files, binding, scan, world, os, unreported, channel, ask>>

DrainReady ==
    /\ At("ready", "due")
    /\ pending' = [p \in Paths |-> IF pending[p] = "ready" THEN "none" ELSE pending[p]]
    /\ IF \E p \in Paths : pending[p] = "ready" THEN Schedule("watch_recovery", watch)
       ELSE UNCHANGED <<task, order, absent, watch>>
    /\ UNCHANGED <<files, binding, scan, world, os, unreported, channel, overflow, ask>>

DueInboxes ==
    /\ At("due", "idle")
    /\ IF watch.active = NoTask /\ watch.due THEN Schedule("periodic", watch)
       ELSE UNCHANGED <<task, order, absent, watch>>
    /\ UNCHANGED <<files, binding, scan, world, os, unreported, channel, overflow, pending, ask>>

\* The database refuses a statement of the tick: what the part had taken out of memory is lost.
TickFails ==
    /\ server = "up" /\ tick # "idle" /\ Spend("tick")
    /\ tick' = "idle"
    /\ channel' = IF tick = "drain" /\ channel # << >> THEN Tail(channel) ELSE channel
    /\ overflow' = (overflow /\ ~(tick = "drain" /\ channel = << >>))
    /\ pending' = CASE tick = "drain" /\ channel = << >> /\ overflow -> NoHints
                    [] tick = "ready" -> [p \in Paths |-> IF pending[p] = "ready" THEN "none" ELSE pending[p]]
                    [] OTHER -> pending
    /\ UNCHANGED <<files, scans, absent, root, server, watch, os, unreported, ask>>

-----------------------------------------------------------------------------
(***************************************************************************)
(* ReconcileRequestService::accept, called again with its key until the    *)
(* request it stands for is finished.                                      *)
(***************************************************************************)

Accept(k) ==
    /\ server = "up" /\ ask[k].status = "none" /\ Spend("ask")
    /\ root.available
    /\ IF OpenReconciles # {}
       THEN /\ \E t \in OpenReconciles :
                ask' = [ask EXCEPT ![k] = [task |-> t, status |-> "accepted"]]
            /\ UNCHANGED <<task, order, absent, watch>>
       ELSE \E t \in Tasks :
            /\ Started(t, "watch_recovery", watch)
            /\ ask' = [ask EXCEPT ![k] = [task |-> t, status |-> "accepted"]]
    /\ UNCHANGED <<files, binding, scan, root, server, watching>>

RefreshTerminal(k) ==
    /\ server = "up" /\ ask[k].status = "accepted"
    /\ LET status == task[ask[k].task].status IN
        /\ status \notin Open
        /\ ask' = [ask EXCEPT ![k].status =
                IF status \in {"completed", "partial-success"} THEN "completed" ELSE "failed"]
    /\ UNCHANGED <<files, scans, absent, world, watch, watching>>

-----------------------------------------------------------------------------
(***************************************************************************)
(* The process.                                                            *)
(***************************************************************************)

Crash ==
    /\ Died
    /\ os' = NoWatch /\ unreported' = {} /\ channel' = << >> /\ overflow' = FALSE
    /\ pending' = NoHints /\ tick' = "idle"
    /\ UNCHANGED <<watch, ask>>

\* DiscoveryRuntime::prepare: the watches, the results, and a startup scan.
Startup ==
    /\ server = "recovered" /\ server' = "up"
    /\ \/ ReplaceSucceeds /\ Schedule("startup", Settled([watch EXCEPT !.listening = Target]))
       \/ ReplaceFails /\ Schedule("startup", Settled(WatcherUnavailable(watch)))
    /\ UNCHANGED <<files, binding, scan, root, unreported, channel, pending, tick, ask>>

-----------------------------------------------------------------------------
(***************************************************************************)
(* Time, and the whole.                                                    *)
(***************************************************************************)

\* next_reconcile_at_us comes.
NextReconcileComes ==
    /\ ~watch.due
    /\ watch' = [watch EXCEPT !.due = TRUE]
    /\ UNCHANGED <<files, scans, absent, world, watching, ask>>

\* COALESCE_WINDOW_US have passed since a hint was first received.
WindowPasses(p) ==
    /\ pending[p] = "fresh"
    /\ pending' = [pending EXCEPT ![p] = "ready"]
    /\ UNCHANGED <<files, scans, absent, world, watch, os, unreported, channel, overflow, tick, ask>>

Still == UNCHANGED <<watch, watching, ask>>

Coordinate ==
    Refresh \/ Drain \/ TakeOverflow \/ DrainReady \/ DueInboxes \/ TickFails

Watching ==
    \/ \E p \in Paths : WatchEvent(p) \/ WindowPasses(p)
    \/ WatchError \/ NextReconcileComes

Requests ==
    \/ \E enabled \in BOOLEAN : PutPolicy(enabled)
    \/ \E k \in AskKeys : Accept(k) \/ RefreshTerminal(k)

\* What ScanTask does by itself.
Scanning ==
    /\ \/ Requested \/ TimePasses \/ ReclaimExpired \/ Remounted \/ InboxRead
       \/ \E w \in Workers : Worker(w)
       \/ \E t \in Tasks : LeaseExpires(t)
    /\ Still

Next ==
    \/ Scanning \/ Watching \/ Requests \/ Coordinate
    \/ \E p \in Paths, f \in Facts \cup {NoFacts} : Change(p, f)
    \/ Unmount \/ Startup \/ Crash

Spec == Init /\ [][Next]_vars

\* The worker and the coordinator are loops that never end; the process is started again by its
\* container, time passes, the kernel delivers, and a root comes back.  Nothing obliges anybody
\* to read the inbox, to ask twice or to change a file, and nothing has to go wrong.
Unasked(A) == A /\ Still /\ UNCHANGED spent

Fairness ==
    /\ \A w \in Workers : WF_vars(Unasked(Worker(w)))
    /\ WF_vars(Unasked(\E t \in Tasks : LeaseExpires(t)))
    /\ WF_vars(Unasked(ReclaimExpired) \/ Startup)
    /\ WF_vars(Coordinate /\ UNCHANGED spent)
    /\ WF_vars(NextReconcileComes) /\ WF_vars(Unasked(Remounted))
    /\ \A f \in Facts : WF_vars(Unasked(Grows(f)))
    /\ \A p \in Paths :
        WF_vars(WindowPasses(p)) /\ WF_vars(WatchEvent(p)) /\ WF_vars(Unasked(Rests(p)))

FairSpec == Spec /\ Fairness

-----------------------------------------------------------------------------
(***************************************************************************)
(* Properties.                                                             *)
(***************************************************************************)

\* However hints, overflows, due times, startups and automations race to schedule one, an inbox
\* has at most one open reconcile scan, and its watch state points to it: a scan nobody points
\* to would end without its result being projected.
OneReconcile == \A t \in OpenReconciles : OpenReconciles = {t} /\ watch.active = t

TypeOK ==
    /\ ScanTypeOK
    /\ watch \in [health : Healths, listening : BOOLEAN, enabled : BOOLEAN, due : BOOLEAN,
                  active : Tasks \cup {NoTask}, error : {"none", "watcher", "reconcile"}]
    /\ os \in [watched : BOOLEAN, kernel : BOOLEAN]
    /\ unreported \subseteq Paths
    /\ channel \in Seq(Paths) /\ Len(channel) <= ChannelCapacity
    /\ overflow \in BOOLEAN
    /\ pending \in [Paths -> {"none", "fresh", "ready"}]
    /\ Cardinality({p \in Paths : pending[p] # "none"}) <= CoalescerCapacity
    /\ tick \in Ticks
    /\ ask \in [AskKeys -> Asks]

\* Rows and queues have their shapes and bounds, and there is one reconcile scan at most.
IntakeInvariant == TypeOK /\ OneReconcile

\* A reconcile scan always comes to an end, whatever crashes or is lost: again and again there is
\* none open, and the next hint or due time gets a scan of its own.
ReconcilesEnd == []<>(OpenReconciles = {})

InSync(p) ==
    IF disk[p] = NoFacts THEN tracked[p].missing \/ tracked[p].current = NoFacts
    ELSE tracked[p].current = disk[p] /\ ~tracked[p].missing

\* What changes becomes known, unless it changes again, although hints may be lost in every way
\* they can be: by the kernel, in a full channel, in a crash, or because the scan they ask for is
\* already past the place.
ChangesSeen == \A p \in Paths : ~InSync(p) ~> InSync(p) \/ ~root.available

Owed(p) == disk[p] # NoFacts /\ <<p, disk[p]>> \notin requests

\* And a file that stays is handed to processing, unless it is a sample or a trailer.
SettledFileRequested ==
    \A p \in Paths \ Auxiliary : Owed(p) ~> ~Owed(p) \/ ~root.available
=============================================================================
