--------------------------- MODULE Notifications ---------------------------
(* The notification centre: a notice commits with the change of state it is   *)
(* about, with one delivery for the webhook that is enabled at the time; one  *)
(* worker sends the deliveries under a lease and retries them; administrators *)
(* change, disable and delete the webhook meanwhile.                          *)
EXTENDS Naturals, FiniteSets

CONSTANTS
    Notices,       \* the notices, numbered in the order they are written
    MaxTries,      \* attempts of one delivery, 10 in the code
    MaxVersion,    \* configurations of the webhook that the runs save
    NoticeFaults   \* crashes, failed writes and stalls

ASSUME NoticeAssumption ==
    /\ Notices \subseteq Nat \ {0} /\ IsFiniteSet(Notices)
    /\ MaxTries \in Nat \ {0} /\ MaxVersion \in Nat \ {0} /\ NoticeFaults \in Nat

VARIABLES
    notices,      \* for each notice that is written, whether it was read
    webhook,      \* its configuration and the health its last delivery left
    deliveries,   \* the delivery of each notice, if one was made
    courier,      \* the worker: the delivery it holds and how far it is with it
    accepted,     \* <<notice, version>>: what the endpoint of that configuration took
    mishaps       \* faults so far

noticeVars == <<notices, webhook, deliveries, courier, accepted, mishaps>>

NoWebhook == [version |-> 0, exists |-> FALSE, enabled |-> FALSE, health |-> "unconfigured"]

NoDelivery == [status |-> "none", version |-> 0, tries |-> 0, due |-> FALSE, expired |-> FALSE]

NoCourier == [at |-> "idle"]

Undecided == {"pending", "sending", "retry-wait"}
DeliveryEnded == {"succeeded", "failed", "cancelled"}

NoticeInit ==
    /\ notices = [n \in Notices |-> "none"]
    /\ webhook = NoWebhook
    /\ deliveries = [n \in Notices |-> NoDelivery]
    /\ courier = NoCourier
    /\ accepted = {}
    /\ mishaps = 0

NoticeFault == mishaps < NoticeFaults /\ mishaps' = mishaps + 1

-----------------------------------------------------------------------------
(* Notices and the webhook. *)

\* With it goes a delivery under the configuration of the moment.
Notify ==
    /\ \E n \in Notices :
        /\ notices[n] = "none" /\ \A m \in Notices : m < n => notices[m] # "none"
        /\ notices' = [notices EXCEPT ![n] = "unread"]
        /\ deliveries' = IF webhook.enabled
                         THEN [deliveries EXCEPT ![n] = [NoDelivery EXCEPT !.status = "pending",
                                                            !.version = webhook.version]]
                         ELSE deliveries
    /\ UNCHANGED <<webhook, courier, accepted, mishaps>>

MarkRead(marked) ==
    /\ \E n \in marked : notices[n] = "unread"
    /\ notices' = [n \in Notices |-> IF n \in marked /\ notices[n] = "unread" THEN "read"
                                     ELSE notices[n]]
    /\ UNCHANGED <<webhook, deliveries, courier, accepted, mishaps>>

\* Any change of the configuration is a new version of unknown health. (A webhook that is created
\* after a delete is another one: the versions go on, so that they tell the two apart.)
SaveWebhook ==
    /\ webhook.version < MaxVersion
    /\ \E enabled \in BOOLEAN :
        webhook' = [version |-> webhook.version + 1, exists |-> TRUE, enabled |-> enabled,
                    health |-> "unconfigured"]
    /\ UNCHANGED <<notices, deliveries, courier, accepted, mishaps>>

Cancelled(d) == [d EXCEPT !.status = "cancelled", !.due = FALSE, !.expired = FALSE]

\* What it had not sent is cancelled with it.
DeleteWebhook ==
    /\ webhook.exists
    /\ webhook' = [NoWebhook EXCEPT !.version = webhook.version]
    /\ deliveries' = [n \in Notices |-> IF deliveries[n].status \in Undecided
                                        THEN Cancelled(deliveries[n]) ELSE deliveries[n]]
    /\ UNCHANGED <<notices, courier, accepted, mishaps>>

-----------------------------------------------------------------------------
(* The worker. *)

\* (Mutant: any configuration that is enabled will do.)
EnabledNow(version) == webhook.enabled

InForce(version) == webhook.enabled /\ webhook.version = version

\* The sweep before a claim: deliveries of configurations that are gone, and attempts that ran out.
Swept(d) ==
    IF d.status \in Undecided /\ ~InForce(d.version) THEN Cancelled(d)
    ELSE IF d.status = "sending" /\ d.tries >= MaxTries /\ d.expired
    THEN [d EXCEPT !.status = "failed", !.expired = FALSE]
    ELSE d

\* (Mutant: what a crash left behind is not taken back.)
WaitingOnly(d) ==
    d.tries < MaxTries /\ (d.status = "pending" \/ (d.status = "retry-wait" /\ d.due))

Claimable(d) ==
    /\ d.tries < MaxTries
    /\ \/ d.status = "pending"
       \/ (d.status = "retry-wait" /\ d.due)
       \/ (d.status = "sending" /\ d.expired)

\* The sweep and the claim of the oldest are one transaction; the number of tries is the token.
ClaimDelivery ==
    /\ courier.at = "idle"
    /\ LET swept == [n \in Notices |-> Swept(deliveries[n])]
           open == {n \in Notices : Claimable(swept[n])}
           n == CHOOSE m \in open : \A k \in open : m <= k
       IN  IF open = {} THEN swept # deliveries /\ deliveries' = swept /\ UNCHANGED courier
           ELSE /\ deliveries' = [swept EXCEPT ![n].status = "sending", ![n].tries = @ + 1,
                                               ![n].due = FALSE, ![n].expired = FALSE]
                /\ courier' = [at |-> "claimed", n |-> n, version |-> swept[n].version,
                               token |-> swept[n].tries + 1]
    /\ UNCHANGED <<notices, webhook, accepted, mishaps>>

Holds == LET d == deliveries[courier.n] IN d.status = "sending" /\ d.tries = courier.token

Outcome(o) == courier' = [at |-> "sent", n |-> courier.n, version |-> courier.version,
                          token |-> courier.token, outcome |-> o]

\* The configuration is read again just before the request.
RecheckWebhook ==
    /\ courier.at = "claimed"
    /\ IF InForce(courier.version) /\ Holds THEN courier' = [courier EXCEPT !.at = "sending"]
                                            ELSE Outcome("rejected")
    /\ UNCHANGED <<notices, webhook, deliveries, accepted, mishaps>>

\* The endpoint takes it, and its answer arrives or is lost; or it refuses; or nothing gets there.
Transmit ==
    /\ courier.at = "sending"
    /\ \/ /\ accepted' = accepted \cup {<<courier.n, courier.version>>}
          /\ Outcome("delivered") \/ Outcome("retryable")
       \/ /\ UNCHANGED accepted
          /\ Outcome("retryable") \/ Outcome("unauthorized") \/ Outcome("rejected")
    /\ UNCHANGED <<notices, webhook, deliveries, mishaps>>

\* How a delivery ends, and what that says of the webhook.
Settled(outcome) ==
    IF ~InForce(courier.version) THEN <<"cancelled", "unavailable">>
    ELSE CASE outcome = "delivered" -> <<"succeeded", "healthy">>
           [] outcome = "retryable" /\ courier.token < MaxTries -> <<"retry-wait", "degraded">>
           [] outcome = "unauthorized" -> <<"failed", "unauthorized">>
           [] OTHER -> <<"failed", "unavailable">>

\* Only a lease that is still held is settled, and only the configuration it was for is told.
SettleDelivery ==
    /\ courier.at = "sent"
    /\ LET d == deliveries[courier.n]
           result == Settled(courier.outcome)
           held == Holds /\ ~d.expired
       IN  /\ deliveries' = IF held THEN [deliveries EXCEPT ![courier.n].status = result[1]]
                            ELSE deliveries
           /\ webhook' = IF held /\ InForce(courier.version)
                         THEN [webhook EXCEPT !.health = result[2]] ELSE webhook
    /\ courier' = NoCourier
    /\ UNCHANGED <<notices, accepted, mishaps>>

\* The process dies, or a write fails, and what the worker held waits for its lease.
DropDelivery ==
    /\ NoticeFault
    /\ courier.at # "idle"
    /\ courier' = NoCourier
    /\ UNCHANGED <<notices, webhook, deliveries, accepted>>

-----------------------------------------------------------------------------
(* Time. *)

\* A lease is longer than a send takes: it runs out under a worker only if that stalls.
DeliveryLeaseExpires(n) ==
    /\ deliveries[n].status = "sending" /\ ~deliveries[n].expired
    /\ deliveries' = [deliveries EXCEPT ![n].expired = TRUE]
    /\ IF courier.at # "idle" /\ courier.n = n THEN NoticeFault ELSE UNCHANGED mishaps
    /\ UNCHANGED <<notices, webhook, courier, accepted>>

RetryComesDue(n) ==
    /\ deliveries[n].status = "retry-wait" /\ ~deliveries[n].due
    /\ deliveries' = [deliveries EXCEPT ![n].due = TRUE]
    /\ UNCHANGED <<notices, webhook, courier, accepted, mishaps>>

NoticeNext ==
    \/ Notify \/ SaveWebhook \/ DeleteWebhook
    \/ \E n \in Notices : MarkRead({n}) \/ DeliveryLeaseExpires(n) \/ RetryComesDue(n)
    \/ MarkRead(Notices)
    \/ ClaimDelivery \/ RecheckWebhook \/ Transmit \/ SettleDelivery \/ DropDelivery

NoticeSpec == NoticeInit /\ [][NoticeNext]_noticeVars

-----------------------------------------------------------------------------
(* Properties. *)

\* Whatever the webhook was changed to while a delivery was on its way: a delivery that is reported
\* as made was taken by the endpoint of its own configuration, and the health that is shown is that
\* of the configuration in force, told by a delivery of that configuration.
HealthIsItsOwn ==
    /\ \A n \in Notices : deliveries[n].status = "succeeded" => <<n, deliveries[n].version>> \in accepted
    /\ LET own == {n \in Notices : deliveries[n].version = webhook.version}
       IN  /\ webhook.health = "healthy" => \E n \in own : deliveries[n].status = "succeeded"
           /\ webhook.health = "unauthorized" => \E n \in own : deliveries[n].status = "failed"
           /\ webhook.health # "unconfigured" => \E n \in own : deliveries[n].tries > 0

\* Every delivery ends, through crashes, lost answers and changes of the webhook.
DeliveriesEnd ==
    \A n \in Notices : deliveries[n].status \in Undecided ~> deliveries[n].status \in DeliveryEnded
=============================================================================
