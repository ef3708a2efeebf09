----------------------------- MODULE MCServices -----------------------------
(* The services around the pipeline share no state with one another, so a     *)
(* behaviour follows one of them and the rest stand still.                    *)
EXTENDS EventStream, Notifications, DownloaderClients, OrganizationPlans,
        Territories, CapabilityCalls, Identity, Backups, Paging

VARIABLE focus   \* the service this behaviour follows

Focuses == {"stream", "notices", "client", "plans", "territories", "calls", "identity", "backups",
             "pages"}

serviceVars == <<streamVars, noticeVars, clientVars, planVars, territoryVars, callVars,
                 identityVars, backupVars, pageVars, focus>>

Init ==
    /\ focus \in Focuses
    /\ StreamInit /\ NoticeInit /\ ClientInit /\ PlanInit
    /\ TerritoryInit /\ CallInit /\ IdentityInit /\ BackupInit
    /\ PageInit
    /\ focus # "client" => peer.of = (CHOOSE p \in Transmissions : TRUE) /\ call.op = "add"
    /\ focus # "plans" => target.saved[1] = CHOOSE c \in TargetConfigs : TRUE
    /\ focus # "identity" => account
    /\ focus # "backups" => before.schema = Release
    /\ focus # "pages" => walk.list = "inboxes"

\* Those that the behaviour does not follow stand still.
Still(service, v) == focus # service => UNCHANGED v

Next ==
    /\ UNCHANGED focus
    /\ Still("stream", streamVars) /\ Still("notices", noticeVars) /\ Still("client", clientVars)
    /\ Still("plans", planVars) /\ Still("territories", territoryVars) /\ Still("calls", callVars)
    /\ Still("identity", identityVars) /\ Still("backups", backupVars)
    /\ Still("pages", pageVars)
    /\ \/ focus = "stream" /\ StreamNext
       \/ focus = "notices" /\ NoticeNext
       \/ focus = "client" /\ ClientNext
       \/ focus = "plans" /\ PlanNext
       \/ focus = "territories" /\ TerritoryNext
       \/ focus = "calls" /\ CallNext
       \/ focus = "identity" /\ IdentityNext
       \/ focus = "backups" /\ BackupNext
       \/ focus = "pages" /\ PageNext

\* A client reconnects, and an open stream is served.
StreamServed ==
    WF_streamVars(focus = "stream" /\ (Connect \/ Revalidate \/ Send \/ Close \/ Fetch \/ Wake))

\* The loop of the worker that delivers notices runs, and time passes.
NoticesServed ==
    /\ WF_noticeVars(focus = "notices"
                        /\ (ClaimDelivery \/ RecheckWebhook \/ Transmit \/ SettleDelivery))
    /\ \A n \in Notices :
        /\ WF_noticeVars(focus = "notices" /\ RetryComesDue(n))
        /\ WF_noticeVars(focus = "notices" /\ courier.at = "idle" /\ DeliveryLeaseExpires(n))

Spec == Init /\ [][Next]_serviceVars /\ StreamServed /\ NoticesServed

\* Directories below a root: one in another, and one apart.
Tree == {<<"a">>, <<"a", "b">>, <<"c">>}
=============================================================================
