------------------------- MODULE OrganizationPlans -------------------------
(* The plans of one task: the planning stage derives them from the target's   *)
(* configuration and what lies at the destination, people recalculate and     *)
(* approve them, agents deliver what was approved, and the executor runs the  *)
(* newest one.  Every command is a series of short transactions.              *)
EXTENDS Naturals, SequencesExt

CONSTANTS
    MaxChanges,    \* changes of the target and of the destination
    MaxPlans,      \* plans of the task
    Callers,       \* requests that can be under way at once
    MaxRequests,   \* requests in all
    PlanKeys       \* their idempotency keys

ASSUME PlanAssumption ==
    MaxChanges \in Nat /\ MaxPlans \in Nat \ {0} /\ MaxRequests \in Nat

VARIABLES
    target,      \* the configurations it had, the last in force, and whether it still exists
    taken,       \* whether something lies at the destination
    plans,       \* the plans by version: what each was drawn from, and its approval
    planning,    \* the task, while its planning stage and its file stage last
    planner,     \* the worker in the planning stage
    requests,    \* the requests under way, by caller
    receipts,    \* for each key, the recalculation that it made
    asked        \* requests so far

planVars == <<target, taken, plans, planning, planner, requests, receipts, asked>>

\* What the target says of a file: whether plans run by themselves, and whether a rule matches.
TargetConfigs == [automatic : BOOLEAN, matches : BOOLEAN]

NoPlan == 0
NoApproval == [key |-> "none", shown |-> 0]
NoReceipt == [plan |-> NoPlan]
IdlePlanner == [at |-> "idle"]
NoPlanRequest == [at |-> "none"]

PlanInit ==
    /\ \E c \in TargetConfigs : target = [exists |-> TRUE, saved |-> <<c>>]
    /\ taken = FALSE
    /\ plans = <<>>
    /\ planning = [status |-> "queued", ran |-> NoPlan]
    /\ planner = IdlePlanner
    /\ requests = [c \in Callers |-> NoPlanRequest]
    /\ receipts = [k \in PlanKeys |-> NoReceipt]
    /\ asked = 0

Newest == Len(plans)

-----------------------------------------------------------------------------
(* What a plan is drawn from. *)

\* The target's row and its rules are two reads: they can be of two versions.
\* A rule set that went with its target matches nothing.
Drawn(row, rules, there) ==
    [row |-> row, rules |-> rules, automatic |-> target.saved[row].automatic,
     matches |-> rules # 0 /\ target.saved[rules].matches, taken |-> there]

RowNow == Len(target.saved)
RulesNow == IF target.exists THEN Len(target.saved) ELSE 0

\* Something at the destination is a risk that nobody may override.
OnItsOwn(draft) == ~draft.taken /\ draft.automatic /\ draft.matches
Overridable(draft) == ~draft.taken

Approved(p) == plans[p].approval # NoApproval
Authorized(p) == Approved(p) \/ OnItsOwn(plans[p].draft)

Persisted(draft) == Append(plans, [draft |-> draft, approval |-> NoApproval])

-----------------------------------------------------------------------------
(* The target and the file system. *)

Changes == Len(target.saved) - 1 + (IF target.exists THEN 0 ELSE 1) + (IF taken THEN 1 ELSE 0)

MayChange == Changes < MaxChanges

ReplaceTarget ==
    /\ target.exists /\ MayChange
    /\ \E c \in TargetConfigs \ {Last(target.saved)} : target' = [target EXCEPT !.saved = Append(@, c)]
    /\ UNCHANGED <<taken, plans, planning, planner, requests, receipts, asked>>

\* Refused while a plan refers to it that has no finished result.
DeleteTarget ==
    /\ target.exists /\ plans = <<>> /\ MayChange
    /\ target' = [target EXCEPT !.exists = FALSE]
    /\ UNCHANGED <<taken, plans, planning, planner, requests, receipts, asked>>

Obstruct ==
    /\ ~taken /\ MayChange
    /\ taken' = TRUE
    /\ UNCHANGED <<target, plans, planning, planner, requests, receipts, asked>>

-----------------------------------------------------------------------------
(* The planning stage. *)

PlannerTo(state) == planner' = state

ClaimPlanning ==
    /\ planning.status = "queued" /\ planner = IdlePlanner
    /\ planning' = [planning EXCEPT !.status = "running"]
    /\ PlannerTo([at |-> "row"])
    /\ UNCHANGED <<target, taken, plans, requests, receipts, asked>>

\* Without a target no plan can be drawn, and the task pauses.
ReadRow ==
    /\ planner.at = "row"
    /\ IF target.exists THEN PlannerTo([at |-> "rules", row |-> RowNow]) /\ UNCHANGED planning
       ELSE PlannerTo(IdlePlanner) /\ planning' = [planning EXCEPT !.status = "paused"]
    /\ UNCHANGED <<target, taken, plans, requests, receipts, asked>>

ReadRules ==
    /\ planner.at = "rules"
    /\ PlannerTo([at |-> "compare", draft |-> Drawn(planner.row, RulesNow, taken)])
    /\ UNCHANGED <<target, taken, plans, planning, requests, receipts, asked>>

\* The newest plan serves if it says the same; its approval is read with it.
Compare ==
    /\ planner.at = "compare"
    /\ PlannerTo(IF Newest > 0 /\ plans[Newest].draft = planner.draft
                 THEN [at |-> "finish", plan |-> Newest, go |-> Authorized(Newest)]
                 ELSE [at |-> "persist", draft |-> planner.draft])
    /\ UNCHANGED <<target, taken, plans, planning, requests, receipts, asked>>

PersistNext ==
    /\ planner.at = "persist" /\ Newest < MaxPlans
    /\ plans' = Persisted(planner.draft)
    /\ PlannerTo([at |-> "finish", plan |-> Newest + 1, go |-> OnItsOwn(planner.draft)])
    /\ UNCHANGED <<target, taken, planning, requests, receipts, asked>>

FinishPlanning ==
    /\ planner.at = "finish"
    /\ planning' = [planning EXCEPT !.status = IF planner.go THEN "filing" ELSE "paused"]
    /\ PlannerTo(IdlePlanner)
    /\ UNCHANGED <<target, taken, plans, requests, receipts, asked>>

\* (Mutant: the file stage trusts the planning stage.)
RunsUnchecked(p) == TRUE

RunsNow(p) == Authorized(p)

\* The file stage runs the newest plan, whichever the planning stage went on with.
RunPlan ==
    /\ planning.status = "filing"
    /\ planning' = IF RunsNow(Newest) THEN [status |-> "ran", ran |-> Newest]
                   ELSE [planning EXCEPT !.status = "review"]
    /\ UNCHANGED <<target, taken, plans, planner, requests, receipts, asked>>

-----------------------------------------------------------------------------
(* Commands.  Each first reads the task, and goes by what it read. *)

Commandable == planning.status \in {"queued", "paused"}

Turn(c, r) == requests' = [requests EXCEPT ![c] = r]

\* People recalculate, or execute the plan they are shown; agents deliver it.
AskPlan(c) ==
    /\ requests[c].at = "none" /\ asked < MaxRequests
    /\ Commandable
    /\ asked' = asked + 1
    /\ \E k \in PlanKeys :
        \/ Turn(c, [at |-> "row", key |-> k, saw |-> planning.status])
        \/ /\ Newest > 0
           /\ \E kind \in {"execute", "deliver"} :
                Turn(c, [at |-> "check", kind |-> kind, key |-> k, saw |-> planning.status,
                         version |-> Newest])
    /\ UNCHANGED <<target, taken, plans, planning, planner, receipts>>

RecalculateRow(c) ==
    /\ requests[c].at = "row"
    /\ IF target.exists THEN Turn(c, [at |-> "rules", key |-> requests[c].key,
                                      saw |-> requests[c].saw, row |-> RowNow])
                        ELSE Turn(c, NoPlanRequest)
    /\ UNCHANGED <<target, taken, plans, planning, planner, receipts, asked>>

RecalculateRules(c) ==
    /\ requests[c].at = "rules"
    /\ Turn(c, [at |-> "recalculate", key |-> requests[c].key, saw |-> requests[c].saw,
                draft |-> Drawn(requests[c].row, RulesNow, taken)])
    /\ UNCHANGED <<target, taken, plans, planning, planner, receipts, asked>>

\* A new version with its receipt; the same key again finds what it made, or conflicts.
Recalculate(c) ==
    /\ requests[c].at = "recalculate"
    /\ LET r == requests[c]
           made == receipts[r.key].plan
       IN  IF made = NoPlan
           THEN /\ Newest < MaxPlans
                /\ plans' = Persisted(r.draft)
                /\ receipts' = [receipts EXCEPT ![r.key] = [plan |-> Newest + 1]]
                /\ Turn(c, [at |-> "resume", saw |-> r.saw])
           ELSE /\ UNCHANGED <<plans, receipts>>
                /\ Turn(c, IF plans[made].draft = r.draft THEN [at |-> "resume", saw |-> r.saw]
                           ELSE NoPlanRequest)
    /\ UNCHANGED <<target, taken, planning, planner, asked>>

\* Is the version that was shown still the newest?
CheckVersion(c) ==
    /\ requests[c].at = "check"
    /\ Turn(c, IF requests[c].version = Newest THEN [requests[c] EXCEPT !.at = requests[c].kind]
               ELSE NoPlanRequest)
    /\ UNCHANGED <<target, taken, plans, planning, planner, receipts, asked>>

\* The newest plan is read, which need not be the one that was checked any more.
ReadApproved(c) ==
    /\ requests[c].at = "execute"
    /\ Turn(c, IF Overridable(plans[Newest].draft)
               THEN [at |-> "approve", key |-> requests[c].key, saw |-> requests[c].saw,
                     version |-> requests[c].version, plan |-> Newest]
               ELSE NoPlanRequest)
    /\ UNCHANGED <<target, taken, plans, planning, planner, receipts, asked>>

\* One approval for a plan, and one plan for a key.
Approve(c) ==
    /\ requests[c].at = "approve"
    /\ LET r == requests[c]
           used == \E p \in 1 .. Newest : plans[p].approval.key = r.key
       IN  /\ plans' = IF ~Approved(r.plan) /\ ~used
                       THEN [plans EXCEPT ![r.plan].approval = [key |-> r.key, shown |-> r.version]]
                       ELSE plans
           /\ Turn(c, IF (~Approved(r.plan) /\ ~used) \/ plans[r.plan].approval.key = r.key
                      THEN [at |-> "resume", saw |-> r.saw] ELSE NoPlanRequest)
    /\ UNCHANGED <<target, taken, planning, planner, receipts, asked>>

\* An agent's call goes on only if a person approved the version it names.
Deliver(c) ==
    /\ requests[c].at = "deliver"
    /\ Turn(c, IF \E p \in 1 .. Newest : plans[p].approval.shown = requests[c].version
               THEN [at |-> "resume", saw |-> requests[c].saw] ELSE NoPlanRequest)
    /\ UNCHANGED <<target, taken, plans, planning, planner, receipts, asked>>

\* A task that was seen queued is left alone; else it is retried, if that is still possible.
ResumePlanning(c) ==
    /\ requests[c].at = "resume"
    /\ planning' = IF requests[c].saw # "queued" /\ planning.status = "paused"
                   THEN [planning EXCEPT !.status = "queued"] ELSE planning
    /\ Turn(c, NoPlanRequest)
    /\ UNCHANGED <<target, taken, plans, planner, receipts, asked>>

PlanNext ==
    \/ ReplaceTarget \/ DeleteTarget \/ Obstruct
    \/ ClaimPlanning \/ ReadRow \/ ReadRules \/ Compare \/ PersistNext \/ FinishPlanning \/ RunPlan
    \/ \E c \in Callers :
        \/ AskPlan(c) \/ RecalculateRow(c) \/ RecalculateRules(c) \/ Recalculate(c)
        \/ CheckVersion(c) \/ ReadApproved(c) \/ Approve(c) \/ Deliver(c) \/ ResumePlanning(c)

PlanSpec == PlanInit /\ [][PlanNext]_planVars

-----------------------------------------------------------------------------
(* Properties. *)

\* However recalculations, approvals, deliveries and changes of the target overtake the stages of
\* the task: what runs was allowed by the configuration it was drawn from or approved by a person,
\* and never lies over something that was known to be there.
OnlyAuthorizedRuns ==
    planning.ran # NoPlan =>
        /\ Overridable(plans[planning.ran].draft)
        /\ OnItsOwn(plans[planning.ran].draft) \/ Approved(planning.ran)

=============================================================================
