---------------------------- MODULE FencedLease ----------------------------
(***************************************************************************)
(* What a leased row of the MediaFlow database promises to the workers     *)
(* that run it.  An agent that is granted a resource receives a ticket     *)
(* with a grant number no earlier grant of that resource had.  Only the    *)
(* agent whose ticket carries the number the resource is held under may    *)
(* finish it; an agent that was taken over keeps a ticket that is worth    *)
(* nothing.  A lease that has lapsed may be granted to somebody else, or   *)
(* revoked, without asking the agent that held it.                         *)
(*                                                                         *)
(* The processing task store (tasks/processing/store.rs) implements it     *)
(* with the columns version, lease_owner and lease_expires_at_us; see      *)
(* ProcessingTask!Lease.                                                   *)
(***************************************************************************)
EXTENDS Integers

CONSTANTS Agents,      \* who may hold a lease
          Resources    \* what is leased

VARIABLES holder,      \* [Resources -> Nat]: the grant it is held under, 0 if free
          issued,      \* [Resources -> Nat]: the last number used
          lapsed,      \* [Resources -> BOOLEAN]: held, and open to a takeover
          ticket       \* [Agents -> Ticket \cup {NoTicket}]

vars == <<holder, issued, lapsed, ticket>>

Ticket == [resource : Resources, grant : Nat]
NoTicket == [grant |-> 0]

\* Agent a may still finish resource r.
Valid(a, r) ==
    /\ ticket[a] # NoTicket
    /\ ticket[a].resource = r
    /\ holder[r] # 0
    /\ ticket[a].grant = holder[r]

TypeOK ==
    /\ holder \in [Resources -> Nat]
    /\ issued \in [Resources -> Nat]
    /\ lapsed \in [Resources -> BOOLEAN]
    /\ ticket \in [Agents -> Ticket \cup {NoTicket}]

Init ==
    /\ holder = [r \in Resources |-> 0]
    /\ issued = [r \in Resources |-> 0]
    /\ lapsed = [r \in Resources |-> FALSE]
    /\ ticket = [a \in Agents |-> NoTicket]

(***************************************************************************)
(* The steps.                                                              *)
(***************************************************************************)

\* A free or lapsed resource goes to agent a under a number never used before.
Grant(a, r) ==
    /\ ticket[a] = NoTicket
    /\ holder[r] = 0 \/ lapsed[r]
    /\ holder' = [holder EXCEPT ![r] = issued[r] + 1]
    /\ issued' = [issued EXCEPT ![r] = issued[r] + 1]
    /\ ticket' = [ticket EXCEPT ![a] = [resource |-> r, grant |-> issued[r] + 1]]
    /\ lapsed' = [lapsed EXCEPT ![r] = FALSE]

\* The holder extends its lease; it may do so late, as long as nobody took over.
Renew(a, r) ==
    /\ Valid(a, r)
    /\ lapsed' = [lapsed EXCEPT ![r] = FALSE]
    /\ UNCHANGED <<holder, issued, ticket>>

\* The holder finishes the resource, and may or may not forget its ticket at once.
Finish(a, r) ==
    /\ Valid(a, r)
    /\ holder' = [holder EXCEPT ![r] = 0]
    /\ lapsed' = [lapsed EXCEPT ![r] = FALSE]
    /\ issued' = [issued EXCEPT ![r] = issued[r] + 1]
    /\ ticket' \in {ticket, [ticket EXCEPT ![a] = NoTicket]}

\* An agent gives up its ticket, valid or not; the resource does not notice.
Drop(a) ==
    /\ ticket' = [ticket EXCEPT ![a] = NoTicket]
    /\ UNCHANGED <<holder, issued, lapsed>>

\* Every agent dies with its ticket.
Crash ==
    /\ ticket' = [a \in Agents |-> NoTicket]
    /\ UNCHANGED <<holder, issued, lapsed>>

\* Time passes over a lease that was not renewed.
Lapse(r) ==
    /\ holder[r] # 0
    /\ lapsed' = [lapsed EXCEPT ![r] = TRUE]
    /\ UNCHANGED <<holder, issued, ticket>>

\* Every lapsed lease is taken from its holder, and none that is still running.
RevokeLapsed ==
    /\ holder' = [r \in Resources |-> IF lapsed[r] THEN 0 ELSE holder[r]]
    /\ issued' = [r \in Resources |-> IF lapsed[r] THEN issued[r] + 1 ELSE issued[r]]
    /\ lapsed' = [r \in Resources |-> FALSE]
    /\ UNCHANGED ticket

\* Somebody other than an agent changes a set of free resources: numbers are used up.
Touch(free) ==
    /\ \A r \in free : holder[r] = 0
    /\ issued' = [r \in Resources |-> IF r \in free THEN issued[r] + 1 ELSE issued[r]]
    /\ UNCHANGED <<holder, lapsed, ticket>>

Next ==
    \/ \E a \in Agents, r \in Resources : Grant(a, r) \/ Renew(a, r) \/ Finish(a, r)
    \/ \E a \in Agents : Drop(a)
    \/ \E r \in Resources : Lapse(r)
    \/ \E free \in SUBSET Resources : Touch(free)
    \/ RevokeLapsed
    \/ Crash

Spec == Init /\ [][Next]_vars

(***************************************************************************)
(* What follows from it.                                                   *)
(***************************************************************************)

\* Two agents never both hold a ticket that would let them finish one resource.
MutualExclusion ==
    \A a, b \in Agents, r \in Resources : Valid(a, r) /\ Valid(b, r) => a = b

\* No ticket and no holder carries a number above the last one issued.
NumbersIssued ==
    /\ \A r \in Resources : holder[r] <= issued[r]
    /\ \A a \in Agents :
        ticket[a] # NoTicket =>
            /\ ticket[a].grant # 0
            /\ ticket[a].grant <= issued[ticket[a].resource]

\* A grant number never comes back: a worker that lost its lease stays locked out.
NeverReissued ==
    [][\A r \in Resources :
        holder'[r] \notin {0, holder[r]} => holder'[r] > issued[r]]_vars
=============================================================================
