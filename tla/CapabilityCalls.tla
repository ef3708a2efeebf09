--------------------------- MODULE CapabilityCalls --------------------------
(* The gateway an assistant calls: a call is claimed, run and recorded in     *)
(* separate transactions, and the same call can arrive again at any time.     *)
EXTENDS Naturals, FiniteSets

CONSTANTS
    CallIds,      \* request identities
    CallKeys,     \* idempotency keys, each of one capability
    Bodies,       \* what a call asks for; a changed body has another fingerprint
    Deliveries,   \* arrivals of calls that can be under way at once
    Unhandled     \* keys whose capability is registered and has no handler

VARIABLES
    claims,      \* by request identity: unclaimed, or key, body and state
    records,     \* by request identity: the recorded result, 0 for none
    arrivals,    \* by delivery: the call and how far it is
    executions,  \* the executions: number, request identity and key
    answered     \* the results that callers were given: call and result

callVars == <<claims, records, arrivals, executions, answered>>

Unclaimed == [state |-> "none"]
Idle == [at |-> "idle"]

CallInit ==
    /\ claims = [r \in CallIds |-> Unclaimed]
    /\ records = [r \in CallIds |-> 0]
    /\ arrivals = [d \in Deliveries |-> Idle]
    /\ executions = {}
    /\ answered = {}

-----------------------------------------------------------------------------
(* Claims. *)

\* (Mutant: another request may reuse the key of a call that is still running.)
OccupiedWhenDone(c) ==
    \E r \in CallIds : claims[r].state = "completed" /\ claims[r].key = c.key

\* Somebody else's call has the key.
Occupied(c) == \E r \in CallIds : claims[r] # Unclaimed /\ claims[r].key = c.key

\* What the claims say of a call.
Verdict(c) ==
    LET claim == claims[c.request] IN
    CASE claim = Unclaimed /\ Occupied(c) -> "conflict"
      [] claim = Unclaimed /\ ~Occupied(c) -> "free"
      [] claim # Unclaimed /\ (claim.key # c.key \/ claim.body # c.body) -> "conflict"
      [] claim.state = "completed" /\ claim.key = c.key /\ claim.body = c.body -> "replay"
      [] OTHER -> "pending"

Go(d, state) == arrivals' = [arrivals EXCEPT ![d] = state]

\* A replay answers with the record; a conflict and a pending call are refused.
Settle(d) ==
    /\ Go(d, Idle)
    /\ answered' = LET c == arrivals[d].call IN
                   IF Verdict(c) = "replay" THEN answered \cup {[call |-> c, result |-> records[c.request]]}
                   ELSE answered

-----------------------------------------------------------------------------
(* A delivery of a call. *)

\* It passed authentication, and its capability is registered.
Arrive(d) ==
    /\ arrivals[d] = Idle
    /\ \E c \in [request : CallIds, key : CallKeys, body : Bodies] :
        Go(d, [at |-> "check", call |-> c])
    /\ UNCHANGED <<claims, records, executions, answered>>

\* Has it been claimed already?
CheckClaim(d) ==
    /\ arrivals[d].at = "check"
    /\ IF Verdict(arrivals[d].call) = "free"
       THEN Go(d, [arrivals[d] EXCEPT !.at = "preflight"]) /\ UNCHANGED answered
       ELSE Settle(d)
    /\ UNCHANGED <<claims, records, executions>>

\* Input, mode and the task's version may refuse it, which leaves no trace.
Preflight(d) ==
    /\ arrivals[d].at = "preflight"
    /\ \/ Go(d, Idle)
       \/ Go(d, [arrivals[d] EXCEPT !.at = "reserve"])
    /\ UNCHANGED <<claims, records, executions, answered>>

Reserve(d) ==
    /\ arrivals[d].at = "reserve"
    /\ LET c == arrivals[d].call IN
        IF Verdict(c) = "free"
        THEN /\ claims' = [claims EXCEPT ![c.request] =
                                [state |-> "pending", key |-> c.key, body |-> c.body]]
             /\ Go(d, [arrivals[d] EXCEPT !.at = "execute"])
             /\ UNCHANGED answered
        ELSE Settle(d) /\ UNCHANGED claims
    /\ UNCHANGED <<records, executions>>

\* The handler runs, and has a result whether it succeeds or fails.  Without a handler the call
\* is refused, and its claim stays pending.
Execute(d) ==
    /\ arrivals[d].at = "execute"
    /\ LET c == arrivals[d].call
           number == Cardinality(executions) + 1
       IN  IF c.key \in Unhandled THEN Go(d, Idle) /\ UNCHANGED executions
           ELSE /\ executions' = executions \cup {[number |-> number, request |-> c.request, key |-> c.key]}
                /\ Go(d, [at |-> "persist", call |-> c, result |-> number])
    /\ UNCHANGED <<claims, records, answered>>

\* Result, event and completion are one transaction; if it fails the claim stays pending.
Persist(d) ==
    /\ arrivals[d].at = "persist"
    /\ LET c == arrivals[d].call
           result == arrivals[d].result
       IN  \/ UNCHANGED <<claims, records, answered>>
           \/ /\ claims[c.request].state = "pending"
              /\ claims' = [claims EXCEPT ![c.request].state = "completed"]
              /\ records' = [records EXCEPT ![c.request] = result]
              /\ answered' = answered \cup {[call |-> c, result |-> result]}
    /\ Go(d, Idle)
    /\ UNCHANGED executions

\* The process dies; claims that were under way stay pending, and nothing takes them back.
GatewayCrash ==
    /\ \E d \in Deliveries : arrivals[d] # Idle
    /\ arrivals' = [d \in Deliveries |-> Idle]
    /\ UNCHANGED <<claims, records, executions, answered>>

CallNext ==
    \/ GatewayCrash
    \/ \E d \in Deliveries :
        \/ Arrive(d) \/ CheckClaim(d) \/ Preflight(d) \/ Reserve(d) \/ Execute(d) \/ Persist(d)

CallSpec == CallInit /\ [][CallNext]_callVars

-----------------------------------------------------------------------------
(* Properties. *)

\* However a call is repeated, raced by a copy of itself, altered or cut short by a crash: each
\* key is executed once at most, and every caller that gets a result gets that of the execution
\* of exactly its own call.
RunsOnce ==
    /\ \A e, f \in executions : e.key = f.key => e = f
    /\ \A x \in answered :
        /\ \E e \in executions : e.number = x.result /\ e.request = x.call.request /\ e.key = x.call.key
        /\ \A y \in answered : x.call.request = y.call.request => x = y
=============================================================================
