------------------------- MODULE FencedLease_proofs -------------------------
(***************************************************************************)
(* Proofs about FencedLease, for any agents and resources: its types, that *)
(* no two agents can finish one resource, and that a grant number never    *)
(* comes back.                                                             *)
(***************************************************************************)
EXTENDS FencedLease, TLAPS

\* The inductive invariant: what MutualExclusion needs is that two tickets of one
\* resource never carry one number.
TicketsDiffer ==
    \A a, b \in Agents :
        (ticket[a] # NoTicket /\ ticket[b] # NoTicket /\ ticket[a] = ticket[b]) => a = b

Inv == TypeOK /\ NumbersIssued /\ TicketsDiffer

LEMMA TicketFields ==
    /\ \A x \in Ticket : x.resource \in Resources /\ x.grant \in Nat
    /\ NoTicket \notin Ticket
    /\ NoTicket.grant = 0
BY DEF Ticket, NoTicket

LEMMA InitInv == Init => Inv
BY DEF Init, Inv, TypeOK, NumbersIssued, TicketsDiffer, NoTicket

LEMMA NextInv == Inv /\ [Next]_vars => Inv'
<1> SUFFICES ASSUME Inv, [Next]_vars PROVE Inv'
  OBVIOUS
<1> USE DEF Inv, TypeOK, NumbersIssued, TicketsDiffer
<1>1. ASSUME NEW a \in Agents, NEW r \in Resources, Grant(a, r) PROVE Inv'
  <2>1. issued'[r] = issued[r] + 1 /\ issued[r] \in Nat
    BY <1>1 DEF Grant
  <2> DEFINE new == [resource |-> r, grant |-> issued[r] + 1]
  <2>2. new \in Ticket /\ new # NoTicket /\ new.resource = r /\ new.grant = issued[r] + 1
    BY <2>1 DEF Ticket, NoTicket
  <2>3. ticket' = [ticket EXCEPT ![a] = new]
    BY <1>1 DEF Grant
  <2> HIDE DEF new
  <2>4. TypeOK'
    BY <1>1, <2>1, <2>2, <2>3 DEF Grant
  <2>5. NumbersIssued'
    <3>1. \A q \in Resources : holder'[q] <= issued'[q] /\ issued[q] <= issued'[q]
      BY <1>1, <2>1 DEF Grant
    <3>2. ASSUME NEW b \in Agents, ticket'[b] # NoTicket
          PROVE  ticket'[b].grant # 0 /\ ticket'[b].grant <= issued'[ticket'[b].resource]
      <4>1. CASE b = a
        BY <4>1, <2>1, <2>2, <2>3
      <4>2. CASE b # a
        <5>1. ticket'[b] = ticket[b] /\ ticket[b] \in Ticket
          BY <4>2, <2>3, <3>2
        <5>2. ticket[b].resource \in Resources /\ ticket[b].grant \in Nat
          BY <5>1, TicketFields
        <5>3. /\ issued[ticket[b].resource] \in Nat /\ issued'[ticket[b].resource] \in Nat
              /\ issued[ticket[b].resource] <= issued'[ticket[b].resource]
          BY <5>2, <2>4, <3>1
        <5> QED  BY <5>1, <5>2, <5>3, <3>2
      <4> QED  BY <4>1, <4>2
    <3> QED  BY <3>1, <3>2
  <2>6. TicketsDiffer'
    <3>1. \A b \in Agents : ticket[b] # NoTicket => ticket[b] # new
      BY <2>1, <2>2, TicketFields
    <3> QED  BY <2>3, <3>1
  <2> QED  BY <2>4, <2>5, <2>6
<1>2. ASSUME NEW a \in Agents, NEW r \in Resources, Renew(a, r) PROVE Inv'
  BY <1>2 DEF Renew
<1>3. ASSUME NEW a \in Agents, NEW r \in Resources, Finish(a, r) PROVE Inv'
  <2>1. TypeOK'
    BY <1>3 DEF Finish
  <2>2. \A q \in Resources : holder'[q] <= issued'[q] /\ issued[q] <= issued'[q]
    BY <1>3 DEF Finish
  <2>3. \A b \in Agents : ticket'[b] # NoTicket => ticket'[b] = ticket[b]
    BY <1>3 DEF Finish
  <2>4. NumbersIssued'
    BY <2>1, <2>2, <2>3, TicketFields
  <2>5. TicketsDiffer'
    BY <2>3
  <2> QED  BY <2>1, <2>4, <2>5
<1>4. ASSUME NEW a \in Agents, Drop(a) PROVE Inv'
  BY <1>4 DEF Drop
<1>5. CASE Crash
  BY <1>5 DEF Crash
<1>6. ASSUME NEW r \in Resources, Lapse(r) PROVE Inv'
  BY <1>6 DEF Lapse
<1>7. CASE RevokeLapsed
  <2>1. TypeOK'
    BY <1>7 DEF RevokeLapsed
  <2>2. \A q \in Resources : holder'[q] <= issued'[q] /\ issued[q] <= issued'[q]
    BY <1>7 DEF RevokeLapsed
  <2>3. NumbersIssued'
    BY <1>7, <2>1, <2>2, TicketFields DEF RevokeLapsed
  <2> QED  BY <1>7, <2>1, <2>3 DEF RevokeLapsed
<1>8. ASSUME NEW free \in SUBSET Resources, Touch(free) PROVE Inv'
  <2>1. TypeOK'
    BY <1>8 DEF Touch
  <2>2. \A q \in Resources : holder'[q] <= issued'[q] /\ issued[q] <= issued'[q]
    BY <1>8 DEF Touch
  <2>3. NumbersIssued'
    BY <1>8, <2>1, <2>2, TicketFields DEF Touch
  <2> QED  BY <1>8, <2>1, <2>3 DEF Touch
<1>9. CASE UNCHANGED vars
  BY <1>9 DEF vars
<1> QED
  BY <1>1, <1>2, <1>3, <1>4, <1>5, <1>6, <1>7, <1>8, <1>9 DEF Next

\* The invariant of every behaviour.
THEOREM Invariant == Spec => []Inv
BY InitInv, NextInv, PTL DEF Spec

LEMMA InvExcludes == Inv => MutualExclusion
BY TicketFields DEF Inv, TypeOK, TicketsDiffer, MutualExclusion, Valid, Ticket, NoTicket

\* Two agents never both hold a ticket that would let them finish one resource: the
\* reason why a worker that was taken over cannot commit (renew, finish_*, store.rs).
THEOREM Exclusion == Spec => []MutualExclusion
BY Invariant, InvExcludes, PTL

LEMMA StepNeverReissues ==
    Inv /\ [Next]_vars =>
        [\A r \in Resources : holder'[r] \notin {0, holder[r]} => holder'[r] > issued[r]]_vars
<1> SUFFICES ASSUME Inv, Next, NEW q \in Resources, holder'[q] \notin {0, holder[q]}
             PROVE  holder'[q] > issued[q]
  OBVIOUS
<1> USE DEF Inv, TypeOK
<1>1. ASSUME NEW a \in Agents, NEW r \in Resources, Grant(a, r) PROVE holder'[q] > issued[q]
  BY <1>1 DEF Grant
<1>2. ASSUME NEW a \in Agents, NEW r \in Resources, Finish(a, r) PROVE holder'[q] > issued[q]
  BY <1>2 DEF Finish
<1>3. CASE RevokeLapsed
  BY <1>3 DEF RevokeLapsed
<1> QED
  BY <1>1, <1>2, <1>3 DEF Next, Renew, Drop, Crash, Lapse, Touch

\* A grant number never comes back: every new holder has one above all those issued.
THEOREM Fresh == Spec => NeverReissued
BY Invariant, StepNeverReissues, PTL DEF Spec, NeverReissued
=============================================================================
