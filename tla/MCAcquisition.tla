---------------------------- MODULE MCAcquisition ---------------------------
(* Automation with its downloads, on two downloads, two events and one feed item. *)
EXTENDS Automation

\* What may happen: at most twice in all.
MCHappens == [fault |-> 1, admin |-> 2, user |-> 1, feed |-> 2, all |-> 2]

FairSpec == AcquisitionSpec /\ AcquisitionFairness
=============================================================================
