-------------------------- MODULE MCProcessingTask --------------------------
(* The sets TLC checks ProcessingTask with, and the symmetry they have.     *)
EXTENDS ProcessingTask, TLC

\* The workers of one runtime only differ in their names.  The tasks differ in their age.
AnyWorker == Permutations(Workers) \cup Permutations(Keys)
=============================================================================
