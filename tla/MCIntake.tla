------------------------------ MODULE MCIntake ------------------------------
(* What may happen to the inbox, its users and the process while TLC checks *)
(* the intake of files, and how often.                                      *)
EXTENDS Reconcile, TLC

\* One thing goes wrong that may lose a hint, around a change of a file.
Losses == {"change", "crash", "watch"}

Once == [change |-> 1, request |-> 0, upset |-> 1, all |-> 2]

\* Everybody schedules: two of these happen, among them at most one of each kind but two changes.
Schedulers == {"change", "ask", "policy", "crash", "unmount", "tick"}

Twice == [change |-> 2, request |-> 1, upset |-> 1, all |-> 2]

Slots == Permutations(Tasks)
=============================================================================
