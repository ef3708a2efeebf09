------------------------------- MODULE MCScan -------------------------------
(* What may happen while TLC checks scan tasks, and how often.               *)
EXTENDS ScanTask, TLC

CONSTANT Relief   \* the worker that comes in by taking a task over

Anything == {"change", "request", "crash", "lapse", "fault", "unmount"}
\* Files, keys and slots differ only in their names.
Names == Permutations(Facts) \cup Permutations(Keys) \cup Permutations(Tasks)

Few == [change |-> 1, request |-> 2, upset |-> 1, all |-> 4]

\* The runtime starts one worker.  Another comes in when a lease lapsed under the first, who goes
\* on beside it; what the two do is followed for one incident less.
Relieves ==
    scan'[Relief] # NoScan =>
        /\ scan[Relief] = NoScan => \E w \in Workers : scan[w].task = scan'[Relief].task
        /\ spent'["all"] < Limits["all"]

\* The age of facts is only read of a revision under observation: it may as well come about then.
AgesWhenRead == \A f \in old' \ old : \E p \in Paths : tracked[p].revision[f].status = "observing"

Next == ScanNext /\ Relieves /\ AgesWhenRead

Spec == ScanInit /\ [][Next]_<<files, scans, absent, world>>
=============================================================================
