--------------------------- MODULE MCOrganization ---------------------------
(* The plans TLC checks OrganizationExecution with, and what may happen to  *)
(* each of them.                                                            *)
EXTENDS OrganizationExecution, TLC

\* Runs differ only in their names; so do callers, and so do keys.
AnyActor == Permutations(Runners) \cup Permutations(Callers) \cup Permutations(Keys)

Plan(operation, placement, nfo) ==
    [operation |-> operation, placement |-> placement, nfo |-> nfo]

Once(incidents) == [i \in Incidents |-> IF i \in incidents THEN 1 ELSE 0]

Scenario(p, incidents) == [plan |-> p, limits |-> Once(incidents)]

Doubled(scenario) == [scenario EXCEPT !.limits.rollback = 2]

\* Every operation with a lost lease and a crash anywhere, and every operation taken back, all
\* but the quarantine by two requests.  No crash and no lost lease meets a rollback: the run
\* organization_move_rerun and the README say what happens then.
SafetyScenarios ==
    {Scenario(Plan("copy", "same", TRUE), {"crash", "fault", "lost", "user", "retry"}),
     Scenario(Plan("move", "bind", TRUE), {"crash", "fault", "lost"}),
     Scenario(Plan("move", "cross", FALSE), {"crash", "fault", "lost", "user"}),
     Scenario(Plan("hardlink", "same", FALSE), {"crash", "fault", "lost", "retry"}),
     Scenario(Plan("quarantine", "same", FALSE), {"crash", "fault", "lost", "user"}),
     Scenario(Plan("quarantine", "cross", FALSE), {"crash", "fault", "lost", "retry"}),
     Scenario(Plan("quarantine", "bind", FALSE), {"crash", "fault", "lost", "user", "retry"}),
     Scenario(Plan("quarantine", "same", FALSE), {"fault", "user", "rollback"}),
     Scenario(Plan("copy", "same", TRUE), {"fault", "user", "rollback"}),
     Doubled(Scenario(Plan("copy", "same", FALSE), {"fault", "user"})),
     Doubled(Scenario(Plan("copy", "same", TRUE), {})),
     Doubled(Scenario(Plan("hardlink", "same", FALSE), {"fault", "retry"})),
     Doubled(Scenario(Plan("move", "same", TRUE), {"fault"}))}

\* Every operation but the quarantine comes to rest.
RestScenarios ==
    {Scenario(Plan("copy", "same", TRUE), {"crash", "fault", "user", "retry"}),
     Scenario(Plan("move", "cross", TRUE), {"crash", "fault", "user", "retry"}),
     Scenario(Plan("move", "bind", FALSE), {"crash", "fault", "user", "retry"}),
     Scenario(Plan("hardlink", "same", TRUE), {"crash", "fault", "user", "retry"})}

QuarantineAcross == {Scenario(Plan("quarantine", "cross", FALSE), {})}

MoveTakenBack == {Doubled(Scenario(Plan("move", "same", FALSE), {"crash"}))}
=============================================================================
