---------------------------- MODULE MCRobotWork ----------------------------
(* Model values for RobotWork: what may happen to one robot, by scenario. *)
EXTENDS RobotWork

Nothing == [e \in WorkEvents |-> 0]
Allow(b) == [e \in WorkEvents |-> IF e \in DOMAIN b THEN b[e] ELSE 0]

\* The auction takes a task back, a restart interrupts, Nav2 misbehaves.
FleetBudgets ==
    {Allow([win |-> 2, lose |-> 1, withdraw |-> 1, reject |-> 1]),
     Allow([win |-> 2, restart |-> 1]),
     Allow([win |-> 1, restart |-> 1, lose |-> 1, navfail |-> 2]),
     Allow([win |-> 1, navfail |-> 2, unknown |-> 1, gone |-> 1, reject |-> 1])}
\* A person's tasks among the fleet's; cancels of what runs.
HandBudgets ==
    {Allow([win |-> 2, hand |-> 1, handcancel |-> 1]),
     Allow([win |-> 1, hand |-> 1, handcancel |-> 2, reject |-> 1, navfail |-> 1])}
\* Both nodes have just booted, or have run before; a waypoint is renamed.
Booted == {Allow([win |-> 2, unknown |-> 1, boot |-> 1])}
RobotBudgets == FleetBudgets \union HandBudgets \union Booted
=============================================================================
