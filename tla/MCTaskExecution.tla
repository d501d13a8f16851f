--------------------------- MODULE MCTaskExecution ---------------------------
(* Small instances of TaskExecution.                                          *)
EXTENDS TaskExecutionLease, TLC

CONSTANTS t1, t2, t3, p1, p2, s1, s2, s3, r1, r2, c1, c2, o1

Entry(id, parent, phase, required, deps) ==
  [id |-> id, parent |-> parent, phase |-> phase, required |-> required, deps |-> deps]

\* a single task
MCSingle == [taskId |-> t1, phased |-> FALSE, phases |-> <<p1>>,
             tasks |-> <<Entry(t1, NoParent, p1, TRUE, {})>>]

\* two tasks that may run side by side
MCParallel == [taskId |-> t1, phased |-> FALSE, phases |-> <<p1>>,
               tasks |-> <<Entry(t1, NoParent, p1, TRUE, {}), Entry(t2, t1, p1, FALSE, {})>>]

\* two phases, the root verified in the second
MCPhases == [taskId |-> t1, phased |-> TRUE, phases |-> <<p1, p2>>,
             tasks |-> <<Entry(t1, NoParent, p2, TRUE, {}),
                         Entry(t2, t1, p1, TRUE, {}), Entry(t3, t1, p2, TRUE, {t2})>>]

MCNoRelay == {0}
MCRelay == {0, 1}

Symmetric == Permutations({s1, s2, s3}) \cup Permutations({r1, r2}) \cup Permutations({c1, c2})
=============================================================================
