------------------------- MODULE TaskExecutionLease -------------------------
(* TaskExecution implements TaskLease.                                       *)
EXTENDS TaskExecution

Working(run)   == run.status = "running" /\ ~ Prepared(run)
Offers(run)    == {run.handoffs[i].target :
                     i \in {j \in DOMAIN run.handoffs : run.handoffs[j].status = "prepared"}}
Receivers(run) == {run.handoffs[i].target : i \in DOMAIN run.handoffs}

LeaseOf(run) == [owners |-> run.sessions, working |-> Working(run),
                 offers |-> Offers(run), receivers |-> Receivers(run)]

Acts(s) == InFlight(s) # {} \/ s \in jobs

Lease == INSTANCE TaskLease
           WITH leases <- [r \in DOMAIN runs |-> LeaseOf(runs[r])],
                acting <- {s \in Sessions : Acts(s)}

\* Every transaction, turn, call and restart of the service is one step of the
\* lease or changes nothing of it: whatever execution.ts does to turns, budgets,
\* phases and plan versions, attempts change hands only the way TaskLease says.
ImplementsLease == Lease!Spec
=============================================================================
