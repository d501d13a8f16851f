------------------------------ MODULE TaskLease ------------------------------
(***************************************************************************)
(* What the execution service of a plan promises about ownership, without   *)
(* revisions, budgets, turns or stored records: an attempt is a lease on a   *)
(* task, held by one conversation at a time.  TaskExecution implements it    *)
(* (TaskExecutionLease gives the mapping).                                   *)
(*                                                                          *)
(* A conversation acts while an effect of it is in flight: a tool call, or   *)
(* background work a call left behind.                                       *)
(***************************************************************************)
EXTENDS Naturals, Sequences

CONSTANTS Sessions, Runs

VARIABLES
  leases,          \* the claimed attempts
  acting           \* conversations with an effect in flight

vars == <<leases, acting>>

Lease == [owners    : Seq(Sessions),       \* in order, the holder last
          working   : BOOLEAN,             \* whether the holder may begin effects
          offers    : SUBSET Sessions,     \* receivers of the transfer under way
          receivers : SUBSET Sessions]     \* whoever was ever offered the attempt

TypeOK ==
  /\ DOMAIN leases \subseteq Runs
  /\ \A r \in DOMAIN leases : leases[r] \in Lease /\ leases[r].owners # <<>>
  /\ acting \subseteq Sessions

Holder(r) == leases[r].owners[Len(leases[r].owners)]

Bound(r, s) ==
  \/ \E i \in DOMAIN leases[r].owners : leases[r].owners[i] = s
  \/ s \in leases[r].receivers

Free(s) == \A r \in DOMAIN leases : ~ Bound(r, s)

Put(r, lease) ==
  leases' = [x \in DOMAIN leases \cup {r} |-> IF x = r THEN lease ELSE leases[x]]
-----------------------------------------------------------------------------
Init == leases = <<>> /\ acting = {}

Claim(r, s) ==
  /\ r \notin DOMAIN leases /\ Free(s)
  /\ Put(r, [owners |-> <<s>>, working |-> TRUE, offers |-> {}, receivers |-> {}])
  /\ UNCHANGED acting

\* stopped by the user, by a limit, by a refusal, or completed
Suspend(r) ==
  /\ r \in DOMAIN leases
  /\ Put(r, [leases[r] EXCEPT !.working = FALSE])
  /\ UNCHANGED acting

\* resumed, or advanced to the next phase
Continue(r) ==
  /\ r \in DOMAIN leases /\ leases[r].offers = {}
  /\ Put(r, [leases[r] EXCEPT !.working = TRUE])
  /\ UNCHANGED acting

Offer(r, s) ==
  /\ r \in DOMAIN leases /\ leases[r].offers = {}
  /\ Holder(r) \notin acting
  /\ Free(s) /\ s \notin acting
  /\ Put(r, [leases[r] EXCEPT !.working = FALSE, !.offers = {s}, !.receivers = @ \cup {s}])
  /\ UNCHANGED acting

Accept(r, s) ==
  /\ r \in DOMAIN leases /\ s \in leases[r].offers
  /\ Put(r, [leases[r] EXCEPT !.owners = Append(@, s), !.working = FALSE, !.offers = {}])
  /\ UNCHANGED acting

Act(s) ==
  /\ Free(s) \/ \E r \in DOMAIN leases : Holder(r) = s /\ leases[r].working
  /\ acting' = acting \cup {s}
  /\ UNCHANGED leases

Rest(s) ==
  /\ acting' = acting \ {s}
  /\ UNCHANGED leases

\* every effect is gone with the process, nobody works until resumed
Crash ==
  /\ leases' = [r \in DOMAIN leases |-> [leases[r] EXCEPT !.working = FALSE]]
  /\ acting' = {}

Next ==
  \/ \E r \in Runs : Suspend(r) \/ Continue(r)
  \/ \E r \in Runs, s \in Sessions : Claim(r, s) \/ Offer(r, s) \/ Accept(r, s)
  \/ \E s \in Sessions : Act(s) \/ Rest(s)
  \/ Crash

Spec == Init /\ [][Next]_vars
-----------------------------------------------------------------------------
\* Whoever acts and was ever given or offered an attempt holds it: a transfer
\* leaves no former owner, and admits no receiver, with effects in flight.
OnlyHoldersAct ==
  \A r \in DOMAIN leases : \A s \in acting : Bound(r, s) => s = Holder(r)

\* A conversation is tied to one attempt for good, as owner or as receiver.
BoundOnce ==
  \A q, r \in DOMAIN leases : q # r =>
    leases[q].receivers \cap leases[r].receivers = {}
    /\ \A i \in DOMAIN leases[q].owners : ~ Bound(r, leases[q].owners[i])
=============================================================================
