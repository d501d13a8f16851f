---------------------------- MODULE PlanAdmission ----------------------------
(***************************************************************************)
(* One plan through validation, approval and execution facts: the pure      *)
(* TaskGraph and PlanProjection operators composed the way the plan service *)
(* composes them.  A submitted definition is parsed (saveSchema), an        *)
(* accepted one is approved by the user, and runs record completed facts.   *)
(* The facts may arrive in any order, as they do after an edit of the       *)
(* stored records or when an attempt outlives the completion it waited for. *)
(***************************************************************************)
EXTENDS PlanProjection

CONSTANT Candidates      \* the definitions that may be submitted

\* tasks, phases and dependencies are arrays
ASSUME CandidatesAssumption ==
  \A p \in Candidates :
    /\ p.tasks \in Seq(ToSet(p.tasks)) /\ p.phases \in Seq(ToSet(p.phases))
    /\ \A i \in DOMAIN p.tasks : IsFiniteSet(p.tasks[i].deps)

VARIABLES
  plan,                  \* the submitted definition
  stage,                 \* "submitted", "refused", "pending_review", "approved"
  facts                  \* recorded status of each task of the plan

vars == <<plan, stage, facts>>

Init ==
  /\ plan \in Candidates
  /\ stage = "submitted"
  /\ facts = [id \in Ids(plan) |-> NoFact]

Parse ==
  /\ stage = "submitted"
  /\ stage' = IF Admissible(plan) THEN "pending_review" ELSE "refused"
  /\ UNCHANGED <<plan, facts>>

Approve ==
  /\ stage = "pending_review"
  /\ stage' = "approved"
  /\ UNCHANGED <<plan, facts>>

\* an attempt on a task without one records its completion
Record(id) ==
  /\ stage = "approved"
  /\ facts[id] = NoFact
  /\ facts' = [facts EXCEPT ![id] = "completed"]
  /\ UNCHANGED <<plan, stage>>

Next == Parse \/ Approve \/ \E id \in Ids(plan) : Record(id)

Spec == Init /\ [][Next]_vars
-----------------------------------------------------------------------------
(* References the algorithms are compared with                              *)

\* a rank that every dependency lowers exists exactly when nothing is waited
\* for that does not exist and nothing waits for itself
Satisfiable(edges) ==
  \E rank \in [DOMAIN edges -> 1..Cardinality(DOMAIN edges)] :
    \A id \in DOMAIN edges : \A d \in edges[id] :
      d \in DOMAIN edges /\ rank[d] < rank[id]

\* the least set closed under "a completed fact whose waits are in the set"
LeastCompleted ==
  LET closed == {S \in SUBSET Ids(plan) :
        \A id \in Ids(plan) :
          facts[id] = "completed" /\ Waits(plan)[id] \subseteq S => id \in S}
  IN  {id \in Ids(plan) : \A S \in closed : id \in S}

Unfinished == Ids(plan) \ Completed(plan, facts)

\* Kahn's count (cyclic, task-graph index.ts:56) refuses exactly the
\* definitions whose hierarchy or completion edges admit no order at all.
KahnIsExact ==
  stage = "submitted" =>
    /\ Cyclic(Parents(plan)) <=> ~ Satisfiable(Parents(plan))
    /\ Cyclic(Waits(plan)) <=> ~ Satisfiable(Waits(plan))

\* A plan the validator accepts can always go on: while a task of it is
\* unfinished, some task of the earliest unfinished phase is ready to be
\* claimed, so the phase order never contradicts the completion edges.
EarliestPhaseCanProgress ==
  stage = "approved" /\ Unfinished # {} =>
    \E id \in Ready(plan, TRUE, facts) :
      \A other \in Unfinished : PhaseOf(plan, id) <= PhaseOf(plan, other)

\* projectPlan's loop (projection.ts:19) ends in the least fixpoint: nothing
\* is completed on the strength of its own or a later completion.
ProjectionIsLeast ==
  stage = "approved" => Completed(plan, facts) = LeastCompleted

\* In a plan of mode 'phases' work is serial: whatever is ready belongs to
\* the earliest unfinished phase, alone of its leaves, and the root is ready
\* only when it is all that is left (advanceSequence relies on both).
PhasePlanIsSerial ==
  stage = "approved" /\ plan.phased =>
    \A id \in Ready(plan, TRUE, facts) : \A other \in Unfinished \ {id} :
      /\ id # plan.taskId
      /\ PhaseOf(plan, id) < PhaseOf(plan, other) \/ other = plan.taskId
=============================================================================
