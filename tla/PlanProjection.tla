--------------------------- MODULE PlanProjection ---------------------------
(***************************************************************************)
(* projectPlan (personal-workflow/src/projection.ts): which tasks of one    *)
(* exact revision count as completed, what each one waits for, and which    *)
(* are ready.  facts maps a task to the status its runs recorded, NoFact     *)
(* when none did; a 'completed' fact carries evidence (runSchema refuses a   *)
(* completed run without any), so evidence is not a field of its own.        *)
(***************************************************************************)
EXTENDS TaskGraph

NoFact == "none"

\* (as if a parent did not wait for its required children)
RoundByDependencies(plan, facts, completed) ==
  completed \cup {id \in Ids(plan) :
                    facts[id] = "completed" /\ TaskOf(plan, id).deps \subseteq completed}

\* one round of the `while (changed)` loop: every task with a completed fact
\* whose dependencies and required children are completed already
Round(plan, facts, completed) ==
  completed \cup {id \in Ids(plan) :
                    facts[id] = "completed" /\ Waits(plan)[id] \subseteq completed}

\* a round that adds nothing ends the loop; as many rounds as tasks reach it
Completed(plan, facts) ==
  LET after[k \in Nat] ==
        IF k = 0 THEN {} ELSE Round(plan, facts, after[k-1])
  IN  after[Cardinality(Ids(plan))]

Blockers(plan, facts, id) == Waits(plan)[id] \ Completed(plan, facts)

TaskStatus(plan, approved, facts, id) ==
  CASE facts[id] = "completed" ->
         IF id \in Completed(plan, facts) THEN "completed" ELSE "needs_reconciliation"
    [] facts[id] \notin {"completed", NoFact} -> facts[id]
    [] facts[id] = NoFact /\ ~ approved -> "pending_review"
    [] facts[id] = NoFact /\ approved ->
         IF Blockers(plan, facts, id) = {} THEN "ready" ELSE "blocked"

Ready(plan, approved, facts) ==
  {id \in Ids(plan) : TaskStatus(plan, approved, facts, id) = "ready"}
=============================================================================
