------------------------------ MODULE TaskGraph ------------------------------
(***************************************************************************)
(* The pure plan validator of packages/util/task-graph (taskGraphErrors)    *)
(* and the phase-plan refinements that definitionSchema adds to it          *)
(* (packages/workspace/personal-workflow/src/plan-schema.ts).               *)
(*                                                                          *)
(* A plan is the record of a complete definition:                           *)
(*   taskId  the root identity                                              *)
(*   phased  TRUE for planningMode 'phases', FALSE for 'hierarchical'       *)
(*   phases  the sequence of phase identities                               *)
(*   tasks   the sequence of [id, parent, phase, required, deps]            *)
(* Goals, scopes, acceptance texts and artifacts are left out: no rule here *)
(* reads them.  deps is a set, so the 'duplicate dependency' rule, which    *)
(* only refuses a repeated entry of the same array, has nothing to refuse.  *)
(***************************************************************************)
EXTENDS Naturals, Sequences, FiniteSets, SequencesExt

CONSTANT NoParent        \* parentTaskId === null

Ids(plan) == {plan.tasks[i].id : i \in DOMAIN plan.tasks}

\* new Map(tasks.map(...)): of two entries with one key the last one is kept
TaskOf(plan, id) ==
  plan.tasks[CHOOSE i \in DOMAIN plan.tasks :
               /\ plan.tasks[i].id = id
               /\ \A j \in DOMAIN plan.tasks : plan.tasks[j].id = id => j <= i]

\* phases.get(id) ?? -1, counted from one: zero is an unknown phase
PhaseIndex(plan, phase) ==
  LET at == {i \in DOMAIN plan.phases : plan.phases[i] = phase}
  IN  IF at = {} THEN 0 ELSE CHOOSE i \in at : \A j \in at : j <= i

PhaseOf(plan, id) == PhaseIndex(plan, TaskOf(plan, id).phase)

RequiredChildren(plan, id) ==
  {plan.tasks[i].id : i \in {k \in DOMAIN plan.tasks :
      plan.tasks[k].parent = id /\ plan.tasks[k].required}}

Parents(plan) ==
  [id \in Ids(plan) |->
     LET parent == TaskOf(plan, id).parent
     IN  IF parent = NoParent THEN {} ELSE {parent}]

\* the explicit dependencies and the implicit edge to every required child
Waits(plan) ==
  [id \in Ids(plan) |-> TaskOf(plan, id).deps \cup RequiredChildren(plan, id)]

-----------------------------------------------------------------------------
(* cyclic(): Kahn's queue.  Step k takes the k-th queued node, if there is   *)
(* one, and queues every consumer whose last dependency it was; a node is   *)
(* queued once, so as many steps as nodes drain the queue.                  *)

Dequeue(edges, state, id) ==
  LET consumers == {c \in DOMAIN edges : id \in edges[c]}
      pending   == [c \in DOMAIN edges |->
                      IF c \in consumers THEN state.pending[c] - 1
                                         ELSE state.pending[c]]
  IN  [pending |-> pending,
       queue   |-> state.queue \o
                   SetToSeq({c \in consumers : pending[c] = 0})]

\* the queue at the end, given how many dependencies each node waits for
Drain(edges, pending) ==
  LET start == [pending |-> pending,
                queue   |-> SetToSeq({id \in DOMAIN edges : pending[id] = 0})]
      after[k \in Nat] ==
        IF k = 0 THEN start
        ELSE LET last == after[k-1]
             IN  IF k > Len(last.queue) THEN last
                 ELSE Dequeue(edges, last, last.queue[k])
  IN  after[Cardinality(DOMAIN edges)].queue

\* (as if an edge to an unknown node counted for nothing)
KahnOfKnown(edges) ==
  Drain(edges, [id \in DOMAIN edges |-> Cardinality(edges[id] \cap DOMAIN edges)])

Kahn(edges) == Drain(edges, [id \in DOMAIN edges |-> Cardinality(edges[id])])

Cyclic(edges) == Len(Kahn(edges)) # Cardinality(DOMAIN edges)

-----------------------------------------------------------------------------
(* taskGraphErrors(), one message per broken rule                            *)

RootIsUnique(plan) ==
  LET roots == {i \in DOMAIN plan.tasks : plan.tasks[i].parent = NoParent}
  IN  /\ Cardinality(roots) = 1
      /\ \A i \in roots : plan.tasks[i].id = plan.taskId /\ plan.tasks[i].required

\* an unknown dependency is refused as such, so only known ones are ordered
DependencyLater(plan, task) ==
  \E d \in task.deps \cap Ids(plan) :
     PhaseOf(plan, d) > PhaseIndex(plan, task.phase)

\* (as if a required child had to follow its parent)
ChildEarlier(plan, task) ==
  /\ task.required
  /\ task.parent \in Ids(plan)
  /\ PhaseIndex(plan, task.phase) < PhaseOf(plan, task.parent)

ChildLater(plan, task) ==
  /\ task.required
  /\ task.parent \in Ids(plan)
  /\ PhaseIndex(plan, task.phase) > PhaseOf(plan, task.parent)

TaskErrors(plan, task) ==
  {e \in {"unknown phase", "unknown parent", "unknown dependency",
          "dependency in a later phase", "required child in a later phase"} :
     \/ e = "unknown phase" /\ PhaseIndex(plan, task.phase) = 0
     \/ e = "unknown parent" /\ task.parent \notin Ids(plan) \cup {NoParent}
     \/ e = "unknown dependency" /\ ~ (task.deps \subseteq Ids(plan))
     \/ e = "dependency in a later phase" /\ DependencyLater(plan, task)
     \/ e = "required child in a later phase" /\ ChildLater(plan, task)}

TaskGraphErrors(plan) ==
  (UNION {TaskErrors(plan, plan.tasks[i]) : i \in DOMAIN plan.tasks})
  \cup {e \in {"duplicate task identity", "duplicate phase identity",
               "one required root", "hierarchy cycle", "completion cycle"} :
     \/ e = "duplicate task identity"
          /\ Cardinality(Ids(plan)) # Len(plan.tasks)
     \/ e = "duplicate phase identity" /\ ~ IsInjective(plan.phases)
     \/ e = "one required root" /\ ~ RootIsUnique(plan)
     \/ e = "hierarchy cycle" /\ Cyclic(Parents(plan))
     \/ e = "completion cycle" /\ Cyclic(Waits(plan))}

-----------------------------------------------------------------------------
(* definitionSchema's rules for planningMode 'phases'                        *)

Leaves(plan) == {i \in DOMAIN plan.tasks : plan.tasks[i].id # plan.taskId}

PhaseLeaves(plan, p) == {i \in Leaves(plan) : plan.tasks[i].phase = plan.phases[p]}

OneDirectTaskPerPhase(plan) ==
  /\ Cardinality(Leaves(plan)) = Len(plan.phases)
  /\ \A i \in Leaves(plan) : plan.tasks[i].parent = plan.taskId /\ plan.tasks[i].required

\* (as if one leaf in each phase were enough)
LeafInEveryPhase(plan) ==
  \A p \in DOMAIN plan.phases : Cardinality(PhaseLeaves(plan, p)) = 1

\* the leaf of each phase waits for the leaf of the phase before it
ConsecutivePhases(plan) ==
  \A p \in DOMAIN plan.phases :
    /\ Cardinality(PhaseLeaves(plan, p)) = 1
    /\ p > 1 => \A i \in PhaseLeaves(plan, p), j \in PhaseLeaves(plan, p-1) :
                 plan.tasks[j].id \in plan.tasks[i].deps

RootInFinalPhase(plan) ==
  /\ plan.taskId \in Ids(plan)
  /\ TaskOf(plan, plan.taskId).phase = plan.phases[Len(plan.phases)]

PhasePlanErrors(plan) ==
  {e \in {"one direct task per phase", "consecutive dependencies", "root in the final phase"} :
     \/ e = "one direct task per phase" /\ ~ OneDirectTaskPerPhase(plan)
     \/ e = "consecutive dependencies" /\ ~ ConsecutivePhases(plan)
     \/ e = "root in the final phase" /\ ~ RootInFinalPhase(plan)}

Admissible(plan) ==
  /\ TaskGraphErrors(plan) = {}
  /\ plan.phased => PhasePlanErrors(plan) = {}
=============================================================================
