------------------------ MODULE WorkflowRelay_proofs ------------------------
(* The relay takes no step the execution service does not allow, so what was  *)
(* proved of the service holds with the relay; and of the relay itself:       *)
(* that it is not forgotten while it is due, and not made unless it was       *)
(* earned, for any plan, any number of conversations and any budgets.         *)
EXTENDS WorkflowRelay, TaskExecutionLease_proofs

\* who owns an attempt is tied to an attempt there is
LEMMA OwnedExists == ASSUME NEW s, Owns(s) PROVE ForSession(s) \in DOMAIN runs
  BY DEF Owns, ForSession

\* the identity of a new attempt is one of an operation
LEMMA FreshIsOperation == Fresh \in Operations
  BY DEF Operations

\* turns, edits and tool calls go on as without the relay
LEMMA WorkflowSteps == Workflow => Next
  BY DEF Workflow, Next

\* what the user does to an attempt is what the service lets him do
LEMMA UserSteps == ASSUME NEW r \in DOMAIN runs, ByUser(r) PROVE Next
<1>1. Controls \/ Handoffs
  BY DEF ByUser, Controls, Handoffs
<1> QED BY <1>1 DEF Next

\* every step of the relay is one of the service, or changes nothing of it
LEMMA RelaySteps == ASSUME NEW s \in Sessions, RelayStep(s) PROVE Next \/ UNCHANGED vars
<1>1. CASE Settled(s) \/ Gathered(s) \/ Created(s)
  BY <1>1 DEF Settled, Gathered, Created
<1>2. CASE Prepare(s)
  <2>1. ForSession(s) \in DOMAIN runs
    BY <1>2, OwnedExists DEF Prepare
  <2>2. Handoffs
    BY <1>2, <2>1, FreshIsOperation DEF Prepare, Handoffs
  <2> QED BY <2>2 DEF Next
<1>3. CASE Finish(s)
  <2>1. Handoffs \/ UNCHANGED vars
    BY <1>3 DEF Finish, Handoffs
  <2> QED BY <2>1 DEF Next
<1>4. CASE ResumeReceiver(s)
  <2>1. Controls
    BY <1>4, FreshIsOperation DEF ResumeReceiver, Controls
  <2> QED BY <2>1 DEF Next
<1>5. CASE Send(s)
  <2>1. Turns \/ UNCHANGED vars
    BY <1>5 DEF Send, Turns
  <2> QED BY <2>1 DEF Next
<1> QED BY <1>1, <1>2, <1>3, <1>4, <1>5 DEF RelayStep

\* every step of the system with the relay is one of the service, or none of its own
LEMMA NextSteps == [RelayNext]_allVars => [Next]_vars
<1> SUFFICES ASSUME RelayNext PROVE [Next]_vars
  BY DEF allVars
<1>1. CASE Workflow
  BY <1>1, WorkflowSteps
<1>2. CASE Reboot
  BY <1>2 DEF Reboot, Next
<1>3. CASE \E r \in DOMAIN runs : ByUser(r)
  BY <1>3, UserSteps
<1>4. CASE \E s \in Sessions : RelayStep(s)
  BY <1>4, RelaySteps
<1>5. CASE \E s \in Sessions : Fail(s)
  BY <1>5 DEF Fail
<1> QED BY <1>1, <1>2, <1>3, <1>4, <1>5 DEF RelayNext

\* The relay implements the execution service: relayWorkflow changes attempts by
\* prepareHandoff, finishHandoff and resume alone, when those allow it.
LEMMA RelayKeepsToService == RelaySpec => Spec
<1>1. RelayInit => Init
  BY DEF RelayInit
<1> QED BY <1>1, NextSteps, PTL DEF RelaySpec, Spec

\* An attempt that is carried through its phases by relays, beside any others, stays
\* what the service promises: wherever the operation of the controller stops, fails or
\* is overtaken, what is stored passes its schema again (storedPlanSchema), one
\* conversation works and only under the approved version, nothing is under way in
\* a conversation about to give up or to receive it, ownership moves through a
\* prepared transfer alone, and no budget is refilled on the way.
THEOREM RelayedAttemptsAreKept ==
  RelaySpec => /\ []StoredPlanLoads /\ []OneExecutor
               /\ []RunningIsCurrentAndApproved /\ []NoCallOfAnOldRevision
               /\ []PreparedHandoffIsQuiescent
               /\ OwnershipMoves /\ BudgetsNeverRefill
<1>1. Spec => /\ []StoredPlanLoads /\ []OneExecutor
              /\ []RunningIsCurrentAndApproved /\ []NoCallOfAnOldRevision
              /\ []PreparedHandoffIsQuiescent
  BY StoredPlansLoad, OwnersAct, RunsAreApproved, CallsAreCurrent, TransfersFindNothingUnderWay
<1>2. Spec => OwnershipMoves /\ BudgetsNeverRefill
  BY OwnershipIsHandedOver, BudgetsAreSpent
<1> QED BY <1>1, <1>2, RelayKeepsToService
-----------------------------------------------------------------------------
(* Ranges go through the phases in order                                       *)

\* no task of s is in a later phase than one that follows it
Ordered(s) ==
  \A i, j \in DOMAIN s : i < j => PhaseOf(Plan, s[i]) <= PhaseOf(Plan, s[j])

\* A phase is a number.
LEMMA PhaseIsNumber == ASSUME NEW t \in Tasks PROVE PhaseOf(Plan, t) \in Nat
<1>1. DOMAIN Plan.phases = 1..Len(Plan.phases)
  BY PlanRules
<1> QED BY <1>1, PhaseOfTask

\* Appending a task no earlier than the others keeps the order.
LEMMA OrderedAppended ==
  ASSUME NEW seq \in Seq(Tasks), NEW e \in Tasks, Ordered(seq),
         \A t \in Elements(seq) : PhaseOf(Plan, t) <= PhaseOf(Plan, e)
  PROVE  Ordered(Append(seq, e))
<1> DEFINE n == Len(seq)
<1>1. /\ n \in Nat /\ DOMAIN seq = 1..n /\ DOMAIN Append(seq, e) = 1..(n + 1)
      /\ Append(seq, e)[n + 1] = e /\ \A i \in 1..n : Append(seq, e)[i] = seq[i]
  OBVIOUS
<1>2. ASSUME NEW i \in 1..(n + 1), NEW j \in 1..(n + 1), i < j
      PROVE  PhaseOf(Plan, Append(seq, e)[i]) <= PhaseOf(Plan, Append(seq, e)[j])
  <2> HIDE DEF n
  <2>1. i \in 1..n /\ (j \in 1..n \/ j = n + 1)
    BY <1>1, <1>2
  <2> QED BY <1>1, <1>2, <2>1 DEF Ordered, Elements
<1> QED BY <1>1, <1>2 DEF Ordered

\* A selection of ordered tasks is ordered.
LEMMA SelectionOrdered ==
  ASSUME NEW tasks \in Seq(Tasks), Ordered(tasks), NEW keep, NEW m \in 0..Len(tasks),
         NEW g \in [0..m -> Seq(Tasks)], Selection(g, tasks, keep, m)
  PROVE  Ordered(g[m])
<1> DEFINE S == {n \in Nat : n <= m => Ordered(g[n]) /\ Elements(g[n]) \subseteq Leading(tasks, n)}
<1>1. 0 \in S
  <2>1. g[0] = <<>>
    BY DEF Selection
  <2> QED BY <2>1 DEF Elements, Ordered
<1>2. ASSUME NEW n \in S PROVE n + 1 \in S
  <2> SUFFICES ASSUME n + 1 <= m
               PROVE  Ordered(g[n + 1]) /\ Elements(g[n + 1]) \subseteq Leading(tasks, n + 1)
    OBVIOUS
  <2>1. /\ n \in Nat /\ n + 1 \in 0..m /\ n \in 0..m /\ n + 1 # 0 /\ (n + 1) - 1 = n
        /\ Ordered(g[n]) /\ Elements(g[n]) \subseteq Leading(tasks, n) /\ g[n] \in Seq(Tasks)
    OBVIOUS
  <2>2. Leading(tasks, n) \subseteq Leading(tasks, n + 1) /\ tasks[n + 1] \in Leading(tasks, n + 1)
    <3>1. 1..n \subseteq 1..(n + 1) /\ n + 1 \in 1..(n + 1)
      BY <2>1
    <3> QED BY <3>1 DEF Leading
  <2>3. g[n + 1] = IF tasks[n + 1] \in keep THEN Append(g[n], tasks[n + 1]) ELSE g[n]
    BY <2>1 DEF Selection
  <2>4. CASE tasks[n + 1] \in keep
    <3>1. tasks[n + 1] \in Tasks /\ n + 1 \in DOMAIN tasks
      BY <2>1
    <3>2. \A t \in Leading(tasks, n) : PhaseOf(Plan, t) <= PhaseOf(Plan, tasks[n + 1])
      <4>1. \A i \in 1..n : i \in DOMAIN tasks /\ i < n + 1
        BY <2>1
      <4> QED BY <3>1, <4>1 DEF Leading, Ordered
    <3>3. Ordered(Append(g[n], tasks[n + 1]))
      BY <2>1, <3>1, <3>2, OrderedAppended
    <3>4. Elements(Append(g[n], tasks[n + 1])) = Elements(g[n]) \cup {tasks[n + 1]}
      BY <2>1, <3>1, ElementsOfAppended
    <3> QED BY <2>1, <2>2, <2>3, <2>4, <3>3, <3>4
  <2>5. CASE tasks[n + 1] \notin keep
    BY <2>1, <2>2, <2>3, <2>5
  <2> QED BY <2>4, <2>5
<1> HIDE DEF S
<1>3. S = Nat
  <2>1. S \in SUBSET Nat
    BY DEF S
  <2> QED BY <1>1, <1>2, <2>1, Induction
<1>4. m \in S
  <2>1. m \in Nat /\ m <= m
    OBVIOUS
  <2> QED BY <1>3, <2>1
<1> QED BY <1>4 DEF S

\* The tasks of a phase range are ordered: a leaf for each phase, the root last.
LEMMA RangeOrdered ==
  ASSUME Plan.phased, NEW first \in DOMAIN Plan.phases, NEW last \in first..Len(Plan.phases)
  PROVE  Ordered(RangeTasks(first, last))
<1> DEFINE leaf(p) == CHOOSE t \in Tasks : t # Plan.taskId /\ PhaseOf(Plan, t) = p
           n == last - first + 1
           leaves == [i \in 1..n |-> leaf(first + i - 1)]
           root == IF last = Len(Plan.phases) THEN <<Plan.taskId>> ELSE <<>>
<1>1. DOMAIN Plan.phases = 1..Len(Plan.phases) /\ Len(Plan.phases) \in Nat
  BY PlanRules
<1>2. n \in Nat /\ \A i \in 1..n : first + i - 1 \in DOMAIN Plan.phases
  BY <1>1
<1>3. \A p \in DOMAIN Plan.phases : leaf(p) \in Tasks /\ PhaseOf(Plan, leaf(p)) = p
  BY PhaseHasLeaf
<1>4. /\ leaves \in Seq(Tasks) /\ Len(leaves) = n
      /\ \A i \in 1..n : PhaseOf(Plan, leaves[i]) = first + i - 1
  <2> HIDE DEF leaf
  <2>1. \A i \in 1..n : leaf(first + i - 1) \in Tasks
    BY <1>2, <1>3
  <2>2. leaves \in [1..n -> Tasks] /\ \A i \in 1..n : leaves[i] = leaf(first + i - 1)
    <3> HIDE DEF n
    <3> QED BY <2>1
  <2>3. \A i \in 1..n : PhaseOf(Plan, leaves[i]) = first + i - 1
    BY <1>2, <1>3, <2>2
  <2> HIDE DEF leaves, n
  <2> QED BY <1>2, <2>2, <2>3
<1>5. Plan.taskId \in Tasks /\ PhaseOf(Plan, Plan.taskId) = Len(Plan.phases)
  <2>1. Plan.taskId \in Tasks /\ TaskOf(Plan, Plan.taskId).phase = Plan.phases[Len(Plan.phases)]
    BY PlanRules DEF RootInFinalPhase, Tasks
  <2>2. Len(Plan.phases) \in DOMAIN Plan.phases
    BY <1>1
  <2> QED BY <2>1, <2>2, PhaseIsFound DEF PhaseOf
<1>6. RangeTasks(first, last) = leaves \o root
  BY DEF RangeTasks
<1>7. Ordered(leaves)
  <2>1. DOMAIN leaves = 1..n
    BY <1>4
  <2>2. ASSUME NEW i \in 1..n, NEW j \in 1..n, i < j PROVE first + i - 1 <= first + j - 1
    BY <1>1, <1>2, <2>2
  <2> HIDE DEF leaves, n
  <2> QED BY <1>4, <2>1, <2>2 DEF Ordered
<1>8. CASE last = Len(Plan.phases)
  <2>1. leaves \o root = Append(leaves, Plan.taskId)
    <3> HIDE DEF leaves
    <3> QED BY <1>4, <1>5, <1>8
  <2>2. \A t \in Elements(leaves) : PhaseOf(Plan, t) <= PhaseOf(Plan, Plan.taskId)
    <3>1. \A i \in 1..n : first + i - 1 <= Len(Plan.phases)
      BY <1>1, <1>2
    <3>2. DOMAIN leaves = 1..n
      BY <1>4
    <3> HIDE DEF leaves, n
    <3> QED BY <1>4, <1>5, <3>1, <3>2 DEF Elements
  <2> HIDE DEF leaves, root, n
  <2> QED BY <1>4, <1>5, <1>6, <1>7, <2>1, <2>2, OrderedAppended
<1>9. CASE last # Len(Plan.phases)
  <2>1. leaves \o root = leaves
    <3> HIDE DEF leaves
    <3> QED BY <1>4, <1>9
  <2> HIDE DEF leaves, root
  <2> QED BY <1>6, <1>7, <2>1
<1> QED BY <1>8, <1>9

\* So is what is kept of them.
LEMMA KeptOrdered ==
  ASSUME Plan.phased, NEW first \in DOMAIN Plan.phases, NEW last \in first..Len(Plan.phases), NEW keep
  PROVE  Ordered(Kept(first, last, keep))
<1> DEFINE tasks == RangeTasks(first, last)
<1>1. tasks \in Seq(Tasks) /\ Ordered(tasks)
  BY RangeTyped, RangeOrdered
<1>2. PICK g \in [0..Len(tasks) -> Seq(Tasks)] :
        Kept(first, last, keep) = g[Len(tasks)] /\ Selection(g, tasks, keep, Len(tasks))
  BY <1>1, KeptSelects
<1> DEFINE n == Len(tasks)
<1>3. n \in 0..Len(tasks)
  BY <1>1
<1>4. g \in [0..n -> Seq(Tasks)] /\ Selection(g, tasks, keep, n) /\ Kept(first, last, keep) = g[n]
  BY <1>2
<1> HIDE DEF tasks, n
<1> QED BY <1>1, <1>3, <1>4, SelectionOrdered

\* The range of every attempt is ordered.
LEMMA AttemptOrdered ==
  ASSUME Typed, Loadable, NEW r \in DOMAIN runs
  PROVE  Ordered(runs[r].range)
<1>1. CASE runs[r].range = <<>>
  BY <1>1 DEF Ordered
<1>2. CASE runs[r].range # <<>>
  <2>1. PhaseOf(Plan, Head(runs[r].range)) \in DOMAIN Plan.phases
    BY <1>2, RunsTyped, HeadInPhase
  <2>2. Plan.phased /\ \E last \in PhaseOf(Plan, Head(runs[r].range))..Len(Plan.phases) :
          \E keep : runs[r].range = Kept(PhaseOf(Plan, Head(runs[r].range)), last, keep)
    BY <1>2 DEF Loadable, Ranged
  <2> QED BY <2>1, <2>2, KeptOrdered
<1> QED BY <1>1, <1>2
-----------------------------------------------------------------------------
(* What the relay builds on: the service's own invariants                      *)

\* A conversation is tied to one attempt.
BoundToOne ==
  \A q, r \in DOMAIN runs : \A s \in Sessions : BoundTo(runs[q], s) /\ BoundTo(runs[r], s) => q = r

\* The lease binds a conversation once, as owner or as receiver.
LEMMA AlwaysBoundToOne == Spec => []BoundToOne
<1>1. Proved!IInv => BoundToOne
  <2> SUFFICES ASSUME Proved!IInv, NEW q \in DOMAIN runs, NEW r \in DOMAIN runs, NEW s \in Sessions,
                      BoundTo(runs[q], s), BoundTo(runs[r], s)
               PROVE  q = r
    BY DEF BoundToOne
  <2>1. Proved!Bound(r, s) /\ Proved!Bound(q, s)
    BY DEF Proved!Bound, LeaseOf, Receivers, BoundTo, Elements
  <2> QED BY <2>1 DEF Proved!IInv, Proved!BoundToOne
<1> QED BY <1>1, LeaseIsProved, Proved!LeaseInvariant, PTL

Served == Handed /\ Consistent /\ Loadable /\ BoundToOne

\* The service keeps its invariants under the relay.
LEMMA AlwaysServed == RelaySpec => []Served
<1>1. Handed /\ Consistent /\ Loadable /\ BoundToOne => Served
  BY DEF Served
<1> QED BY <1>1, RelayKeepsToService, AlwaysHanded, AlwaysConsistent, AlwaysLoadable, AlwaysBoundToOne, PTL

\* ForSession answers whom a conversation is bound to.
LEMMA BoundIsFound ==
  ASSUME Served, NEW r \in DOMAIN runs, NEW s \in Sessions, BoundTo(runs[r], s)
  PROVE  ForSession(s) = r
<1>1. r \in Runs /\ NoRun \notin Runs
  BY HandedKnown, ConstantsAssumption DEF Served
<1>2. ForSession(s) \in DOMAIN runs /\ BoundTo(runs[ForSession(s)], s)
  BY DEF ForSession
<1> QED BY <1>2 DEF Served, BoundToOne

\* An owner is bound to its attempt, first of all by the history.
LEMMA OwnerIsBound ==
  ASSUME Served, NEW r \in DOMAIN runs
  PROVE  /\ runs[r].session \in Sessions /\ runs[r].session \in Elements(runs[r].sessions)
         /\ BoundTo(runs[r], runs[r].session) /\ ForSession(runs[r].session) = r
<1>1. runs[r].session \in Elements(runs[r].sessions) /\ runs[r].session \in Sessions
  BY OwnerIsLast DEF Served, Elements
<1>2. BoundTo(runs[r], runs[r].session)
  BY <1>1 DEF BoundTo
<1> QED BY <1>1, <1>2, BoundIsFound

\* run is bound to whom old is, and has at least the owners and transfers of old
Extends(old, run) ==
  /\ Elements(old.sessions) \subseteq Elements(run.sessions)
  /\ \A i \in DOMAIN old.handoffs :
       i \in DOMAIN run.handoffs /\ run.handoffs[i].source = old.handoffs[i].source
  /\ \A s \in Sessions : BoundTo(old, s) => BoundTo(run, s)

\* A change of an attempt releases nobody.
LEMMA ChangeExtends ==
  ASSUME Handed, NEW r \in DOMAIN runs, NEW run \in TaskRun, Changes(r, run)
  PROVE  Extends(runs[r], run)
<1> DEFINE old == runs[r]
<1>1. old \in TaskRun
  BY HandedKnown
<1>2. CASE SameHistory(old, run)
  BY <1>2 DEF SameHistory, Extends, BoundTo
<1>3. CASE Prepares(old, run)
  <2>1. PICK new \in Transfer : run.handoffs = Append(old.handoffs, new)
    <3>1. PICK op \in Ops \cup {Fresh}, target \in Sessions :
            run.handoffs = Append(old.handoffs, [op |-> op, source |-> old.session,
              target |-> target, epoch |-> old.epoch, status |-> "prepared"])
      BY <1>3 DEF Prepares
    <3>2. [op |-> op, source |-> old.session, target |-> target, epoch |-> old.epoch,
           status |-> "prepared"] \in Transfer
      BY <1>1 DEF TaskRun, Transfer
    <3> QED BY <3>1, <3>2
  <2>2. old.handoffs \in Seq(Transfer)
    BY <1>1, Fields
  <2>3. \A i \in DOMAIN old.handoffs : i \in DOMAIN run.handoffs /\ run.handoffs[i] = old.handoffs[i]
    BY <2>1, <2>2
  <2>4. run.sessions = old.sessions
    BY <1>3 DEF Prepares
  <2> QED BY <2>3, <2>4 DEF Extends, BoundTo
<1>4. ASSUME NEW i \in DOMAIN old.handoffs, Finishes(old, run, i) PROVE Extends(old, run)
  <2>1. old.sessions \in Seq(Sessions) /\ old.handoffs \in Seq(Transfer) /\ old.handoffs[i].target \in Sessions
    <3>1. old.handoffs[i] \in Transfer
      BY <1>1, Fields
    <3> QED BY <1>1, <3>1, Fields DEF Transfer
  <2>2. run.sessions = Append(old.sessions, old.handoffs[i].target)
    BY <1>4 DEF Finishes
  <2>3. Elements(old.sessions) \subseteq Elements(run.sessions)
    BY <2>1, <2>2, ElementsOfAppended
  <2>4. \A j \in DOMAIN old.handoffs :
          /\ j \in DOMAIN run.handoffs
          /\ run.handoffs[j].source = old.handoffs[j].source
          /\ run.handoffs[j].target = old.handoffs[j].target
    <3>1. run.handoffs = [old.handoffs EXCEPT ![i].status = "transferred"]
      BY <1>4 DEF Finishes
    <3>2. \A j \in DOMAIN old.handoffs : old.handoffs[j] \in Transfer
      BY <1>1, Fields
    <3> QED BY <2>1, <3>1, <3>2 DEF Transfer
  <2> QED BY <2>3, <2>4 DEF Extends, BoundTo
<1>5. SameHistory(old, run) \/ Prepares(old, run) \/ \E i \in DOMAIN old.handoffs : Finishes(old, run, i)
  BY DEF Changes, Marks, Resumes, Interrupts, Counts, Finds, Advances, Admits, Settles
<1> QED BY <1>2, <1>3, <1>4, <1>5

\* Recovery moves nobody.
LEMMA RecoveredHistory ==
  ASSUME NEW old \in TaskRun
  PROVE  /\ SameHistory(old, Recovered(old)) /\ SameWork(old, Recovered(old))
         /\ SameTerms(old, Recovered(old))
  BY DEF Recovered, SameHistory, SameWork, SameTerms, TaskRun

\* What becomes of an attempt in a step of the service.
LEMMA NextChanges ==
  ASSUME Handed, [Next]_vars, NEW r \in DOMAIN runs
  PROVE  /\ r \in DOMAIN runs' /\ runs'[r] \in TaskRun
         /\ \/ runs'[r] = runs[r]
            \/ Changes(r, runs'[r])
            \/ Restart /\ runs'[r] = Recovered(runs[r])
<1>1. Typed /\ Typed'
  BY NextTyped DEF Handed
<1>2. runs[r] \in TaskRun
  BY HandedKnown
<1>3. CASE runs' = runs
  BY <1>2, <1>3
<1>4. CASE NewAttemptStep
  <2>1. PICK q \in Runs : \E run : q \notin DOMAIN runs /\ Store(q, run)
    BY <1>4 DEF NewAttemptStep
  <2> QED BY <1>2, <2>1 DEF Store
<1>5. CASE ChangeStep
  <2>1. PICK q \in DOMAIN runs : \E run \in TaskRun : Store(q, run) /\ Changes(q, run)
    BY <1>5 DEF ChangeStep
  <2> QED BY <1>2, <2>1 DEF Store
<1>6. CASE Restart
  <2>1. r \in DOMAIN runs' /\ runs'[r] = Recovered(runs[r])
    BY <1>6 DEF Restart
  <2> QED BY <1>1, <1>6, <2>1 DEF Typed, TypeOK
<1>7. CASE Edits
  BY <1>3, <1>7 DEF Edits, Save, Approve
<1>8. CASE CallStep
  BY <1>3, <1>8 DEF CallStep
<1> QED BY <1>1, <1>4, <1>5, <1>6, <1>7, <1>8, StepShape

\* No step of the service removes an attempt or releases a conversation.
LEMMA NextExtends ==
  ASSUME Handed, [Next]_vars, NEW r \in DOMAIN runs
  PROVE  r \in DOMAIN runs' /\ Extends(runs[r], runs'[r])
<1>1. runs[r] \in TaskRun
  BY HandedKnown
<1>2. Extends(runs[r], runs[r])
  BY DEF Extends
<1>3. Extends(runs[r], Recovered(runs[r]))
  BY <1>1, RecoveredHistory DEF SameHistory, Extends, BoundTo
<1> QED BY <1>2, <1>3, NextChanges, ChangeExtends

\* It moves by finishing a transfer, or not at all.
LEMMA NextOwners ==
  ASSUME Handed, [Next]_vars, NEW r \in DOMAIN runs, runs'[r].session # runs[r].session
  PROVE  \E i \in DOMAIN runs[r].handoffs : Finishes(runs[r], runs'[r], i)
<1>1. Recovered(runs[r]).session = runs[r].session
  BY HandedKnown, RecoveredHistory DEF SameHistory
<1> QED BY <1>1, NextChanges, ChangeMoves

\* So a conversation stays with its attempt.
LEMMA StaysWith ==
  ASSUME Served, Served', [Next]_vars, NEW r \in DOMAIN runs, NEW s \in Sessions, ForSession(s) = r
  PROVE  r \in DOMAIN runs' /\ ForSession(s)' = r
<1>1. r \in Runs /\ NoRun \notin Runs
  BY HandedKnown, ConstantsAssumption DEF Served
<1>2. BoundTo(runs[r], s)
  BY <1>1, ForSessionIsBound
<1>3. r \in DOMAIN runs' /\ BoundTo(runs'[r], s)
  BY <1>2, NextExtends DEF Served, Extends
<1>4. ForSession(s)' \in DOMAIN runs' /\ BoundTo(runs'[ForSession(s)'], s)
  BY <1>3 DEF ForSession
<1> QED BY <1>3, <1>4 DEF Served, BoundToOne
-----------------------------------------------------------------------------
(* The relay that is due                                                       *)

\* What a relay may read of its attempt: the stages, and what became of it.
RelayTyped ==
  /\ relay \in [Sessions -> Stages]
  /\ fate \in [Runs -> Fates]

\* a conversation that owned an attempt and handed it over
Former(s) == \E r \in DOMAIN runs : s \in Elements(runs[r].sessions) /\ runs[r].session # s

\* A message to go on is sent for a conversation that handed its attempt over.
SendersAreFormer == \A s \in Sessions : relay[s] = "sending" => Former(s)

\* A relay that is due is worked on, by an operation that has not arrived yet.
Attends(s, r) == relay[s] \notin {"none", "sending"} /\ ForSession(s) = r
DueIsAttended ==
  \A r \in Runs : fate[r] = "due" => r \in DOMAIN runs /\ \E s \in Sessions : Attends(s, r)

Attended == RelayTyped /\ SendersAreFormer /\ DueIsAttended

\* Who handed an attempt over does not get it back.
LEMMA FormerStays ==
  ASSUME Served, Served', [Next]_vars, NEW s \in Sessions, Former(s)
  PROVE  Former(s)'
<1>1. PICK r \in DOMAIN runs : s \in Elements(runs[r].sessions) /\ runs[r].session # s
  BY DEF Former
<1>2. r \in DOMAIN runs' /\ s \in Elements(runs'[r].sessions)
  BY <1>1, NextExtends DEF Served, Extends
<1>3. runs'[r].session # s
  <2>1. CASE runs'[r].session = runs[r].session
    BY <1>1, <2>1
  <2>2. CASE runs'[r].session # runs[r].session
    <3>1. PICK i \in DOMAIN runs[r].handoffs : Finishes(runs[r], runs'[r], i)
      BY <2>2, NextOwners DEF Served
    <3>2. Recorded(runs[r])
      BY DEF Served, Loadable, Sound
    <3> QED BY <1>1, <3>1, <3>2 DEF Recorded, Finishes
  <2> QED BY <2>1, <2>2
<1> QED BY <1>2, <1>3 DEF Former

\* Only the advance of a sequence completes a task, at the end of its owner's turn.
LEMMA ReachedEnds ==
  ASSUME Served, [Next]_vars, NEW r \in DOMAIN runs, Len(runs'[r].done) > Len(runs[r].done)
  PROVE  Advances(runs[r], runs'[r]) /\ EndsTurn(r, runs'[r])
<1>1. runs[r] \in TaskRun /\ Len(runs[r].done) \in Nat
  BY HandedKnown, Numbers DEF Served
<1>2. Recovered(runs[r]).done = runs[r].done
  BY <1>1, RecoveredHistory DEF SameWork
<1>3. ~ (Len(runs[r].done) > Len(runs[r].done))
  BY <1>1
<1>4. Changes(r, runs'[r])
  BY <1>2, <1>3, NextChanges DEF Served
<1> QED BY <1>3, <1>4 DEF Changes, Marks, Resumes, Interrupts, Prepares, Finishes, Counts, Finds,
           Admits, Settles, SameWork

\* An owner has not handed its attempt over.
LEMMA OwnerIsNotFormer ==
  ASSUME Served, NEW r \in DOMAIN runs
  PROVE  ~ Former(runs[r].session)
<1> SUFFICES ASSUME NEW q \in DOMAIN runs, runs[r].session \in Elements(runs[q].sessions),
                    runs[q].session # runs[r].session
             PROVE  FALSE
  BY DEF Former
<1>1. BoundTo(runs[q], runs[r].session)
  BY DEF BoundTo
<1> QED BY <1>1, OwnerIsBound DEF Served, BoundToOne

\* An advance that pauses for the relay sets it off, or finds one on its way.
LEMMA WorkflowAttended ==
  ASSUME Served, Served', Attended, Workflow
  PROVE  Attended'
<1>1. [Next]_vars
  BY WorkflowSteps
<1>2. relay \in [Sessions -> Stages] /\ fate \in [Runs -> Fates]
  BY DEF Attended, RelayTyped
<1> DEFINE due == {r \in DOMAIN runs : Reached(r)}
<1>3. /\ ready' = StillPaused \cup due
      /\ fate' = [r \in Runs |-> IF r \in due THEN "due" ELSE fate[r]]
  BY DEF Workflow
<1>4. \A s \in Sessions : relay'[s] = relay[s] \/ (relay[s] = "none" /\ relay'[s] = "settling")
  <2>1. relay' = [s \in Sessions |->
           IF agent[s] # "idle" /\ agent'[s] = "idle" /\ relay[s] = "none" /\ IsReady(s)'
           THEN "settling" ELSE relay[s]]
    BY DEF Workflow, SetOff
  <2> QED BY <2>1
<1>5. RelayTyped'
  <2>1. relay' \in [Sessions -> Stages]
    <3>1. relay' = [s \in Sessions |-> relay'[s]]
      BY DEF Workflow, SetOff
    <3>2. \A s \in Sessions : relay'[s] \in Stages
      BY <1>2, <1>4 DEF Stages
    <3> QED BY <3>1, <3>2
  <2>2. fate' \in [Runs -> Fates]
    <3> HIDE DEF due
    <3> QED BY <1>2, <1>3 DEF Fates
  <2> QED BY <2>1, <2>2 DEF RelayTyped
<1>6. SendersAreFormer'
  BY <1>1, <1>4, FormerStays DEF Attended, SendersAreFormer
<1>7. ASSUME NEW r \in Runs, fate'[r] = "due"
      PROVE  r \in DOMAIN runs' /\ \E s \in Sessions : Attends(s, r)'
  <2>1. CASE r \notin due
    <3>1. fate[r] = "due"
      <4> HIDE DEF due
      <4> QED BY <1>3, <1>7, <2>1
    <3>2. PICK s \in Sessions : r \in DOMAIN runs /\ Attends(s, r)
      BY <3>1 DEF Attended, DueIsAttended
    <3>3. r \in DOMAIN runs' /\ ForSession(s)' = r
      BY <1>1, <3>2, StaysWith DEF Attends
    <3>4. relay'[s] \notin {"none", "sending"}
      BY <1>4, <3>2 DEF Attends
    <3> QED BY <3>3, <3>4 DEF Attends
  <2>2. CASE r \in due
    <3>1. r \in DOMAIN runs /\ Reached(r) /\ Advances(runs[r], runs'[r]) /\ EndsTurn(r, runs'[r])
      BY <1>1, <2>2, ReachedEnds DEF Reached
    <3>2. PICK s \in Sessions : s = runs[r].session /\ ForSession(s) = r /\ ~ Former(s)
      BY <3>1, OwnerIsBound, OwnerIsNotFormer
    <3>3. r \in DOMAIN runs' /\ ForSession(s)' = r
      BY <1>1, <3>1, <3>2, StaysWith
    <3>4. runs'[r].session = s
      BY <3>1, <3>2 DEF Advances, SameHistory
    <3>5. agent[s] = "turn" /\ agent'[s] = "idle"
      <4>1. agent' = [agent EXCEPT ![s] = "idle"] /\ agent[s] = "turn"
        BY <3>1, <3>4 DEF EndsTurn, Reached
      <4>2. agent \in [Sessions -> AgentStage]
        BY DEF Served, Handed, Typed, TypeOK
      <4> QED BY <3>2, <4>1, <4>2
    <3>6. IsReady(s)'
      <4>1. r # NoRun
        BY <3>1, HandedKnown, ConstantsAssumption DEF Served
      <4>2. r \in ready'
        BY <1>3, <2>2
      <4> QED BY <3>3, <3>4, <4>1, <4>2 DEF IsReady, Owns
    <3>7. relay'[s] \notin {"none", "sending"}
      <4>1. relay'[s] = IF relay[s] = "none" THEN "settling" ELSE relay[s]
        <5>1. relay' = [x \in Sessions |->
                 IF agent[x] # "idle" /\ agent'[x] = "idle" /\ relay[x] = "none" /\ IsReady(x)'
                 THEN "settling" ELSE relay[x]]
          BY DEF Workflow, SetOff
        <5> QED BY <3>2, <3>5, <3>6, <5>1
      <4>2. relay[s] # "sending"
        BY <3>2 DEF Attended, SendersAreFormer
      <4> QED BY <4>1, <4>2
    <3> QED BY <3>2, <3>3, <3>7 DEF Attends
  <2> QED BY <2>1, <2>2
<1> QED BY <1>5, <1>6, <1>7 DEF Attended, DueIsAttended

\* A step that makes no relay due and ends none that attends to one.
LEMMA KeepsAttended ==
  ASSUME Served, Served', Attended, [Next]_vars, RelayTyped',
         \A s \in Sessions : relay'[s] = "sending" => relay[s] = "sending" \/ Former(s),
         \A r \in Runs : fate'[r] = "due" =>
           fate[r] = "due" /\ \A s \in Sessions : Attends(s, r) => relay'[s] \notin {"none", "sending"}
  PROVE  Attended'
<1>1. SendersAreFormer'
  BY FormerStays DEF Attended, SendersAreFormer
<1>2. ASSUME NEW r \in Runs, fate'[r] = "due"
      PROVE  r \in DOMAIN runs' /\ \E s \in Sessions : Attends(s, r)'
  <2>1. PICK s \in Sessions : r \in DOMAIN runs /\ Attends(s, r)
    BY <1>2 DEF Attended, DueIsAttended
  <2>2. r \in DOMAIN runs' /\ ForSession(s)' = r
    BY <2>1, StaysWith DEF Attends
  <2> QED BY <1>2, <2>1, <2>2 DEF Attends
<1> QED BY <1>1, <1>2 DEF Attended, DueIsAttended

\* the relay of s goes on to a later stage, with the same fates
LEMMA GoAttended ==
  ASSUME Served, Served', Attended, [Next]_vars, NEW s \in Sessions, NEW stage \in Stages,
         stage \notin {"none", "sending"}, Go(s, stage), fate' = fate
  PROVE  Attended'
<1>1. relay \in [Sessions -> Stages] /\ fate \in [Runs -> Fates]
  BY DEF Attended, RelayTyped
<1>2. RelayTyped'
  BY <1>1 DEF Go, RelayTyped
<1>3. \A x \in Sessions : relay'[x] = IF x = s THEN stage ELSE relay[x]
  BY <1>1 DEF Go
<1> QED BY <1>2, <1>3, KeepsAttended DEF Attends

\* When a relay gives up, what was due of its attempt is halted.
LEMMA GiveUpAttended ==
  ASSUME Served, Served', Attended, [Next]_vars, NEW s \in Sessions, GiveUp(s)
  PROVE  Attended'
<1>1. relay \in [Sessions -> Stages] /\ fate \in [Runs -> Fates]
  BY DEF Attended, RelayTyped
<1>2. PICK q : q = ForSession(s) /\ fate' = [fate EXCEPT ![q] = IF @ = "due" THEN "halted" ELSE @]
  BY DEF GiveUp
<1>3. \A r \in Runs : fate'[r] = IF r = q /\ fate[r] = "due" THEN "halted" ELSE fate[r]
  BY <1>1, <1>2
<1>4. \A x \in Sessions : relay'[x] = IF x = s THEN "none" ELSE relay[x]
  BY <1>1 DEF GiveUp, Go
<1>5. RelayTyped'
  <2>1. relay' \in [Sessions -> Stages]
    BY <1>1 DEF GiveUp, Go, Stages
  <2>2. fate' \in [Runs -> Fates]
    BY <1>1, <1>2 DEF Fates
  <2> QED BY <2>1, <2>2 DEF RelayTyped
<1> QED BY <1>2, <1>3, <1>4, <1>5, KeepsAttended DEF Attends

\* What the user does takes the relay of his attempt out of the due ones.
LEMMA UserAttended ==
  ASSUME Served, Served', Attended, NEW r \in DOMAIN runs, ByUser(r)
  PROVE  Attended'
<1>1. relay \in [Sessions -> Stages] /\ fate \in [Runs -> Fates]
  BY DEF Attended, RelayTyped
<1>2. [Next]_vars /\ relay' = relay /\ fate' = [fate EXCEPT ![r] = IF @ = "none" THEN @ ELSE "user"]
  BY UserSteps DEF ByUser
<1>3. \A q \in Runs : fate'[q] = "due" => fate[q] = "due"
  BY <1>1, <1>2
<1>4. RelayTyped'
  BY <1>1, <1>2 DEF RelayTyped, Fates
<1> QED BY <1>2, <1>3, <1>4, KeepsAttended DEF Attends

\* With the process every relay ends, and what was due is halted.
LEMMA RebootAttended ==
  ASSUME Served, Served', Attended, Reboot
  PROVE  Attended'
<1>1. relay \in [Sessions -> Stages] /\ fate \in [Runs -> Fates]
  BY DEF Attended, RelayTyped
<1>2. /\ relay' = [s \in Sessions |-> "none"]
      /\ fate' = [r \in Runs |-> IF fate[r] = "due" THEN "halted" ELSE fate[r]]
  BY DEF Reboot
<1>3. RelayTyped'
  BY <1>1, <1>2 DEF RelayTyped, Fates, Stages
<1>4. \A r \in Runs : fate'[r] # "due"
  BY <1>2
<1>5. \A s \in Sessions : relay'[s] # "sending"
  BY <1>2
<1> QED BY <1>3, <1>4, <1>5 DEF Attended, SendersAreFormer, DueIsAttended

\* A conversation whose transfer was received handed that attempt over.
LEMMA ReceivedIsFormer ==
  ASSUME Served, NEW s \in Sessions, NEW r \in DOMAIN runs, Receives(runs[r].session, s, r)
  PROVE  Former(s) /\ ForSession(s) = r
<1>1. PICK i \in DOMAIN runs[r].handoffs :
        runs[r].handoffs[i].source = s /\ runs[r].handoffs[i].target = runs[r].session
  BY DEF Receives, MadeFor
<1> DEFINE sessions == runs[r].sessions
           handoff == runs[r].handoffs[i]
<1>2. /\ IsInjective(sessions) /\ handoff.epoch \in 1..Len(sessions)
      /\ sessions[handoff.epoch] = s
      /\ handoff.status = "prepared" => handoff.target \notin Elements(sessions)
      /\ handoff.status = "transferred" =>
           handoff.epoch + 1 \in 1..Len(sessions) /\ sessions[handoff.epoch + 1] = handoff.target
  BY <1>1 DEF Served, Loadable, Sound, Recorded
<1>3. runs[r] \in TaskRun /\ handoff.status \in {"prepared", "transferred"}
  <2>1. handoff \in Transfer
    BY HandedKnown, Fields DEF Served
  <2> QED BY <2>1, HandedKnown DEF Served, Transfer
<1>4. DOMAIN sessions = 1..Len(sessions) /\ Len(sessions) \in Nat
  BY <1>3, Numbers
<1>5. s \in Elements(sessions)
  BY <1>2, <1>4 DEF Elements
<1>6. runs[r].session # s
  <2>1. handoff.status = "transferred"
    BY <1>1, <1>2, <1>3, OwnerIsBound
  <2> HIDE DEF sessions, handoff
  <2>2. handoff.epoch # handoff.epoch + 1
    BY <1>2, <1>4
  <2> QED BY <1>1, <1>2, <1>4, <2>1, <2>2 DEF IsInjective, handoff
<1>7. BoundTo(runs[r], s)
  BY <1>5 DEF BoundTo
<1> QED BY <1>5, <1>6, <1>7, BoundIsFound DEF Former

\* The resumed receiver ends what was due.
LEMMA ResumeReceiverAttended ==
  ASSUME Served, Served', Attended, NEW s \in Sessions, ResumeReceiver(s)
  PROVE  Attended'
<1>1. relay \in [Sessions -> Stages] /\ fate \in [Runs -> Fates]
  BY DEF Attended, RelayTyped
<1>2. [Next]_vars
  BY RelaySteps DEF RelayStep
<1>3. PICK r \in DOMAIN runs :
        /\ Receives(runs[r].session, s, r)
        /\ \/ /\ Go(s, "sending")
              /\ fate' = [fate EXCEPT ![r] = IF @ = "due" THEN "resumed" ELSE @]
           \/ GiveUp(s)
  BY DEF ResumeReceiver
<1>4. Former(s) /\ ForSession(s) = r
  BY <1>3, ReceivedIsFormer
<1>5. CASE GiveUp(s)
  BY <1>2, <1>5, GiveUpAttended
<1>6. CASE Go(s, "sending") /\ fate' = [fate EXCEPT ![r] = IF @ = "due" THEN "resumed" ELSE @]
  <2>1. \A q \in Runs : fate'[q] = IF q = r /\ fate[q] = "due" THEN "resumed" ELSE fate[q]
    BY <1>1, <1>6
  <2>2. \A x \in Sessions : relay'[x] = IF x = s THEN "sending" ELSE relay[x]
    BY <1>1, <1>6 DEF Go
  <2>3. RelayTyped'
    BY <1>1, <1>6 DEF RelayTyped, Go, Stages, Fates
  <2> QED BY <1>2, <1>4, <2>1, <2>2, <2>3, KeepsAttended DEF Attends
<1> QED BY <1>3, <1>5, <1>6

\* The message to go on is sent for nothing that is still due.
LEMMA SendAttended ==
  ASSUME Served, Served', Attended, NEW s \in Sessions, Send(s)
  PROVE  Attended'
<1>1. relay \in [Sessions -> Stages] /\ fate \in [Runs -> Fates]
  BY DEF Attended, RelayTyped
<1>2. [Next]_vars
  BY RelaySteps DEF RelayStep
<1>3. relay[s] = "sending" /\ Go(s, "none") /\ fate' = fate
  BY DEF Send
<1>4. \A x \in Sessions : relay'[x] = IF x = s THEN "none" ELSE relay[x]
  BY <1>1, <1>3 DEF Go
<1>5. RelayTyped'
  BY <1>1, <1>3 DEF RelayTyped, Go, Stages
<1> QED BY <1>2, <1>3, <1>4, <1>5, KeepsAttended DEF Attends

\* Every stage of a relay, and every failure, keeps what is due attended to.
LEMMA RelayStepAttended ==
  ASSUME Served, Served', Attended, NEW s \in Sessions, RelayStep(s) \/ Fail(s)
  PROVE  Attended'
<1>1. [Next]_vars
  BY RelaySteps DEF Fail
<1>2. CASE Settled(s) \/ Gathered(s)
  <2>1. GiveUp(s) \/ ((Go(s, "gathering") \/ Go(s, "preparing")) /\ fate' = fate)
    BY <1>2 DEF Settled, Gathered
  <2> QED BY <1>1, <2>1, GiveUpAttended, GoAttended DEF Stages
<1>3. CASE Prepare(s)
  <2>1. GiveUp(s) \/ (Go(s, "creating") /\ fate' = fate)
    BY <1>3 DEF Prepare
  <2> QED BY <1>1, <2>1, GiveUpAttended, GoAttended DEF Stages
<1>4. CASE Created(s) \/ Finish(s)
  <2>1. (Go(s, "finishing") \/ Go(s, "resuming")) /\ fate' = fate
    BY <1>4 DEF Created, Finish
  <2> QED BY <1>1, <2>1, GoAttended DEF Stages
<1>5. CASE Fail(s)
  BY <1>1, <1>5, GiveUpAttended DEF Fail
<1> QED BY <1>2, <1>3, <1>4, <1>5, ResumeReceiverAttended, SendAttended DEF RelayStep

\* What is due is attended to, by an operation or nobody's any more.
LEMMA NextAttended ==
  ASSUME Served, Served', Attended, [RelayNext]_allVars
  PROVE  Attended'
<1>1. CASE RelayNext
  BY <1>1, WorkflowAttended, UserAttended, RebootAttended, RelayStepAttended DEF RelayNext
<1>2. CASE UNCHANGED allVars
  <2>1. UNCHANGED vars /\ relay' = relay /\ fate' = fate
    BY <1>2 DEF allVars, relayVars
  <2>2. RelayTyped'
    BY <2>1 DEF Attended, RelayTyped
  <2> QED BY <2>1, <2>2, KeepsAttended DEF Attends
<1> QED BY <1>1, <1>2

\* The stages of a relay are followed in every reachable state.
LEMMA AlwaysAttended == RelaySpec => []Attended
<1>1. RelayInit => Attended
  <2> SUFFICES ASSUME RelayInit PROVE Attended
    OBVIOUS
  <2>1. relay = [s \in Sessions |-> "none"] /\ fate = [r \in Runs |-> "none"]
    BY DEF RelayInit
  <2>2. RelayTyped
    BY <2>1 DEF RelayTyped, Stages, Fates
  <2> QED BY <2>1, <2>2 DEF Attended, SendersAreFormer, DueIsAttended
<1> QED BY <1>1, NextAttended, AlwaysServed, PTL DEF RelaySpec

\* A relay that is due is never forgotten: from the commit that paused the
\* sequence until it runs in the receiver an operation of the controller works on
\* it, or the relay failed, the process died or the user stepped in.
THEOREM DueRelaysAreAttended == RelaySpec => []DueRelayIsUnderWay
<1>1. Served /\ Attended => DueRelayIsUnderWay
  <2> SUFFICES ASSUME Served, Attended, NEW r \in DOMAIN runs, fate[r] = "due"
               PROVE  \E s \in Sessions : relay[s] # "none" /\ ForSession(s) = r
    BY DEF DueRelayIsUnderWay
  <2>1. r \in Runs
    BY HandedKnown DEF Served
  <2> QED BY <2>1 DEF Attended, DueIsAttended, Attends
<1> QED BY <1>1, AlwaysServed, AlwaysAttended, PTL
-----------------------------------------------------------------------------
(* What an authorization earns                                                 *)

\* Fewer than all multiples of k up to c.
LEMMA Multiples ==
  ASSUME NEW h \in Nat, NEW k \in Nat \ {0}, NEW c \in Nat, c % k = 0, h * k < c
  PROVE  (h + 1) * k <= c
<1> DEFINE q == c \div k
<1>1. q \in Int /\ c = k * q
  <2>1. c = k * (c \div k) + (c % k)
    BY SMT
  <2> QED BY <2>1
<1> HIDE DEF q
<1>2. h < q
  <2>1. SUFFICES ASSUME q <= h PROVE FALSE
    BY <1>1
  <2>2. (h - q) * k >= 0
    BY <1>1, <2>1
  <2> QED BY <1>1, <2>2
<1>3. (q - h - 1) * k >= 0
  BY <1>1, <1>2
<1> QED BY <1>1, <1>3

\* One less of them.
LEMMA OneLess ==
  ASSUME NEW h \in Nat, NEW k \in Nat \ {0}, NEW c \in Nat, (h + 1) * k <= c
  PROVE  h * k < c
  OBVIOUS

PhasesOf(run) == {PhaseOf(Plan, run.done[i].task) : i \in DOMAIN run.done}

\* run has earned h changes of its conversation: it completed as many phases, and
\* one that was not counted yet is begun when they were just enough
Earns(h, run) ==
  h > 0 =>
    /\ run.relay > 0
    /\ h * run.relay <= Cardinality(PhasesOf(run))
    /\ h * run.relay = Cardinality(PhasesOf(run)) => PhaseOf(Plan, run.task) \notin PhasesOf(run)

\* The phases of an attempt can be counted.
LEMMA PhasesCounted ==
  ASSUME NEW run \in TaskRun
  PROVE  IsFiniteSet(PhasesOf(run)) /\ Cardinality(PhasesOf(run)) \in Nat
<1>1. PhasesOf(run) \subseteq 1..Len(Plan.phases)
  <2>1. \A i \in DOMAIN run.done : run.done[i].task \in Tasks
    BY Fields DEF Done
  <2>2. DOMAIN Plan.phases = 1..Len(Plan.phases)
    BY PlanRules
  <2> QED BY <2>1, <2>2, PhaseOfTask DEF PhasesOf
<1>2. IsFiniteSet(1..Len(Plan.phases))
  <2>1. Len(Plan.phases) \in Nat
    BY PlanRules
  <2> QED BY <2>1, FS_Interval
<1> QED BY <1>1, <1>2, FS_Subset, FS_CardinalityType

\* Who earned more earned less.
LEMMA EarnsLess ==
  ASSUME NEW run \in TaskRun, NEW h \in Nat, Earns(h + 1, run)
  PROVE  Earns(h, run)
<1>1. run.relay \in Nat
  BY DEF TaskRun
<1> QED BY <1>1, OneLess, PhasesCounted DEF Earns

\* What is earned depends on the work done.
LEMMA EarnsSame ==
  ASSUME NEW old, NEW run, run.task = old.task, run.done = old.done, run.relay = old.relay,
         NEW h, Earns(h, old)
  PROVE  Earns(h, run)
  BY DEF Earns, PhasesOf

\* An advance counts the phase of the completed task.
LEMMA AdvancedPhases ==
  ASSUME NEW old \in TaskRun, NEW run \in TaskRun, Advances(old, run)
  PROVE  /\ PhasesOf(run) = PhasesOf(old) \cup {PhaseOf(Plan, old.task)}
         /\ Cardinality(PhasesOf(run)) =
              Cardinality(PhasesOf(old)) + (IF PhaseOf(Plan, old.task) \in PhasesOf(old) THEN 0 ELSE 1)
<1>1. PICK new \in Done : run.done = Append(old.done, new) /\ new.task = old.task
  <2> DEFINE new == [task |-> old.task, evidence |-> old.evidence, actionsUsed |-> Len(old.actions)]
  <2>1. Len(old.actions) \in Nat
    BY Numbers
  <2>2. new \in Done
    BY <2>1 DEF TaskRun, Done
  <2>3. run.done = Append(old.done, new) /\ new.task = old.task
    BY DEF Advances
  <2> QED BY <2>2, <2>3
<1>2. old.done \in Seq(Done)
  BY Fields
<1>3. /\ DOMAIN old.done = 1..Len(old.done) /\ DOMAIN run.done = 1..(Len(old.done) + 1)
      /\ run.done[Len(old.done) + 1] = new /\ \A i \in 1..Len(old.done) : run.done[i] = old.done[i]
      /\ Len(old.done) \in Nat
  BY <1>1, <1>2
<1>4. PhasesOf(run) = PhasesOf(old) \cup {PhaseOf(Plan, old.task)}
  <2>1. 1..(Len(old.done) + 1) = (1..Len(old.done)) \cup {Len(old.done) + 1}
    BY <1>3
  <2> QED BY <1>1, <1>3, <2>1 DEF PhasesOf
<1>5. ASSUME NEW S, IsFiniteSet(S), NEW p
      PROVE  Cardinality(S \cup {p}) = Cardinality(S) + (IF p \in S THEN 0 ELSE 1)
  <2>1. Cardinality(S) \in Nat
    BY <1>5, FS_CardinalityType
  <2>2. Cardinality(S \cup {p}) = IF p \in S THEN Cardinality(S) ELSE Cardinality(S) + 1
    BY <1>5, FS_AddElement
  <2> QED BY <2>1, <2>2
<1> QED BY <1>4, <1>5, PhasesCounted

\* An advance keeps what was earned, and is past the point where it was just enough.
LEMMA AdvanceEarns ==
  ASSUME NEW old \in TaskRun, NEW run \in TaskRun, Advances(old, run), NEW h \in Nat, Earns(h, old)
  PROVE  Earns(h, run) /\ h * run.relay < Cardinality(PhasesOf(run))
<1> DEFINE c == Cardinality(PhasesOf(old))
           d == Cardinality(PhasesOf(run))
           k == run.relay
           p == PhaseOf(Plan, old.task)
<1>1. k = old.relay /\ k \in Nat /\ c \in Nat /\ d \in Nat
  BY PhasesCounted DEF Advances, SameTerms, TaskRun
<1>2. d = c + (IF p \in PhasesOf(old) THEN 0 ELSE 1) /\ p \in PhasesOf(run)
  BY AdvancedPhases
<1>3. CASE h = 0
  <2>1. PhasesOf(run) # {}
    BY <1>2
  <2>2. d > 0
    BY <1>1, <2>1, PhasesCounted, FS_EmptySet
  <2>3. h * k = 0
    BY <1>1, <1>3
  <2> QED BY <1>3, <2>2, <2>3 DEF Earns
<1>4. CASE h > 0
  <2>1. k > 0 /\ h * k <= c /\ (h * k = c => p \notin PhasesOf(old)) /\ h * k \in Nat
    BY <1>1, <1>4 DEF Earns
  <2>2. h * k < d
    BY <1>1, <1>2, <2>1
  <2> QED BY <1>1, <2>1, <2>2 DEF Earns
<1> QED BY <1>3, <1>4

\* In a sequence of phases the next task of another phase begins a new one.
LEMMA NextPhaseIsNew ==
  ASSUME NEW old \in TaskRun, NEW run \in TaskRun, Advances(old, run), Sequenced(run),
         Ordered(run.range), PhaseOf(Plan, run.task) # PhaseOf(Plan, old.task)
  PROVE  PhaseOf(Plan, run.task) \notin PhasesOf(run)
<1> DEFINE n == Len(run.done)
           range == run.range
<1>1. /\ n \in Nat /\ n = Len(old.done) + 1 /\ run.done[n].task = old.task /\ DOMAIN run.done = 1..n
  <2>1. run.done \in Seq(Done) /\ old.done \in Seq(Done)
    BY Fields
  <2>2. run.done = Append(old.done, [task |-> old.task, evidence |-> old.evidence,
                                     actionsUsed |-> Len(old.actions)])
    BY DEF Advances
  <2> QED BY <2>1, <2>2
<1>2. range # <<>>
  <2>1. run.done # <<>>
    BY <1>1
  <2> QED BY <2>1 DEF Sequenced
<1>3. /\ n + 1 \in DOMAIN range /\ range[n + 1] = run.task
      /\ \A i \in 1..n : i \in DOMAIN range /\ run.done[i].task = range[i]
  <2>1. /\ n < Len(range) /\ range[n + 1] = run.task
        /\ \A i \in 1..n : run.done[i].task = range[i]
    BY <1>1, <1>2 DEF Sequenced
  <2>2. DOMAIN range = 1..Len(range) /\ Len(range) \in Nat
    BY Numbers
  <2> QED BY <1>1, <2>1, <2>2
<1>4. \A i \in DOMAIN range : range[i] \in Tasks /\ PhaseOf(Plan, range[i]) \in Nat
  BY Fields, PhaseIsNumber
<1>5. ASSUME NEW i \in 1..n PROVE PhaseOf(Plan, run.done[i].task) < PhaseOf(Plan, run.task)
  <2>1. n \in 1..n /\ n \in DOMAIN range /\ i <= n /\ n < n + 1
    BY <1>1, <1>3
  <2>2. PhaseOf(Plan, range[n]) <= PhaseOf(Plan, range[n + 1])
    BY <1>3, <2>1 DEF Ordered
  <2>3. PhaseOf(Plan, range[n]) # PhaseOf(Plan, range[n + 1])
    BY <1>1, <1>3, <2>1
  <2>4. PhaseOf(Plan, range[i]) <= PhaseOf(Plan, range[n])
    <3>1. CASE i = n
      BY <1>4, <2>1, <3>1
    <3>2. CASE i < n
      BY <1>3, <2>1, <3>2 DEF Ordered
    <3> QED BY <1>1, <2>1, <3>1, <3>2
  <2> HIDE DEF n, range
  <2> QED BY <1>3, <1>4, <2>1, <2>2, <2>3, <2>4
<1>6. PhaseOf(Plan, run.task) \in Nat
  BY <1>3, <1>4
<1> HIDE DEF n
<1> QED BY <1>1, <1>5, <1>6 DEF PhasesOf

\* A relay is due when one more change is earned.
LEMMA DueEarns ==
  ASSUME NEW old \in TaskRun, NEW run \in TaskRun, Advances(old, run), Sequenced(run),
         Ordered(run.range), RelayDue(old, run.done, run.task), NEW h \in Nat, Earns(h, old)
  PROVE  Earns(h + 1, run)
<1> DEFINE d == Cardinality(PhasesOf(run))
<1>1. run.relay = old.relay /\ run.relay \in Nat \ {0} /\ d \in Nat
  <2>1. run.relay = old.relay /\ old.relay > 0
    BY DEF Advances, SameTerms, RelayDue
  <2>2. run.relay \in Nat
    BY DEF TaskRun
  <2> QED BY <2>1, <2>2, PhasesCounted
<1>2. d % run.relay = 0 /\ PhaseOf(Plan, run.task) # PhaseOf(Plan, old.task)
  BY <1>1 DEF RelayDue, PhasesOf
<1>3. h * run.relay < d
  BY AdvanceEarns
<1>4. (h + 1) * run.relay <= d
  <2> HIDE DEF d
  <2> QED BY <1>1, <1>2, <1>3, Multiples
<1> QED BY <1>1, <1>2, <1>4, NextPhaseIsNew DEF Earns
-----------------------------------------------------------------------------
(* Turns and calls prepare no transfer                                         *)

TransfersStay ==
  \A r \in DOMAIN runs : r \in DOMAIN runs' /\ runs'[r].handoffs = runs[r].handoffs

\* Storing an attempt with its transfers leaves those of all.
LEMMA StoreStays ==
  ASSUME NEW r, NEW run, Store(r, run), r \in DOMAIN runs => run.handoffs = runs[r].handoffs
  PROVE  TransfersStay
  BY DEF Store, TransfersStay

\* What turns and calls write of an attempt leaves its transfers.
LEMMA WrittenFields ==
  ASSUME NEW old \in TaskRun, NEW a, NEW b, NEW c, NEW d
  PROVE  /\ [old EXCEPT !.status = a].handoffs = old.handoffs
         /\ [old EXCEPT !.turns = a].handoffs = old.handoffs
         /\ [old EXCEPT !.actions = a].handoffs = old.handoffs
         /\ [old EXCEPT !.status = a, !.actions = b].handoffs = old.handoffs
         /\ [old EXCEPT !.status = a, !.evidence = b].handoffs = old.handoffs
         /\ [old EXCEPT !.task = a, !.evidence = b, !.done = c, !.status = d].handoffs = old.handoffs
  BY DEF TaskRun

\* A bound conversation's attempt is one there is.
LEMMA FoundRun ==
  ASSUME Typed, NEW s \in Sessions, ForSession(s) # NoRun
  PROVE  runs[ForSession(s)] \in TaskRun
  BY ForSessionIsBound, RunsTyped

\* The hooks of a turn prepare no transfer.
LEMMA TurnsStay == ASSUME Typed, Turns PROVE TransfersStay
<1>1. PICK s \in Sessions :
    \/ \E stage \in {"prestep", "injected"} : Wake(s, stage)
    \/ Steer(s) \/ AbortTurn(s) \/ EndTurnOther(s)
    \/ \E stored \in BOOLEAN : Interrupt(s, stored)
    \/ \E ok \in BOOLEAN :
         \/ CheckAccess(s, ok) \/ StepDenied(s, ok) \/ EnterTurn(s, ok)
         \/ EndTurnAdvance(s, ok) \/ EndTurnRunning(s, ok)
  BY DEF Turns
<1> DEFINE r == ForSession(s)
<1>2. ASSUME runs' = runs PROVE TransfersStay
  BY <1>2 DEF TransfersStay
<1>3. CASE (\E stage \in {"prestep", "injected"} : Wake(s, stage)) \/ Steer(s) \/ AbortTurn(s)
            \/ EndTurnOther(s) \/ \E ok \in BOOLEAN : CheckAccess(s, ok)
  BY <1>2, <1>3 DEF Wake, Steer, AbortTurn, EndTurnOther, CheckAccess, durable
<1>4. Owns(s) => r # NoRun
  BY DEF Owns
<1>5. ASSUME NEW status, r # NoRun, Store(r, [runs[r] EXCEPT !.status = status])
      PROVE  TransfersStay
  <2>1. [runs[r] EXCEPT !.status = status].handoffs = runs[r].handoffs
    BY <1>5, FoundRun, WrittenFields
  <2> QED BY <1>5, <2>1, StoreStays
<1>6. ASSUME NEW stored, Interrupt(s, stored) PROVE TransfersStay
  <2> DEFINE actions == Remark(runs[r], "pending", "unknown")
  <2>1. CASE runs' = runs
    BY <1>2, <2>1
  <2>2. CASE r # NoRun /\ Store(r, [runs[r] EXCEPT !.status = "needs_reconciliation", !.actions = actions])
    <3> HIDE DEF actions
    <3>1. [runs[r] EXCEPT !.status = "needs_reconciliation", !.actions = actions].handoffs = runs[r].handoffs
      BY <2>2, FoundRun, WrittenFields
    <3> QED BY <2>2, <3>1, StoreStays
  <2> QED BY <1>4, <1>6, <2>1, <2>2 DEF Interrupt, RunsAsOwner
<1>7. ASSUME NEW ok, StepDenied(s, ok) PROVE TransfersStay
  BY <1>2, <1>4, <1>5, <1>7 DEF StepDenied, FenceOwner, RunsAsOwner
<1>8. ASSUME NEW ok, EnterTurn(s, ok) PROVE TransfersStay
  <2>1. CASE runs' = runs
    BY <1>2, <2>1
  <2>2. CASE r # NoRun /\ Store(r, [runs[r] EXCEPT !.turns = runs[r].turns + 1])
    <3> DEFINE turns == runs[r].turns + 1
    <3> HIDE DEF turns
    <3>1. [runs[r] EXCEPT !.turns = turns].handoffs = runs[r].handoffs
      BY <2>2, FoundRun, WrittenFields
    <3>2. Store(r, [runs[r] EXCEPT !.turns = turns])
      BY <2>2 DEF turns
    <3> QED BY <3>1, <3>2, StoreStays
  <2>3. CASE r # NoRun /\ Store(r, [runs[r] EXCEPT !.status = "paused"])
    BY <1>5, <2>3
  <2>4. \/ runs' = runs
        \/ r # NoRun /\ Store(r, [runs[r] EXCEPT !.turns = runs[r].turns + 1])
        \/ r # NoRun /\ Store(r, [runs[r] EXCEPT !.status = "paused"])
    BY <1>8 DEF EnterTurn, Denied
  <2> QED BY <2>1, <2>2, <2>3, <2>4
<1>9. ASSUME NEW ok, EndTurnAdvance(s, ok) PROVE TransfersStay
  <2>1. PICK task, done, status :
          Store(r, [runs[r] EXCEPT !.task = task, !.evidence = <<>>, !.done = done, !.status = status])
    BY <1>9 DEF EndTurnAdvance
  <2>2. [runs[r] EXCEPT !.task = task, !.evidence = <<>>, !.done = done, !.status = status].handoffs
           = runs[r].handoffs
    BY <1>4, <1>9, FoundRun, WrittenFields DEF EndTurnAdvance
  <2> QED BY <2>1, <2>2, StoreStays
<1>10. ASSUME NEW ok, EndTurnRunning(s, ok) PROVE TransfersStay
  <2>1. PICK status : Store(r, [runs[r] EXCEPT !.status = status])
    BY <1>10 DEF EndTurnRunning
  <2>2. r # NoRun
    BY <1>4, <1>10 DEF EndTurnRunning, RunsAsOwner
  <2> QED BY <1>5, <2>1, <2>2
<1> QED BY <1>1, <1>3, <1>6, <1>7, <1>8, <1>9, <1>10

\* Neither do the tool calls.
LEMMA ToolCallsStay == ASSUME Typed, ToolCalls PROVE TransfersStay
<1>1. ASSUME runs' = runs PROVE TransfersStay
  BY <1>1 DEF TransfersStay
<1>2. ASSUME NEW s \in Sessions, NEW status, ForSession(s) # NoRun,
             Store(ForSession(s), [runs[ForSession(s)] EXCEPT !.status = status])
      PROVE  TransfersStay
  <2>1. [runs[ForSession(s)] EXCEPT !.status = status].handoffs = runs[ForSession(s)].handoffs
    BY <1>2, FoundRun, WrittenFields
  <2> QED BY <1>2, <2>1, StoreStays
<1>3. ASSUME NEW s \in Sessions, NEW ok, ToolDenied(s, ok) PROVE TransfersStay
  BY <1>1, <1>2, <1>3 DEF ToolDenied, FenceOwner, RunsAsOwner, Owns
<1>4. ASSUME NEW r, runs[r] \in TaskRun, NEW actions, Store(r, [runs[r] EXCEPT !.actions = actions])
      PROVE  TransfersStay
  <2>1. [runs[r] EXCEPT !.actions = actions].handoffs = runs[r].handoffs
    BY <1>4, WrittenFields
  <2> QED BY <1>4, <2>1, StoreStays
<1>5. ASSUME NEW s \in Sessions, NEW c, NEW ok, BeginAction(s, c, ok) PROVE TransfersStay
  <2> DEFINE r == ForSession(s)
  <2>1. \/ runs' = runs
        \/ r # NoRun /\ Store(r, [runs[r] EXCEPT !.status = "paused"])
        \/ r # NoRun /\ \E actions : Store(r, [runs[r] EXCEPT !.actions = actions])
    BY <1>5 DEF BeginAction
  <2> QED BY <1>1, <1>2, <1>4, <2>1, FoundRun
<1>6. ASSUME NEW s \in Sessions, NEW cited, NEW ok, Complete(s, cited, ok) PROVE TransfersStay
  <2> DEFINE r == ForSession(s)
  <2>1. PICK evidence : Store(r, [runs[r] EXCEPT !.status = "completed", !.evidence = evidence])
    BY <1>6 DEF Complete
  <2>2. [runs[r] EXCEPT !.status = "completed", !.evidence = evidence].handoffs = runs[r].handoffs
    BY <1>6, FoundRun, WrittenFields DEF Complete
  <2> QED BY <2>1, <2>2, StoreStays
<1>7. ASSUME NEW k \in calls, NEW succeeded, NEW stored, Settle(k, succeeded, stored) PROVE TransfersStay
  <2>1. runs' = runs \/ \E actions : Store(k.run, [runs[k.run] EXCEPT !.actions = actions])
    BY <1>7 DEF Settle
  <2>2. runs[k.run] \in TaskRun
    BY <1>7, RunsTyped DEF Settle, Typed, CallsAreKnown
  <2> QED BY <1>1, <1>4, <2>1, <2>2
<1>8. ASSUME NEW s, NEW k, NEW ok, StartJob(s) \/ EndJob(s) \/ EndOrdinary(k) \/ Dispatch(k, ok)
      PROVE  TransfersStay
  BY <1>1, <1>8 DEF StartJob, EndJob, EndOrdinary, Dispatch, durable
<1> QED BY <1>3, <1>5, <1>6, <1>7, <1>8 DEF ToolCalls

\* What the service does without its controls prepares no transfer.
LEMMA WorkflowStays == ASSUME Typed, Workflow PROVE TransfersStay
<1>1. ASSUME runs' = runs PROVE TransfersStay
  BY <1>1 DEF TransfersStay
<1>2. CASE Edits \/ \E r \in Runs : Expire(r)
  BY <1>1, <1>2 DEF Edits, Save, Approve, Expire, durable
<1>3. CASE Claims
  <2>1. PICK r \in Runs : r \notin DOMAIN runs /\ \E run : Store(r, run)
    BY <1>3, ClaimChanges DEF NewAttemptStep
  <2> QED BY <2>1, StoreStays
<1> QED BY <1>2, <1>3, TurnsStay, ToolCallsStay DEF Workflow
-----------------------------------------------------------------------------
(* A relay was earned                                                          *)

\* An attempt whose relay is ready has been paused for it and nothing else.
ReadyIsPaused ==
  \A r \in ready : r \in DOMAIN runs /\ runs[r].status = "paused" /\ ~ Prepared(runs[r])

\* Relays are made for owners, present or former.
RelaysOfOwners ==
  \A s \in Sessions : relay[s] # "none" =>
    \E r \in DOMAIN runs : s \in Elements(runs[r].sessions)

\* Between its preparation and its end the transfer of a relay is on record.
PreparesOnce ==
  \A s \in Sessions : relay[s] \in {"creating", "finishing"} =>
    \E r \in DOMAIN runs : \E i \in DOMAIN runs[r].handoffs : MadeFor(s, r, i)

\* a transfer of r is prepared that some relay is about to finish
Underway(r) ==
  \E s \in Sessions : \E i \in DOMAIN runs[r].handoffs :
    /\ relay[s] \in {"creating", "finishing"}
    /\ MadeFor(s, r, i) /\ runs[r].handoffs[i].status = "prepared"

\* a relay of r will be made unless something comes in between
Pending(r) ==
  r \in ready \/ (\E s \in Sessions : relay[s] = "preparing" /\ runs[r].session = s) \/ Underway(r)

\* the transfers relays made of r, with the one that is pending
Spending(r) == hops[r] + (IF Pending(r) THEN 1 ELSE 0)

HopsTyped == hops \in [Runs -> Nat] /\ \A r \in Runs : hops[r] > 0 => r \in DOMAIN runs

Authorized ==
  /\ HopsTyped /\ ReadyIsPaused /\ RelaysOfOwners /\ PreparesOnce
  /\ \A r \in DOMAIN runs : Earns(Spending(r), runs[r])

\* the stages before and after the preparation of a transfer, one of them not entered
NoneBegins ==
  \A s \in Sessions :
    /\ relay'[s] = "preparing" => relay[s] = "preparing"
    /\ relay'[s] \in {"creating", "finishing"} => relay[s] \in {"creating", "finishing"}

\* A prepared transfer after a change was prepared before or is the only one.
LEMMA ChangePrepares ==
  ASSUME Served, NEW r \in DOMAIN runs, NEW run \in TaskRun, Changes(r, run),
         NEW i \in DOMAIN run.handoffs, run.handoffs[i].status = "prepared"
  PROVE  \/ /\ i \in DOMAIN runs[r].handoffs /\ runs[r].handoffs[i].status = "prepared"
            /\ run.handoffs[i].source = runs[r].handoffs[i].source
         \/ ~ Prepared(runs[r]) /\ run.handoffs[i].source = runs[r].session
<1> DEFINE old == runs[r]
<1>1. /\ old \in TaskRun /\ old.handoffs \in Seq(Transfer)
      /\ \A j \in DOMAIN old.handoffs : old.handoffs[j] \in Transfer
  BY HandedKnown, Fields DEF Served
<1>2. CASE SameHistory(old, run)
  BY <1>2 DEF SameHistory
<1>3. CASE Prepares(old, run)
  <2>1. PICK new : run.handoffs = Append(old.handoffs, new) /\ new.source = old.session
    BY <1>3 DEF Prepares
  <2>2. i \in DOMAIN old.handoffs \/ i = Len(old.handoffs) + 1
    BY <1>1, <2>1
  <2>3. i \in DOMAIN old.handoffs => run.handoffs[i] = old.handoffs[i]
    BY <1>1, <2>1
  <2>4. i = Len(old.handoffs) + 1 => run.handoffs[i] = new
    BY <1>1, <2>1
  <2>5. ~ Prepared(old)
    BY <1>3 DEF Prepares
  <2> QED BY <2>1, <2>2, <2>3, <2>4, <2>5
<1>4. ASSUME NEW j \in DOMAIN old.handoffs, Finishes(old, run, j)
      PROVE  /\ i \in DOMAIN old.handoffs /\ old.handoffs[i].status = "prepared"
             /\ run.handoffs[i].source = old.handoffs[i].source
  <2>1. run.handoffs = [old.handoffs EXCEPT ![j].status = "transferred"]
    BY <1>4 DEF Finishes
  <2>2. i \in DOMAIN old.handoffs
    BY <1>1, <2>1
  <2>3. run.handoffs[i] = IF i = j THEN [old.handoffs[i] EXCEPT !.status = "transferred"]
                                   ELSE old.handoffs[i]
    BY <1>1, <2>1, <2>2
  <2>4. i # j
    <3>1. [old.handoffs[j] EXCEPT !.status = "transferred"].status = "transferred"
      BY <1>1 DEF Transfer
    <3> QED BY <2>3, <3>1
  <2> QED BY <2>2, <2>3, <2>4
<1>5. SameHistory(old, run) \/ Prepares(old, run) \/ \E j \in DOMAIN old.handoffs : Finishes(old, run, j)
  BY DEF Changes, Marks, Resumes, Interrupts, Counts, Finds, Advances, Admits, Settles
<1> QED BY <1>2, <1>3, <1>4, <1>5

\* The same of every step of the service.
LEMMA NextPrepares ==
  ASSUME Served, [Next]_vars, NEW r \in DOMAIN runs,
         NEW i \in DOMAIN runs'[r].handoffs, runs'[r].handoffs[i].status = "prepared"
  PROVE  \/ /\ i \in DOMAIN runs[r].handoffs /\ runs[r].handoffs[i].status = "prepared"
            /\ runs'[r].handoffs[i].source = runs[r].handoffs[i].source
         \/ ~ Prepared(runs[r]) /\ runs'[r].handoffs[i].source = runs[r].session
<1>1. Recovered(runs[r]).handoffs = runs[r].handoffs
  BY HandedKnown, RecoveredHistory DEF Served, SameHistory
<1>2. CASE runs'[r].handoffs = runs[r].handoffs
  BY <1>2
<1>3. CASE Changes(r, runs'[r])
  <2>1. runs'[r] \in TaskRun
    BY NextChanges DEF Served
  <2> QED BY <1>3, <2>1, ChangePrepares
<1> QED BY <1>1, <1>2, <1>3, NextChanges DEF Served

\* An owner that made a transfer of its attempt has it prepared still.
LEMMA OwnersTransfer ==
  ASSUME Served, NEW r \in DOMAIN runs, NEW i \in DOMAIN runs[r].handoffs,
         runs[r].handoffs[i].source = runs[r].session
  PROVE  runs[r].handoffs[i].status = "prepared"
<1> DEFINE sessions == runs[r].sessions
           handoff == runs[r].handoffs[i]
<1>1. /\ IsInjective(sessions) /\ handoff.epoch \in 1..Len(sessions)
      /\ sessions[handoff.epoch] = handoff.source
      /\ handoff.status = "transferred" => handoff.epoch + 1 \in 1..Len(sessions)
  BY DEF Served, Loadable, Sound, Recorded
<1>2. handoff.status \in {"prepared", "transferred"} /\ runs[r] \in TaskRun
  <2>1. handoff \in Transfer
    BY HandedKnown, Fields DEF Served
  <2> QED BY <2>1, HandedKnown DEF Served, Transfer
<1>3. DOMAIN sessions = 1..Len(sessions) /\ Len(sessions) \in Nat
  BY <1>2, Numbers
<1>4. Len(sessions) \in DOMAIN sessions /\ runs[r].session = sessions[Len(sessions)]
  BY OwnerIsLast DEF Served
<1> HIDE DEF sessions
<1>5. handoff.epoch = Len(sessions)
  BY <1>1, <1>3, <1>4 DEF IsInjective
<1> QED BY <1>1, <1>2, <1>3, <1>5

\* A conversation made transfers of its own attempt.
LEMMA MakerIsBound ==
  ASSUME Served, NEW r \in DOMAIN runs, NEW s \in Sessions, NEW i, MadeFor(s, r, i)
  PROVE  s \in Elements(runs[r].sessions) /\ BoundTo(runs[r], s)
<1> DEFINE sessions == runs[r].sessions
           handoff == runs[r].handoffs[i]
<1>1. handoff.epoch \in 1..Len(sessions) /\ sessions[handoff.epoch] = s
  BY DEF MadeFor, Served, Loadable, Sound, Recorded
<1>2. DOMAIN sessions = 1..Len(sessions)
  BY HandedKnown, Numbers DEF Served
<1>3. s \in Elements(sessions)
  BY <1>1, <1>2 DEF Elements
<1> QED BY <1>3 DEF BoundTo

\* Unless a relay prepares one, no step makes a relay's transfer underway.
LEMMA UnderwayBefore ==
  ASSUME Served, Authorized, [Next]_vars, NoneBegins, NEW r \in DOMAIN runs, Underway(r)'
  PROVE  Underway(r)
<1>1. PICK s \in Sessions, i \in DOMAIN runs'[r].handoffs :
        /\ relay'[s] \in {"creating", "finishing"}
        /\ runs'[r].handoffs[i].source = s /\ runs'[r].handoffs[i].status = "prepared"
  BY DEF Underway, MadeFor
<1>2. relay[s] \in {"creating", "finishing"}
  BY <1>1 DEF NoneBegins
<1>3. CASE i \in DOMAIN runs[r].handoffs /\ runs[r].handoffs[i].status = "prepared"
             /\ runs[r].handoffs[i].source = s
  BY <1>2, <1>3 DEF Underway, MadeFor
<1>4. CASE ~ Prepared(runs[r]) /\ runs[r].session = s
  <2>1. PICK q \in DOMAIN runs : \E j \in DOMAIN runs[q].handoffs : MadeFor(s, q, j)
    BY <1>2 DEF Authorized, PreparesOnce
  <2>2. PICK j \in DOMAIN runs[q].handoffs : MadeFor(s, q, j)
    BY <2>1
  <2>3. q = r
    BY <1>4, <2>2, MakerIsBound, OwnerIsBound DEF Served, BoundToOne
  <2>4. runs[r].handoffs[j].status = "prepared"
    BY <1>4, <2>2, <2>3, OwnersTransfer DEF MadeFor
  <2> QED BY <1>4, <2>2, <2>3, <2>4 DEF Prepared
<1> QED BY <1>1, <1>3, <1>4, NextPrepares

\* A receiver is not yet one of those relays are made for.
LEMMA ReceiverHasNoRelay ==
  ASSUME Served, Authorized, NEW r \in DOMAIN runs, NEW i \in DOMAIN runs[r].handoffs,
         runs[r].handoffs[i].status = "prepared"
  PROVE  runs[r].handoffs[i].target \in Sessions /\ relay[runs[r].handoffs[i].target] = "none"
<1> DEFINE s == runs[r].handoffs[i].target
<1>1. s \in Sessions
  <2>1. runs[r].handoffs[i] \in Transfer
    BY HandedKnown, Fields DEF Served
  <2> QED BY <2>1 DEF Transfer
<1>2. BoundTo(runs[r], s)
  BY DEF BoundTo
<1>3. s \notin Elements(runs[r].sessions)
  BY DEF Served, Loadable, Sound, Recorded
<1>4. ASSUME relay[s] # "none" PROVE FALSE
  <2>1. PICK q \in DOMAIN runs : s \in Elements(runs[q].sessions)
    BY <1>1, <1>4 DEF Authorized, RelaysOfOwners
  <2>2. BoundTo(runs[q], s)
    BY <2>1 DEF BoundTo
  <2> QED BY <1>1, <1>2, <1>3, <2>1, <2>2 DEF Served, BoundToOne
<1> QED BY <1>1, <1>4

\* Unless a relay begins, no step makes one pending but by what is ready.
LEMMA PendingBefore ==
  ASSUME Served, Authorized, [Next]_vars, NoneBegins, NEW r \in DOMAIN runs, Pending(r)'
  PROVE  Pending(r) \/ r \in ready'
<1>1. CASE Underway(r)'
  BY <1>1, UnderwayBefore DEF Pending
<1>2. CASE \E s \in Sessions : relay'[s] = "preparing" /\ runs'[r].session = s
  <2>1. PICK s \in Sessions : relay[s] = "preparing" /\ runs'[r].session = s
    BY <1>2 DEF NoneBegins
  <2>2. CASE runs[r].session = s
    BY <2>1, <2>2 DEF Pending
  <2>3. CASE runs[r].session # s
    <3>1. PICK i \in DOMAIN runs[r].handoffs : Finishes(runs[r], runs'[r], i)
      BY <2>1, <2>3, NextOwners DEF Served
    <3>2. runs[r].handoffs[i].status = "prepared" /\ runs[r].handoffs[i].target = s
      BY <2>1, <3>1 DEF Finishes
    <3> QED BY <2>1, <3>2, ReceiverHasNoRelay
  <2> QED BY <2>2, <2>3
<1> QED BY <1>1, <1>2 DEF Pending
-----------------------------------------------------------------------------
(* What every step leaves of an authorization                                  *)

\* The work of an attempt changes by an advance alone.
LEMMA NextWork ==
  ASSUME Handed, [Next]_vars, NEW r \in DOMAIN runs
  PROVE  /\ runs'[r].relay = runs[r].relay
         /\ \/ runs'[r].task = runs[r].task /\ runs'[r].done = runs[r].done
            \/ Advances(runs[r], runs'[r])
<1> DEFINE old == runs[r]
           run == runs'[r]
<1>1. CASE run = old
  BY <1>1
<1>2. CASE run = Recovered(old)
  BY <1>2, HandedKnown, RecoveredHistory DEF SameWork, SameTerms
<1>3. CASE Changes(r, run)
  <2>1. run.relay = old.relay
    BY <1>3 DEF Changes, Marks, Resumes, Interrupts, Prepares, Finishes, Counts, Finds, Advances,
                Admits, Settles, SameTerms
  <2>2. (run.task = old.task /\ run.done = old.done) \/ Advances(old, run)
    BY <1>3 DEF Changes, Marks, Resumes, Interrupts, Prepares, Finishes, Counts, Finds,
                Admits, Settles, SameWork
  <2> QED BY <2>1, <2>2
<1> QED BY <1>1, <1>2, <1>3, NextChanges

\* Earned is what was spent and is pending, when nothing begins; and one more
\* when an advance made a relay due.
LEMMA NextEarns ==
  ASSUME Served, Served', Authorized, [Next]_vars, NoneBegins, hops' = hops, NEW r \in DOMAIN runs,
         r \in ready' => \/ r \in ready
                         \/ /\ Advances(runs[r], runs'[r])
                            /\ RelayDue(runs[r], runs'[r].done, runs'[r].task)
  PROVE  Earns(Spending(r)', runs'[r])
<1>1. r \in Runs /\ runs[r] \in TaskRun /\ runs'[r] \in TaskRun /\ r \in DOMAIN runs'
  BY HandedKnown, NextChanges DEF Served
<1>2. hops[r] \in Nat /\ Earns(Spending(r), runs[r])
  BY <1>1 DEF Authorized, HopsTyped
<1>3. Earns(hops[r], runs[r])
  BY <1>1, <1>2, EarnsLess DEF Spending
<1>4. Spending(r)' = hops[r] + (IF Pending(r)' THEN 1 ELSE 0)
  BY DEF Spending
<1>5. CASE r \in ready' /\ r \notin ready
  <2>1. Pending(r)'
    BY <1>5 DEF Pending
  <2>2. Sequenced(runs'[r]) /\ Ordered(runs'[r].range)
    <3>1. Ordered(runs[r].range)
      BY AttemptOrdered DEF Served, Handed
    <3>2. runs'[r].range = runs[r].range
      BY <1>5 DEF Advances, SameTerms
    <3> QED BY <1>1, <3>1, <3>2 DEF Served, Loadable, Sound
  <2>3. Earns(hops[r] + 1, runs'[r])
    BY <1>1, <1>2, <1>3, <1>5, <2>2, DueEarns
  <2> QED BY <1>4, <2>1, <2>3
<1>6. CASE ~ (r \in ready' /\ r \notin ready)
  <2>1. Pending(r)' => Pending(r)
    BY <1>6, PendingBefore DEF Pending
  <2> DEFINE h == Spending(r)'
  <2>2. h \in Nat /\ Earns(h, runs[r])
    BY <1>2, <1>3, <1>4, <2>1 DEF Spending
  <2> HIDE DEF h
  <2>3. Earns(h, runs'[r])
    BY <1>1, <2>2, NextWork, EarnsSame, AdvanceEarns DEF Served
  <2> QED BY <2>3 DEF h
<1> QED BY <1>5, <1>6

\* A new attempt has nothing pending.
LEMMA NewEarns ==
  ASSUME Served, Served', Authorized, [Next]_vars, NoneBegins, hops' = hops,
         NEW r \in DOMAIN runs', r \notin DOMAIN runs, r \notin ready'
  PROVE  Earns(Spending(r)', runs'[r])
<1>1. NewAttemptStep
  <2>1. CASE ChangeStep
    <3>1. PICK q \in DOMAIN runs : \E run : Store(q, run)
      BY <2>1 DEF ChangeStep
    <3> QED BY <3>1 DEF Store
  <2>2. CASE Edits \/ CallStep \/ Restart
    BY <2>2 DEF Edits, Save, Approve, CallStep, Restart
  <2> QED BY <2>1, <2>2, StepShape DEF Served, Handed
<1>2. PICK s \in Sessions, q \in Runs :
        /\ q \notin DOMAIN runs /\ ForSession(s) = NoRun
        /\ \E t, automatic, native, range, relayed :
             Store(q, NewRun(s, t, automatic, native, range, relayed))
  BY <1>1 DEF NewAttemptStep
<1>3. r = q /\ \E t, automatic, native, range, relayed :
                 runs'[r] = NewRun(s, t, automatic, native, range, relayed)
  BY <1>2 DEF Store
<1>4. runs'[r].session = s /\ runs'[r].handoffs = <<>>
  BY <1>3 DEF NewRun
<1>5. relay[s] = "none"
  <2> SUFFICES ASSUME relay[s] # "none" PROVE FALSE
    OBVIOUS
  <2>1. PICK x \in DOMAIN runs : s \in Elements(runs[x].sessions)
    BY DEF Authorized, RelaysOfOwners
  <2>2. ForSession(s) = x /\ x # NoRun
    BY <2>1, BoundIsFound, HandedKnown, ConstantsAssumption DEF BoundTo, Served
  <2> QED BY <1>2, <2>2
<1>6. ~ Underway(r)'
  <2>1. DOMAIN runs'[r].handoffs = {}
    BY <1>4
  <2> QED BY <2>1 DEF Underway
<1>7. ~ Pending(r)'
  BY <1>4, <1>5, <1>6 DEF Pending, NoneBegins
<1>8. hops[r] = 0
  <2>1. r \in Runs
    BY <1>2, <1>3
  <2> QED BY <2>1 DEF Authorized, HopsTyped
<1> QED BY <1>7, <1>8 DEF Spending, Earns

\* The bookkeeping of relays: who they are for, and what they prepared.
LEMMA NextBooks ==
  ASSUME Served, Served', Authorized, [Next]_vars, NoneBegins,
         \A s \in Sessions : relay'[s] # "none" => relay[s] # "none" \/ IsReady(s)'
  PROVE  RelaysOfOwners' /\ PreparesOnce'
<1>1. ASSUME NEW s \in Sessions, relay'[s] # "none"
      PROVE  \E r \in DOMAIN runs' : s \in Elements(runs'[r].sessions)
  <2>1. CASE relay[s] # "none"
    <3>1. PICK r \in DOMAIN runs : s \in Elements(runs[r].sessions)
      BY <2>1 DEF Authorized, RelaysOfOwners
    <3> QED BY <3>1, NextExtends DEF Served, Extends
  <2>2. CASE IsReady(s)'
    <3>1. PICK r : r = ForSession(s)' /\ r # NoRun /\ runs'[r].session = s
      BY <2>2 DEF IsReady, Owns
    <3>2. r \in DOMAIN runs'
      BY <3>1 DEF ForSession
    <3>3. \A q \in DOMAIN runs' : runs'[q].session \in Elements(runs'[q].sessions)
      <4>1. \A q \in DOMAIN runs' : runs'[q] \in TaskRun /\ HandedRun(runs'[q])
        BY DEF Served, Handed, Typed, TypeOK, RunsHanded
      <4>2. \A run \in TaskRun : HandedRun(run) => run.session \in Elements(run.sessions)
        BY Fields DEF HandedRun, Elements
      <4> QED BY <4>1, <4>2
    <3> QED BY <3>1, <3>2, <3>3
  <2> QED BY <1>1, <2>1, <2>2
<1>2. ASSUME NEW s \in Sessions, relay'[s] \in {"creating", "finishing"}
      PROVE  \E r \in DOMAIN runs' : \E i \in DOMAIN runs'[r].handoffs : MadeFor(s, r, i)'
  <2>1. PICK r \in DOMAIN runs : \E i \in DOMAIN runs[r].handoffs : MadeFor(s, r, i)
    BY <1>2 DEF NoneBegins, Authorized, PreparesOnce
  <2>2. PICK i \in DOMAIN runs[r].handoffs : MadeFor(s, r, i)
    BY <2>1
  <2>3. r \in DOMAIN runs' /\ i \in DOMAIN runs'[r].handoffs /\ runs'[r].handoffs[i].source = s
    BY <2>2, NextExtends DEF Served, Extends, MadeFor
  <2> QED BY <2>3 DEF MadeFor
<1> QED BY <1>1, <1>2 DEF RelaysOfOwners, PreparesOnce
-----------------------------------------------------------------------------
(* The steps of the relay                                                      *)

\* the steps other than those that may pause an attempt for its relay
SpendsNoMore(r) == Spending(r)' = Spending(r) \/ Spending(r)' + 1 = Spending(r)

\* What was earned covers what is spent when nothing more is.
LEMMA KeepsAuthorized ==
  ASSUME Served, Served', Authorized, [Next]_vars, HopsTyped', ReadyIsPaused', RelaysOfOwners',
         PreparesOnce', DOMAIN runs' = DOMAIN runs, \A r \in DOMAIN runs : SpendsNoMore(r)
  PROVE  Authorized'
<1>1. ASSUME NEW r \in DOMAIN runs PROVE Earns(Spending(r)', runs'[r])
  <2>1. r \in Runs /\ runs[r] \in TaskRun /\ runs'[r] \in TaskRun
    BY HandedKnown, NextChanges DEF Served
  <2> DEFINE h == Spending(r)'
  <2>2. h \in Nat /\ Earns(Spending(r), runs[r]) /\ (h = Spending(r) \/ h + 1 = Spending(r))
    BY <2>1 DEF Authorized, HopsTyped, Spending, SpendsNoMore
  <2> HIDE DEF h
  <2>3. Earns(h, runs[r])
    BY <2>1, <2>2, EarnsLess
  <2>4. Earns(h, runs'[r])
    BY <2>1, <2>2, <2>3, NextWork, EarnsSame, AdvanceEarns DEF Served
  <2> QED BY <2>4 DEF h
<1> QED BY <1>1 DEF Authorized

\* Nothing more is spent when no transfer is made and nothing more is pending.
LEMMA PendingSpends ==
  ASSUME Authorized, NEW r \in Runs, hops'[r] = hops[r], Pending(r)' => Pending(r)
  PROVE  SpendsNoMore(r)
<1>1. hops[r] \in Nat
  BY DEF Authorized, HopsTyped
<1> QED BY <1>1 DEF SpendsNoMore, Spending

\* A step that only drops relays.
LEMMA DropsAuthorized ==
  ASSUME Served, Served', Authorized, [Next]_vars, NoneBegins, hops' = hops, ready' \subseteq ready,
         ReadyIsPaused', DOMAIN runs' = DOMAIN runs,
         \A s \in Sessions : relay'[s] # "none" => relay[s] # "none"
  PROVE  Authorized'
<1>1. \A r \in DOMAIN runs : SpendsNoMore(r)
  <2> SUFFICES ASSUME NEW r \in DOMAIN runs PROVE SpendsNoMore(r)
    OBVIOUS
  <2>1. r \in Runs
    BY HandedKnown DEF Served
  <2>2. Pending(r)' => Pending(r)
    BY PendingBefore DEF Pending
  <2> QED BY <2>1, <2>2, PendingSpends
<1>2. HopsTyped'
  BY DEF Authorized, HopsTyped
<1> QED BY <1>1, <1>2, NextBooks, KeepsAuthorized

\* Storing an attempt that is not ready leaves the ready ones paused.
LEMMA StoreReady ==
  ASSUME Authorized, NEW r \in DOMAIN runs, NEW run, Store(r, run),
         ready' \subseteq ready, r \notin ready'
  PROVE  ReadyIsPaused' /\ DOMAIN runs' = DOMAIN runs
<1>1. DOMAIN runs' = DOMAIN runs /\ \A q \in DOMAIN runs : q # r => runs'[q] = runs[q]
  BY DEF Store
<1>2. ASSUME NEW q \in ready'
      PROVE  q \in DOMAIN runs' /\ runs'[q].status = "paused" /\ ~ Prepared(runs'[q])
  <2>1. q \in DOMAIN runs /\ q # r /\ runs[q].status = "paused" /\ ~ Prepared(runs[q])
    BY <1>2 DEF Authorized, ReadyIsPaused
  <2> QED BY <1>1, <2>1
<1> QED BY <1>1, <1>2 DEF ReadyIsPaused

\* Whatever the user does to an attempt gives it another reason.
LEMMA UserAuthorized ==
  ASSUME Served, Served', Authorized, NEW r \in DOMAIN runs, ByUser(r)
  PROVE  Authorized'
<1>1. PICK run : Store(r, run)
  BY DEF ByUser, Stop, Resume, ResumeUnreconciled, PrepareHandoff, PrepareChanged, FinishHandoff
<1>2. [Next]_vars /\ ready' = ready \ {r} /\ relay' = relay /\ hops' = hops
  BY UserSteps DEF ByUser
<1> QED BY <1>1, <1>2, StoreReady, DropsAuthorized DEF NoneBegins

\* A restart keeps what is paused and drops every relay.
LEMMA RebootAuthorized ==
  ASSUME Served, Served', Authorized, Reboot
  PROVE  Authorized'
<1>1. /\ relay' = [s \in Sessions |-> "none"] /\ ready' = StillPaused /\ hops' = hops
      /\ runs' = [r \in DOMAIN runs |-> Recovered(runs[r])] /\ [Next]_vars
  BY DEF Reboot, Restart, Next
<1>2. ASSUME NEW r \in ready'
      PROVE  r \in DOMAIN runs' /\ runs'[r].status = "paused" /\ ~ Prepared(runs'[r])
  <2>1. r \in ready /\ runs'[r].status = "paused"
    BY <1>1, <1>2 DEF StillPaused
  <2>2. r \in DOMAIN runs /\ ~ Prepared(runs[r])
    BY <2>1 DEF Authorized, ReadyIsPaused
  <2>3. Recovered(runs[r]).handoffs = runs[r].handoffs
    BY <2>2, HandedKnown, RecoveredHistory DEF Served, SameHistory
  <2> QED BY <1>1, <2>1, <2>2, <2>3 DEF Prepared
<1>3. ReadyIsPaused'
  BY <1>2 DEF ReadyIsPaused
<1>4. ready' \subseteq ready
  BY <1>1 DEF StillPaused
<1> QED BY <1>1, <1>3, <1>4, DropsAuthorized DEF NoneBegins

\* The stages without the service, one of which begins to prepare what is ready.
LEMMA StagesAuthorized ==
  ASSUME Served, Served', Attended, Authorized, NEW s \in Sessions,
         \/ Settled(s) \/ Gathered(s) \/ Created(s) \/ Fail(s) \/ Send(s)
  PROVE  Authorized'
<1>1. relay \in [Sessions -> Stages]
  BY DEF Attended, RelayTyped
<1>2. [Next]_vars /\ ready' = ready /\ hops' = hops /\ runs' = runs
  <2>1. UNCHANGED vars \/ Send(s)
    BY DEF Settled, Gathered, Created, Fail
  <2>2. Send(s) => runs' = runs
    BY DEF Send, Wake, durable, vars
  <2>3. [Next]_vars
    BY <2>1, RelaySteps DEF RelayStep
  <2>4. UNCHANGED vars => runs' = runs
    BY DEF vars
  <2>5. ready' = ready /\ hops' = hops
    BY DEF Settled, Gathered, Created, Fail, Send
  <2> QED BY <2>1, <2>2, <2>3, <2>4, <2>5
<1>3. PICK stage \in Stages :
        /\ Go(s, stage) /\ relay[s] # "none"
        /\ stage = "preparing" => IsReady(s)
        /\ stage = "creating" => FALSE
        /\ stage = "finishing" => relay[s] = "creating"
  BY DEF Settled, Gathered, Created, Fail, Send, GiveUp, Stages
<1>4. \A x \in Sessions : relay'[x] = IF x = s THEN stage ELSE relay[x]
  BY <1>1, <1>3 DEF Go
<1>5. ReadyIsPaused'
  BY <1>2 DEF Authorized, ReadyIsPaused
<1>6. CASE stage # "preparing"
  BY <1>2, <1>3, <1>4, <1>5, <1>6, DropsAuthorized DEF NoneBegins
<1>7. CASE stage = "preparing"
  <2>1. PICK q \in ready : q = ForSession(s) /\ runs[q].session = s
    BY <1>3, <1>7 DEF IsReady, Owns
  <2>2. ASSUME NEW r \in DOMAIN runs PROVE SpendsNoMore(r)
    <3>1. CASE Pending(r)
      BY <1>2, <3>1, HandedKnown, PendingSpends DEF Served
    <3>2. CASE ~ Pending(r)
      <4>1. r # q
        BY <2>1, <3>2 DEF Pending
      <4>2. q \in DOMAIN runs
        BY <2>1 DEF Authorized, ReadyIsPaused
      <4>3. runs[r].session # s
        BY <2>1, <4>1, <4>2, OwnerIsBound
      <4>4. ~ Underway(r)'
        <5>1. ~ Underway(r)
          BY <3>2 DEF Pending
        <5> QED BY <1>2, <1>3, <1>4, <1>7, <5>1 DEF Underway, MadeFor
      <4>5. ~ Pending(r)'
        BY <1>2, <1>4, <3>2, <4>3, <4>4 DEF Pending
      <4> QED BY <1>2, <4>5, HandedKnown, PendingSpends DEF Served
    <3> QED BY <3>1, <3>2
  <2>3. RelaysOfOwners' /\ PreparesOnce'
    BY <1>2, <1>3, <1>4, <1>7 DEF Authorized, RelaysOfOwners, PreparesOnce, MadeFor
  <2>4. HopsTyped'
    BY <1>2 DEF Authorized, HopsTyped
  <2> QED BY <1>2, <1>5, <2>2, <2>3, <2>4, KeepsAuthorized
<1> QED BY <1>6, <1>7

\* The preparation makes a transfer of what was pending.
LEMMA PrepareAuthorized ==
  ASSUME Served, Served', Attended, Authorized, NEW s \in Sessions, Prepare(s)
  PROVE  Authorized'
<1>1. relay \in [Sessions -> Stages]
  BY DEF Attended, RelayTyped
<1>2. PICK r \in DOMAIN runs : r = ForSession(s) /\ r # NoRun /\ runs[r].session = s
  BY OwnedExists DEF Prepare, Owns
<1>3. [Next]_vars /\ ready' = ready \ {r} /\ hops' = hops
  BY <1>2, RelaySteps DEF RelayStep, Prepare
<1>4. PICK run : Store(r, run)
  BY <1>2 DEF Prepare, PrepareHandoff, PrepareChanged
<1>5. ReadyIsPaused' /\ DOMAIN runs' = DOMAIN runs
  BY <1>3, <1>4, StoreReady
<1>6. CASE GiveUp(s)
  <2>1. \A x \in Sessions : relay'[x] = IF x = s THEN "none" ELSE relay[x]
    BY <1>1, <1>6 DEF GiveUp, Go
  <2> QED BY <1>3, <1>5, <2>1, DropsAuthorized DEF NoneBegins
<1>7. CASE Go(s, "creating") /\ \E target \in Sessions, ok, changed \in BOOLEAN :
             PrepareHandoff(r, target, Fresh, ok, changed)
  <2>1. \A x \in Sessions : relay'[x] = IF x = s THEN "creating" ELSE relay[x]
    BY <1>1, <1>7 DEF Go
  <2>2. relay[s] = "preparing"
    BY DEF Prepare
  <2>3. Pending(r)
    BY <1>2, <2>2 DEF Pending
  <2>4. ASSUME NEW q \in DOMAIN runs PROVE SpendsNoMore(q)
    <3>1. CASE q = r
      BY <1>3, <2>3, <3>1, HandedKnown, PendingSpends DEF Served
    <3>2. CASE q # r
      <4>1. runs'[q] = runs[q]
        BY <1>4, <3>2 DEF Store
      <4>2. ASSUME Underway(q)' PROVE Underway(q)
        <5>1. PICK x \in Sessions, i \in DOMAIN runs[q].handoffs :
                relay'[x] \in {"creating", "finishing"} /\ MadeFor(x, q, i)
                /\ runs[q].handoffs[i].status = "prepared"
          BY <4>1, <4>2 DEF Underway, MadeFor
        <5>2. x # s
          BY <1>2, <3>2, <5>1, MakerIsBound, OwnerIsBound DEF Served, BoundToOne
        <5> QED BY <2>1, <5>1, <5>2 DEF Underway
      <4>3. Pending(q)' => Pending(q)
        BY <1>3, <2>1, <4>1, <4>2 DEF Pending
      <4> QED BY <1>3, <4>3, HandedKnown, PendingSpends DEF Served
    <3> QED BY <3>1, <3>2
  <2>5. RelaysOfOwners'
    <3> SUFFICES ASSUME NEW x \in Sessions, relay'[x] # "none"
                 PROVE  \E q \in DOMAIN runs' : x \in Elements(runs'[q].sessions)
      BY DEF RelaysOfOwners
    <3>1. relay[x] # "none"
      BY <2>1, <2>2
    <3> QED BY <1>3, <3>1, NextExtends DEF Authorized, RelaysOfOwners, Served, Extends
  <2>6. PreparesOnce'
    <3> SUFFICES ASSUME NEW x \in Sessions, relay'[x] \in {"creating", "finishing"}
                 PROVE  \E q \in DOMAIN runs' : \E i \in DOMAIN runs'[q].handoffs : MadeFor(x, q, i)'
      BY DEF PreparesOnce
    <3>1. CASE x # s
      <4>1. relay[x] \in {"creating", "finishing"}
        BY <2>1, <3>1
      <4> QED BY <1>3, <4>1, NextExtends DEF Authorized, PreparesOnce, Served, Extends, MadeFor
    <3>2. CASE x = s
      <4>1. PICK target \in Sessions :
              runs'[r] = [runs[r] EXCEPT !.status = "paused",
                !.handoffs = Append(@, [op |-> Fresh, source |-> runs[r].session, target |-> target,
                                        epoch |-> runs[r].epoch, status |-> "prepared"])]
        BY <1>7 DEF PrepareHandoff, Store
      <4> DEFINE new == [op |-> Fresh, source |-> runs[r].session, target |-> target,
                         epoch |-> runs[r].epoch, status |-> "prepared"]
                 i == Len(runs[r].handoffs) + 1
      <4>2. runs[r] \in TaskRun /\ runs[r].handoffs \in Seq(Transfer)
        BY HandedKnown, Fields DEF Served
      <4>3. new.source = s
        BY <1>2
      <4> HIDE DEF new
      <4>4. runs'[r].handoffs = Append(runs[r].handoffs, new)
        BY <4>1, <4>2 DEF TaskRun, new
      <4>5. i \in DOMAIN runs'[r].handoffs /\ runs'[r].handoffs[i] = new
        BY <4>2, <4>4
      <4> QED BY <1>5, <3>2, <4>3, <4>5 DEF MadeFor
    <3> QED BY <3>1, <3>2
  <2>7. HopsTyped'
    BY <1>3, <1>5 DEF Authorized, HopsTyped
  <2> QED BY <1>3, <1>5, <2>4, <2>5, <2>6, <2>7, KeepsAuthorized
<1> QED BY <1>2, <1>6, <1>7 DEF Prepare

\* What finishing a transfer writes.
LEMMA FinishedFields ==
  ASSUME Served, NEW r \in DOMAIN runs, NEW i \in DOMAIN runs[r].handoffs,
         Store(r, Transferred(runs[r], i))
  PROVE  /\ runs'[r].session = runs[r].handoffs[i].target
         /\ DOMAIN runs'[r].handoffs = DOMAIN runs[r].handoffs
         /\ \A j \in DOMAIN runs[r].handoffs :
              runs'[r].handoffs[j].status =
                IF j = i THEN "transferred" ELSE runs[r].handoffs[j].status
<1>1. /\ runs[r] \in TaskRun /\ runs[r].handoffs \in Seq(Transfer)
      /\ \A j \in DOMAIN runs[r].handoffs : runs[r].handoffs[j] \in Transfer
  BY HandedKnown, Fields DEF Served
<1>2. runs'[r] = Transferred(runs[r], i)
  BY DEF Store
<1> DEFINE target == runs[r].handoffs[i].target
           sessions == Append(runs[r].sessions, target)
           epoch == runs[r].epoch + 1
           handoffs == [runs[r].handoffs EXCEPT ![i].status = "transferred"]
<1>3. runs'[r] = [runs[r] EXCEPT !.session = target, !.sessions = sessions, !.epoch = epoch,
                                 !.handoffs = handoffs]
  BY <1>2 DEF Transferred
<1>4. runs'[r].session = target /\ runs'[r].handoffs = handoffs
  <2> HIDE DEF target, sessions, epoch, handoffs
  <2> QED BY <1>1, <1>3 DEF TaskRun
<1>5. /\ DOMAIN handoffs = DOMAIN runs[r].handoffs
      /\ \A j \in DOMAIN runs[r].handoffs :
           handoffs[j].status = IF j = i THEN "transferred" ELSE runs[r].handoffs[j].status
  BY <1>1 DEF Transfer
<1> QED BY <1>4, <1>5

\* A finished transfer was pending, and no more is after it.
LEMMA FinishAuthorized ==
  ASSUME Served, Served', Attended, Authorized, NEW s \in Sessions, Finish(s)
  PROVE  Authorized'
<1>1. relay \in [Sessions -> Stages] /\ hops \in [Runs -> Nat]
  BY DEF Attended, RelayTyped, Authorized, HopsTyped
<1> DEFINE Ends(q, j) ==
             /\ MadeFor(s, q, j)
             /\ \/ \E ok, changed \in BOOLEAN : FinishHandoff(q, j, ok, changed)
                \/ UNCHANGED vars
             /\ hops' = [hops EXCEPT ![q] = IF runs'[q].session # runs[q].session THEN @ + 1 ELSE @]
<1>0. PICK r \in DOMAIN runs : \E j \in DOMAIN runs[r].handoffs : Ends(r, j)
  BY DEF Finish
<1>2. PICK i \in DOMAIN runs[r].handoffs : Ends(r, i)
  BY <1>0
<1>3. [Next]_vars /\ ready' = ready /\ relay[s] = "finishing" /\ Go(s, "resuming") /\ r \in Runs
  BY RelaySteps, HandedKnown DEF RelayStep, Finish, Served
<1>4. \A x \in Sessions : relay'[x] = IF x = s THEN "resuming" ELSE relay[x]
  BY <1>1, <1>3 DEF Go
<1>5. NoneBegins
  BY <1>4 DEF NoneBegins
<1>6. CASE UNCHANGED vars
  <2>1. runs' = runs
    BY <1>6 DEF vars
  <2>2. hops' = hops
    BY <1>1, <1>2, <1>3, <2>1
  <2>3. ReadyIsPaused'
    BY <1>3, <2>1 DEF Authorized, ReadyIsPaused
  <2> QED BY <1>3, <1>4, <1>5, <2>1, <2>2, <2>3, DropsAuthorized
<1>7. CASE \E ok, changed \in BOOLEAN : FinishHandoff(r, i, ok, changed)
  <2>1. runs[r].handoffs[i].status = "prepared" /\ Store(r, Transferred(runs[r], i))
    BY <1>7 DEF FinishHandoff
  <2>2. Underway(r) /\ Prepared(runs[r])
    BY <1>2, <1>3, <2>1 DEF Underway, Prepared
  <2>3. r \notin ready
    BY <2>2 DEF Authorized, ReadyIsPaused
  <2>4. ReadyIsPaused' /\ DOMAIN runs' = DOMAIN runs
    BY <1>3, <2>1, <2>3, StoreReady
  <2>5. PICK target \in Sessions : target = runs[r].handoffs[i].target /\ relay[target] = "none"
    BY <2>1, ReceiverHasNoRelay
  <2>6. runs'[r].session = target
    BY <2>1, <2>5, FinishedFields
  <2>7. target # runs[r].session
    <3>1. target \notin Elements(runs[r].sessions)
      BY <2>1, <2>5 DEF Served, Loadable, Sound, Recorded
    <3> QED BY <3>1, OwnerIsBound
  <2>8. hops'[r] = hops[r] + 1 /\ \A q \in Runs : q # r => hops'[q] = hops[q]
    BY <1>1, <1>2, <1>3, <2>6, <2>7
  <2>9. ~ Pending(r)'
    <3>1. ~ Prepared(runs'[r])
      BY <2>1, FinishedFields, HandedKnown DEF Prepared, Served, HandedRun
    <3>2. ~ Underway(r)'
      BY <3>1 DEF Underway, Prepared
    <3>3. ASSUME NEW x \in Sessions, relay'[x] = "preparing" PROVE runs'[r].session # x
      BY <1>4, <2>5, <2>6, <3>3
    <3> QED BY <1>3, <2>3, <3>2, <3>3 DEF Pending
  <2>10. ASSUME NEW q \in DOMAIN runs PROVE SpendsNoMore(q)
    <3>1. CASE q = r
      <4>1. Pending(r)
        BY <2>2 DEF Pending
      <4>2. Spending(r) = hops[r] + 1 /\ Spending(r)' = hops'[r] + 0
        BY <2>9, <4>1 DEF Spending
      <4>3. Spending(r)' = Spending(r)
        BY <1>1, <1>3, <2>8, <4>2
      <4> QED BY <3>1, <4>3 DEF SpendsNoMore
    <3>2. CASE q # r
      <4>1. q \in Runs /\ hops'[q] = hops[q]
        BY <2>8, <3>2, HandedKnown DEF Served
      <4>2. Pending(q)' => Pending(q)
        BY <1>3, <1>5, PendingBefore DEF Pending
      <4> QED BY <4>1, <4>2, PendingSpends
    <3> QED BY <3>1, <3>2
  <2>11. HopsTyped'
    <3>1. hops' \in [Runs -> Nat]
      BY <1>1, <1>2, <1>3
    <3> QED BY <2>4, <2>8, <3>1 DEF Authorized, HopsTyped
  <2>12. RelaysOfOwners' /\ PreparesOnce'
    BY <1>3, <1>4, <1>5, NextBooks
  <2> QED BY <1>3, <2>4, <2>10, <2>11, <2>12, KeepsAuthorized
<1> QED BY <1>2, <1>6, <1>7

\* The receiver runs: its attempt is not ready any more, and the relay ends.
LEMMA ResumeReceiverAuthorized ==
  ASSUME Served, Served', Attended, Authorized, NEW s \in Sessions, ResumeReceiver(s)
  PROVE  Authorized'
<1>1. relay \in [Sessions -> Stages]
  BY DEF Attended, RelayTyped
<1>2. [Next]_vars /\ hops' = hops /\ relay[s] = "resuming"
  BY RelaySteps DEF RelayStep, ResumeReceiver
<1>3. PICK r \in DOMAIN runs :
        /\ \E run : Store(r, run)
        /\ ready' = ready \ {r}
        /\ Go(s, "sending") \/ Go(s, "none")
  BY DEF ResumeReceiver, Resume, ResumeUnreconciled, GiveUp
<1>4. ReadyIsPaused' /\ DOMAIN runs' = DOMAIN runs
  BY <1>3, StoreReady
<1>5. \A x \in Sessions : relay'[x] = IF x = s THEN relay'[s] ELSE relay[x]
  BY <1>1, <1>3 DEF Go
<1>6. relay'[s] \in {"sending", "none"}
  BY <1>1, <1>3 DEF Go
<1> QED BY <1>2, <1>3, <1>4, <1>5, <1>6, DropsAuthorized DEF NoneBegins

\* A sequence that pauses for its relay alone is due one.
LEMMA ReachedIsDue ==
  ASSUME Served, [Next]_vars, NEW r \in DOMAIN runs, Reached(r)
  PROVE  /\ Advances(runs[r], runs'[r]) /\ runs'[r].status = "paused"
         /\ RelayDue(runs[r], runs'[r].done, runs'[r].task)
  BY ReachedEnds DEF Reached, EndsTurn

\* The work of the conversations makes a relay pending where it is due.
LEMMA WorkflowAuthorized ==
  ASSUME Served, Served', Attended, Authorized, Workflow
  PROVE  Authorized'
<1>1. [Next]_vars /\ TransfersStay
  BY WorkflowSteps, WorkflowStays DEF Served, Handed
<1> DEFINE due == {r \in DOMAIN runs : Reached(r)}
<1>2. ready' = StillPaused \cup due /\ hops' = hops
  BY DEF Workflow
<1>3. \A s \in Sessions :
        relay'[s] = relay[s] \/ (relay[s] = "none" /\ relay'[s] = "settling" /\ IsReady(s)')
  <2>1. relay' = [s \in Sessions |->
           IF agent[s] # "idle" /\ agent'[s] = "idle" /\ relay[s] = "none" /\ IsReady(s)'
           THEN "settling" ELSE relay[s]]
    BY DEF Workflow, SetOff
  <2> QED BY <2>1
<1>4. NoneBegins
  BY <1>3 DEF NoneBegins
<1>5. \A r \in due : /\ Advances(runs[r], runs'[r]) /\ runs'[r].status = "paused"
                     /\ RelayDue(runs[r], runs'[r].done, runs'[r].task)
  BY <1>1, ReachedIsDue
<1>6. ASSUME NEW r \in ready'
      PROVE  r \in DOMAIN runs /\ runs'[r].status = "paused" /\ ~ Prepared(runs[r])
  <2>1. CASE r \in StillPaused
    BY <2>1 DEF StillPaused, Authorized, ReadyIsPaused
  <2>2. CASE r \in due
    <3>1. r \in DOMAIN runs /\ runs[r].status = "completed" /\ runs'[r].status = "paused"
      BY <1>5, <2>2 DEF Advances
    <3>2. ~ Prepared(runs[r])
      BY <3>1, HandedKnown DEF Served, HandedRun
    <3> QED BY <3>1, <3>2
  <2> QED BY <1>2, <1>6, <2>1, <2>2
<1>7. ReadyIsPaused'
  <2> SUFFICES ASSUME NEW r \in ready'
               PROVE  r \in DOMAIN runs' /\ runs'[r].status = "paused" /\ ~ Prepared(runs'[r])
    BY DEF ReadyIsPaused
  <2>1. r \in DOMAIN runs' /\ runs'[r].handoffs = runs[r].handoffs
    BY <1>1, <1>6 DEF TransfersStay
  <2> QED BY <1>6, <2>1 DEF Prepared
<1>8. HopsTyped'
  BY <1>1, <1>2 DEF Authorized, HopsTyped, TransfersStay
<1>9. RelaysOfOwners' /\ PreparesOnce'
  BY <1>1, <1>3, <1>4, NextBooks
<1>10. ASSUME NEW r \in DOMAIN runs' PROVE Earns(Spending(r)', runs'[r])
  <2>1. CASE r \in DOMAIN runs
    <3>1. r \in ready' => r \in ready \/ r \in due
      BY <1>2 DEF StillPaused
    <3> HIDE DEF due
    <3> QED BY <1>1, <1>2, <1>4, <1>5, <2>1, <3>1, NextEarns
  <2>2. CASE r \notin DOMAIN runs
    BY <1>1, <1>2, <1>4, <1>6, <1>10, <2>2, NewEarns
  <2> QED BY <2>1, <2>2
<1> QED BY <1>7, <1>8, <1>9, <1>10 DEF Authorized

\* No step makes a relay that was not earned.
LEMMA NextAuthorized ==
  ASSUME Served, Served', Attended, Authorized, [RelayNext]_allVars
  PROVE  Authorized'
<1>1. CASE Workflow \/ Reboot
  BY <1>1, WorkflowAuthorized, RebootAuthorized
<1>2. CASE \E r \in DOMAIN runs : ByUser(r)
  BY <1>2, UserAuthorized
<1>3. CASE \E s \in Sessions : RelayStep(s) \/ Fail(s)
  BY <1>3, StagesAuthorized, PrepareAuthorized, FinishAuthorized, ResumeReceiverAuthorized DEF RelayStep
<1>4. CASE UNCHANGED allVars
  <2>1. runs' = runs /\ ready' = ready /\ relay' = relay /\ hops' = hops /\ [Next]_vars
    BY <1>4 DEF allVars, relayVars, vars
  <2>2. ReadyIsPaused'
    BY <2>1 DEF Authorized, ReadyIsPaused
  <2> QED BY <2>1, <2>2, DropsAuthorized DEF NoneBegins
<1> QED BY <1>1, <1>2, <1>3, <1>4 DEF RelayNext

\* What relays spend was earned in every reachable state.
LEMMA AlwaysAuthorized == RelaySpec => []Authorized
<1>1. RelayInit => Authorized
  <2> SUFFICES ASSUME RelayInit PROVE Authorized
    OBVIOUS
  <2>1. DOMAIN runs = {} /\ ready = {}
    BY DEF RelayInit, Init
  <2>2. relay = [s \in Sessions |-> "none"] /\ hops = [r \in Runs |-> 0]
    BY DEF RelayInit
  <2>3. HopsTyped
    BY <2>2 DEF HopsTyped
  <2> QED BY <2>1, <2>2, <2>3 DEF Authorized, ReadyIsPaused, RelaysOfOwners, PreparesOnce
<1> QED BY <1>1, NextAuthorized, AlwaysServed, AlwaysAttended, PTL DEF RelaySpec

\* A sequence changes its conversation by relay at most once for every so many
\* phases it completed, whatever failed, was resumed or restarted in between.
THEOREM RelaysAreEarned == RelaySpec => []RelaysAsAuthorized
<1>1. Served /\ Authorized => RelaysAsAuthorized
  <2> SUFFICES ASSUME Served, Authorized, NEW r \in DOMAIN runs, hops[r] > 0
               PROVE  hops[r] * runs[r].relay <= PhasesDone(r) /\ runs[r].relay > 0
    BY DEF RelaysAsAuthorized
  <2>1. r \in Runs /\ runs[r] \in TaskRun
    BY HandedKnown DEF Served
  <2>2. hops[r] \in Nat /\ Earns(Spending(r), runs[r])
    BY <2>1 DEF Authorized, HopsTyped
  <2>3. Earns(hops[r], runs[r])
    BY <2>1, <2>2, EarnsLess DEF Spending
  <2>4. PhasesDone(r) = Cardinality(PhasesOf(runs[r]))
    BY DEF PhasesDone, PhasesOf
  <2> QED BY <2>3, <2>4 DEF Earns
<1> QED BY <1>1, AlwaysServed, AlwaysAuthorized, PTL
=============================================================================
