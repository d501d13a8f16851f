------------------------- MODULE TaskExecution_proofs -------------------------
(* Type correctness and approval of TaskExecution for any plan, any number of  *)
(* conversations, attempts and calls, and any budgets.                         *)
EXTENDS TaskExecution, FiniteSetTheorems, TLAPS

\* A dispatched call names an attempt that exists.
CallsAreKnown == \A k \in calls : k.run = NoRun \/ k.run \in DOMAIN runs

Typed == TypeOK /\ CallsAreKnown
-----------------------------------------------------------------------------
(* The records                                                                 *)

\* Appending keeps the element type and leaves nothing empty.
LEMMA Appended ==
  ASSUME NEW S, NEW seq \in Seq(S), NEW e \in S
  PROVE  Append(seq, e) \in Seq(S) /\ Append(seq, e) # <<>>
<1>1. Append(seq, e) \in Seq(S) /\ Len(Append(seq, e)) = Len(seq) + 1 /\ Len(seq) \in Nat
  OBVIOUS
<1>2. Len(Append(seq, e)) # 0
  BY <1>1
<1> QED BY <1>1, <1>2

\* An attempt keeps its shape under a new status.
LEMMA WithStatus ==
  ASSUME NEW run \in TaskRun, NEW status \in RunStatus
  PROVE  [run EXCEPT !.status = status] \in TaskRun
  BY DEF TaskRun

\* An attempt keeps its shape under a new status and new actions.
LEMMA WithActions ==
  ASSUME NEW run \in TaskRun, NEW status \in RunStatus, NEW actions \in Seq(Action)
  PROVE  [run EXCEPT !.status = status, !.actions = actions] \in TaskRun
  BY DEF TaskRun

\* Remarking actions yields actions.
LEMMA Remarked ==
  ASSUME NEW run \in TaskRun, NEW from, NEW to \in ActionStatus
  PROVE  Remark(run, from, to) \in Seq(Action)
<1>1. run.actions \in Seq(Action)
  BY DEF TaskRun
<1> DEFINE n == Len(run.actions)
<1>2. n \in Nat /\ DOMAIN run.actions = 1..n /\ \A i \in 1..n : run.actions[i] \in Action
  BY <1>1
<1>3. \A i \in 1..n : [run.actions[i] EXCEPT !.status = to] \in Action
  BY <1>2 DEF Action
<1>4. Remark(run, from, to) \in [1..n -> Action]
  BY <1>2, <1>3 DEF Remark
<1> QED BY <1>2, <1>4

\* ForSession answers an attempt the conversation is bound to, or none.
LEMMA ForSessionIsBound ==
  ASSUME NEW s \in Sessions, ForSession(s) # NoRun
  PROVE  ForSession(s) \in DOMAIN runs /\ BoundTo(runs[ForSession(s)], s)
  BY DEF ForSession

\* Storing an attempt changes that attempt alone.
LEMMA StoreRuns ==
  ASSUME Typed, NEW r \in Runs, NEW run \in TaskRun, Store(r, run)
  PROVE  /\ DOMAIN runs' = DOMAIN runs \cup {r}
         /\ runs'[r] = run
         /\ \A q \in DOMAIN runs \ {r} : runs'[q] = runs[q]
         /\ DOMAIN runs' \subseteq Runs /\ \A q \in DOMAIN runs' : runs'[q] \in TaskRun
  BY DEF Typed, TypeOK, Store

\* Nothing but attempts, turns and calls changes type-relevantly in most steps.
Rest ==
  /\ approvals \in Seq(BOOLEAN) /\ approvals # <<>>
  /\ receipts \in [Ops -> Nat]
  /\ expired \subseteq Runs
  /\ agent \in [Sessions -> AgentStage]
  /\ calls \subseteq Call
  /\ jobs \subseteq Sessions /\ interrupts \subseteq Sessions

\* What is left of the invariant without the attempts.
LEMMA RestOfTyped == Typed => Rest
  BY DEF Typed, TypeOK, Rest

\* Storing a well-shaped attempt keeps the invariant, if its calls are known.
LEMMA StoreTyped ==
  ASSUME Typed, Rest', NEW r \in Runs, NEW run \in TaskRun, Store(r, run),
         \A k \in calls' : k.run = NoRun \/ k.run \in DOMAIN runs \cup {r}
  PROVE  Typed'
<1>1. /\ DOMAIN runs' = DOMAIN runs \cup {r}
      /\ DOMAIN runs' \subseteq Runs /\ \A q \in DOMAIN runs' : runs'[q] \in TaskRun
  BY StoreRuns
<1>2. TypeOK'
  BY <1>1 DEF TypeOK, Rest
<1>3. CallsAreKnown'
  BY <1>1 DEF CallsAreKnown
<1> QED BY <1>2, <1>3 DEF Typed

\* A step that stores no attempt keeps the invariant.
LEMMA SameRunsTyped ==
  ASSUME Typed, Rest', runs' = runs, \A k \in calls' : k.run = NoRun \/ k.run \in DOMAIN runs
  PROVE  Typed'
  BY DEF Typed, TypeOK, Rest, CallsAreKnown

\* Counting a record keeps the counters natural.
LEMMA ReceiptTyped ==
  ASSUME Typed, NEW op, Receipt(op)
  PROVE  receipts' \in [Ops -> Nat]
  BY DEF Typed, TypeOK, Receipt

\* What the invariant says of one attempt.
LEMMA RunsTyped ==
  ASSUME Typed, NEW r \in DOMAIN runs
  PROVE  r \in Runs /\ runs[r] \in TaskRun
  BY DEF Typed, TypeOK

\* Calls that were in flight before name known attempts.
LEMMA OldCallsKnown ==
  ASSUME Typed, NEW r, calls' \subseteq calls
  PROVE  \A k \in calls' : k.run = NoRun \/ k.run \in DOMAIN runs \cup {r}
  BY DEF Typed, CallsAreKnown

\* A step that keeps everything but an attempt, receipts and calls that end.
LEMMA ControlTyped ==
  ASSUME Typed, NEW r \in Runs, NEW run \in TaskRun, Store(r, run),
         receipts' \in [Ops -> Nat], UNCHANGED <<approvals, expired, volatile>>
  PROVE  Typed'
<1>1. Rest'
  BY RestOfTyped DEF Rest, volatile
<1> QED BY <1>1, StoreTyped, OldCallsKnown DEF volatile
-----------------------------------------------------------------------------
(* Selections: what Kept keeps of a range                                      *)

\* The elements of an appended sequence.
LEMMA ElementsOfAppended ==
  ASSUME NEW T, NEW seq \in Seq(T), NEW e \in T
  PROVE  Elements(Append(seq, e)) = Elements(seq) \cup {e}
<1> DEFINE n == Len(seq)
<1>1. n \in Nat /\ DOMAIN seq = 1..n /\ DOMAIN Append(seq, e) = 1..(n + 1)
  OBVIOUS
<1>2. Append(seq, e)[n + 1] = e /\ \A i \in 1..n : Append(seq, e)[i] = seq[i]
  BY <1>1
<1>3. 1..(n + 1) = 1..n \cup {n + 1}
  BY <1>1
<1> HIDE DEF n
<1> QED BY <1>1, <1>2, <1>3 DEF Elements

\* Induction over the numbers, from the well-foundedness of intervals: the
\* library's own statement has an operator parameter that no prover can fill.
LEMMA Induction ==
  ASSUME NEW S \in SUBSET Nat, 0 \in S, \A n \in S : n + 1 \in S
  PROVE  S = Nat
<1> SUFFICES ASSUME Nat \ S # {} PROVE FALSE
  OBVIOUS
<1> DEFINE T == {1..n : n \in Nat \ S}
<1>1. T # {} /\ T \subseteq FiniteSubsetsOf(Nat)
  <2>1. ASSUME NEW n \in Nat PROVE 1..n \in FiniteSubsetsOf(Nat)
    BY FS_Interval DEF FiniteSubsetsOf
  <2> QED BY <2>1
<1>2. PICK x \in T : \A y \in T : ~ (<<y, x>> \in StrictSubsetOrdering(Nat))
  <2> HIDE DEF T
  <2> QED BY <1>1, WFMin, FS_StrictSubsetOrderingWellFounded
<1>3. PICK n \in Nat \ S : x = 1..n
  OBVIOUS
<1>4. n - 1 \in Nat
  BY <1>3
<1>5. CASE n - 1 \in S
  <2>1. (n - 1) + 1 = n
    BY <1>3
  <2> QED BY <1>3, <1>5, <2>1
<1>6. CASE n - 1 \notin S
  <2>1. 1..(n - 1) \in T
    BY <1>4, <1>6
  <2>2. 1..(n - 1) \subseteq 1..n /\ 1..n # 1..(n - 1) /\ 1..n \subseteq Nat
    BY <1>3, <1>4
  <2> HIDE DEF T
  <2>3. <<1..(n - 1), 1..n>> \in StrictSubsetOrdering(Nat)
    BY <2>2 DEF StrictSubsetOrdering
  <2> QED BY <1>2, <1>3, <2>1, <2>3
<1> QED BY <1>5, <1>6

\* The first m steps of the filter that Kept runs over the tasks.
Selection(g, tasks, keep, m) ==
  \A n \in 0..m :
    g[n] = IF n = 0 THEN <<>>
           ELSE IF tasks[n] \in keep THEN Append(g[n-1], tasks[n])
           ELSE g[n-1]

\* Selections exist, and keep the type of the tasks.
LEMMA SelectionExists ==
  ASSUME NEW T, NEW tasks \in Seq(T), NEW keep
  PROVE  \A m \in 0..Len(tasks) : \E g \in [0..m -> Seq(T)] : Selection(g, tasks, keep, m)
<1> DEFINE S == {m \in Nat : m <= Len(tasks) =>
                   \E g \in [0..m -> Seq(T)] : Selection(g, tasks, keep, m)}
<1>1. 0 \in S
  <2> DEFINE g == [n \in 0..0 |-> <<>>]
  <2>1. g \in [0..0 -> Seq(T)] /\ Selection(g, tasks, keep, 0)
    BY DEF Selection
  <2> QED BY <2>1
<1>2. ASSUME NEW m \in S PROVE m + 1 \in S
  <2>1. m \in Nat /\ Len(tasks) \in Nat
    OBVIOUS
  <2> SUFFICES ASSUME m + 1 <= Len(tasks)
               PROVE \E g \in [0..(m + 1) -> Seq(T)] : Selection(g, tasks, keep, m + 1)
    OBVIOUS
  <2>2. PICK f \in [0..m -> Seq(T)] : Selection(f, tasks, keep, m)
    BY <2>1
  <2> DEFINE e == IF tasks[m + 1] \in keep THEN Append(f[m], tasks[m + 1]) ELSE f[m]
             g == [n \in 0..(m + 1) |-> IF n = m + 1 THEN e ELSE f[n]]
  <2>3. e \in Seq(T)
    <3>1. tasks[m + 1] \in T /\ f[m] \in Seq(T)
      BY <2>1, <2>2
    <3> QED BY <3>1
  <2>4. g \in [0..(m + 1) -> Seq(T)]
    <3> HIDE DEF e
    <3> QED BY <2>1, <2>2, <2>3
  <2>5. g[m + 1] = e /\ \A n \in 0..m : g[n] = f[n]
    <3> HIDE DEF e
    <3> QED BY <2>1
  <2> HIDE DEF g
  <2>6. ASSUME NEW n \in 0..(m + 1)
        PROVE  g[n] = IF n = 0 THEN <<>>
                      ELSE IF tasks[n] \in keep THEN Append(g[n-1], tasks[n]) ELSE g[n-1]
    <3>1. CASE n = m + 1
      <4>1. n # 0 /\ n - 1 = m /\ m \in 0..m
        BY <2>1, <3>1
      <4> QED BY <2>5, <3>1, <4>1
    <3>2. CASE n # m + 1
      <4>1. n \in 0..m /\ (n # 0 => n - 1 \in 0..m)
        BY <2>1, <3>2
      <4> QED BY <2>2, <2>5, <4>1 DEF Selection
    <3> QED BY <3>1, <3>2
  <2> QED BY <2>4, <2>6 DEF Selection
<1> HIDE DEF S
<1>3. S = Nat
  <2>1. S \in SUBSET Nat
    BY DEF S
  <2> QED BY <1>1, <1>2, <2>1, Induction
<1> QED BY <1>3 DEF S

\* A selection depends on nothing but which of the tasks are kept.
LEMMA SelectionDepends ==
  ASSUME NEW tasks, NEW keep, NEW other, NEW m \in Nat, NEW f, NEW g,
         Selection(f, tasks, keep, m), Selection(g, tasks, other, m),
         \A i \in 1..m : tasks[i] \in keep <=> tasks[i] \in other
  PROVE  f[m] = g[m]
<1> DEFINE S == {n \in Nat : n <= m => f[n] = g[n]}
<1>1. 0 \in S
  BY DEF Selection
<1>2. ASSUME NEW n \in S PROVE n + 1 \in S
  <2> SUFFICES ASSUME n + 1 <= m PROVE f[n + 1] = g[n + 1]
    OBVIOUS
  <2>1. n \in Nat /\ n + 1 \in 0..m /\ n + 1 \in 1..m /\ n + 1 # 0 /\ (n + 1) - 1 = n /\ f[n] = g[n]
    OBVIOUS
  <2> QED BY <2>1 DEF Selection
<1> HIDE DEF S
<1>3. S = Nat
  <2>1. S \in SUBSET Nat
    BY DEF S
  <2> QED BY <1>1, <1>2, <2>1, Induction
<1> QED BY <1>3 DEF S

\* The first m tasks of a range.
Leading(tasks, m) == {tasks[i] : i \in 1..m}

\* The sequence s holds the kept ones of the first m tasks.
Keeps(s, tasks, keep, m) == Elements(s) = Leading(tasks, m) \cap keep

\* A selection holds exactly the kept tasks.
LEMMA SelectionHolds ==
  ASSUME NEW T, NEW tasks \in Seq(T), NEW keep, NEW m \in 0..Len(tasks),
         NEW g \in [0..m -> Seq(T)], Selection(g, tasks, keep, m)
  PROVE  Keeps(g[m], tasks, keep, m)
<1> DEFINE S == {n \in Nat : n <= m => Elements(g[n]) = Leading(tasks, n) \cap keep}
<1>1. 0 \in S
  <2>1. g[0] = <<>> /\ 1..0 = {}
    BY DEF Selection
  <2> QED BY <2>1 DEF Elements, Leading
<1>2. ASSUME NEW n \in S PROVE n + 1 \in S
  <2> SUFFICES ASSUME n + 1 <= m
               PROVE  Elements(g[n + 1]) = Leading(tasks, n + 1) \cap keep
    OBVIOUS
  <2>1. n \in Nat /\ n + 1 \in 0..m /\ n \in 0..m /\ n + 1 # 0 /\ (n + 1) - 1 = n
        /\ Elements(g[n]) = Leading(tasks, n) \cap keep /\ g[n] \in Seq(T)
    OBVIOUS
  <2>2. Leading(tasks, n + 1) = Leading(tasks, n) \cup {tasks[n + 1]}
    <3>1. 1..(n + 1) = 1..n \cup {n + 1}
      BY <2>1
    <3> QED BY <3>1 DEF Leading
  <2>3. g[n + 1] = IF tasks[n + 1] \in keep THEN Append(g[n], tasks[n + 1]) ELSE g[n]
    BY <2>1 DEF Selection
  <2>4. CASE tasks[n + 1] \in keep
    <3>1. tasks[n + 1] \in T
      BY <2>1
    <3>2. Elements(Append(g[n], tasks[n + 1])) = Elements(g[n]) \cup {tasks[n + 1]}
      BY <2>1, <3>1, ElementsOfAppended
    <3> QED BY <2>1, <2>2, <2>3, <2>4, <3>2
  <2>5. CASE tasks[n + 1] \notin keep
    BY <2>1, <2>2, <2>3, <2>5
  <2> QED BY <2>4, <2>5
<1> HIDE DEF S
<1>3. S = Nat
  <2>1. S \in SUBSET Nat
    BY DEF S
  <2> QED BY <1>1, <1>2, <2>1, Induction
<1>4. m \in S
  <2>1. m \in Nat /\ m <= m
    OBVIOUS
  <2> QED BY <1>3, <2>1
<1> QED BY <1>4 DEF S, Keeps

\* Kept is the last step of a selection of the range.
LEMMA KeptSelects ==
  ASSUME NEW T, NEW first, NEW last, NEW keep, RangeTasks(first, last) \in Seq(T)
  PROVE  LET tasks == RangeTasks(first, last) IN
         \E g \in [0..Len(tasks) -> Seq(T)] :
            Kept(first, last, keep) = g[Len(tasks)] /\ Selection(g, tasks, keep, Len(tasks))
<1> DEFINE tasks == RangeTasks(first, last)
           N == 0..Len(tasks)
           Def(f) == [n \in N |->
                       IF n = 0 THEN <<>>
                       ELSE IF tasks[n] \in keep THEN Append(f[n-1], tasks[n]) ELSE f[n-1]]
           kept == CHOOSE f : f = Def(f)
<1>1. Kept(first, last, keep) = kept[Len(tasks)]
  BY DEF Kept
<1> HIDE DEF tasks
<1>2. tasks \in Seq(T) /\ Len(tasks) \in N /\ Len(tasks) \in Nat
  BY DEF tasks
<1>3. PICK g \in [N -> Seq(T)] : Selection(g, tasks, keep, Len(tasks))
  BY <1>2, SelectionExists
<1>4. g = Def(g)
  BY <1>3 DEF Selection
<1>5. kept = Def(kept)
  <2> HIDE DEF Def
  <2> QED BY <1>4
<1>6. Selection(kept, tasks, keep, Len(tasks))
  <2> HIDE DEF kept
  <2> QED BY <1>5 DEF Selection
<1>7. kept[Len(tasks)] = g[Len(tasks)]
  <2> HIDE DEF kept
  <2> QED BY <1>2, <1>3, <1>6, SelectionDepends
<1> HIDE DEF kept
<1> QED BY <1>1, <1>3, <1>7 DEF tasks

\* What is kept of a range has its type and is the kept part of its tasks.
LEMMA KeptOfRange ==
  ASSUME NEW T, NEW first, NEW last, NEW keep, RangeTasks(first, last) \in Seq(T)
  PROVE  /\ Kept(first, last, keep) \in Seq(T)
         /\ Elements(Kept(first, last, keep)) = Elements(RangeTasks(first, last)) \cap keep
<1> DEFINE tasks == RangeTasks(first, last)
<1>1. PICK g \in [0..Len(tasks) -> Seq(T)] :
        Kept(first, last, keep) = g[Len(tasks)] /\ Selection(g, tasks, keep, Len(tasks))
  BY KeptSelects
<1> HIDE DEF tasks
<1>2. tasks \in Seq(T) /\ Len(tasks) \in 0..Len(tasks) /\ DOMAIN tasks = 1..Len(tasks)
  BY DEF tasks
<1>3. Elements(g[Len(tasks)]) = Leading(tasks, Len(tasks)) \cap keep
  <2> DEFINE n == Len(tasks)
  <2>1. n \in 0..Len(tasks) /\ g \in [0..n -> Seq(T)] /\ Selection(g, tasks, keep, n)
    BY <1>1, <1>2
  <2>2. Elements(g[n]) = Leading(tasks, n) \cap keep
    <3> HIDE DEF n
    <3>1. Keeps(g[n], tasks, keep, n)
      BY <1>2, <2>1, SelectionHolds
    <3> QED BY <3>1 DEF Keeps
  <2> QED BY <2>2
<1> QED BY <1>1, <1>2, <1>3 DEF Elements, Leading, tasks

\* Two sets that agree on a range keep the same of it.
LEMMA KeptAgrees ==
  ASSUME NEW T, NEW first, NEW last, NEW keep, NEW other, RangeTasks(first, last) \in Seq(T),
         keep \cap Elements(RangeTasks(first, last)) = other \cap Elements(RangeTasks(first, last))
  PROVE  Kept(first, last, keep) = Kept(first, last, other)
<1> DEFINE tasks == RangeTasks(first, last)
<1>1. PICK f \in [0..Len(tasks) -> Seq(T)] :
        Kept(first, last, keep) = f[Len(tasks)] /\ Selection(f, tasks, keep, Len(tasks))
  BY KeptSelects
<1>2. PICK g \in [0..Len(tasks) -> Seq(T)] :
        Kept(first, last, other) = g[Len(tasks)] /\ Selection(g, tasks, other, Len(tasks))
  BY KeptSelects
<1>3. keep \cap Elements(tasks) = other \cap Elements(tasks)
  OBVIOUS
<1> HIDE DEF tasks
<1>4. tasks \in Seq(T) /\ Len(tasks) \in Nat /\ DOMAIN tasks = 1..Len(tasks)
  BY DEF tasks
<1>5. \A i \in 1..Len(tasks) : tasks[i] \in keep <=> tasks[i] \in other
  BY <1>3, <1>4 DEF Elements
<1>6. f[Len(tasks)] = g[Len(tasks)]
  BY <1>1, <1>2, <1>4, <1>5, SelectionDepends
<1> QED BY <1>1, <1>2, <1>6
-----------------------------------------------------------------------------
(* The plan: what the validator's rules say of tasks and phases               *)

\* An admitted plan breaks none of the rules of identity.
LEMMA PlanRules ==
  /\ Plan.tasks \in Seq(Elements(Plan.tasks)) /\ Plan.phases \in Seq(Elements(Plan.phases))
  /\ Cardinality(Tasks) = Len(Plan.tasks)
  /\ IsInjective(Plan.phases)
  /\ \A i \in DOMAIN Plan.tasks : PhaseIndex(Plan, Plan.tasks[i].phase) # 0
  /\ Plan.phased => OneDirectTaskPerPhase(Plan) /\ ConsecutivePhases(Plan) /\ RootInFinalPhase(Plan)
<1>1. TaskGraphErrors(Plan) = {} /\ (Plan.phased => PhasePlanErrors(Plan) = {})
  BY PlanAssumption DEF Admissible
<1>2. Cardinality(Ids(Plan)) = Len(Plan.tasks) /\ IsInjective(Plan.phases)
  <2> DEFINE broken == {e \in {"duplicate task identity", "duplicate phase identity",
                               "one required root", "hierarchy cycle", "completion cycle"} :
     \/ e = "duplicate task identity"
          /\ Cardinality(Ids(Plan)) # Len(Plan.tasks)
     \/ e = "duplicate phase identity" /\ ~ IsInjective(Plan.phases)
     \/ e = "one required root" /\ ~ RootIsUnique(Plan)
     \/ e = "hierarchy cycle" /\ Cyclic(Parents(Plan))
     \/ e = "completion cycle" /\ Cyclic(Waits(Plan))}
  <2>1. broken = {}
    <3>1. broken \subseteq TaskGraphErrors(Plan)
      BY DEF TaskGraphErrors
    <3> HIDE DEF broken
    <3> QED BY <1>1, <3>1
  <2>2. "duplicate task identity" \notin broken /\ "duplicate phase identity" \notin broken
    BY <2>1
  <2> QED BY <2>2
<1>3. ASSUME NEW i \in DOMAIN Plan.tasks PROVE PhaseIndex(Plan, Plan.tasks[i].phase) # 0
  <2>1. "unknown phase" \notin TaskErrors(Plan, Plan.tasks[i])
    BY <1>1 DEF TaskGraphErrors
  <2> QED BY <2>1 DEF TaskErrors
<1>4. Plan.phased => OneDirectTaskPerPhase(Plan) /\ ConsecutivePhases(Plan) /\ RootInFinalPhase(Plan)
  <2> SUFFICES ASSUME Plan.phased
               PROVE  OneDirectTaskPerPhase(Plan) /\ ConsecutivePhases(Plan) /\ RootInFinalPhase(Plan)
    OBVIOUS
  <2>1. /\ "one direct task per phase" \notin PhasePlanErrors(Plan)
        /\ "consecutive dependencies" \notin PhasePlanErrors(Plan)
        /\ "root in the final phase" \notin PhasePlanErrors(Plan)
    BY <1>1
  <2> QED BY <2>1 DEF PhasePlanErrors
<1> QED BY <1>2, <1>3, <1>4, PlanAssumption DEF Tasks

\* Identities identify: TaskOf answers the one task of an identity.
LEMMA TaskIsFound ==
  ASSUME NEW i \in DOMAIN Plan.tasks
  PROVE  Plan.tasks[i].id \in Tasks /\ TaskOf(Plan, Plan.tasks[i].id) = Plan.tasks[i]
<1> DEFINE n == Len(Plan.tasks)
           id == [j \in 1..n |-> Plan.tasks[j].id]
<1>1. n \in Nat /\ DOMAIN Plan.tasks = 1..n /\ IsFiniteSet(1..n) /\ Cardinality(1..n) = n
  <2>1. n \in Nat /\ DOMAIN Plan.tasks = 1..n
    BY PlanRules
  <2>2. IsFiniteSet(1..n) /\ Cardinality(1..n) = IF 1 > n THEN 0 ELSE n - 1 + 1
    BY <2>1, FS_Interval
  <2> QED BY <2>1, <2>2
<1>2. id \in Surjection(1..n, Tasks)
  BY <1>1 DEF Surjection, Tasks, Ids
<1>3. id \in Injection(1..n, Tasks)
  <2> HIDE DEF id, n
  <2>1. Cardinality(1..n) = Cardinality(Tasks)
    BY <1>1, PlanRules DEF n
  <2> QED BY <1>1, <1>2, <2>1, FS_SurjSameCardinalityImpliesInj
<1>4. \A j, k \in DOMAIN Plan.tasks : Plan.tasks[j].id = Plan.tasks[k].id => j = k
  <2>1. \A j \in 1..n : id[j] = Plan.tasks[j].id
    OBVIOUS
  <2>2. DOMAIN id = 1..n /\ IsInjective(id)
    BY <1>3 DEF Injection
  <2> HIDE DEF id
  <2> QED BY <1>1, <2>1, <2>2 DEF IsInjective
<1> DEFINE At(x) == /\ Plan.tasks[x].id = Plan.tasks[i].id
                    /\ \A j \in DOMAIN Plan.tasks : Plan.tasks[j].id = Plan.tasks[i].id => j <= x
<1>5. i \in Nat /\ i <= i
  BY <1>1
<1>6. At(i) /\ \A x \in DOMAIN Plan.tasks : At(x) => x = i
  BY <1>4, <1>5
<1>7. (CHOOSE x \in DOMAIN Plan.tasks : At(x)) = i
  <2> HIDE DEF At
  <2> QED BY <1>6
<1>8. Plan.tasks[i].id \in Tasks
  BY DEF Tasks, Ids
<1> QED BY <1>7, <1>8 DEF TaskOf

\* Phases are numbered by their place.
LEMMA PhaseIsFound ==
  /\ \A p \in DOMAIN Plan.phases : PhaseIndex(Plan, Plan.phases[p]) = p
  /\ \A phase : PhaseIndex(Plan, phase) \in DOMAIN Plan.phases \cup {0}
<1>1. DOMAIN Plan.phases = 1..Len(Plan.phases) /\ Len(Plan.phases) \in Nat
  BY PlanRules
<1>2. \A p, q \in DOMAIN Plan.phases : Plan.phases[p] = Plan.phases[q] => p = q
  BY PlanRules DEF IsInjective
<1>3. ASSUME NEW p \in DOMAIN Plan.phases PROVE PhaseIndex(Plan, Plan.phases[p]) = p
  <2>1. {i \in DOMAIN Plan.phases : Plan.phases[i] = Plan.phases[p]} = {p}
    BY <1>2
  <2>2. p <= p
    BY <1>1
  <2> QED BY <2>1, <2>2 DEF PhaseIndex
<1>4. ASSUME NEW phase PROVE PhaseIndex(Plan, phase) \in DOMAIN Plan.phases \cup {0}
  <2>1. CASE {i \in DOMAIN Plan.phases : Plan.phases[i] = phase} = {}
    BY <2>1 DEF PhaseIndex
  <2>2. ASSUME NEW p \in DOMAIN Plan.phases, Plan.phases[p] = phase
        PROVE  PhaseIndex(Plan, phase) \in DOMAIN Plan.phases \cup {0}
    BY <1>3, <2>2
  <2> QED BY <2>1, <2>2
<1> QED BY <1>3, <1>4

\* Every task is in a phase of the plan.
LEMMA PhaseOfTask ==
  ASSUME NEW t \in Tasks
  PROVE  PhaseOf(Plan, t) \in DOMAIN Plan.phases
<1>1. PICK i \in DOMAIN Plan.tasks : t = Plan.tasks[i].id
  BY DEF Tasks, Ids
<1>2. PhaseOf(Plan, t) = PhaseIndex(Plan, Plan.tasks[i].phase)
  BY <1>1, TaskIsFound DEF PhaseOf
<1> QED BY <1>2, PlanRules, PhaseIsFound

\* Each phase of a plan in phases has a leaf.
LEMMA PhaseHasLeaf ==
  ASSUME Plan.phased, NEW p \in DOMAIN Plan.phases
  PROVE  \E t \in Tasks : t # Plan.taskId /\ PhaseOf(Plan, t) = p
<1>1. Cardinality(PhaseLeaves(Plan, p)) = 1
  BY PlanRules DEF ConsecutivePhases
<1>2. PhaseLeaves(Plan, p) # {}
  BY <1>1, FS_EmptySet
<1>3. PICK i \in DOMAIN Plan.tasks :
        Plan.tasks[i].id # Plan.taskId /\ Plan.tasks[i].phase = Plan.phases[p]
  BY <1>2 DEF PhaseLeaves, Leaves
<1>4. PhaseOf(Plan, Plan.tasks[i].id) = p
  BY <1>3, TaskIsFound, PhaseIsFound DEF PhaseOf
<1> QED BY <1>3, <1>4, TaskIsFound

\* The tasks of a phase range are tasks of the plan.
LEMMA RangeTyped ==
  ASSUME Plan.phased, NEW first \in DOMAIN Plan.phases, NEW last \in first..Len(Plan.phases)
  PROVE  RangeTasks(first, last) \in Seq(Tasks)
<1> DEFINE leaf(p) == CHOOSE t \in Tasks : t # Plan.taskId /\ PhaseOf(Plan, t) = p
           n == last - first + 1
           leaves == [i \in 1..n |-> leaf(first + i - 1)]
           root == IF last = Len(Plan.phases) THEN <<Plan.taskId>> ELSE <<>>
<1>1. DOMAIN Plan.phases = 1..Len(Plan.phases) /\ Len(Plan.phases) \in Nat
  BY PlanRules
<1>2. n \in Nat /\ \A i \in 1..n : first + i - 1 \in DOMAIN Plan.phases
  BY <1>1
<1>3. \A p \in DOMAIN Plan.phases : leaf(p) \in Tasks
  BY PhaseHasLeaf
<1>4. leaves \in Seq(Tasks)
  <2> HIDE DEF leaf
  <2>1. \A i \in 1..n : leaf(first + i - 1) \in Tasks
    BY <1>2, <1>3
  <2>2. leaves \in [1..n -> Tasks]
    <3> HIDE DEF n
    <3> QED BY <2>1
  <2> HIDE DEF leaves, n
  <2> QED BY <1>2, <2>2
<1>5. Plan.taskId \in Tasks
  BY PlanRules DEF RootInFinalPhase, Tasks
<1>6. root \in Seq(Tasks)
  BY <1>5
<1>7. RangeTasks(first, last) = leaves \o root
  BY DEF RangeTasks
<1> HIDE DEF leaves, root
<1> QED BY <1>4, <1>6, <1>7
-----------------------------------------------------------------------------
(* The transactions of the user                                                *)

\* A new revision is one more entry that is not approved.
LEMMA SaveTyped == ASSUME Typed, NEW op, Save(op) PROVE Typed'
<1>1. approvals' \in Seq(BOOLEAN) /\ approvals' # <<>>
  <2>1. Append(approvals, FALSE) \in Seq(BOOLEAN) /\ Append(approvals, FALSE) # <<>>
    BY RestOfTyped, Appended DEF Rest
  <2> QED BY <2>1 DEF Save
<1>2. receipts' \in [Ops -> Nat]
  BY ReceiptTyped DEF Save
<1>3. Rest'
  BY <1>1, <1>2, RestOfTyped DEF Rest, Save, volatile
<1> QED BY <1>3, SameRunsTyped DEF Save, volatile, Typed, CallsAreKnown

\* Approval changes the entry of the current revision.
LEMMA ApproveTyped == ASSUME Typed, NEW op, Approve(op) PROVE Typed'
<1>1. approvals' \in Seq(BOOLEAN) /\ approvals' # <<>>
  BY RestOfTyped DEF Rest, Approve, Current
<1>2. receipts' \in [Ops -> Nat]
  BY ReceiptTyped DEF Approve
<1>3. Rest'
  BY <1>1, <1>2, RestOfTyped DEF Rest, Approve, volatile
<1> QED BY <1>3, SameRunsTyped DEF Approve, volatile, Typed, CallsAreKnown

\* The record of a claim has the shape of an attempt.
LEMMA NewRunTyped ==
  ASSUME Typed, NEW s \in Sessions, NEW t \in Tasks, NEW automatic \in BOOLEAN,
         NEW native \in BOOLEAN, NEW range \in Seq(Tasks), NEW relay \in Nat
  PROVE  NewRun(s, t, automatic, native, range, relay) \in TaskRun
<1>1. Current \in Nat
  BY DEF Current, Typed, TypeOK
<1>2. <<s>> \in Seq(Sessions) /\ <<>> \in Seq(Action) /\ <<>> \in Seq(SUBSET Calls)
      /\ <<>> \in Seq(Done) /\ <<>> \in Seq(Transfer)
  OBVIOUS
<1> QED BY <1>1, <1>2 DEF NewRun, TaskRun, RunStatus

\* Claiming a task.
LEMMA ClaimTaskTyped ==
  ASSUME Typed, NEW s \in Sessions, NEW r \in Runs, NEW t \in Tasks, NEW op,
         NEW automatic \in BOOLEAN, NEW native \in BOOLEAN,
         ClaimTask(s, r, t, op, automatic, native)
  PROVE  Typed'
<1>1. NewRun(s, t, automatic, native, <<>>, 0) \in TaskRun
  <2>1. <<>> \in Seq(Tasks) /\ 0 \in Nat
    OBVIOUS
  <2> QED BY <2>1, NewRunTyped
<1> QED BY <1>1, ControlTyped, ReceiptTyped DEF ClaimTask

\* A remaining range is a sequence of tasks of the plan.
LEMMA RemainingTyped ==
  ASSUME NEW t \in Tasks, NEW last \in PhaseOf(Plan, t)..Len(Plan.phases), Plan.phased
  PROVE  Remaining(PhaseOf(Plan, t), last) \in Seq(Tasks)
<1>1. RangeTasks(PhaseOf(Plan, t), last) \in Seq(Tasks)
  BY PhaseOfTask, RangeTyped
<1> QED BY <1>1, KeptOfRange DEF Remaining

\* Claiming a range of phases: its tasks are tasks of the plan.
LEMMA ClaimPhasesTyped ==
  ASSUME Typed, NEW s \in Sessions, NEW r \in Runs, NEW t \in Tasks, NEW op,
         NEW native \in BOOLEAN, NEW last \in PhaseOf(Plan, t)..Len(Plan.phases), NEW relay \in Nat,
         ClaimPhases(s, r, t, op, native, last, relay)
  PROVE  Typed'
<1> DEFINE range == Remaining(PhaseOf(Plan, t), last)
<1>1. Plan.phased /\ Store(r, NewRun(s, t, TRUE, native, range, relay)) /\ Receipt(op)
      /\ UNCHANGED <<approvals, expired, volatile>>
  BY DEF ClaimPhases, Selects
<1>2. range \in Seq(Tasks)
  BY <1>1, RemainingTyped
<1> HIDE DEF range
<1>3. NewRun(s, t, TRUE, native, range, relay) \in TaskRun
  BY <1>2, NewRunTyped
<1> QED BY <1>1, <1>3, ControlTyped, ReceiptTyped

\* Pausing or cancelling.
LEMMA StopTyped ==
  ASSUME Typed, NEW r \in DOMAIN runs, NEW op, NEW cancel \in BOOLEAN, Stop(r, op, cancel)
  PROVE  Typed'
<1>1. [runs[r] EXCEPT !.status = IF cancel THEN "cancelled" ELSE "paused"] \in TaskRun
  BY RunsTyped, WithStatus DEF RunStatus
<1> QED BY <1>1, RunsTyped, ControlTyped, ReceiptTyped DEF Stop

\* Resuming after reconciliation.
LEMMA ResumeTyped ==
  ASSUME Typed, NEW r \in DOMAIN runs, NEW op, NEW note, NEW ok, NEW changed,
         Resume(r, op, note, ok, changed)
  PROVE  Typed'
<1>1. Remark(runs[r], "unknown", "reconciled") \in Seq(Action)
  BY RunsTyped, Remarked DEF ActionStatus
<1>2. [runs[r] EXCEPT !.status = IF Prepared(runs[r]) THEN "paused" ELSE "running",
                      !.actions = Remark(runs[r], "unknown", "reconciled")] \in TaskRun
  BY <1>1, RunsTyped, WithActions DEF RunStatus
<1> QED BY <1>2, RunsTyped, ControlTyped, ReceiptTyped DEF Resume

\* A resume refused for want of reconciliation.
LEMMA ResumeUnreconciledTyped ==
  ASSUME Typed, NEW r \in DOMAIN runs, NEW op, NEW ok, NEW changed,
         ResumeUnreconciled(r, op, ok, changed)
  PROVE  Typed'
<1>1. [runs[r] EXCEPT !.status = "needs_reconciliation"] \in TaskRun
  BY RunsTyped, WithStatus DEF RunStatus
<1> QED BY <1>1, RunsTyped, ControlTyped, RestOfTyped DEF ResumeUnreconciled, Rest

\* Preparing appends a transfer.
LEMMA PrepareHandoffTyped ==
  ASSUME Typed, NEW r \in DOMAIN runs, NEW target \in Sessions, NEW op \in Ops \cup {Fresh},
         NEW ok, NEW changed, PrepareHandoff(r, target, op, ok, changed)
  PROVE  Typed'
<1> DEFINE handoff == [op |-> op, source |-> runs[r].session, target |-> target,
                       epoch |-> runs[r].epoch, status |-> "prepared"]
           handoffs == Append(runs[r].handoffs, handoff)
<1>1. handoff \in Transfer
  BY RunsTyped DEF TaskRun, Transfer
<1>2. handoffs \in Seq(Transfer)
  BY <1>1, RunsTyped DEF TaskRun
<1>3. Store(r, [runs[r] EXCEPT !.status = "paused", !.handoffs = handoffs])
  BY DEF PrepareHandoff
<1> HIDE DEF handoffs
<1>4. [runs[r] EXCEPT !.status = "paused", !.handoffs = handoffs] \in TaskRun
  BY <1>2, RunsTyped DEF TaskRun, RunStatus
<1> QED BY <1>3, <1>4, RunsTyped, ControlTyped, ReceiptTyped DEF PrepareHandoff

\* A transfer refused because files changed.
LEMMA PrepareChangedTyped ==
  ASSUME Typed, NEW r \in DOMAIN runs, NEW op, NEW ok, PrepareChanged(r, op, ok)
  PROVE  Typed'
<1>1. [runs[r] EXCEPT !.status = "needs_reconciliation"] \in TaskRun
  BY RunsTyped, WithStatus DEF RunStatus
<1> QED BY <1>1, RunsTyped, ControlTyped, RestOfTyped DEF PrepareChanged, Rest

\* A transferred attempt has the shape of one.
LEMMA TransferredTyped ==
  ASSUME NEW run \in TaskRun, NEW i \in DOMAIN run.handoffs
  PROVE  Transferred(run, i) \in TaskRun
<1> DEFINE sessions == Append(run.sessions, run.handoffs[i].target)
           handoffs == [run.handoffs EXCEPT ![i].status = "transferred"]
<1>1. run.handoffs[i] \in Transfer /\ run.handoffs \in Seq(Transfer)
  BY DEF TaskRun
<1>2. run.handoffs[i].target \in Sessions
  BY <1>1 DEF Transfer
<1>3. sessions \in Seq(Sessions)
  BY <1>2 DEF TaskRun
<1>4. [run.handoffs[i] EXCEPT !.status = "transferred"] \in Transfer
  BY <1>1 DEF Transfer
<1>5. handoffs \in Seq(Transfer)
  BY <1>1, <1>4
<1>6. Transferred(run, i) =
        [run EXCEPT !.session = run.handoffs[i].target, !.sessions = sessions,
                    !.epoch = run.epoch + 1, !.handoffs = handoffs]
  BY DEF Transferred
<1>7. run.epoch + 1 \in Nat
  BY DEF TaskRun
<1>8. ASSUME NEW s \in Sessions, NEW ss \in Seq(Sessions), NEW e \in Nat, NEW hs \in Seq(Transfer)
      PROVE  [run EXCEPT !.session = s, !.sessions = ss, !.epoch = e, !.handoffs = hs] \in TaskRun
  <2>1. [run EXCEPT !.session = s, !.sessions = ss] \in TaskRun
    BY DEF TaskRun
  <2>2. ASSUME NEW x \in TaskRun PROVE [x EXCEPT !.epoch = e, !.handoffs = hs] \in TaskRun
    BY DEF TaskRun
  <2> QED BY <2>1, <2>2
<1> DEFINE epoch == run.epoch + 1
<1> HIDE DEF sessions, handoffs, epoch
<1>9. [run EXCEPT !.session = run.handoffs[i].target, !.sessions = sessions,
                  !.epoch = epoch, !.handoffs = handoffs] \in TaskRun
  BY <1>2, <1>3, <1>5, <1>7, <1>8 DEF epoch
<1> QED BY <1>6, <1>9 DEF epoch

\* Finishing a transfer.
LEMMA FinishHandoffTyped ==
  ASSUME Typed, NEW r \in DOMAIN runs, NEW i \in DOMAIN runs[r].handoffs, NEW ok, NEW changed,
         FinishHandoff(r, i, ok, changed)
  PROVE  Typed'
<1>1. Transferred(runs[r], i) \in TaskRun
  BY RunsTyped, TransferredTyped
<1> QED BY <1>1, RunsTyped, ControlTyped, RestOfTyped DEF FinishHandoff, Rest
-----------------------------------------------------------------------------
(* Turns and tool calls                                                        *)

\* An ended turn queues the interrupt of its conversation.
LEMMA GoIdleTyped ==
  ASSUME Typed, NEW s \in Sessions, GoIdle(s)
  PROVE  agent' \in [Sessions -> AgentStage] /\ interrupts' \subseteq Sessions
  BY DEF Typed, TypeOK, GoIdle, AgentStage

\* The attempt of an owner is known and well-shaped.
LEMMA OwnerIsRun ==
  ASSUME Typed, NEW s \in Sessions, Owns(s)
  PROVE  ForSession(s) \in DOMAIN runs /\ ForSession(s) \in Runs
         /\ runs[ForSession(s)] \in TaskRun
  BY ForSessionIsBound, RunsTyped DEF Owns

\* A fence leaves the attempts typed, whether or not there is one to mark.
LEMMA FenceTyped ==
  ASSUME Typed, Rest', NEW s \in Sessions, FenceOwner(s), calls' = calls
  PROVE  Typed'
<1>1. CASE RunsAsOwner(s)
  <2>1. [runs[ForSession(s)] EXCEPT !.status = "needs_reconciliation"] \in TaskRun
    BY <1>1, OwnerIsRun, WithStatus DEF RunsAsOwner, RunStatus
  <2> QED BY <1>1, <2>1, OwnerIsRun, StoreTyped, OldCallsKnown DEF RunsAsOwner, FenceOwner
<1>2. CASE ~ RunsAsOwner(s)
  BY <1>2, SameRunsTyped DEF FenceOwner, Typed, CallsAreKnown
<1> QED BY <1>1, <1>2

\* The steps of a turn that store nothing.
LEMMA TurnTyped ==
  ASSUME Typed, NEW s \in Sessions, NEW stage, NEW ok,
         (stage \in AgentStage /\ Wake(s, stage)) \/ Steer(s) \/ CheckAccess(s, ok)
           \/ AbortTurn(s) \/ EndTurnOther(s)
  PROVE  Typed'
<1>1. Rest' /\ runs' = runs /\ calls' = calls
  BY RestOfTyped, GoIdleTyped DEF Rest, Wake, Steer, CheckAccess, AbortTurn, EndTurnOther, durable, AgentStage
<1> QED BY <1>1, SameRunsTyped DEF Typed, CallsAreKnown

\* A step refused at its start.
LEMMA StepDeniedTyped ==
  ASSUME Typed, NEW s \in Sessions, NEW ok, StepDenied(s, ok)
  PROVE  Typed'
<1>1. Rest'
  BY RestOfTyped, GoIdleTyped DEF Rest, StepDenied
<1> QED BY <1>1, FenceTyped DEF StepDenied

\* A call refused before it began.
LEMMA ToolDeniedTyped ==
  ASSUME Typed, NEW s \in Sessions, NEW ok, ToolDenied(s, ok)
  PROVE  Typed'
<1>1. Rest'
  BY RestOfTyped DEF Rest, ToolDenied, volatile
<1> QED BY <1>1, FenceTyped DEF ToolDenied, volatile

\* A step counts a turn of its attempt or pauses it.
LEMMA EnterTurnTyped ==
  ASSUME Typed, NEW s \in Sessions, NEW ok, EnterTurn(s, ok)
  PROVE  Typed'
<1> DEFINE r == ForSession(s)
           turns == runs[r].turns + 1
<1>1. Rest'
  BY RestOfTyped, GoIdleTyped DEF Rest, EnterTurn, AgentStage
<1>2. calls' = calls
  BY DEF EnterTurn
<1>3. CASE runs' = runs
  BY <1>1, <1>2, <1>3, SameRunsTyped DEF Typed, CallsAreKnown
<1>4. CASE r # NoRun /\ \/ Store(r, [runs[r] EXCEPT !.turns = turns])
                        \/ Store(r, [runs[r] EXCEPT !.status = "paused"])
  <2>1. r \in Runs /\ runs[r] \in TaskRun
    BY <1>4, ForSessionIsBound, RunsTyped
  <2>2. turns \in Nat
    BY <2>1 DEF TaskRun
  <2>3. ASSUME NEW n \in Nat PROVE [runs[r] EXCEPT !.turns = n] \in TaskRun
    BY <2>1 DEF TaskRun
  <2>4. [runs[r] EXCEPT !.status = "paused"] \in TaskRun
    BY <2>1, WithStatus DEF RunStatus
  <2> HIDE DEF turns
  <2> QED BY <1>1, <1>2, <1>4, <2>1, <2>2, <2>3, <2>4, StoreTyped, OldCallsKnown
<1> QED BY <1>3, <1>4 DEF EnterTurn, Denied

\* The interrupt of an idle conversation.
LEMMA InterruptTyped ==
  ASSUME Typed, NEW s \in Sessions, NEW stored, Interrupt(s, stored)
  PROVE  Typed'
<1> DEFINE r == ForSession(s)
<1>1. Rest' /\ calls' = calls
  BY RestOfTyped DEF Rest, Interrupt
<1>2. CASE runs' = runs
  BY <1>1, <1>2, SameRunsTyped DEF Typed, CallsAreKnown
<1>3. CASE stored /\ RunsAsOwner(s)
  <2>1. r \in Runs /\ runs[r] \in TaskRun
    BY <1>3, OwnerIsRun DEF RunsAsOwner
  <2>2. [runs[r] EXCEPT !.status = "needs_reconciliation",
                        !.actions = Remark(runs[r], "pending", "unknown")] \in TaskRun
    BY <2>1, WithActions, Remarked DEF RunStatus, ActionStatus
  <2> QED BY <1>1, <1>3, <2>1, <2>2, StoreTyped, OldCallsKnown DEF Interrupt
<1> QED BY <1>2, <1>3 DEF Interrupt

\* An admitted call is recorded as pending, in flight, and known.
LEMMA BeginActionTyped ==
  ASSUME Typed, NEW s \in Sessions, NEW c \in Calls, NEW ok, BeginAction(s, c, ok)
  PROVE  Typed'
<1> DEFINE r == ForSession(s)
           new(stage) == [session |-> s, run |-> r, call |-> c, stage |-> stage]
           actions == Append(runs[r].actions, [call |-> c, status |-> "pending"])
<1>1. r = NoRun \/ (r \in Runs /\ runs[r] \in TaskRun)
  BY ForSessionIsBound, RunsTyped
<1>2. new("dispatched") \in Call /\ new("admitted") \in Call
  BY <1>1 DEF Call
<1>3. calls' = calls \/ calls' = calls \cup {new("dispatched")} \/ calls' = calls \cup {new("admitted")}
  BY DEF BeginAction
<1>4. Rest'
  BY <1>2, <1>3, RestOfTyped DEF Rest, BeginAction
<1>5. \A k \in calls' : k.run = NoRun \/ k.run \in DOMAIN runs \cup {r}
  BY <1>3 DEF Typed, CallsAreKnown
<1>6. CASE runs' = runs
  <2>1. r = NoRun \/ r \in DOMAIN runs
    BY ForSessionIsBound
  <2> QED BY <1>4, <1>5, <1>6, <2>1, SameRunsTyped
<1>7. CASE r # NoRun /\ \/ Store(r, [runs[r] EXCEPT !.status = "paused"])
                        \/ Store(r, [runs[r] EXCEPT !.actions = actions])
  <2>1. r \in Runs /\ runs[r] \in TaskRun
    BY <1>1, <1>7
  <2>2. [call |-> c, status |-> "pending"] \in Action
    BY DEF Action, ActionStatus
  <2>3. actions \in Seq(Action)
    BY <2>1, <2>2 DEF TaskRun
  <2> HIDE DEF actions
  <2>4. [runs[r] EXCEPT !.actions = actions] \in TaskRun
    BY <2>1, <2>3 DEF TaskRun
  <2>5. [runs[r] EXCEPT !.status = "paused"] \in TaskRun
    BY <2>1, WithStatus DEF RunStatus
  <2> QED BY <1>4, <1>5, <1>7, <2>1, <2>4, <2>5, StoreTyped
<1> QED BY <1>6, <1>7 DEF BeginAction

\* The outcome of a call replaces the status of its action.
LEMMA SettleTyped ==
  ASSUME Typed, NEW k \in calls, NEW succeeded, NEW stored, Settle(k, succeeded, stored)
  PROVE  Typed'
<1> DEFINE run == runs[k.run]
           status == IF succeeded THEN "succeeded" ELSE "failed"
           actions == [i \in DOMAIN run.actions |->
                         IF run.actions[i].call = k.call
                         THEN [run.actions[i] EXCEPT !.status = status] ELSE run.actions[i]]
<1>1. k.run \in DOMAIN runs /\ k.run \in Runs /\ run \in TaskRun
  BY RunsTyped DEF Settle, Typed, CallsAreKnown
<1>2. Rest' /\ calls' \subseteq calls
  BY RestOfTyped DEF Rest, Settle
<1>3. CASE runs' = runs
  BY <1>2, <1>3, SameRunsTyped DEF Typed, CallsAreKnown
<1>4. CASE Store(k.run, [run EXCEPT !.actions = actions])
  <2>1. run.actions \in Seq(Action) /\ status \in ActionStatus
    BY <1>1 DEF TaskRun, ActionStatus
  <2> DEFINE n == Len(run.actions)
  <2>2. n \in Nat /\ DOMAIN run.actions = 1..n /\ \A i \in 1..n : run.actions[i] \in Action
    BY <2>1
  <2>3. \A i \in 1..n : [run.actions[i] EXCEPT !.status = status] \in Action
    BY <2>1, <2>2 DEF Action
  <2>4. actions \in [1..n -> Action]
    BY <2>2, <2>3
  <2>5. actions \in Seq(Action)
    BY <2>2, <2>4
  <2> HIDE DEF actions
  <2>6. [run EXCEPT !.actions = actions] \in TaskRun
    BY <1>1, <2>5 DEF TaskRun
  <2> QED BY <1>1, <1>2, <1>4, <2>6, StoreTyped, OldCallsKnown
<1> QED BY <1>3, <1>4 DEF Settle

\* Every other step of a call or a background job.
LEMMA CallTyped ==
  ASSUME Typed, NEW k \in calls, NEW s \in Sessions, NEW ok,
         Dispatch(k, ok) \/ EndOrdinary(k) \/ StartJob(s) \/ EndJob(s)
  PROVE  Typed'
<1>1. runs' = runs
  BY DEF Dispatch, EndOrdinary, StartJob, EndJob, durable
<1>2. CASE Dispatch(k, ok)
  <2> DEFINE moved == [k EXCEPT !.stage = IF Denied(k.session, ok) THEN "refused" ELSE "dispatched"]
  <2>1. k \in Call /\ (k.run = NoRun \/ k.run \in DOMAIN runs)
    BY DEF Typed, TypeOK, CallsAreKnown
  <2>2. moved \in Call /\ moved.run = k.run
    BY <2>1 DEF Call
  <2>3. calls' = (calls \ {k}) \cup {moved}
    BY <1>2 DEF Dispatch
  <2> HIDE DEF moved
  <2>4. Rest'
    BY <1>2, <2>2, <2>3, RestOfTyped DEF Rest, Dispatch, durable
  <2> QED BY <1>1, <2>1, <2>2, <2>3, <2>4, SameRunsTyped DEF Typed, CallsAreKnown
<1>3. CASE EndOrdinary(k) \/ StartJob(s) \/ EndJob(s)
  <2>1. Rest' /\ calls' \subseteq calls
    BY <1>3, RestOfTyped DEF Rest, EndOrdinary, StartJob, EndJob, durable
  <2> QED BY <1>1, <2>1, SameRunsTyped DEF Typed, CallsAreKnown
<1> QED BY <1>2, <1>3
-----------------------------------------------------------------------------
(* Completion, the end of a turn, time and restarts                            *)

\* Completion records the cited calls.
LEMMA CompleteTyped ==
  ASSUME Typed, NEW s \in Sessions, NEW cited \in SUBSET Calls, NEW ok, Complete(s, cited, ok)
  PROVE  Typed'
<1> DEFINE r == ForSession(s)
           evidence == Append(runs[r].evidence, cited)
<1>1. r \in Runs /\ runs[r] \in TaskRun
  BY ForSessionIsBound, RunsTyped DEF Complete
<1>2. evidence \in Seq(SUBSET Calls)
  BY <1>1, Appended DEF TaskRun
<1>3. Store(r, [runs[r] EXCEPT !.status = "completed", !.evidence = evidence])
  BY DEF Complete
<1> HIDE DEF evidence
<1>4. [runs[r] EXCEPT !.status = "completed", !.evidence = evidence] \in TaskRun
  BY <1>1, <1>2 DEF TaskRun, RunStatus
<1>5. receipts' \in [Ops -> Nat]
  BY RestOfTyped DEF Rest, Complete
<1> QED BY <1>1, <1>3, <1>4, <1>5, ControlTyped DEF Complete

\* The next task of a sequence is one of the plan.
LEMMA EndTurnAdvanceTyped ==
  ASSUME Typed, NEW s \in Sessions, NEW ok, EndTurnAdvance(s, ok)
  PROVE  Typed'
<1> DEFINE r == ForSession(s)
           run == runs[r]
           next == run.range[Len(run.done) + 2]
           record == [task |-> run.task, evidence |-> run.evidence,
                      actionsUsed |-> Len(run.actions)]
           done == Append(run.done, record)
           status == AdvancedStatus(r, done, next, ok)
<1>1. r \in DOMAIN runs /\ r \in Runs /\ run \in TaskRun
  BY OwnerIsRun DEF EndTurnAdvance
<1>2. next \in Tasks
  <2>1. Len(run.done) \in Nat /\ Len(run.range) \in Nat /\ run.range \in Seq(Tasks)
    BY <1>1 DEF TaskRun
  <2>2. Len(run.done) + 1 < Len(run.range)
    BY DEF EndTurnAdvance
  <2>3. Len(run.done) + 2 \in 1..Len(run.range)
    BY <2>1, <2>2
  <2> QED BY <2>1, <2>3
<1>3. record \in Done
  BY <1>1 DEF TaskRun, Done
<1>4. done \in Seq(Done)
  <2>1. run.done \in Seq(Done)
    BY <1>1 DEF TaskRun
  <2> HIDE DEF record
  <2> QED BY <1>3, <2>1, Appended
<1>5. status \in RunStatus
  BY DEF AdvancedStatus, RunStatus
<1>6. Store(r, [run EXCEPT !.task = next, !.evidence = <<>>, !.done = done, !.status = status])
      /\ ContinueOrIdle(s, status = "running")
      /\ UNCHANGED <<approvals, receipts, expired, calls, jobs>>
  BY DEF EndTurnAdvance
<1> HIDE DEF next, done, status
<1>7. ASSUME NEW e \in Seq(SUBSET Calls)
      PROVE  [run EXCEPT !.task = next, !.evidence = e, !.done = done, !.status = status] \in TaskRun
  <2>1. [run EXCEPT !.task = next, !.evidence = e] \in TaskRun
    BY <1>1, <1>2 DEF TaskRun
  <2>2. ASSUME NEW x \in TaskRun PROVE [x EXCEPT !.done = done, !.status = status] \in TaskRun
    BY <1>4, <1>5 DEF TaskRun
  <2> QED BY <2>1, <2>2
<1>8. <<>> \in Seq(SUBSET Calls)
  OBVIOUS
<1>9. Rest'
  BY <1>6, RestOfTyped, GoIdleTyped DEF Rest, ContinueOrIdle, AgentStage
<1> QED BY <1>1, <1>6, <1>7, <1>8, <1>9, StoreTyped, OldCallsKnown

\* A turn of a running task ends: it goes on or pauses.
LEMMA EndTurnRunningTyped ==
  ASSUME Typed, NEW s \in Sessions, NEW ok, EndTurnRunning(s, ok)
  PROVE  Typed'
<1> DEFINE r == ForSession(s)
           continue == CanContinue(s, r, ok)
<1>1. r \in DOMAIN runs /\ r \in Runs /\ runs[r] \in TaskRun
  BY OwnerIsRun DEF EndTurnRunning, RunsAsOwner
<1>2. [runs[r] EXCEPT !.status = IF continue THEN "running" ELSE "paused"] \in TaskRun
  <2> HIDE DEF continue
  <2> QED BY <1>1, WithStatus DEF RunStatus
<1>3. Rest'
  BY RestOfTyped, GoIdleTyped DEF Rest, EndTurnRunning, ContinueOrIdle, AgentStage
<1> QED BY <1>1, <1>2, <1>3, StoreTyped, OldCallsKnown DEF EndTurnRunning

\* A duration passes.
LEMMA ExpireTyped == ASSUME Typed, NEW r, Expire(r) PROVE Typed'
<1>1. Rest' /\ runs' = runs /\ calls' = calls
  BY RestOfTyped, RunsTyped DEF Rest, Expire, durable, volatile
<1> QED BY <1>1, SameRunsTyped DEF Typed, CallsAreKnown

\* Recovered attempts have the shape of attempts, and nothing is in flight.
LEMMA RestartTyped == ASSUME Typed, Restart PROVE Typed'
<1>1. ASSUME NEW r \in DOMAIN runs PROVE Recovered(runs[r]) \in TaskRun
  BY RunsTyped, WithActions, Remarked DEF Recovered, RunStatus, ActionStatus
<1>2. DOMAIN runs' = DOMAIN runs /\ \A r \in DOMAIN runs' : runs'[r] \in TaskRun
  BY <1>1 DEF Restart
<1>3. TypeOK'
  BY <1>2 DEF Typed, TypeOK, Restart, AgentStage
<1> QED BY <1>3 DEF Typed, CallsAreKnown, Restart
-----------------------------------------------------------------------------
(* What a step may do to an attempt, by field                                  *)

SameTerms(old, run) ==
  /\ run.planRevision = old.planRevision /\ run.range = old.range
  /\ run.automatic = old.automatic /\ run.native = old.native /\ run.relay = old.relay
SameHistory(old, run) ==
  /\ run.session = old.session /\ run.sessions = old.sessions
  /\ run.epoch = old.epoch /\ run.handoffs = old.handoffs
SameWork(old, run) == run.task = old.task /\ run.evidence = old.evidence /\ run.done = old.done
SameUse(old, run)  == run.turns = old.turns /\ run.actions = old.actions

\* stopped, refused, paused by a limit or kept running
Marks(old, run) ==
  /\ SameTerms(old, run) /\ SameHistory(old, run) /\ SameWork(old, run) /\ SameUse(old, run)
  /\ old.status \notin {"completed", "cancelled"} /\ run.status # "completed"
  /\ run.status = "running" => old.status = "running"
  /\ Prepared(old) => old.status = "running" \/ run.status \in {"paused", "cancelled"}
  /\ calls' = calls

Resumes(old, run) ==
  /\ SameTerms(old, run) /\ SameHistory(old, run) /\ SameWork(old, run)
  /\ run.turns = old.turns /\ run.actions = Remark(old, "unknown", "reconciled")
  /\ old.status \in {"paused", "needs_reconciliation"}
  /\ run.status = IF Prepared(old) THEN "paused" ELSE "running"
  /\ old.planRevision = Current /\ Approved
  /\ Inactive(old.session)
  /\ calls' = calls

Interrupts(old, run) ==
  /\ SameTerms(old, run) /\ SameHistory(old, run) /\ SameWork(old, run)
  /\ run.turns = old.turns /\ run.actions = Remark(old, "pending", "unknown")
  /\ old.status = "running" /\ run.status = "needs_reconciliation"
  /\ calls' = calls

\* a transfer is prepared
Prepares(old, run) ==
  /\ SameTerms(old, run) /\ SameWork(old, run) /\ SameUse(old, run)
  /\ run.session = old.session /\ run.sessions = old.sessions /\ run.epoch = old.epoch
  /\ old.status \in {"running", "paused"} /\ run.status = "paused"
  /\ old.planRevision = Current
  /\ ~ Prepared(old) /\ ~ HasAction(old, {"pending", "unknown"})
  /\ \E op \in Ops \cup {Fresh}, target \in Sessions :
       /\ ForSession(target) = NoRun
       /\ run.handoffs = Append(old.handoffs, [op |-> op, source |-> old.session,
            target |-> target, epoch |-> old.epoch, status |-> "prepared"])
  /\ calls' = calls

\* the prepared transfer i is finished
Finishes(old, run, i) ==
  /\ SameTerms(old, run) /\ SameWork(old, run) /\ SameUse(old, run)
  /\ old.handoffs[i].status = "prepared"
  /\ old.handoffs[i].epoch = old.epoch /\ old.handoffs[i].source = old.session
  /\ run.session = old.handoffs[i].target
  /\ run.sessions = Append(old.sessions, old.handoffs[i].target)
  /\ run.epoch = old.epoch + 1
  /\ run.handoffs = [old.handoffs EXCEPT ![i].status = "transferred"]
  /\ old.status = "paused" /\ run.status = "paused"
  /\ calls' = calls

\* a step of a turn is counted
Counts(old, run) ==
  /\ SameTerms(old, run) /\ SameHistory(old, run) /\ SameWork(old, run)
  /\ run.turns = old.turns + 1 /\ old.turns < MaxTurns /\ run.actions = old.actions
  /\ old.status = "running" /\ run.status = "running"
  /\ calls' = calls

\* a call c of the owner s of attempt r is admitted
Admits(old, run, r, s, c) ==
  /\ SameTerms(old, run) /\ SameHistory(old, run) /\ SameWork(old, run)
  /\ run.turns = old.turns /\ Len(old.actions) < MaxActions
  /\ \A i \in DOMAIN old.actions : old.actions[i].call # c
  /\ run.actions = Append(old.actions, [call |-> c, status |-> "pending"])
  /\ old.status = "running" /\ run.status = "running"
  /\ old.planRevision = Current /\ old.session = s
  /\ calls' = calls \cup {[session |-> s, run |-> r, call |-> c, stage |-> "admitted"]}

\* the outcome of the call k is recorded
Outcome(run, c, status) ==
  [i \in DOMAIN run.actions |-> IF run.actions[i].call = c
                                THEN [run.actions[i] EXCEPT !.status = status]
                                ELSE run.actions[i]]
Settles(old, run, r, k) ==
  /\ SameTerms(old, run) /\ SameHistory(old, run) /\ SameWork(old, run)
  /\ run.turns = old.turns /\ run.status = old.status
  /\ \E status \in {"succeeded", "failed"} : run.actions = Outcome(old, k.call, status)
  /\ k.run = r /\ calls' = calls \ {k}

\* the current task is completed on the strength of cited calls
Finds(old, run) ==
  /\ SameTerms(old, run) /\ SameHistory(old, run) /\ SameUse(old, run)
  /\ run.task = old.task /\ run.done = old.done
  /\ old.status = "running" /\ run.status = "completed"
  /\ ~ HasAction(old, {"pending", "unknown"})
  /\ \E cited \in SUBSET Calls :
       /\ IF old.native THEN cited = {} ELSE cited # {} /\ cited \subseteq Citable(old)
       /\ run.evidence = Append(old.evidence, cited)
  /\ calls' = calls

\* a sequence goes on to its next task
Advances(old, run) ==
  /\ SameTerms(old, run) /\ SameHistory(old, run) /\ SameUse(old, run)
  /\ Len(old.done) + 1 < Len(old.range)
  /\ run.task = old.range[Len(old.done) + 2]
  /\ run.evidence = <<>>
  /\ run.done = Append(old.done, [task |-> old.task, evidence |-> old.evidence,
                                  actionsUsed |-> Len(old.actions)])
  /\ old.status = "completed"
  /\ run.status \in {"running", "paused", "needs_reconciliation"}
  /\ run.status = "running" => old.planRevision = Current /\ Approved
  /\ calls' = calls

\* with the end of the owner's turn, and for which reasons it pauses
EndsTurn(r, run) ==
  /\ agent[run.session] = "turn"
  /\ run.status # "running" => agent' = [agent EXCEPT ![run.session] = "idle"]
  /\ run.status = "paused" =>
       \/ run.task \notin Ready(Plan, Approved, CompletedFacts)
       \/ Exhausted(r) \/ RelayDue(runs[r], run.done, run.task)

Changes(r, run) ==
  LET old == runs[r] IN
  \/ Marks(old, run) \/ Resumes(old, run) \/ Interrupts(old, run) \/ Prepares(old, run)
  \/ \E i \in DOMAIN old.handoffs : Finishes(old, run, i)
  \/ Counts(old, run) \/ Finds(old, run)
  \/ Advances(old, run) /\ EndsTurn(r, run)
  \/ \E s \in Sessions, c \in Calls : Admits(old, run, r, s, c)
  \/ \E k \in calls : Settles(old, run, r, k)

\* one attempt is stored, changed in one of these ways
ChangeStep ==
  /\ approvals' = approvals
  /\ \E r \in DOMAIN runs : \E run \in TaskRun : Store(r, run) /\ Changes(r, run)

\* no attempt is stored: calls end, go on, or begin without one
CallStep ==
  /\ approvals' = approvals /\ runs' = runs
  /\ \/ calls' \subseteq calls
     \/ \E k \in calls, moved \in Call :
          /\ calls' = (calls \ {k}) \cup {moved}
          /\ moved.session = k.session /\ moved.run = k.run /\ moved.call = k.call
     \/ \E k \in Call : calls' = calls \cup {k} /\ k.run = NoRun

\* the attempt r is claimed for s, with a task or with a range of phases
NewAttemptStep ==
  /\ approvals' = approvals /\ calls' = calls
  /\ \E s \in Sessions, r \in Runs, t \in Tasks, op \in Operations,
        automatic, native \in BOOLEAN, range \in Seq(Tasks), relay \in Nat :
       /\ NewOperation(op) /\ Receipt(op)
       /\ r \notin DOMAIN runs /\ ForSession(s) = NoRun /\ t \in ReadyTasks
       /\ range = <<>> \/ \E last \in PhaseOf(Plan, t)..Len(Plan.phases) : Selects(t, last, range)
       /\ Store(r, NewRun(s, t, automatic, native, range, relay))

\* A stored attempt is the one found after the step.
LEMMA StoredAttempt ==
  ASSUME Typed', NEW r, NEW run, Store(r, run)
  PROVE  run \in TaskRun
  BY RunsTyped DEF Store, Typed, TypeOK

\* Storing a change of a known attempt is a change step.
LEMMA StoredChange ==
  ASSUME Typed', approvals' = approvals, NEW r \in DOMAIN runs, NEW run, Store(r, run),
         Changes(r, run)
  PROVE  ChangeStep
  BY StoredAttempt DEF ChangeStep

\* A new status changes nothing else.
LEMMA StatusFields ==
  ASSUME NEW old \in TaskRun, NEW status
  PROVE  LET run == [old EXCEPT !.status = status] IN
         /\ run.status = status
         /\ SameTerms(old, run) /\ SameHistory(old, run) /\ SameWork(old, run) /\ SameUse(old, run)
  BY DEF TaskRun, SameTerms, SameHistory, SameWork, SameUse

\* A mark of a status that is not completed, on an attempt that is not over.
LEMMA MarkStep ==
  ASSUME Typed, Typed', approvals' = approvals, calls' = calls, NEW r \in DOMAIN runs,
         NEW status, Store(r, [runs[r] EXCEPT !.status = status]),
         runs[r].status \notin {"completed", "cancelled"}, status # "completed",
         status = "running" => runs[r].status = "running",
         Prepared(runs[r]) => runs[r].status = "running" \/ status \in {"paused", "cancelled"}
  PROVE  ChangeStep
<1> DEFINE run == [runs[r] EXCEPT !.status = status]
<1>1. /\ run.status = status
      /\ SameTerms(runs[r], run) /\ SameHistory(runs[r], run) /\ SameWork(runs[r], run)
      /\ SameUse(runs[r], run)
  BY RunsTyped, StatusFields
<1>2. Store(r, run)
  OBVIOUS
<1> HIDE DEF run
<1>3. Marks(runs[r], run)
  BY <1>1 DEF Marks
<1> QED BY <1>2, <1>3, StoredChange DEF Changes

\* The claims of the user.
LEMMA ClaimChanges == ASSUME Claims PROVE NewAttemptStep
<1>1. PICK s \in Sessions, r \in Runs, t \in Tasks, op \in Operations, native \in Native :
        \/ \E automatic \in Automatic : ClaimTask(s, r, t, op, automatic, native)
        \/ \E last \in PhaseOf(Plan, t)..Len(Plan.phases), relay \in RelayEvery :
             ClaimPhases(s, r, t, op, native, last, relay)
  BY DEF Claims
<1>2. native \in BOOLEAN /\ Automatic \subseteq BOOLEAN /\ RelayEvery \subseteq Nat
  BY ConstantsAssumption
<1>3. ASSUME NEW automatic \in Automatic, ClaimTask(s, r, t, op, automatic, native) PROVE NewAttemptStep
  <2>1. <<>> \in Seq(Tasks) /\ 0 \in Nat
    OBVIOUS
  <2> QED BY <1>2, <1>3, <2>1 DEF ClaimTask, NewAttemptStep, volatile
<1>4. ASSUME NEW last \in PhaseOf(Plan, t)..Len(Plan.phases), NEW relay \in RelayEvery,
             ClaimPhases(s, r, t, op, native, last, relay)
      PROVE  NewAttemptStep
  <2> DEFINE range == Remaining(PhaseOf(Plan, t), last)
  <2>1. /\ approvals' = approvals /\ calls' = calls
        /\ NewOperation(op) /\ Receipt(op)
        /\ r \notin DOMAIN runs /\ ForSession(s) = NoRun /\ t \in ReadyTasks
        /\ Selects(t, last, range) /\ Store(r, NewRun(s, t, TRUE, native, range, relay))
    BY <1>4 DEF ClaimPhases, volatile
  <2>2. range \in Seq(Tasks) /\ TRUE \in BOOLEAN
    BY <2>1, RemainingTyped DEF Selects
  <2> HIDE DEF range
  <2> QED BY <1>2, <2>1, <2>2 DEF NewAttemptStep
<1> QED BY <1>1, <1>3, <1>4

\* The controls of the user.
LEMMA ControlChanges ==
  ASSUME Typed, Typed', NEW r \in DOMAIN runs, NEW op, NEW cancel \in BOOLEAN, NEW note, NEW ok,
         NEW changed,
         \/ Stop(r, op, cancel) \/ ResumeUnreconciled(r, op, ok, changed)
         \/ PrepareChanged(r, op, ok) \/ Resume(r, op, note, ok, changed)
  PROVE  ChangeStep
<1>1. approvals' = approvals /\ calls' = calls
  BY DEF Stop, ResumeUnreconciled, PrepareChanged, Resume, volatile
<1>2. CASE Stop(r, op, cancel)
  <2> DEFINE status == IF cancel THEN "cancelled" ELSE "paused"
  <2>1. Store(r, [runs[r] EXCEPT !.status = status])
        /\ runs[r].status \notin {"completed", "cancelled"}
    BY <1>2 DEF Stop
  <2>2. status \in {"paused", "cancelled"}
    OBVIOUS
  <2> HIDE DEF status
  <2> QED BY <1>1, <2>1, <2>2, MarkStep
<1>3. CASE ResumeUnreconciled(r, op, ok, changed)
  BY <1>1, <1>3, MarkStep DEF ResumeUnreconciled, MayResume
<1>4. CASE PrepareChanged(r, op, ok)
  BY <1>1, <1>4, MarkStep DEF PrepareChanged, MayPrepare
<1>5. CASE Resume(r, op, note, ok, changed)
  <2> DEFINE status == IF Prepared(runs[r]) THEN "paused" ELSE "running"
             actions == Remark(runs[r], "unknown", "reconciled")
             run == [runs[r] EXCEPT !.status = status, !.actions = actions]
  <2>1. Store(r, run) /\ MayResume(r, note, ok)
    BY <1>5 DEF Resume
  <2>2. /\ run.status = status /\ run.actions = actions /\ run.turns = runs[r].turns
        /\ SameTerms(runs[r], run) /\ SameHistory(runs[r], run) /\ SameWork(runs[r], run)
    <3> HIDE DEF status, actions
    <3> QED BY RunsTyped DEF TaskRun, SameTerms, SameHistory, SameWork
  <2> HIDE DEF run
  <2>3. Resumes(runs[r], run)
    BY <1>1, <2>1, <2>2 DEF Resumes, MayResume
  <2> QED BY <1>1, <2>1, <2>3, StoredChange DEF Changes
<1> QED BY <1>2, <1>3, <1>4, <1>5

\* Preparing a transfer.
LEMMA PrepareChanges ==
  ASSUME Typed, Typed', NEW r \in DOMAIN runs, NEW target \in Sessions, NEW op \in Operations,
         NEW ok, NEW changed, PrepareHandoff(r, target, op, ok, changed)
  PROVE  ChangeStep
<1> DEFINE old == runs[r]
           handoffs == Append(old.handoffs, [op |-> op, source |-> old.session,
                         target |-> target, epoch |-> old.epoch, status |-> "prepared"])
           run == [old EXCEPT !.status = "paused", !.handoffs = handoffs]
<1>1. approvals' = approvals /\ calls' = calls /\ Store(r, run) /\ MayPrepare(r, op, ok)
      /\ ForSession(target) = NoRun
  BY DEF PrepareHandoff, volatile, Unused
<1>2. /\ run.status = "paused" /\ run.handoffs = handoffs
      /\ run.session = old.session /\ run.sessions = old.sessions /\ run.epoch = old.epoch
      /\ SameTerms(old, run) /\ SameWork(old, run) /\ SameUse(old, run)
  <2> HIDE DEF handoffs
  <2> QED BY RunsTyped DEF TaskRun, SameTerms, SameWork, SameUse
<1> HIDE DEF run
<1>3. Prepares(old, run)
  BY <1>1, <1>2 DEF Prepares, MayPrepare, Operations
<1> QED BY <1>1, <1>3, StoredChange DEF Changes

\* Finishing it.
LEMMA FinishChanges ==
  ASSUME Typed, Typed', NEW r \in DOMAIN runs, NEW i \in DOMAIN runs[r].handoffs, NEW ok, NEW changed,
         FinishHandoff(r, i, ok, changed)
  PROVE  ChangeStep
<1> DEFINE old == runs[r]
           target == old.handoffs[i].target
           sessions == Append(old.sessions, target)
           epoch == old.epoch + 1
           handoffs == [old.handoffs EXCEPT ![i].status = "transferred"]
           run == [old EXCEPT !.session = target, !.sessions = sessions, !.epoch = epoch,
                              !.handoffs = handoffs]
<1>1. approvals' = approvals /\ calls' = calls /\ Store(r, Transferred(old, i))
      /\ old.handoffs[i].status = "prepared" /\ old.status = "paused"
      /\ old.handoffs[i].epoch = old.epoch /\ old.handoffs[i].source = old.session
  BY DEF FinishHandoff, volatile
<1>2. Transferred(old, i) = run
  BY DEF Transferred
<1>3. /\ run.status = old.status /\ run.session = target /\ run.sessions = sessions
      /\ run.epoch = epoch /\ run.handoffs = handoffs
      /\ SameTerms(old, run) /\ SameWork(old, run) /\ SameUse(old, run)
  <2> HIDE DEF target, sessions, epoch, handoffs
  <2> QED BY RunsTyped DEF TaskRun, SameTerms, SameWork, SameUse
<1> HIDE DEF run
<1>4. Finishes(old, run, i)
  BY <1>1, <1>3 DEF Finishes
<1> QED BY <1>1, <1>2, <1>4, StoredChange DEF Changes

\* A refused owner is marked, or there is none.
LEMMA FenceChanges ==
  ASSUME Typed, Typed', NEW s \in Sessions, FenceOwner(s), approvals' = approvals, calls' = calls
  PROVE  ChangeStep \/ CallStep
<1>1. CASE RunsAsOwner(s)
  BY <1>1, OwnerIsRun, MarkStep DEF RunsAsOwner, FenceOwner
<1>2. CASE ~ RunsAsOwner(s)
  BY <1>2 DEF FenceOwner, CallStep
<1> QED BY <1>1, <1>2

\* A conversation that is not refused runs the attempt it is bound to.
LEMMA NotDenied ==
  ASSUME Typed, NEW s \in Sessions, NEW ok, ~ Denied(s, ok), ForSession(s) # NoRun
  PROVE  LET r == ForSession(s) IN
         /\ r \in DOMAIN runs /\ runs[r] \in TaskRun
         /\ runs[r].session = s /\ runs[r].status = "running"
         /\ runs[r].planRevision = Current /\ Approved
  BY ForSessionIsBound, RunsTyped DEF Denied

\* A step of a turn is counted, or the attempt paused.
LEMMA EnterTurnChanges ==
  ASSUME Typed, Typed', NEW s \in Sessions, NEW ok, EnterTurn(s, ok)
  PROVE  ChangeStep \/ CallStep
<1> DEFINE r == ForSession(s)
           turns == runs[r].turns + 1
           run == [runs[r] EXCEPT !.turns = turns]
<1>1. approvals' = approvals /\ calls' = calls
  BY DEF EnterTurn
<1>2. CASE runs' = runs
  BY <1>1, <1>2 DEF CallStep
<1>3. CASE r # NoRun /\ ~ Denied(s, ok) /\ Store(r, [runs[r] EXCEPT !.status = "paused"])
  BY <1>1, <1>3, NotDenied, MarkStep
<1>4. CASE r # NoRun /\ ~ Denied(s, ok) /\ runs[r].turns < MaxTurns /\ Store(r, run)
  <2>1. r \in DOMAIN runs /\ runs[r] \in TaskRun /\ runs[r].status = "running"
    BY <1>4, NotDenied
  <2>2. /\ run.turns = turns /\ run.status = runs[r].status /\ run.actions = runs[r].actions
        /\ SameTerms(runs[r], run) /\ SameHistory(runs[r], run) /\ SameWork(runs[r], run)
    <3> HIDE DEF turns
    <3> QED BY <2>1 DEF TaskRun, SameTerms, SameHistory, SameWork
  <2> HIDE DEF run
  <2>3. Counts(runs[r], run)
    BY <1>1, <1>4, <2>1, <2>2 DEF Counts
  <2> QED BY <1>1, <1>4, <2>1, <2>3, StoredChange DEF Changes
<1> QED BY <1>2, <1>3, <1>4 DEF EnterTurn, Denied

\* The interrupt of an idle conversation.
LEMMA InterruptChanges ==
  ASSUME Typed, Typed', NEW s \in Sessions, NEW stored, Interrupt(s, stored)
  PROVE  ChangeStep \/ CallStep
<1> DEFINE r == ForSession(s)
           actions == Remark(runs[r], "pending", "unknown")
           run == [runs[r] EXCEPT !.status = "needs_reconciliation", !.actions = actions]
<1>1. approvals' = approvals /\ calls' = calls
  BY DEF Interrupt
<1>2. CASE runs' = runs
  BY <1>1, <1>2 DEF CallStep
<1>3. CASE RunsAsOwner(s) /\ Store(r, run)
  <2>1. r \in DOMAIN runs /\ runs[r] \in TaskRun /\ runs[r].status = "running"
    BY <1>3, OwnerIsRun DEF RunsAsOwner
  <2>2. /\ run.status = "needs_reconciliation" /\ run.actions = actions /\ run.turns = runs[r].turns
        /\ SameTerms(runs[r], run) /\ SameHistory(runs[r], run) /\ SameWork(runs[r], run)
    <3> HIDE DEF actions
    <3> QED BY <2>1 DEF TaskRun, SameTerms, SameHistory, SameWork
  <2> HIDE DEF run
  <2>3. Interrupts(runs[r], run)
    BY <1>1, <2>1, <2>2 DEF Interrupts
  <2> QED BY <1>1, <1>3, <2>1, <2>3, StoredChange DEF Changes
<1> QED BY <1>2, <1>3 DEF Interrupt

\* A call is admitted, over the limit pauses the attempt, or is an ordinary one.
LEMMA BeginActionChanges ==
  ASSUME Typed, Typed', NEW s \in Sessions, NEW c \in Calls, NEW ok, BeginAction(s, c, ok)
  PROVE  ChangeStep \/ CallStep
<1> DEFINE r == ForSession(s)
           old == runs[r]
           actions == Append(old.actions, [call |-> c, status |-> "pending"])
           run == [old EXCEPT !.actions = actions]
           new(stage) == [session |-> s, run |-> r, call |-> c, stage |-> stage]
<1>1. approvals' = approvals /\ ~ Denied(s, ok)
  BY DEF BeginAction
<1>2. CASE r = NoRun
  <2>1. calls' = calls \cup {new("dispatched")} /\ runs' = runs
    BY <1>2 DEF BeginAction
  <2>2. new("dispatched") \in Call /\ new("dispatched").run = NoRun
    BY <1>2 DEF Call
  <2> QED BY <1>1, <2>1, <2>2 DEF CallStep
<1>3. CASE r # NoRun
  <2>1. /\ r \in DOMAIN runs /\ old \in TaskRun /\ old.status = "running"
        /\ old.session = s /\ old.planRevision = Current
    BY <1>1, <1>3, NotDenied
  <2>2. CASE Len(old.actions) >= MaxActions
    BY <1>1, <1>3, <2>1, <2>2, MarkStep DEF BeginAction
  <2>3. CASE ~ (Len(old.actions) >= MaxActions)
    <3>1. /\ Store(r, run) /\ calls' = calls \cup {new("admitted")}
          /\ \A i \in DOMAIN old.actions : old.actions[i].call # c
      BY <1>3, <2>3 DEF BeginAction
    <3>2. Len(old.actions) < MaxActions
      BY <2>1, <2>3, ConstantsAssumption DEF TaskRun
    <3>3. /\ run.actions = actions /\ run.turns = old.turns /\ run.status = old.status
          /\ SameTerms(old, run) /\ SameHistory(old, run) /\ SameWork(old, run)
      <4> HIDE DEF actions
      <4> QED BY <2>1 DEF TaskRun, SameTerms, SameHistory, SameWork
    <3> HIDE DEF run
    <3>4. Admits(old, run, r, s, c)
      BY <2>1, <3>1, <3>2, <3>3 DEF Admits
    <3> QED BY <1>1, <2>1, <3>1, <3>4, StoredChange DEF Changes
  <2> QED BY <2>2, <2>3
<1> QED BY <1>2, <1>3

\* A call is settled; its store may fail.
LEMMA SettleChanges ==
  ASSUME Typed, Typed', NEW k \in calls, NEW succeeded, NEW stored, Settle(k, succeeded, stored)
  PROVE  ChangeStep \/ CallStep
<1> DEFINE old == runs[k.run]
           status == IF succeeded THEN "succeeded" ELSE "failed"
           actions == Outcome(old, k.call, status)
           run == [old EXCEPT !.actions = actions]
<1>1. approvals' = approvals /\ calls' = calls \ {k} /\ k.run \in DOMAIN runs
  BY DEF Settle, Typed, CallsAreKnown
<1>2. CASE runs' = runs
  BY <1>1, <1>2 DEF CallStep
<1>3. CASE Store(k.run, run)
  <2>1. /\ run.actions = actions /\ run.turns = old.turns /\ run.status = old.status
        /\ SameTerms(old, run) /\ SameHistory(old, run) /\ SameWork(old, run)
    <3> HIDE DEF actions
    <3> QED BY <1>1, RunsTyped DEF TaskRun, SameTerms, SameHistory, SameWork
  <2> HIDE DEF run
  <2>2. Settles(old, run, k.run, k)
    BY <1>1, <2>1 DEF Settles
  <2> QED BY <1>1, <1>3, <2>2, StoredChange DEF Changes
<1> QED BY <1>2, <1>3 DEF Settle, Outcome

\* The recheck of a call keeps whose it is.
LEMMA DispatchChanges ==
  ASSUME Typed, NEW k \in calls, NEW ok, Dispatch(k, ok)
  PROVE  CallStep
<1> DEFINE stage == IF Denied(k.session, ok) THEN "refused" ELSE "dispatched"
           moved == [k EXCEPT !.stage = stage]
<1>1. k \in Call /\ stage \in {"refused", "dispatched"}
  BY DEF Typed, TypeOK
<1>2. calls' = (calls \ {k}) \cup {moved} /\ approvals' = approvals /\ runs' = runs
  BY DEF Dispatch, durable
<1> HIDE DEF stage
<1>3. moved \in Call /\ moved.session = k.session /\ moved.run = k.run /\ moved.call = k.call
  BY <1>1 DEF Call
<1> HIDE DEF moved
<1> QED BY <1>2, <1>3 DEF CallStep

\* The current task is completed.
LEMMA CompleteChanges ==
  ASSUME Typed, Typed', NEW s \in Sessions, NEW cited \in SUBSET Calls, NEW ok, Complete(s, cited, ok)
  PROVE  ChangeStep
<1> DEFINE r == ForSession(s)
           old == runs[r]
           evidence == Append(old.evidence, cited)
           run == [old EXCEPT !.status = "completed", !.evidence = evidence]
<1>1. /\ approvals' = approvals /\ calls' = calls /\ Store(r, run)
      /\ ~ HasAction(old, {"pending", "unknown"})
      /\ IF old.native THEN cited = {} ELSE cited # {} /\ cited \subseteq Citable(old)
  BY DEF Complete, volatile
<1>2. r \in DOMAIN runs /\ old \in TaskRun /\ old.status = "running"
  BY NotDenied DEF Complete
<1>3. /\ run.evidence = evidence /\ run.status = "completed"
      /\ run.task = old.task /\ run.done = old.done
      /\ SameTerms(old, run) /\ SameHistory(old, run) /\ SameUse(old, run)
  <2> HIDE DEF evidence
  <2> QED BY <1>2 DEF TaskRun, SameTerms, SameHistory, SameUse
<1> HIDE DEF run
<1>4. Finds(old, run)
  BY <1>1, <1>2, <1>3 DEF Finds
<1> QED BY <1>1, <1>2, <1>4, StoredChange DEF Changes

\* A sequence goes on.
LEMMA EndTurnAdvanceChanges ==
  ASSUME Typed, Typed', NEW s \in Sessions, NEW ok, EndTurnAdvance(s, ok)
  PROVE  ChangeStep
<1> DEFINE r == ForSession(s)
           old == runs[r]
           next == old.range[Len(old.done) + 2]
           done == Append(old.done, [task |-> old.task, evidence |-> old.evidence,
                                     actionsUsed |-> Len(old.actions)])
           status == AdvancedStatus(r, done, next, ok)
           run == [old EXCEPT !.task = next, !.evidence = <<>>, !.done = done, !.status = status]
<1>1. r \in DOMAIN runs /\ old \in TaskRun
  BY OwnerIsRun DEF EndTurnAdvance
<1>2. /\ Store(r, run) /\ approvals' = approvals /\ calls' = calls
      /\ old.status = "completed" /\ Len(old.done) + 1 < Len(old.range)
  BY DEF EndTurnAdvance
<1>3. /\ status \in {"running", "paused", "needs_reconciliation"}
      /\ status = "running" => old.planRevision = Current /\ Approved
  BY DEF AdvancedStatus
<1>4. /\ run.task = next /\ run.evidence = <<>> /\ run.done = done /\ run.status = status
      /\ SameTerms(old, run) /\ SameHistory(old, run) /\ SameUse(old, run)
  <2> DEFINE none == <<>>
  <2> HIDE DEF next, done, status, none
  <2>1. LET new == [old EXCEPT !.task = next, !.evidence = none, !.done = done, !.status = status] IN
        /\ new.task = next /\ new.evidence = none /\ new.done = done /\ new.status = status
        /\ SameTerms(old, new) /\ SameHistory(old, new) /\ SameUse(old, new)
    BY <1>1 DEF TaskRun, SameTerms, SameHistory, SameUse
  <2> QED BY <2>1 DEF none
<1> HIDE DEF run
<1>5. Advances(old, run)
  BY <1>2, <1>3, <1>4 DEF Advances
<1>6. EndsTurn(r, run)
  <2>1. run.session = s /\ agent[s] = "turn"
    BY <1>4 DEF EndTurnAdvance, Owns, SameHistory
  <2>2. ContinueOrIdle(s, status = "running")
    BY DEF EndTurnAdvance
  <2>3. status = "paused" =>
          next \notin Ready(Plan, Approved, CompletedFacts) \/ Exhausted(r) \/ RelayDue(old, done, next)
    BY DEF AdvancedStatus
  <2> HIDE DEF status, next, done
  <2> QED BY <1>4, <2>1, <2>2, <2>3 DEF EndsTurn, ContinueOrIdle, GoIdle
<1> QED BY <1>1, <1>2, <1>5, <1>6, StoredChange DEF Changes

\* A turn of a running task ends.
LEMMA EndTurnRunningChanges ==
  ASSUME Typed, Typed', NEW s \in Sessions, NEW ok, EndTurnRunning(s, ok)
  PROVE  ChangeStep
<1> DEFINE r == ForSession(s)
           status == IF CanContinue(s, r, ok) THEN "running" ELSE "paused"
<1>1. r \in DOMAIN runs /\ runs[r].status = "running"
  BY OwnerIsRun DEF EndTurnRunning, RunsAsOwner
<1>2. /\ Store(r, [runs[r] EXCEPT !.status = status]) /\ approvals' = approvals /\ calls' = calls
      /\ status # "completed"
  BY DEF EndTurnRunning
<1> HIDE DEF status
<1> QED BY <1>1, <1>2, MarkStep
-----------------------------------------------------------------------------
(* The specification                                                           *)

\* A plan without attempts.
LEMMA InitTyped == Init => Typed
<1> SUFFICES ASSUME Init PROVE Typed
  OBVIOUS
<1>1. <<FALSE>> \in Seq(BOOLEAN) /\ <<FALSE>> # <<>>
  OBVIOUS
<1>2. DOMAIN runs = {}
  BY DEF Init
<1> QED BY <1>1, <1>2 DEF Init, Typed, TypeOK, CallsAreKnown, AgentStage

\* Every step keeps the state typed.
LEMMA NextTyped == Typed /\ [Next]_vars => Typed'
<1> SUFFICES ASSUME Typed, [Next]_vars PROVE Typed'
  OBVIOUS
<1>1. CASE Edits
  BY <1>1, SaveTyped, ApproveTyped DEF Edits
<1>2. CASE Claims
  <2>1. PICK s \in Sessions, r \in Runs, t \in Tasks, op \in Operations, native \in Native :
          \/ \E automatic \in Automatic : ClaimTask(s, r, t, op, automatic, native)
          \/ \E last \in PhaseOf(Plan, t)..Len(Plan.phases), relay \in RelayEvery :
               ClaimPhases(s, r, t, op, native, last, relay)
    BY <1>2 DEF Claims
  <2>2. native \in BOOLEAN /\ Automatic \subseteq BOOLEAN /\ RelayEvery \subseteq Nat
    BY ConstantsAssumption
  <2>3. CASE \E automatic \in Automatic : ClaimTask(s, r, t, op, automatic, native)
    BY <2>2, <2>3, ClaimTaskTyped
  <2>4. CASE \E last \in PhaseOf(Plan, t)..Len(Plan.phases), relay \in RelayEvery :
               ClaimPhases(s, r, t, op, native, last, relay)
    BY <2>2, <2>4, ClaimPhasesTyped
  <2> QED BY <2>1, <2>3, <2>4
<1>3. CASE Controls
  BY <1>3, StopTyped, ResumeTyped, ResumeUnreconciledTyped DEF Controls
<1>4. CASE Handoffs
  BY <1>4, PrepareHandoffTyped, PrepareChangedTyped, FinishHandoffTyped DEF Handoffs, Operations
<1>5. CASE Turns
  <2>1. {"prestep", "injected"} \subseteq AgentStage
    BY DEF AgentStage
  <2> QED BY <1>5, <2>1, TurnTyped, StepDeniedTyped, EnterTurnTyped, InterruptTyped,
             EndTurnAdvanceTyped, EndTurnRunningTyped DEF Turns
<1>6. CASE ToolCalls
  <2>1. \A s \in Sessions : (StartJob(s) \/ EndJob(s)) => Typed'
    <3>1. ASSUME NEW s \in Sessions, StartJob(s) \/ EndJob(s) PROVE Typed'
      <4>1. Rest' /\ runs' = runs /\ calls' = calls
        BY <3>1, RestOfTyped DEF Rest, StartJob, EndJob, durable
      <4> QED BY <4>1, SameRunsTyped DEF Typed, CallsAreKnown
    <3> QED BY <3>1
  <2>2. \A k \in calls : k.session \in Sessions
    BY DEF Typed, TypeOK, Call
  <2> QED BY <1>6, <2>1, <2>2, CallTyped, ToolDeniedTyped, BeginActionTyped, CompleteTyped,
             SettleTyped DEF ToolCalls
<1>7. CASE \E r \in Runs : Expire(r)
  BY <1>7, ExpireTyped
<1>8. CASE Restart
  BY <1>8, RestartTyped
<1>9. CASE UNCHANGED vars
  BY <1>9 DEF vars, durable, volatile, Typed, TypeOK, CallsAreKnown
<1> QED BY <1>1, <1>2, <1>3, <1>4, <1>5, <1>6, <1>7, <1>8, <1>9 DEF Next

\* The shape of every step: the plan is edited, an attempt claimed, one attempt
\* changed in a listed way, calls go on, or the process restarts.
LEMMA StepShape ==
  ASSUME Typed, [Next]_vars
  PROVE  Edits \/ NewAttemptStep \/ ChangeStep \/ CallStep \/ Restart
<1>1. Typed'
  BY NextTyped
<1>2. CASE Controls
  BY <1>1, <1>2, ControlChanges DEF Controls
<1>3. CASE Handoffs
  BY <1>1, <1>3, ControlChanges, PrepareChanges, FinishChanges DEF Handoffs
<1>4. CASE Turns
  <2>1. ASSUME NEW s, NEW stage, NEW ok,
               Wake(s, stage) \/ Steer(s) \/ AbortTurn(s) \/ EndTurnOther(s) \/ CheckAccess(s, ok)
        PROVE  CallStep
    BY <2>1 DEF Wake, Steer, AbortTurn, EndTurnOther, CheckAccess, durable, CallStep
  <2>2. ASSUME NEW s \in Sessions, NEW ok, StepDenied(s, ok) PROVE ChangeStep \/ CallStep
    BY <1>1, <2>2, FenceChanges DEF StepDenied
  <2> QED BY <1>1, <1>4, <2>1, <2>2, EnterTurnChanges, InterruptChanges, EndTurnAdvanceChanges,
             EndTurnRunningChanges DEF Turns
<1>5. CASE ToolCalls
  <2>1. ASSUME NEW s, NEW k, StartJob(s) \/ EndJob(s) \/ EndOrdinary(k) PROVE CallStep
    BY <2>1 DEF StartJob, EndJob, EndOrdinary, durable, CallStep
  <2>2. ASSUME NEW s \in Sessions, NEW ok, ToolDenied(s, ok) PROVE ChangeStep \/ CallStep
    BY <1>1, <2>2, FenceChanges DEF ToolDenied, volatile
  <2> QED BY <1>1, <1>5, <2>1, <2>2, BeginActionChanges, CompleteChanges, SettleChanges,
             DispatchChanges DEF ToolCalls
<1>6. CASE \E r \in Runs : Expire(r)
  BY <1>6 DEF Expire, durable, volatile, CallStep
<1>7. CASE UNCHANGED vars
  BY <1>7 DEF vars, CallStep
<1> QED BY <1>2, <1>3, <1>4, <1>5, <1>6, <1>7, ClaimChanges DEF Next

\* Whatever the transactions, turns, calls, failures and restarts do, a stored
\* attempt has the shape of its schema and a call in flight names one.
THEOREM StateIsTyped == Spec => []Typed
<1>1. Init => Typed
  BY InitTyped
<1>2. Typed /\ [Next]_vars => Typed'
  BY NextTyped
<1> QED BY <1>1, <1>2, PTL DEF Spec

\* TypeOK holds in every reachable state.
THEOREM TypeCorrect == Spec => []TypeOK
<1>1. Typed => TypeOK
  BY DEF Typed
<1> QED BY <1>1, StateIsTyped, PTL
-----------------------------------------------------------------------------
(* Budgets                                                                     *)

\* run has spent what old has spent, and maybe more
Spent(old, run) ==
  /\ run.turns >= old.turns
  /\ Len(run.actions) >= Len(old.actions)
  /\ \A i \in DOMAIN old.actions : run.actions[i].call = old.actions[i].call
  /\ IsPrefix(old.done, run.done)

\* A sequence is a prefix of itself and of what it is extended to.
LEMMA PrefixOfAppended ==
  ASSUME NEW S, NEW seq \in Seq(S), NEW e \in S
  PROVE  IsPrefix(seq, seq) /\ IsPrefix(seq, Append(seq, e))
<1>1. Len(Append(seq, e)) = Len(seq) + 1 /\ Len(seq) \in Nat
  OBVIOUS
<1>2. SubSeq(Append(seq, e), 1, Len(seq)) = seq /\ SubSeq(seq, 1, Len(seq)) = seq
  OBVIOUS
<1> QED BY <1>1, <1>2 DEF IsPrefix

\* New statuses leave the calls of the actions and their number alone.
LEMMA RemarkSpends ==
  ASSUME NEW old \in TaskRun, NEW from, NEW to
  PROVE  LET actions == Remark(old, from, to) IN
         /\ Len(actions) = Len(old.actions) /\ DOMAIN actions = DOMAIN old.actions
         /\ \A i \in DOMAIN old.actions :
              /\ actions[i].call = old.actions[i].call
              /\ actions[i].status = IF old.actions[i].status = from THEN to ELSE old.actions[i].status
<1> DEFINE actions == Remark(old, from, to)
<1>1. old.actions \in Seq(Action)
  BY DEF TaskRun
<1>2. \A i \in DOMAIN old.actions : old.actions[i] \in Action
  BY <1>1
<1>3. DOMAIN actions = DOMAIN old.actions
  BY DEF Remark
<1>4. ASSUME NEW i \in DOMAIN old.actions
      PROVE  /\ actions[i].call = old.actions[i].call
             /\ actions[i].status = IF old.actions[i].status = from THEN to ELSE old.actions[i].status
  BY <1>2 DEF Remark, Action
<1>5. Len(actions) = Len(old.actions)
  BY <1>1 DEF Remark
<1> QED BY <1>3, <1>4, <1>5

\* So does the outcome of a call.
LEMMA OutcomeSpends ==
  ASSUME NEW old \in TaskRun, NEW c, NEW status
  PROVE  LET actions == Outcome(old, c, status) IN
         /\ Len(actions) = Len(old.actions) /\ DOMAIN actions = DOMAIN old.actions
         /\ \A i \in DOMAIN old.actions :
              /\ actions[i].call = old.actions[i].call
              /\ actions[i].status = IF old.actions[i].call = c THEN status ELSE old.actions[i].status
<1> DEFINE actions == Outcome(old, c, status)
<1>1. old.actions \in Seq(Action)
  BY DEF TaskRun
<1>2. \A i \in DOMAIN old.actions : old.actions[i] \in Action
  BY <1>1
<1>3. DOMAIN actions = DOMAIN old.actions
  BY DEF Outcome
<1>4. ASSUME NEW i \in DOMAIN old.actions
      PROVE  /\ actions[i].call = old.actions[i].call
             /\ actions[i].status = IF old.actions[i].call = c THEN status ELSE old.actions[i].status
  BY <1>2 DEF Outcome, Action
<1>5. Len(actions) = Len(old.actions)
  BY <1>1 DEF Outcome
<1> QED BY <1>3, <1>4, <1>5

\* An admitted call is counted after the others.
LEMMA AdmittedAction ==
  ASSUME NEW old \in TaskRun, NEW c \in Calls
  PROVE  LET actions == Append(old.actions, [call |-> c, status |-> "pending"]) IN
         /\ Len(actions) = Len(old.actions) + 1 /\ Len(old.actions) \in Nat
         /\ DOMAIN old.actions = 1..Len(old.actions) /\ DOMAIN actions = 1..(Len(old.actions) + 1)
         /\ \A i \in DOMAIN old.actions : actions[i] = old.actions[i]
         /\ actions[Len(old.actions) + 1].call = c
         /\ actions[Len(old.actions) + 1].status = "pending"
<1> DEFINE new == [call |-> c, status |-> "pending"]
<1>1. new \in Action /\ new.call = c /\ new.status = "pending"
  BY DEF Action, ActionStatus
<1>2. old.actions \in Seq(Action)
  BY DEF TaskRun
<1> HIDE DEF new
<1> QED BY <1>1, <1>2

\* Every change of an attempt spends.
LEMMA ChangeSpends ==
  ASSUME Typed, NEW r \in DOMAIN runs, NEW run \in TaskRun, Changes(r, run)
  PROVE  Spent(runs[r], run)
<1> DEFINE old == runs[r]
<1>1. old \in TaskRun
  BY RunsTyped
<1>2. /\ old.turns \in Nat /\ old.actions \in Seq(Action) /\ old.done \in Seq(Done)
      /\ Len(old.actions) \in Nat
  BY <1>1 DEF TaskRun
<1>3. IsPrefix(old.done, old.done)
  <2>1. Len(old.done) <= Len(old.done)
    BY <1>2
  <2> QED BY <2>1 DEF IsPrefix
<1>4. CASE SameUse(old, run) /\ run.done = old.done
  BY <1>2, <1>3, <1>4 DEF SameUse, Spent
<1>5. ASSUME run.turns = old.turns, run.done = old.done,
             Len(run.actions) = Len(old.actions),
             \A i \in DOMAIN old.actions : run.actions[i].call = old.actions[i].call
      PROVE  Spent(old, run)
  BY <1>2, <1>3, <1>5 DEF Spent
<1>6. CASE Resumes(old, run) \/ Interrupts(old, run)
  BY <1>1, <1>5, <1>6, RemarkSpends DEF Resumes, Interrupts, SameWork
<1>7. CASE Counts(old, run)
  BY <1>2, <1>3, <1>7 DEF Counts, SameWork, Spent
<1>8. ASSUME NEW s \in Sessions, NEW c \in Calls, Admits(old, run, r, s, c) PROVE Spent(old, run)
  BY <1>1, <1>2, <1>3, <1>8, AdmittedAction DEF Admits, SameWork, Spent
<1>9. ASSUME NEW k \in calls, Settles(old, run, r, k) PROVE Spent(old, run)
  BY <1>1, <1>5, <1>9, OutcomeSpends DEF Settles, SameWork
<1>10. CASE Advances(old, run)
  <2>1. [task |-> old.task, evidence |-> old.evidence, actionsUsed |-> Len(old.actions)] \in Done
    BY <1>1 DEF TaskRun, Done
  <2>2. IsPrefix(old.done, run.done)
    BY <1>2, <1>10, <2>1, PrefixOfAppended DEF Advances
  <2> QED BY <1>2, <1>10, <2>2 DEF Advances, SameUse, Spent
<1>11. CASE Marks(old, run) \/ Prepares(old, run) \/ Finds(old, run)
            \/ \E i \in DOMAIN old.handoffs : Finishes(old, run, i)
  BY <1>4, <1>11 DEF Marks, Prepares, Finds, Finishes, SameWork
<1> QED BY <1>6, <1>7, <1>8, <1>9, <1>10, <1>11 DEF Changes

\* No step gives turns, actions or completed phases back to an attempt.
LEMMA NextSpends ==
  ASSUME Typed, [Next]_vars
  PROVE  \A r \in DOMAIN runs : Spent(runs[r], runs'[r])
<1> SUFFICES ASSUME NEW r \in DOMAIN runs PROVE Spent(runs[r], runs'[r])
  OBVIOUS
<1>1. runs[r] \in TaskRun
  BY RunsTyped
<1>2. Spent(runs[r], runs[r])
  BY <1>1 DEF TaskRun, Spent, IsPrefix
<1>3. CASE Edits \/ CallStep
  BY <1>2, <1>3 DEF Edits, Save, Approve, CallStep
<1>4. CASE NewAttemptStep
  <2>1. PICK q \in Runs \ DOMAIN runs : \E run : Store(q, run)
    BY <1>4 DEF NewAttemptStep
  <2>2. runs'[r] = runs[r]
    BY <2>1 DEF Store
  <2> QED BY <1>2, <2>2
<1>5. CASE ChangeStep
  BY <1>2, <1>5, ChangeSpends DEF ChangeStep, Store
<1>6. CASE Restart
  <2> DEFINE actions == Remark(runs[r], "pending", "unknown")
             marked == [runs[r] EXCEPT !.status = "needs_reconciliation", !.actions = actions]
  <2>1. runs'[r] = runs[r] \/ runs'[r] = marked
    BY <1>6 DEF Restart, Recovered
  <2>2. marked.actions = actions /\ marked.turns = runs[r].turns /\ marked.done = runs[r].done
    <3> HIDE DEF actions
    <3> QED BY <1>1 DEF TaskRun
  <2> HIDE DEF marked
  <2>3. Spent(runs[r], marked)
    BY <1>1, <1>2, <2>2, RemarkSpends DEF TaskRun, Spent
  <2> QED BY <1>2, <2>1, <2>3
<1> QED BY <1>3, <1>4, <1>5, <1>6, StepShape

\* Turns, actions and completed phases accumulate over pauses, transfers,
\* restarts and phases: no step gives any of the authorization back.
THEOREM BudgetsAreSpent == Spec => BudgetsNeverRefill
<1>1. Typed /\ [Next]_vars =>
        [\A r \in DOMAIN runs :
           /\ runs'[r].turns >= runs[r].turns
           /\ Len(runs'[r].actions) >= Len(runs[r].actions)
           /\ \A i \in DOMAIN runs[r].actions :
                runs'[r].actions[i].call = runs[r].actions[i].call
           /\ IsPrefix(runs[r].done, runs'[r].done)]_vars
  BY NextSpends DEF Spent
<1> QED BY <1>1, StateIsTyped, PTL DEF Spec, BudgetsNeverRefill
-----------------------------------------------------------------------------
(* Operations                                                                  *)

\* A new operation leaves its first record.
LEMMA FirstReceipt ==
  ASSUME Typed, OperationsCommitOnce, NEW op, NewOperation(op), Receipt(op)
  PROVE  OperationsCommitOnce'
<1>1. receipts \in [Ops -> Nat]
  BY DEF Typed, TypeOK
<1> QED BY <1>1 DEF OperationsCommitOnce, NewOperation, Receipt

\* No step leaves a second record of an operation.
LEMMA NextCommitsOnce ==
  ASSUME Typed, OperationsCommitOnce, [Next]_vars
  PROVE  OperationsCommitOnce'
<1>1. CASE receipts' = receipts
  BY <1>1 DEF OperationsCommitOnce
<1>2. CASE Edits
  BY <1>2, FirstReceipt DEF Edits, Save, Approve
<1>3. CASE Claims
  BY <1>3, FirstReceipt, ClaimChanges DEF NewAttemptStep
<1>4. CASE Controls
  BY <1>1, <1>4, FirstReceipt DEF Controls, Stop, Resume, ResumeUnreconciled
<1>5. CASE Handoffs
  <2>1. ASSUME NEW r, NEW target, NEW op, NEW ok, NEW changed,
               PrepareHandoff(r, target, op, ok, changed)
        PROVE  OperationsCommitOnce'
    BY <2>1, FirstReceipt DEF PrepareHandoff, MayPrepare
  <2>2. ASSUME NEW r, NEW i, NEW op, NEW ok, NEW changed,
               PrepareChanged(r, op, ok) \/ FinishHandoff(r, i, ok, changed)
        PROVE  OperationsCommitOnce'
    BY <1>1, <2>2 DEF PrepareChanged, FinishHandoff
  <2> QED BY <1>5, <2>1, <2>2 DEF Handoffs
<1>6. CASE Turns
  BY <1>1, <1>6 DEF Turns, Wake, Steer, AbortTurn, EndTurnOther, Interrupt, CheckAccess,
                    StepDenied, EnterTurn, EndTurnAdvance, EndTurnRunning, durable
<1>7. CASE ToolCalls
  BY <1>1, <1>7 DEF ToolCalls, StartJob, EndJob, ToolDenied, BeginAction, Complete, EndOrdinary,
                    Dispatch, Settle, durable
<1>8. CASE (\E r \in Runs : Expire(r)) \/ Restart \/ UNCHANGED vars
  BY <1>1, <1>8 DEF Expire, Restart, vars, durable
<1> QED BY <1>2, <1>3, <1>4, <1>5, <1>6, <1>7, <1>8 DEF Next

\* An operation identity leaves at most one record, in whatever requests and
\* however often clients send it, across failures and restarts.
THEOREM OperationsAreCommittedOnce == Spec => []OperationsCommitOnce
<1>1. Init => OperationsCommitOnce
  BY DEF Init, OperationsCommitOnce
<1>2. Typed /\ OperationsCommitOnce /\ [Next]_vars => OperationsCommitOnce'
  BY NextCommitsOnce
<1> QED BY <1>1, <1>2, StateIsTyped, PTL DEF Spec
-----------------------------------------------------------------------------
(* Whatever runs is approved                                                   *)

\* A fact is what one attempt of the current revision says of a task it owns.
LEMMA FactsAreObserved ==
  ASSUME NEW t \in Tasks
  PROVE  \/ /\ Facts[t] = NoFact
            /\ \A r \in DOMAIN runs : runs[r].planRevision = Current => t \notin OwnedTasks(runs[r])
         \/ \E r \in DOMAIN runs :
              /\ runs[r].planRevision = Current /\ t \in OwnedTasks(runs[r])
              /\ Facts[t] = IF t \in DoneTasks(runs[r]) THEN "completed"
                            ELSE IF t = runs[r].task THEN runs[r].status ELSE "paused"
<1> DEFINE of == {r \in DOMAIN runs : runs[r].planRevision = Current /\ t \in OwnedTasks(runs[r])}
           r == CHOOSE q \in of : TRUE
<1>1. CASE of = {}
  BY <1>1 DEF Facts
<1>2. CASE of # {}
  <2>1. r \in of
    BY <1>2
  <2>2. Facts[t] = IF t \in DoneTasks(runs[r]) THEN "completed"
                   ELSE IF t = runs[r].task THEN runs[r].status ELSE "paused"
    BY <1>2 DEF Facts
  <2> HIDE DEF r
  <2> QED BY <2>1, <2>2
<1> QED BY <1>1, <1>2

\* The statuses of attempts are told from the absence of a fact.
LEMMA FactsAreStatuses ==
  ASSUME Typed, NEW t \in Tasks
  PROVE  Facts[t] # "ready" /\ \A r \in DOMAIN runs :
           runs[r].planRevision = Current /\ t \in OwnedTasks(runs[r]) => Facts[t] # NoFact
<1>1. \A r \in DOMAIN runs : runs[r].status \in RunStatus
  BY RunsTyped DEF TaskRun
<1> QED BY <1>1, FactsAreObserved DEF RunStatus, NoFact

\* A ready task belongs to an approved revision.
LEMMA ReadyIsApproved == ASSUME Typed, NEW t \in ReadyTasks PROVE Approved
<1>1. t \in Tasks /\ TaskStatus(Plan, Approved, Facts, t) = "ready"
  BY DEF ReadyTasks, Ready, Tasks
<1>2. SUFFICES ASSUME ~ Approved PROVE FALSE
  OBVIOUS
<1>3. CASE Facts[t] = "completed"
  BY <1>1, <1>3 DEF TaskStatus, NoFact
<1>4. CASE Facts[t] \notin {"completed", NoFact}
  <2>1. TaskStatus(Plan, Approved, Facts, t) = Facts[t]
    BY <1>4 DEF TaskStatus
  <2> QED BY <1>1, <2>1, FactsAreStatuses
<1>5. CASE Facts[t] = NoFact
  <2>1. TaskStatus(Plan, Approved, Facts, t) = "pending_review"
    BY <1>2, <1>5 DEF TaskStatus, NoFact
  <2> QED BY <1>1, <2>1
<1> QED BY <1>3, <1>4, <1>5

\* Every way back to running checks revision and approval; an edit waits until
\* nothing runs, and approving leaves the current revision the current one.
LEMMA NextApproved ==
  ASSUME Typed, RunningIsCurrentAndApproved, [Next]_vars
  PROVE  RunningIsCurrentAndApproved'
<1>1. approvals' = approvals => Current' = Current /\ Approved' = Approved
  BY DEF Current, Approved
<1>2. CASE CallStep
  BY <1>1, <1>2 DEF CallStep, RunningIsCurrentAndApproved
<1>3. ASSUME NEW op, Save(op) PROVE RunningIsCurrentAndApproved'
  <2>1. runs' = runs /\ \A r \in DOMAIN runs : runs[r].status # "running"
    BY <1>3 DEF Save, BlocksEditing
  <2> QED BY <2>1 DEF RunningIsCurrentAndApproved
<1>4. ASSUME NEW op, Approve(op) PROVE RunningIsCurrentAndApproved'
  <2>1. Current \in DOMAIN approvals
    BY DEF Current, Typed, TypeOK
  <2>2. runs' = runs /\ Current' = Current /\ Approved' = TRUE
    BY <1>4, <2>1 DEF Approve, Current, Approved, Typed, TypeOK
  <2> QED BY <2>2 DEF RunningIsCurrentAndApproved
<1>5. CASE NewAttemptStep
  <2>1. PICK r, run : Store(r, run) /\ run.planRevision = Current /\ Approved
    BY <1>5, ReadyIsApproved DEF NewAttemptStep, NewRun
  <2>2. approvals' = approvals
    BY <1>5 DEF NewAttemptStep
  <2> QED BY <1>1, <2>1, <2>2 DEF Store, RunningIsCurrentAndApproved
<1>6. CASE ChangeStep
  <2>1. PICK r \in DOMAIN runs, run \in TaskRun : Store(r, run) /\ Changes(r, run)
    BY <1>6 DEF ChangeStep
  <2>2. run.status = "running" => run.planRevision = Current /\ Approved
    BY <2>1 DEF Changes, Marks, Resumes, Interrupts, Prepares, Finishes, Counts, Finds, Advances,
                Admits, Settles, SameTerms, RunningIsCurrentAndApproved
  <2>3. approvals' = approvals
    BY <1>6 DEF ChangeStep
  <2> QED BY <1>1, <2>1, <2>2, <2>3 DEF Store, RunningIsCurrentAndApproved
<1>7. CASE Restart
  <2>1. ASSUME NEW r \in DOMAIN runs PROVE Recovered(runs[r]).status # "running"
    <3>1. ASSUME NEW actions
          PROVE  [runs[r] EXCEPT !.status = "needs_reconciliation", !.actions = actions].status
                   # "running"
      BY RunsTyped DEF TaskRun
    <3> QED BY <3>1 DEF Recovered
  <2> QED BY <1>7, <2>1 DEF Restart, RunningIsCurrentAndApproved
<1> QED BY <1>2, <1>3, <1>4, <1>5, <1>6, <1>7, StepShape DEF Edits

\* Work only ever runs under the exact revision the user approved: an edit
\* (commitProposal) and every path back to running (claim, resume, the
\* continuation and the advance of endTurn) exclude each other.
THEOREM RunsAreApproved == Spec => []RunningIsCurrentAndApproved
<1>1. Init => RunningIsCurrentAndApproved
  BY DEF Init, RunningIsCurrentAndApproved
<1>2. Typed /\ RunningIsCurrentAndApproved /\ [Next]_vars => RunningIsCurrentAndApproved'
  BY NextApproved
<1> QED BY <1>1, <1>2, StateIsTyped, PTL DEF Spec
=============================================================================
