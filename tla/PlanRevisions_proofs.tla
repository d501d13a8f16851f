------------------------- MODULE PlanRevisions_proofs -------------------------
(* The plan service of PlanRevisions for any number of conversations, goals,    *)
(* operations and definitions, and logs of any length: what is committed can be *)
(* reopened, justified by what is persisted, and never rewritten.               *)
EXTENDS PlanRevisions, FiniteSetTheorems, TLAPS

-----------------------------------------------------------------------------
(* The records                                                                 *)

Roots    == {def.taskId : def \in Drafts}
Policies == [mode : Nat, settings : Nat, moved : Nat]

Revision ==
  [def : Drafts, session : Sessions \cup {User}, goal : Goals \cup {NoGoal}, approved : BOOLEAN]
Receipt ==
  [op : Ops, session : Sessions \cup {User}, def : Drafts, revision : Nat]
StoredPlan ==
  [revisions : Seq(Revision), receipts : SUBSET Receipt]

Plain      == [kind : {"message", "moved"}]
Choice     == [kind : {"mode"}, enabled : BOOLEAN, op : Ops, revision : Nat]
Assessment == [kind : {"assessment"}, revision : Nat, decision : Decisions, route : Routes,
               goal : Goals, policy : Policies, message : Nat]
Shown      == [kind : {"snapshot"}, op : Ops, root : Roots, revision : Nat, approved : BOOLEAN]
Event      == Plain \cup Choice \cup Assessment \cup Shown

LogsTyped ==
  /\ log \in [Sessions -> Seq(Event)]
  /\ kept \in [Sessions -> Nat] /\ \A s \in Sessions : kept[s] <= Len(log[s])

PlansTyped ==
  /\ DOMAIN plans \subseteq Roots /\ \A t \in DOMAIN plans : plans[t] \in StoredPlan
  /\ settings \in [enabled : BOOLEAN, fine : BOOLEAN, force : BOOLEAN, revision : Nat]
  /\ unrecorded \subseteq [session : Sessions, op : Ops, root : Roots, revision : Nat]

JobTyped ==
  /\ job.kind \in {"idle", "flush", "assess", "route", "propose", "commit"}
  /\ job.kind # "idle" => job.session \in Sessions
  /\ job.kind \in {"assess", "route"} => job.revision \in Nat
  /\ job.kind = "route" => job.policy \in Policies
  /\ job.kind \in {"propose", "commit"} => job.def \in Drafts /\ job.op \in Ops
  /\ job.kind = "commit" => job.assessment \in Assessment

RevisionTyped == LogsTyped /\ PlansTyped /\ JobTyped
-----------------------------------------------------------------------------
(* The inductive invariant                                                     *)

\* the versions of a plan that models made are of one conversation and one goal
OneGoal ==
  \A t \in DOMAIN plans : \A i, k \in DOMAIN Revisions(t) :
    Revisions(t)[i].session # User /\ Revisions(t)[k].session # User =>
      Revisions(t)[i].session = Revisions(t)[k].session /\ Revisions(t)[i].goal = Revisions(t)[k].goal

\* no two plans share a goal of a conversation, or a task identity
PlansApart ==
  \A t \in DOMAIN plans : \A other \in DOMAIN plans \ {t} :
    /\ \A i \in DOMAIN Revisions(t), k \in DOMAIN Revisions(other) :
         Revisions(t)[i].session # User =>
           Revisions(t)[i].session # Revisions(other)[k].session
             \/ Revisions(t)[i].goal # Revisions(other)[k].goal
    /\ IdsOf(t) \cap IdsOf(other) = {}

\* The proposal about to be committed was assessed in what is persisted.
JobIsAssessed ==
  job.kind = "commit" =>
    /\ \E k \in DOMAIN Kept(job.session) : Kept(job.session)[k] = job.assessment
    /\ job.assessment.decision = "complex" /\ job.assessment.route # "query"

\* Nobody else has used its operation for the plan meanwhile.
JobIsNew == job.kind \in {"propose", "commit"} => NewFor(job.def.taskId, job.op)

\* Receipts, and what is still to be recorded, name versions there are.
VersionsExist ==
  /\ \A t \in DOMAIN plans : \A x \in Receipts(t) : x.revision \in DOMAIN Revisions(t)
  /\ \A w \in unrecorded : w.revision \in DOMAIN Revisions(w.root)

Versioned ==
  /\ RevisionTyped /\ OneGoal /\ PlansApart /\ JobIsAssessed /\ JobIsNew /\ VersionsExist
  /\ ModesCountUp /\ ModelPlansWereAssessed /\ ShownWasCommittedOnce
-----------------------------------------------------------------------------
(* Logs                                                                        *)

\* A bounded set of numbers has its greatest element.
LEMMA Greatest ==
  ASSUME NEW S \in SUBSET Nat, S # {}, NEW n \in Nat, \A i \in S : i <= n
  PROVE  Max(S) \in S /\ \A i \in S : i <= Max(S)
<1> DEFINE T == {i..n : i \in S}
<1>1. T # {} /\ T \subseteq FiniteSubsetsOf(Nat)
  <2>1. ASSUME NEW i \in S PROVE i..n \in FiniteSubsetsOf(Nat)
    BY FS_Interval DEF FiniteSubsetsOf
  <2> QED BY <2>1
<1>2. PICK x \in T : \A y \in T : ~ (<<y, x>> \in StrictSubsetOrdering(Nat))
  <2> HIDE DEF T
  <2> QED BY <1>1, WFMin, FS_StrictSubsetOrderingWellFounded
<1>3. PICK m \in S : x = m..n
  OBVIOUS
<1>4. \A i \in S : m >= i
  <2> SUFFICES ASSUME NEW i \in S, ~ (m >= i) PROVE FALSE
    OBVIOUS
  <2>1. i..n \subseteq m..n /\ m \in m..n /\ m \notin i..n /\ m..n \subseteq Nat
    OBVIOUS
  <2>2. <<i..n, m..n>> \in StrictSubsetOrdering(Nat)
    BY <2>1 DEF StrictSubsetOrdering
  <2>3. i..n \in T
    OBVIOUS
  <2> HIDE DEF T
  <2> QED BY <1>2, <1>3, <2>2, <2>3
<1>5. Max(S) \in S /\ \A i \in S : Max(S) >= i
  BY <1>4 DEF Max
<1> QED BY <1>5

\* LastOf answers the last event of its kind, or none.
LEMMA LastIsLast ==
  ASSUME NEW l \in Seq(Event), NEW kind
  PROVE  /\ LastOf(l, kind) \in Nat /\ Of(l, kind) \subseteq DOMAIN l
         /\ LastOf(l, kind) = 0 <=> Of(l, kind) = {}
         /\ LastOf(l, kind) # 0 =>
              LastOf(l, kind) \in Of(l, kind) /\ \A i \in Of(l, kind) : i <= LastOf(l, kind)
<1>1. Of(l, kind) \subseteq DOMAIN l /\ DOMAIN l = 1..Len(l) /\ Len(l) \in Nat
  BY DEF Of
<1>2. CASE Of(l, kind) = {}
  BY <1>1, <1>2 DEF LastOf
<1>3. CASE Of(l, kind) # {}
  <2> DEFINE S == Of(l, kind)
  <2>1. S \in SUBSET Nat /\ S # {} /\ \A i \in S : i <= Len(l) /\ i >= 1
    BY <1>1, <1>3
  <2> HIDE DEF S
  <2>2. Max(S) \in S /\ \A i \in S : i <= Max(S)
    BY <1>1, <2>1, Greatest
  <2>3. LastOf(l, kind) = Max(S)
    BY <1>3 DEF LastOf, S
  <2>4. \A m \in S : m \in Nat /\ m # 0
    BY <2>1
  <2> QED BY <1>1, <2>2, <2>3, <2>4, <1>3 DEF S
<1> QED BY <1>2, <1>3

\* An event is of the shape its kind says.
LEMMA EventKinds ==
  ASSUME NEW e \in Event
  PROVE  /\ e.kind = "mode" => e \in Choice
         /\ e.kind = "assessment" => e \in Assessment
         /\ e.kind = "snapshot" => e \in Shown
  BY DEF Event, Plain, Choice, Assessment, Shown

\* The events after an append.
LEMMA Appends ==
  ASSUME NEW l \in Seq(Event), NEW e \in Event
  PROVE  /\ Append(l, e) \in Seq(Event) /\ Len(Append(l, e)) = Len(l) + 1
         /\ DOMAIN Append(l, e) = DOMAIN l \cup {Len(l) + 1}
         /\ \A i \in DOMAIN l : Append(l, e)[i] = l[i]
         /\ Append(l, e)[Len(l) + 1] = e
         /\ \A kind : Of(Append(l, e), kind) = Of(l, kind) \cup (IF e.kind = kind THEN {Len(l) + 1} ELSE {})
<1>1. /\ Append(l, e) \in Seq(Event) /\ Len(Append(l, e)) = Len(l) + 1
      /\ DOMAIN Append(l, e) = DOMAIN l \cup {Len(l) + 1}
      /\ \A i \in DOMAIN l : Append(l, e)[i] = l[i]
      /\ Append(l, e)[Len(l) + 1] = e
      /\ Len(l) + 1 \notin DOMAIN l
  OBVIOUS
<1> QED BY <1>1 DEF Of

\* The events of a prefix.
LEMMA Truncated ==
  ASSUME NEW l \in Seq(Event), NEW n \in 0..Len(l)
  PROVE  /\ SubSeq(l, 1, n) \in Seq(Event) /\ Len(SubSeq(l, 1, n)) = n
         /\ DOMAIN SubSeq(l, 1, n) = 1..n /\ 1..n \subseteq DOMAIN l
         /\ \A i \in 1..n : SubSeq(l, 1, n)[i] = l[i]
         /\ \A kind : Of(SubSeq(l, 1, n), kind) = Of(l, kind) \cap 1..n
<1>1. /\ SubSeq(l, 1, n) \in Seq(Event) /\ Len(SubSeq(l, 1, n)) = n
      /\ DOMAIN SubSeq(l, 1, n) = 1..n /\ 1..n \subseteq DOMAIN l
      /\ \A i \in 1..n : SubSeq(l, 1, n)[i] = l[i]
  OBVIOUS
<1> QED BY <1>1 DEF Of

\* What is persisted of a log is a log.
LEMMA KeptLog ==
  ASSUME LogsTyped, NEW s \in Sessions
  PROVE  /\ log[s] \in Seq(Event) /\ kept[s] \in 0..Len(log[s])
         /\ Kept(s) \in Seq(Event) /\ DOMAIN Kept(s) = 1..kept[s] /\ 1..kept[s] \subseteq DOMAIN log[s]
         /\ \A i \in 1..kept[s] : Kept(s)[i] = log[s][i]
         /\ \A kind : Of(Kept(s), kind) = Of(log[s], kind) \cap 1..kept[s]
<1>1. log[s] \in Seq(Event) /\ kept[s] \in 0..Len(log[s])
  BY DEF LogsTyped
<1> QED BY <1>1, Truncated DEF Kept

\* The mode of a log is that of its last choice.
LEMMA ModeIsLast ==
  ASSUME NEW l \in Seq(Event), settings.enabled \in BOOLEAN
  PROVE  ModeOf(l).revision \in Nat
         /\ ModeOf(l).revision = IF Of(l, "mode") = {} THEN 0 ELSE l[LastOf(l, "mode")].revision
<1>1. CASE Of(l, "mode") = {}
  BY <1>1, LastIsLast DEF ModeOf
<1>2. CASE Of(l, "mode") # {}
  <2>1. LastOf(l, "mode") # 0 /\ LastOf(l, "mode") \in Of(l, "mode")
    BY <1>2, LastIsLast
  <2>2. l[LastOf(l, "mode")] \in Event /\ l[LastOf(l, "mode")].kind = "mode"
    BY <2>1 DEF Of
  <2>3. l[LastOf(l, "mode")].revision \in Nat
    BY <2>2, EventKinds DEF Choice
  <2> QED BY <1>2, <2>1, <2>3 DEF ModeOf
<1> QED BY <1>1, <1>2

\* A policy is made of revisions.
LEMMA PolicyTyped == ASSUME RevisionTyped, NEW s \in Sessions PROVE Policy(s) \in Policies
<1>1. ModeOf(Kept(s)).revision \in Nat /\ LastOf(log[s], "moved") \in Nat /\ settings.revision \in Nat
  BY KeptLog, ModeIsLast, LastIsLast DEF RevisionTyped, PlansTyped
<1> QED BY <1>1 DEF Policy, Policies
-----------------------------------------------------------------------------
(* What a step does to the logs                                                *)

\* What is written next into the log of s: a choice of mode when the last one is
\* persisted, and a version that exists and was not shown for the operation yet.
Writes(s, e) ==
  /\ e.kind = "mode" => MayChoose(s) /\ e.revision = ModeOf(Kept(s)).revision + 1
  /\ e.kind = "snapshot" =>
       /\ SnapshotsOf(s, e.op) = {}
       /\ e.revision \in DOMAIN Revisions(e.root)
       /\ e.approved => Revisions(e.root)[e.revision].approved

\* A log gains an event or is cut, but never below what is persisted.
LogChanges(s) ==
  /\ kept[s] <= kept'[s]
  /\ \/ log'[s] = log[s]
     \/ \E e \in Event : log'[s] = Append(log[s], e) /\ Writes(s, e)
     \/ kept'[s] <= Len(log[s]) /\ log'[s] = SubSeq(log[s], 1, kept'[s])

LogStep == LogsTyped' /\ \A s \in Sessions : LogChanges(s)

\* A step that writes nothing.
LEMMA QuietLogs == ASSUME LogsTyped, UNCHANGED <<log, kept>> PROVE LogStep
  BY DEF LogsTyped, LogStep, LogChanges

\* A step that writes into one log.
LEMMA EmitLogs ==
  ASSUME LogsTyped, NEW s \in Sessions, NEW e \in Event, Emit(s, e), Writes(s, e), kept' = kept
  PROVE  LogStep
<1>1. \A x \in Sessions : log[x] \in Seq(Event) /\ kept[x] \in Nat /\ kept[x] <= Len(log[x])
  BY DEF LogsTyped
<1>2. \A x \in Sessions : log'[x] = IF x = s THEN Append(log[s], e) ELSE log[x]
  BY DEF LogsTyped, Emit
<1>3. log' \in [Sessions -> Seq(Event)]
  BY <1>1, Appends DEF LogsTyped, Emit
<1>4. \A x \in Sessions : kept'[x] <= Len(log'[x])
  <2> SUFFICES ASSUME NEW x \in Sessions PROVE kept[x] <= Len(log'[x])
    OBVIOUS
  <2>1. CASE x = s
    <3>1. log'[x] = Append(log[s], e) /\ log[s] \in Seq(Event)
      BY <1>1, <1>2, <2>1
    <3>2. Len(Append(log[s], e)) = Len(log[s]) + 1
      BY <3>1, Appends
    <3> QED BY <1>1, <2>1, <3>1, <3>2
  <2>2. CASE x # s
    BY <1>1, <1>2, <2>2
  <2> QED BY <2>1, <2>2
<1>5. LogsTyped'
  BY <1>3, <1>4 DEF LogsTyped
<1>6. ASSUME NEW x \in Sessions PROVE LogChanges(x)
  <2>1. kept[x] <= kept'[x]
    BY <1>1
  <2>2. log'[x] = log[x] \/ (log'[x] = Append(log[x], e) /\ Writes(x, e))
    BY <1>2
  <2> QED BY <2>1, <2>2 DEF LogChanges
<1> QED BY <1>5, <1>6 DEF LogStep

\* A step that persists more.
LEMMA KeepLogs ==
  ASSUME LogsTyped, log' = log, NEW s \in Sessions, NEW n \in kept[s]..Len(log[s]),
         kept' = [kept EXCEPT ![s] = n]
  PROVE  LogStep
<1>1. \A x \in Sessions : log[x] \in Seq(Event) /\ kept[x] \in Nat /\ kept[x] <= Len(log[x])
  BY DEF LogsTyped
<1>2. \A x \in Sessions : kept'[x] = IF x = s THEN n ELSE kept[x]
  BY DEF LogsTyped
<1>3. n \in Nat /\ kept[s] <= n /\ n <= Len(log[s])
  BY <1>1
<1>4. kept' \in [Sessions -> Nat]
  BY <1>3 DEF LogsTyped
<1>5. LogsTyped'
  BY <1>1, <1>2, <1>3, <1>4 DEF LogsTyped
<1>6. ASSUME NEW x \in Sessions PROVE LogChanges(x)
  BY <1>1, <1>2, <1>3 DEF LogChanges
<1> QED BY <1>5, <1>6 DEF LogStep

\* A crash leaves of each log what was persisted, and perhaps more.
LEMMA CrashLogs == ASSUME LogsTyped, Crash PROVE LogStep
<1>1. PICK n \in [Sessions -> 0..MaxEvents] :
        /\ \A s \in Sessions : n[s] \in kept[s]..Len(log[s])
        /\ log' = [s \in Sessions |-> SubSeq(log[s], 1, n[s])]
        /\ kept' = n
  BY DEF Crash
<1>2. ASSUME NEW s \in Sessions
      PROVE  /\ log[s] \in Seq(Event) /\ kept[s] \in Nat
             /\ n[s] \in Nat /\ kept[s] <= n[s] /\ n[s] \in 0..Len(log[s])
  <2>1. log[s] \in Seq(Event) /\ kept[s] \in Nat /\ n[s] \in kept[s]..Len(log[s])
    BY <1>1 DEF LogsTyped
  <2>2. n[s] \in Int /\ kept[s] <= n[s] /\ n[s] <= Len(log[s])
    BY <2>1
  <2> QED BY <2>1, <2>2
<1>3. ASSUME NEW s \in Sessions
      PROVE  log'[s] \in Seq(Event) /\ Len(log'[s]) = n[s] /\ log'[s] = SubSeq(log[s], 1, n[s])
  BY <1>1, <1>2, <1>3, Truncated
<1>4. LogsTyped'
  <2>1. log' = [s \in Sessions |-> log'[s]] /\ kept' = [s \in Sessions |-> kept'[s]]
    BY <1>1
  <2>2. \A s \in Sessions : log'[s] \in Seq(Event) /\ kept'[s] \in Nat /\ kept'[s] <= Len(log'[s])
    BY <1>1, <1>2, <1>3
  <2>3. log' \in [Sessions -> Seq(Event)] /\ kept' \in [Sessions -> Nat]
    BY <2>1, <2>2
  <2> QED BY <2>2, <2>3 DEF LogsTyped
<1>5. ASSUME NEW s \in Sessions PROVE LogChanges(s)
  BY <1>1, <1>2, <1>3 DEF LogChanges
<1> QED BY <1>4, <1>5 DEF LogStep

\* A choice of mode.
LEMMA SetModeLogs ==
  ASSUME RevisionTyped, NEW s \in Sessions, NEW enabled \in BOOLEAN, NEW op \in Ops,
         SetMode(s, enabled, op)
  PROVE  LogStep
<1> DEFINE e == [kind |-> "mode", enabled |-> enabled, op |-> op,
                 revision |-> ModeOf(Kept(s)).revision + 1]
<1>1. CASE log' = log
  BY <1>1, QuietLogs DEF RevisionTyped, SetMode
<1>2. CASE MayChoose(s) /\ Emit(s, e)
  <2>1. ModeOf(Kept(s)).revision \in Nat
    BY KeptLog, ModeIsLast DEF RevisionTyped, PlansTyped
  <2>2. e \in Choice
    BY <2>1 DEF Choice
  <2>3. e \in Event /\ Writes(s, e)
    BY <1>2, <2>2 DEF Event, Writes, Choice
  <2> HIDE DEF e
  <2> QED BY <1>2, <2>3, EmitLogs DEF RevisionTyped, SetMode
<1> QED BY <1>1, <1>2 DEF SetMode

\* An assessment of the last message.
LEMMA AssessLogs ==
  ASSUME RevisionTyped, NEW decision \in Decisions, NEW route \in Routes, NEW goal \in Goals,
         Assess(decision, route, goal)
  PROVE  LogStep
<1>1. PICK s \in Sessions : s = job.session /\ job.revision \in Nat /\ job.policy \in Policies
  BY DEF Assess, RevisionTyped, JobTyped
<1> DEFINE e == [kind |-> "assessment", revision |-> job.revision, decision |-> decision,
                 route |-> route, goal |-> goal, policy |-> job.policy,
                 message |-> LastOf(log[s], "message")]
<1>2. CASE log' = log
  BY <1>2, QuietLogs DEF RevisionTyped, Assess
<1>3. CASE Emit(s, e)
  <2>1. LastOf(log[s], "message") \in Nat
    BY KeptLog, LastIsLast DEF RevisionTyped
  <2>2. e \in Assessment
    BY <1>1, <2>1 DEF Assessment
  <2>3. e \in Event /\ Writes(s, e)
    BY <2>2 DEF Event, Writes, Assessment
  <2> HIDE DEF e
  <2> QED BY <1>3, <2>3, EmitLogs DEF RevisionTyped, Assess
<1> QED BY <1>1, <1>2, <1>3 DEF Assess

\* A version that is shown.
LEMMA ShowLogs ==
  ASSUME LogsTyped, NEW s \in Sessions, NEW op \in Ops, NEW t \in Roots, NEW i \in Nat,
         NEW approved \in BOOLEAN, RecordOnce(s, Snapshot(op, t, i, approved)), kept' = kept,
         i \in DOMAIN Revisions(t), approved => Revisions(t)[i].approved
  PROVE  LogStep
<1> DEFINE e == Snapshot(op, t, i, approved)
<1>1. /\ e \in Shown /\ e.kind = "snapshot" /\ e.op = op /\ e.root = t /\ e.revision = i
      /\ e.approved = approved
  BY DEF Snapshot, Shown
<1>2. CASE SnapshotsOf(s, op) # {}
  BY <1>1, <1>2, QuietLogs DEF RecordOnce
<1>3. CASE SnapshotsOf(s, op) = {}
  <2>1. Emit(s, e)
    BY <1>1, <1>3 DEF RecordOnce
  <2>2. e \in Event /\ Writes(s, e)
    BY <1>1, <1>3 DEF Event, Writes
  <2> HIDE DEF e
  <2> QED BY <2>1, <2>2, EmitLogs
<1> QED BY <1>2, <1>3
-----------------------------------------------------------------------------
(* What a step does to the plans                                               *)

\* The versions and receipts of a plan, and of one there is not.
LEMMA PlanKnown ==
  ASSUME PlansTyped, NEW t
  PROVE  /\ Revisions(t) \in Seq(Revision) /\ Receipts(t) \subseteq Receipt
         /\ \A i \in DOMAIN Revisions(t) : Revisions(t)[i] \in Revision
         /\ t \notin DOMAIN plans => Revisions(t) = <<>> /\ Receipts(t) = {}
<1>1. CASE t \in DOMAIN plans
  <2>1. plans[t] \in StoredPlan
    BY <1>1 DEF PlansTyped
  <2>2. Revisions(t) = plans[t].revisions /\ Receipts(t) = plans[t].receipts
    BY <1>1 DEF Revisions, Receipts
  <2>3. Revisions(t) \in Seq(Revision) /\ Receipts(t) \subseteq Receipt
    BY <2>1, <2>2 DEF StoredPlan
  <2> QED BY <1>1, <2>3
<1>2. CASE t \notin DOMAIN plans
  BY <1>2 DEF Revisions, Receipts
<1> QED BY <1>1, <1>2

\* Storing a plan changes that plan alone.
LEMMA StoresPlan ==
  ASSUME PlansTyped, NEW t \in Roots, NEW revisions \in Seq(Revision), NEW receipt \in Receipt,
         Store(t, revisions, receipt)
  PROVE  /\ DOMAIN plans' = DOMAIN plans \cup {t} /\ DOMAIN plans' \subseteq Roots
         /\ \A x \in DOMAIN plans' : plans'[x] \in StoredPlan
         /\ Revisions(t)' = revisions /\ Receipts(t)' = Receipts(t) \cup {receipt}
         /\ \A x : x # t => Revisions(x)' = Revisions(x) /\ Receipts(x)' = Receipts(x)
<1> DEFINE plan == [revisions |-> revisions, receipts |-> Receipts(t) \cup {receipt}]
<1>1. plans' = [x \in DOMAIN plans \cup {t} |-> IF x = t THEN plan ELSE plans[x]]
  BY DEF Store
<1>2. Receipts(t) \cup {receipt} \in SUBSET Receipt
  BY PlanKnown
<1>3. /\ plan \in StoredPlan /\ plan.revisions = revisions
      /\ plan.receipts = Receipts(t) \cup {receipt}
  <2> DEFINE receipts == Receipts(t) \cup {receipt}
  <2> HIDE DEF receipts
  <2>1. [revisions |-> revisions, receipts |-> receipts] \in StoredPlan
    BY <1>2 DEF StoredPlan, receipts
  <2> QED BY <2>1 DEF receipts
<1> HIDE DEF plan
<1>4. DOMAIN plans' = DOMAIN plans \cup {t} /\ DOMAIN plans' \subseteq Roots
  BY <1>1 DEF PlansTyped
<1>5. \A x \in DOMAIN plans' : plans'[x] = IF x = t THEN plan ELSE plans[x]
  BY <1>1
<1>6. \A x \in DOMAIN plans' : plans'[x] \in StoredPlan
  BY <1>3, <1>4, <1>5 DEF PlansTyped
<1>7. Revisions(t)' = revisions /\ Receipts(t)' = Receipts(t) \cup {receipt}
  BY <1>3, <1>4, <1>5 DEF Revisions, Receipts
<1>8. ASSUME NEW x, x # t PROVE Revisions(x)' = Revisions(x) /\ Receipts(x)' = Receipts(x)
  BY <1>4, <1>5, <1>8 DEF Revisions, Receipts
<1> QED BY <1>4, <1>6, <1>7, <1>8

\* a version that the user saves, or that commits the proposal under way
AddStep ==
  \E def \in Drafts, op \in Ops, s \in Sessions \cup {User}, goal \in Goals \cup {NoGoal} :
    /\ AddRevision(def, op, s, goal)
    /\ NewFor(def.taskId, op)
    /\ \/ s = User /\ job = Idle /\ UNCHANGED <<job, unrecorded>>
       \/ /\ job.kind = "commit" /\ job' = Idle
          /\ s = job.session /\ def = job.def /\ op = job.op /\ goal = job.assessment.goal
          /\ Binds(s, goal, def.taskId)
          /\ ToRecord(s, op, def.taskId, Len(Revisions(def.taskId)) + 1)
    /\ UNCHANGED <<settings, log, kept>>

\* the approval of the current version
ApproveStep ==
  \E t \in DOMAIN plans, op \in Ops : \E i \in DOMAIN Revisions(t) : ApprovePlan(t, op, i)

\* What the user saves is a version like any other.
LEMMA SaveAdds ==
  ASSUME PlansTyped, NEW def \in Drafts, NEW op \in Ops, Save(def, op)
  PROVE  AddStep
<1>1. Revisions(def.taskId) = <<>> \/ Last(Revisions(def.taskId)).goal \in Goals \cup {NoGoal}
  <2> SUFFICES ASSUME Revisions(def.taskId) # <<>>
               PROVE  Last(Revisions(def.taskId)).goal \in Goals \cup {NoGoal}
    OBVIOUS
  <2>1. Revisions(def.taskId) \in Seq(Revision)
    BY PlanKnown
  <2>2. Last(Revisions(def.taskId)) \in Revision
    BY <2>1 DEF Last
  <2> QED BY <2>2 DEF Revision
<1>2. PICK goal \in Goals \cup {NoGoal} : AddRevision(def, op, User, goal)
  BY <1>1 DEF Save
<1> QED BY <1>2 DEF AddStep, Save

\* So is what a proposal commits.
LEMMA CommitAdds ==
  ASSUME RevisionTyped, JobIsNew, CommitProposal
  PROVE  AddStep
<1>1. /\ job.session \in Sessions /\ job.def \in Drafts /\ job.op \in Ops
      /\ job.assessment.goal \in Goals
  BY DEF CommitProposal, RevisionTyped, JobTyped, Assessment
<1>2. NewFor(job.def.taskId, job.op)
  BY DEF CommitProposal, JobIsNew
<1>3. /\ AddRevision(job.def, job.op, job.session, job.assessment.goal)
      /\ job.kind = "commit" /\ job' = Idle
      /\ Binds(job.session, job.assessment.goal, job.def.taskId)
      /\ ToRecord(job.session, job.op, job.def.taskId, Len(Revisions(job.def.taskId)) + 1)
      /\ UNCHANGED <<settings, log, kept>>
  BY DEF CommitProposal
<1> QED BY <1>1, <1>2, <1>3 DEF AddStep

\* A step adds a version, approves one, or leaves the plans alone.
LEMMA PlanSteps ==
  ASSUME RevisionTyped, JobIsNew, [RevisionNext]_revisionVars
  PROVE  AddStep \/ ApproveStep \/ plans' = plans
<1>1. CASE CommitProposal
  BY <1>1, CommitAdds
<1>2. CASE \E def \in Drafts, op \in Ops : Save(def, op)
  BY <1>2, SaveAdds DEF RevisionTyped
<1>3. CASE ApproveStep
  BY <1>3
<1>4. CASE \/ UNCHANGED revisionVars
           \/ \E s \in Sessions :
                \/ Message(s) \/ Move(s) \/ Persist(s) \/ BeginAssess(s)
                \/ \E op \in Ops :
                     \/ \E enabled \in BOOLEAN : SetMode(s, enabled, op)
                     \/ \E def \in Drafts : BeginPropose(s, def, op)
                     \/ \E t \in DOMAIN plans : \E i \in DOMAIN Revisions(t) : ReadVersion(s, t, op, i)
           \/ \E decision \in Decisions, route \in Routes, goal \in Goals : Assess(decision, route, goal)
           \/ \E w \in unrecorded : RecordProposal(w)
           \/ SetPreferences \/ ResolveAssess \/ CheckAssessment \/ End \/ Crash
  BY <1>4 DEF revisionVars, durable, Message, Move, Persist, BeginAssess, SetMode, BeginPropose,
              ReadVersion, Assess, RecordProposal, SetPreferences, ResolveAssess, CheckAssessment, End, Crash
<1> QED BY <1>1, <1>2, <1>3, <1>4 DEF RevisionNext, ApproveStep
-----------------------------------------------------------------------------
(* Every step, log by log                                                      *)

\* The recording of a proposal shows the version that was committed.
LEMMA RecordLogs ==
  ASSUME RevisionTyped, VersionsExist, NEW w \in unrecorded, RecordProposal(w)
  PROVE  LogStep
<1>1. /\ w.session \in Sessions /\ w.op \in Ops /\ w.root \in Roots /\ w.revision \in Nat
      /\ w.revision \in DOMAIN Revisions(w.root)
  BY DEF RevisionTyped, PlansTyped, VersionsExist
<1>2. CASE RecordOnce(w.session, Snapshot(w.op, w.root, w.revision, FALSE))
  BY <1>1, <1>2, ShowLogs DEF RevisionTyped, RecordProposal, durable
<1>3. CASE log' = log
  BY <1>3, QuietLogs DEF RevisionTyped, RecordProposal
<1> QED BY <1>2, <1>3 DEF RecordProposal

\* A version that is read is shown as it is.
LEMMA ReadLogs ==
  ASSUME RevisionTyped, NEW s \in Sessions, NEW t \in DOMAIN plans, NEW op \in Ops,
         NEW i \in DOMAIN Revisions(t), ReadVersion(s, t, op, i)
  PROVE  LogStep
<1>1. t \in Roots /\ i \in Nat /\ Revisions(t)[i].approved \in BOOLEAN
  <2>1. Revisions(t) \in Seq(Revision) /\ Revisions(t)[i] \in Revision
    BY PlanKnown DEF RevisionTyped
  <2> QED BY <2>1 DEF RevisionTyped, PlansTyped, Revision
<1>2. CASE RecordOnce(s, Snapshot(op, t, i, Revisions(t)[i].approved))
  BY <1>1, <1>2, ShowLogs DEF RevisionTyped, ReadVersion
<1>3. CASE log' = log
  BY <1>3, QuietLogs DEF RevisionTyped, ReadVersion
<1> QED BY <1>2, <1>3 DEF ReadVersion

\* An operation ends with what its flush persisted.
LEMMA EndLogs == ASSUME RevisionTyped, End PROVE LogStep
<1>1. CASE kept' = kept
  BY <1>1, QuietLogs DEF RevisionTyped, End
<1>2. CASE job.kind = "flush" /\ kept' = [kept EXCEPT ![job.session] = Len(log[job.session])]
  <2>1. PICK s \in Sessions : s = job.session
    BY <1>2 DEF RevisionTyped, JobTyped
  <2>2. Len(log[s]) \in kept[s]..Len(log[s])
    BY KeptLog DEF RevisionTyped
  <2> QED BY <1>2, <2>1, <2>2, KeepLogs DEF RevisionTyped, End
<1> QED BY <1>1, <1>2 DEF End

\* The agent's input, and the move of a conversation.
LEMMA PlainLogs ==
  ASSUME RevisionTyped, NEW s \in Sessions, Message(s) \/ Move(s)
  PROVE  LogStep
<1>1. PICK kind \in {"message", "moved"} : Emit(s, [kind |-> kind]) /\ kept' = kept
  BY DEF Message, Move
<1> DEFINE e == [kind |-> kind]
<1>2. e \in Event /\ Writes(s, e)
  BY DEF Event, Plain, Writes
<1> HIDE DEF e
<1> QED BY <1>1, <1>2, EmitLogs DEF RevisionTyped, e

\* A drain of a log.
LEMMA PersistLogs ==
  ASSUME RevisionTyped, NEW s \in Sessions, Persist(s)
  PROVE  LogStep
<1>1. PICK n \in kept[s] + 1..Len(log[s]) : kept' = [kept EXCEPT ![s] = n]
  BY DEF Persist
<1>2. n \in kept[s]..Len(log[s])
  BY <1>1, KeptLog DEF RevisionTyped
<1> QED BY <1>1, <1>2, KeepLogs DEF RevisionTyped, Persist

\* No step writes into a log but as LogStep says.
LEMMA LogSteps ==
  ASSUME RevisionTyped, VersionsExist, [RevisionNext]_revisionVars
  PROVE  LogStep
<1>1. CASE \E s \in Sessions : Message(s) \/ Move(s) \/ Persist(s)
  BY <1>1, PlainLogs, PersistLogs
<1>2. CASE \E s \in Sessions, op \in Ops, enabled \in BOOLEAN : SetMode(s, enabled, op)
  BY <1>2, SetModeLogs
<1>3. CASE \E s \in Sessions, op \in Ops : \E t \in DOMAIN plans : \E i \in DOMAIN Revisions(t) :
             ReadVersion(s, t, op, i)
  BY <1>3, ReadLogs
<1>4. CASE \E decision \in Decisions, route \in Routes, goal \in Goals : Assess(decision, route, goal)
  BY <1>4, AssessLogs
<1>5. CASE \E w \in unrecorded : RecordProposal(w)
  BY <1>5, RecordLogs
<1>6. CASE End
  BY <1>6, EndLogs
<1>7. CASE Crash
  BY <1>7, CrashLogs DEF RevisionTyped
<1>8. CASE \/ UNCHANGED revisionVars
           \/ \E s \in Sessions :
                BeginAssess(s) \/ \E def \in Drafts, op \in Ops : BeginPropose(s, def, op)
           \/ \E def \in Drafts, op \in Ops : Save(def, op)
           \/ \E t \in DOMAIN plans, op \in Ops : \E i \in DOMAIN Revisions(t) : ApprovePlan(t, op, i)
           \/ SetPreferences \/ ResolveAssess \/ CheckAssessment \/ CommitProposal
  <2>1. UNCHANGED <<log, kept>>
    BY <1>8 DEF revisionVars, BeginAssess, BeginPropose, Save, ApprovePlan, SetPreferences,
                ResolveAssess, CheckAssessment, CommitProposal
  <2> QED BY <2>1, QuietLogs DEF RevisionTyped
<1> QED BY <1>1, <1>2, <1>3, <1>4, <1>5, <1>6, <1>7, <1>8 DEF RevisionNext
-----------------------------------------------------------------------------
(* Every step: the operation under way, and what it leaves to record           *)

\* What is persisted names the assessment of a proposal, for a complex goal.
IsAssessed(s, a) ==
  /\ \E k \in DOMAIN Kept(s) : Kept(s)[k] = a
  /\ a.decision = "complex" /\ a.route # "query"

\* The operation goes on, ends, or begins a stage that checked what the next needs.
JobStep ==
  \/ job' = job /\ (plans' = plans \/ job = Idle)
  \/ job' = Idle
  \/ /\ job'.kind \in {"flush", "assess", "route"} /\ job'.session \in Sessions
     /\ job'.kind # "flush" => job'.revision \in Nat
     /\ job'.kind = "route" => job'.policy \in Policies
  \/ /\ job'.kind = "propose" /\ job'.session \in Sessions
     /\ job'.def \in Drafts /\ job'.op \in Ops /\ NewFor(job'.def.taskId, job'.op)
     /\ plans' = plans
  \/ /\ job.kind = "propose" /\ job'.kind = "commit" /\ job'.session \in Sessions
     /\ job'.def = job.def /\ job'.op = job.op
     /\ job'.assessment \in Assessment /\ IsAssessed(job'.session, job'.assessment)
     /\ UNCHANGED <<plans, log, kept>>

\* A step of the queue that only appends to a log and goes on to flush it.
LEMMA FlushSteps == ASSUME NEW s \in Sessions, Flush(s) PROVE JobStep
  BY DEF Flush, JobStep

\* The stages of an assessment.
LEMMA AssessSteps ==
  ASSUME RevisionTyped, ResolveAssess \/ \E s \in Sessions : BeginAssess(s)
  PROVE  JobStep
<1>1. CASE ResolveAssess
  <2>1. job.session \in Sessions /\ job.revision \in Nat
    BY <1>1 DEF ResolveAssess, RevisionTyped, JobTyped
  <2>2. Policy(job.session) \in Policies
    BY <2>1, PolicyTyped
  <2> QED BY <1>1, <2>1, <2>2 DEF ResolveAssess, JobStep
<1>2. ASSUME NEW s \in Sessions, BeginAssess(s) PROVE JobStep
  <2>1. PICK revision \in 0..MaxEvents :
          job' = [kind |-> "assess", session |-> s, revision |-> revision]
    BY <1>2 DEF BeginAssess
  <2>2. revision \in Nat
    OBVIOUS
  <2> QED BY <2>1, <2>2 DEF JobStep
<1> QED BY <1>1, <1>2

\* The stages of a proposal before it is committed.
LEMMA ProposeSteps ==
  ASSUME RevisionTyped,
         CheckAssessment \/ \E s \in Sessions, def \in Drafts, op \in Ops : BeginPropose(s, def, op)
  PROVE  JobStep
<1>1. CASE CheckAssessment
  <2>1. PICK s \in Sessions : s = job.session
    BY <1>1 DEF CheckAssessment, RevisionTyped, JobTyped
  <2> DEFINE l == Kept(s)
             k == LastOf(l, "assessment")
  <2>2. /\ k # 0 /\ l[k].decision = "complex" /\ l[k].route # "query"
        /\ job' = [kind |-> "commit", session |-> s, def |-> job.def, op |-> job.op,
                   assessment |-> l[k]]
    BY <1>1, <2>1 DEF CheckAssessment, AssessedIn
  <2>3. l \in Seq(Event)
    BY KeptLog DEF RevisionTyped
  <2>4. k \in Of(l, "assessment")
    <3> HIDE DEF l
    <3> QED BY <2>2, <2>3, LastIsLast
  <2>5. k \in DOMAIN l /\ l[k] \in Event /\ l[k].kind = "assessment"
    BY <2>3, <2>4 DEF Of
  <2>6. l[k] \in Assessment
    BY <2>5, EventKinds
  <2>7. IsAssessed(s, l[k])
    BY <2>2, <2>5 DEF IsAssessed
  <2> HIDE DEF l, k
  <2> QED BY <1>1, <2>1, <2>2, <2>6, <2>7 DEF CheckAssessment, JobStep, durable
<1>2. ASSUME NEW s \in Sessions, NEW def \in Drafts, NEW op \in Ops, BeginPropose(s, def, op)
      PROVE  JobStep
  BY <1>2 DEF BeginPropose, JobStep, durable
<1> QED BY <1>1, <1>2

\* Every step of the operation under way is one of those.
LEMMA JobSteps ==
  ASSUME RevisionTyped, JobIsNew, VersionsExist, [RevisionNext]_revisionVars
  PROVE  JobStep
<1>1. CASE ResolveAssess \/ \E s \in Sessions : BeginAssess(s)
  BY <1>1, AssessSteps
<1>2. CASE CheckAssessment \/ \E s \in Sessions, def \in Drafts, op \in Ops : BeginPropose(s, def, op)
  BY <1>2, ProposeSteps
<1>3. CASE \/ \E s \in Sessions, op \in Ops, enabled \in BOOLEAN : SetMode(s, enabled, op)
           \/ \E decision \in Decisions, route \in Routes, goal \in Goals : Assess(decision, route, goal)
           \/ \E s \in Sessions, op \in Ops : \E t \in DOMAIN plans : \E i \in DOMAIN Revisions(t) :
                ReadVersion(s, t, op, i)
  <2>1. job.kind = "route" => job.session \in Sessions
    BY DEF RevisionTyped, JobTyped
  <2>2. \E s \in Sessions : Flush(s)
    BY <1>3, <2>1 DEF SetMode, Assess, ReadVersion, RecordOnce
  <2> QED BY <2>2, FlushSteps
<1>4. CASE \E w \in unrecorded : RecordProposal(w)
  <2>1. PICK w \in unrecorded : RecordProposal(w)
    BY <1>4
  <2>2. w.session \in Sessions
    BY DEF RevisionTyped, PlansTyped
  <2>3. Flush(w.session) \/ (job' = job /\ plans' = plans)
    BY <2>1 DEF RecordProposal, RecordOnce, Snapshot, durable
  <2> QED BY <2>2, <2>3, FlushSteps DEF JobStep
<1>5. CASE \/ \E def \in Drafts, op \in Ops : Save(def, op)
           \/ \E t \in DOMAIN plans, op \in Ops : \E i \in DOMAIN Revisions(t) : ApprovePlan(t, op, i)
           \/ CommitProposal \/ End \/ Crash
  BY <1>5 DEF Save, ApprovePlan, CommitProposal, End, Crash, JobStep
<1>6. CASE UNCHANGED revisionVars \/ SetPreferences
           \/ \E s \in Sessions : Message(s) \/ Move(s) \/ Persist(s)
  BY <1>6 DEF revisionVars, SetPreferences, Message, Move, Persist, durable, JobStep
<1> QED BY <1>1, <1>2, <1>3, <1>4, <1>5, <1>6 DEF RevisionNext
-----------------------------------------------------------------------------
(* Versions                                                                    *)

\* What an added version leaves of the plans.
LEMMA Added ==
  ASSUME PlansTyped, NEW def \in Drafts, NEW op \in Ops, NEW s \in Sessions \cup {User},
         NEW goal \in Goals \cup {NoGoal}, AddRevision(def, op, s, goal)
  PROVE  LET t        == def.taskId
             revision == [def |-> def, session |-> s, goal |-> goal, approved |-> FALSE]
             receipt  == [op |-> op, session |-> s, def |-> def, revision |-> Len(Revisions(t)) + 1]
         IN  /\ t \in Roots /\ revision \in Revision /\ receipt \in Receipt
             /\ DOMAIN plans' = DOMAIN plans \cup {t} /\ DOMAIN plans' \subseteq Roots
             /\ \A x \in DOMAIN plans' : plans'[x] \in StoredPlan
             /\ Revisions(t)' = Append(Revisions(t), revision)
             /\ Receipts(t)' = Receipts(t) \cup {receipt}
             /\ \A x : x # t => Revisions(x)' = Revisions(x) /\ Receipts(x)' = Receipts(x)
<1> DEFINE t        == def.taskId
           revision == [def |-> def, session |-> s, goal |-> goal, approved |-> FALSE]
           receipt  == [op |-> op, session |-> s, def |-> def, revision |-> Len(Revisions(t)) + 1]
<1>1. t \in Roots
  BY DEF Roots
<1>2. Revisions(t) \in Seq(Revision) /\ Len(Revisions(t)) \in Nat
  BY PlanKnown
<1>3. revision \in Revision
  BY DEF Revision
<1>4. receipt \in Receipt
  BY <1>2 DEF Receipt
<1>5. Append(Revisions(t), revision) \in Seq(Revision)
  <2> HIDE DEF revision, t
  <2> QED BY <1>2, <1>3
<1>6. Store(t, Append(Revisions(t), revision), receipt)
  BY DEF AddRevision
<1> HIDE DEF t, revision, receipt
<1>7. /\ t \in Roots /\ revision \in Revision /\ receipt \in Receipt
      /\ DOMAIN plans' = DOMAIN plans \cup {t} /\ DOMAIN plans' \subseteq Roots
      /\ \A x \in DOMAIN plans' : plans'[x] \in StoredPlan
      /\ Revisions(t)' = Append(Revisions(t), revision)
      /\ Receipts(t)' = Receipts(t) \cup {receipt}
      /\ \A x : x # t => Revisions(x)' = Revisions(x) /\ Receipts(x)' = Receipts(x)
  BY <1>1, <1>3, <1>4, <1>5, <1>6, StoresPlan DEF t
<1> QED BY <1>7 DEF t, revision, receipt

\* What an approval leaves of the plans.
LEMMA Approved ==
  ASSUME PlansTyped, NEW t \in DOMAIN plans, NEW op \in Ops, NEW i \in DOMAIN Revisions(t),
         ApprovePlan(t, op, i)
  PROVE  LET receipt == [op |-> op, session |-> User, def |-> Revisions(t)[i].def, revision |-> i]
         IN  /\ t \in Roots /\ receipt \in Receipt /\ i = Len(Revisions(t))
             /\ DOMAIN plans' = DOMAIN plans
             /\ \A x \in DOMAIN plans' : plans'[x] \in StoredPlan
             /\ Revisions(t)' = [Revisions(t) EXCEPT ![i].approved = TRUE]
             /\ Receipts(t)' = Receipts(t) \cup {receipt}
             /\ \A x : x # t => Revisions(x)' = Revisions(x) /\ Receipts(x)' = Receipts(x)
<1> DEFINE receipt == [op |-> op, session |-> User, def |-> Revisions(t)[i].def, revision |-> i]
           revisions == [Revisions(t) EXCEPT ![i].approved = TRUE]
<1>1. t \in Roots
  BY DEF PlansTyped
<1>2. Revisions(t) \in Seq(Revision) /\ Revisions(t)[i] \in Revision /\ i \in Nat
  <2>1. Revisions(t) \in Seq(Revision)
    BY PlanKnown
  <2> QED BY <2>1
<1>3. receipt \in Receipt
  BY <1>2 DEF Receipt, Revision
<1>4. revisions \in Seq(Revision)
  <2>1. [Revisions(t)[i] EXCEPT !.approved = TRUE] \in Revision
    BY <1>2 DEF Revision
  <2> QED BY <1>2, <2>1
<1>5. Store(t, revisions, receipt) /\ i = Len(Revisions(t))
  BY DEF ApprovePlan
<1> HIDE DEF receipt, revisions
<1>6. /\ DOMAIN plans' = DOMAIN plans \cup {t}
      /\ \A x \in DOMAIN plans' : plans'[x] \in StoredPlan
      /\ Revisions(t)' = revisions
      /\ Receipts(t)' = Receipts(t) \cup {receipt}
      /\ \A x : x # t => Revisions(x)' = Revisions(x) /\ Receipts(x)' = Receipts(x)
  BY <1>1, <1>3, <1>4, <1>5, StoresPlan
<1>7. DOMAIN plans' = DOMAIN plans
  BY <1>6
<1> QED BY <1>1, <1>3, <1>5, <1>6, <1>7 DEF receipt, revisions

\* What an approved version is besides.
LEMMA ApprovedFields ==
  ASSUME PlansTyped, NEW t, NEW i \in DOMAIN Revisions(t)
  PROVE  LET revisions == [Revisions(t) EXCEPT ![i].approved = TRUE]
         IN  /\ DOMAIN revisions = DOMAIN Revisions(t) /\ revisions[i].approved = TRUE
             /\ \A k \in DOMAIN Revisions(t) :
                  /\ revisions[k].def = Revisions(t)[k].def
                  /\ revisions[k].session = Revisions(t)[k].session
                  /\ revisions[k].goal = Revisions(t)[k].goal
                  /\ k # i => revisions[k] = Revisions(t)[k]
<1>1. Revisions(t) \in Seq(Revision) /\ \A k \in DOMAIN Revisions(t) : Revisions(t)[k] \in Revision
  BY PlanKnown
<1> QED BY <1>1 DEF Revision

\* the versions of the plan t stay, with what they say, and stay approved
VersionsStay(t) ==
  \A i \in DOMAIN Revisions(t) :
    /\ i \in DOMAIN Revisions(t)'
    /\ Revisions(t)'[i].def = Revisions(t)[i].def
    /\ Revisions(t)'[i].session = Revisions(t)[i].session
    /\ Revisions(t)'[i].goal = Revisions(t)[i].goal
    /\ Revisions(t)[i].approved => Revisions(t)'[i].approved

\* No step removes a version or takes an approval back.
LEMMA StepsKeepVersions ==
  ASSUME PlansTyped, AddStep \/ ApproveStep \/ plans' = plans, NEW t
  PROVE  VersionsStay(t)
<1>1. CASE AddStep
  <2>1. PICK def \in Drafts, op \in Ops, s \in Sessions \cup {User}, goal \in Goals \cup {NoGoal} :
          AddRevision(def, op, s, goal)
    BY <1>1 DEF AddStep
  <2>2. Revisions(t) \in Seq(Revision)
    BY PlanKnown
  <2>3. Revisions(t)' = Revisions(t) \/ \E revision \in Revision : Revisions(t)' = Append(Revisions(t), revision)
    BY <2>1, Added
  <2> QED BY <2>2, <2>3 DEF VersionsStay
<1>2. CASE ApproveStep
  <2>1. PICK x \in DOMAIN plans, op \in Ops : \E i \in DOMAIN Revisions(x) : ApprovePlan(x, op, i)
    BY <1>2 DEF ApproveStep
  <2>2. PICK i \in DOMAIN Revisions(x) : ApprovePlan(x, op, i)
    BY <2>1
  <2>3. CASE t = x
    <3>1. Revisions(t)' = [Revisions(t) EXCEPT ![i].approved = TRUE]
      BY <2>2, <2>3, Approved
    <3> QED BY <2>3, <3>1, ApprovedFields DEF VersionsStay
  <2>4. CASE t # x
    BY <2>2, <2>4, Approved DEF VersionsStay
  <2> QED BY <2>3, <2>4
<1>3. CASE plans' = plans
  BY <1>3 DEF VersionsStay, Revisions
<1> QED BY <1>1, <1>2, <1>3
-----------------------------------------------------------------------------
(* Type correctness                                                            *)

\* What is still to be recorded after a step was before, or is a version there is.
LEMMA UnrecordedSteps ==
  ASSUME RevisionTyped, JobIsNew, VersionsExist, [RevisionNext]_revisionVars, NEW w \in unrecorded'
  PROVE  \/ w \in unrecorded
         \/ /\ w \in [session : Sessions, op : Ops, root : Roots, revision : Nat]
            /\ w.revision \in DOMAIN Revisions(w.root)'
<1>1. CASE unrecorded' \subseteq unrecorded
  BY <1>1
<1>2. CASE \E s \in Sessions, def \in Drafts, op \in Ops : BeginPropose(s, def, op)
  <2>1. PICK s \in Sessions, def \in Drafts, op \in Ops : BeginPropose(s, def, op)
    BY <1>2
  <2>2. CASE unrecorded' = unrecorded
    BY <2>2
  <2>3. CASE \E x \in Repeats(op, s, def) : ToRecord(s, op, def.taskId, x.revision)
    <3>1. PICK x \in Receipts(def.taskId) : ToRecord(s, op, def.taskId, x.revision)
      BY <2>3 DEF Repeats
    <3>2. def.taskId \in DOMAIN plans /\ x \in Receipt
      BY PlanKnown DEF RevisionTyped
    <3>3. x.revision \in Nat /\ x.revision \in DOMAIN Revisions(def.taskId) /\ def.taskId \in Roots
      BY <3>2 DEF VersionsExist, Receipt, Roots
    <3>4. Revisions(def.taskId)' = Revisions(def.taskId)
      BY <2>1 DEF BeginPropose, durable, Revisions
    <3>5. w \in unrecorded \/
          w = [session |-> s, op |-> op, root |-> def.taskId, revision |-> x.revision]
      BY <3>1 DEF ToRecord
    <3> QED BY <3>3, <3>4, <3>5
  <2> QED BY <2>1, <2>2, <2>3 DEF BeginPropose
<1>3. CASE CommitProposal
  <2>1. PICK def \in Drafts, op \in Ops, s \in Sessions, goal \in Goals \cup {NoGoal} :
          /\ AddRevision(def, op, s, goal)
          /\ ToRecord(s, op, def.taskId, Len(Revisions(def.taskId)) + 1)
    BY <1>3 DEF CommitProposal, RevisionTyped, JobTyped, Assessment
  <2> DEFINE t == def.taskId
             n == Len(Revisions(t)) + 1
  <2>2. Revisions(t) \in Seq(Revision) /\ n \in Nat /\ t \in Roots
    BY PlanKnown DEF RevisionTyped, Roots
  <2>3. PICK revision \in Revision : Revisions(t)' = Append(Revisions(t), revision)
    BY <2>1, Added DEF RevisionTyped
  <2>4. n \in DOMAIN Revisions(t)'
    <3> HIDE DEF t
    <3> QED BY <2>2, <2>3
  <2>5. w \in unrecorded \/ w = [session |-> s, op |-> op, root |-> t, revision |-> n]
    BY <2>1 DEF ToRecord
  <2> HIDE DEF n, t
  <2> QED BY <2>2, <2>4, <2>5
<1>4. unrecorded' \subseteq unrecorded \/ CommitProposal
        \/ \E s \in Sessions, def \in Drafts, op \in Ops : BeginPropose(s, def, op)
  <2>1. CASE UNCHANGED revisionVars
    BY <2>1 DEF revisionVars
  <2>2. CASE \/ \E s \in Sessions :
                  \/ Message(s) \/ Move(s) \/ Persist(s) \/ BeginAssess(s)
                  \/ \E op \in Ops :
                       \/ \E enabled \in BOOLEAN : SetMode(s, enabled, op)
                       \/ \E t \in DOMAIN plans : \E i \in DOMAIN Revisions(t) : ReadVersion(s, t, op, i)
             \/ \E decision \in Decisions, route \in Routes, goal \in Goals : Assess(decision, route, goal)
             \/ \E def \in Drafts, op \in Ops : Save(def, op)
             \/ \E t \in DOMAIN plans, op \in Ops : \E i \in DOMAIN Revisions(t) : ApprovePlan(t, op, i)
             \/ \E x \in unrecorded : RecordProposal(x)
             \/ SetPreferences \/ ResolveAssess \/ CheckAssessment \/ End \/ Crash
    BY <2>2 DEF Message, Move, Persist, BeginAssess, SetMode, ReadVersion, Assess, Save, ApprovePlan,
                RecordProposal, SetPreferences, ResolveAssess, CheckAssessment, End, Crash
  <2> QED BY <2>1, <2>2 DEF RevisionNext
<1> QED BY <1>1, <1>2, <1>3, <1>4

\* The settings change by SetPreferences alone.
LEMMA SettingsSteps ==
  ASSUME RevisionTyped, [RevisionNext]_revisionVars
  PROVE  settings' \in [enabled : BOOLEAN, fine : BOOLEAN, force : BOOLEAN, revision : Nat]
<1>1. CASE SetPreferences
  <2>1. settings.revision + 1 \in Nat
    BY DEF RevisionTyped, PlansTyped
  <2> QED BY <1>1, <2>1 DEF SetPreferences
<1>2. settings' = settings \/ SetPreferences
  BY DEF RevisionNext, revisionVars, durable, Message, Move, Persist, BeginAssess, SetMode, BeginPropose,
         ReadVersion, Assess, Save, ApprovePlan, RecordProposal, ResolveAssess, CheckAssessment,
         CommitProposal, End, Crash
<1> QED BY <1>1, <1>2 DEF RevisionTyped, PlansTyped

\* Logs, plans and the operation under way keep their types.
LEMMA StepsTyped ==
  ASSUME RevisionTyped, JobIsNew, VersionsExist, [RevisionNext]_revisionVars
  PROVE  RevisionTyped'
<1>1. LogsTyped'
  BY LogSteps DEF LogStep
<1>2. DOMAIN plans' \subseteq Roots /\ \A t \in DOMAIN plans' : plans'[t] \in StoredPlan
  <2>1. CASE AddStep
    BY <2>1, Added DEF AddStep, RevisionTyped
  <2>2. CASE ApproveStep
    BY <2>2, Approved DEF ApproveStep, RevisionTyped, PlansTyped
  <2>3. CASE plans' = plans
    BY <2>3 DEF RevisionTyped, PlansTyped
  <2> QED BY <2>1, <2>2, <2>3, PlanSteps
<1>3. PlansTyped'
  BY <1>2, UnrecordedSteps, SettingsSteps DEF PlansTyped, RevisionTyped
<1>4. JobTyped'
  BY JobSteps DEF JobStep, JobTyped, RevisionTyped, Idle
<1> QED BY <1>1, <1>3, <1>4 DEF RevisionTyped
-----------------------------------------------------------------------------
(* Receipts, and what is still to be recorded                                  *)

\* They name versions there are.
LEMMA StepsExist ==
  ASSUME RevisionTyped, JobIsNew, VersionsExist, [RevisionNext]_revisionVars
  PROVE  VersionsExist'
<1>1. PlansTyped /\ \A t : VersionsStay(t)
  BY PlanSteps, StepsKeepVersions DEF RevisionTyped
<1>2. ASSUME NEW t \in DOMAIN plans', NEW x \in Receipts(t)' PROVE x.revision \in DOMAIN Revisions(t)'
  <2>1. CASE x \in Receipts(t)
    <3>1. t \in DOMAIN plans
      BY <1>1, <2>1, PlanKnown
    <3> QED BY <1>1, <2>1, <3>1 DEF VersionsExist, VersionsStay
  <2>2. CASE x \notin Receipts(t) /\ AddStep
    <3>1. PICK def \in Drafts, op \in Ops, s \in Sessions \cup {User}, goal \in Goals \cup {NoGoal} :
            AddRevision(def, op, s, goal)
      BY <2>2 DEF AddStep
    <3> DEFINE receipt == [op |-> op, session |-> s, def |-> def,
                           revision |-> Len(Revisions(def.taskId)) + 1]
    <3>5. Receipts(t)' = Receipts(t) \/ (t = def.taskId /\ Receipts(t)' = Receipts(t) \cup {receipt})
      BY <1>1, <3>1, Added
    <3>2. t = def.taskId /\ x.revision = Len(Revisions(t)) + 1
      BY <1>2, <2>2, <3>5
    <3>3. \E revision \in Revision : Revisions(t)' = Append(Revisions(t), revision)
      BY <1>1, <3>1, <3>2, Added
    <3>4. Revisions(t) \in Seq(Revision)
      BY <1>1, PlanKnown
    <3> QED BY <3>2, <3>3, <3>4
  <2>3. CASE x \notin Receipts(t) /\ ApproveStep
    <3>1. PICK y \in DOMAIN plans, op \in Ops : \E i \in DOMAIN Revisions(y) : ApprovePlan(y, op, i)
      BY <2>3 DEF ApproveStep
    <3>2. PICK i \in DOMAIN Revisions(y) : ApprovePlan(y, op, i)
      BY <3>1
    <3> DEFINE receipt == [op |-> op, session |-> User, def |-> Revisions(y)[i].def, revision |-> i]
    <3>4. Receipts(t)' = Receipts(t) \/ (t = y /\ Receipts(t)' = Receipts(t) \cup {receipt})
      BY <1>1, <3>2, Approved
    <3>3. t = y /\ x.revision = i
      BY <1>2, <2>3, <3>4
    <3> QED BY <1>1, <3>3 DEF VersionsStay
  <2>4. CASE plans' = plans
    BY <1>2, <2>4 DEF VersionsExist, Receipts, Revisions
  <2> QED BY <2>1, <2>2, <2>3, <2>4, PlanSteps
<1>3. ASSUME NEW w \in unrecorded' PROVE w.revision \in DOMAIN Revisions(w.root)'
  <2>1. CASE w \in unrecorded
    BY <1>1, <2>1 DEF VersionsExist, VersionsStay
  <2>2. CASE w \notin unrecorded
    BY <2>2, UnrecordedSteps
  <2> QED BY <2>1, <2>2
<1> QED BY <1>2, <1>3 DEF VersionsExist

\* The operation of a proposal is not used by anybody else meanwhile.
LEMMA StepsNew ==
  ASSUME RevisionTyped, JobIsNew, VersionsExist, [RevisionNext]_revisionVars
  PROVE  JobIsNew'
<1>1. CASE job' = job /\ plans' = plans
  BY <1>1 DEF JobIsNew, NewFor, Receipts
<1>2. CASE job' = Idle \/ (job' = job /\ job = Idle)
  BY <1>2 DEF JobIsNew, Idle
<1>3. CASE job'.kind \in {"flush", "assess", "route"}
  BY <1>3 DEF JobIsNew
<1>4. CASE /\ job'.kind = "propose" /\ NewFor(job'.def.taskId, job'.op) /\ plans' = plans
  BY <1>4 DEF JobIsNew, NewFor, Receipts
<1>5. CASE job.kind = "propose" /\ job'.def = job.def /\ job'.op = job.op /\ plans' = plans
  BY <1>5 DEF JobIsNew, NewFor, Receipts
<1> QED BY <1>1, <1>2, <1>3, <1>4, <1>5, JobSteps DEF JobStep
-----------------------------------------------------------------------------
(* What is kept of the logs                                                    *)

\* what is persisted of a log is never taken back
KeptStays(s) ==
  \A k \in DOMAIN Kept(s) : k \in DOMAIN Kept(s)' /\ Kept(s)'[k] = Kept(s)[k]

\* A crash cuts a log, but not what is persisted of it.
LEMMA StepsKeep ==
  ASSUME LogsTyped, LogStep, NEW s \in Sessions
  PROVE  KeptStays(s)
<1>1. /\ log[s] \in Seq(Event) /\ kept[s] \in 0..Len(log[s]) /\ DOMAIN Kept(s) = 1..kept[s]
      /\ 1..kept[s] \subseteq DOMAIN log[s] /\ \A k \in 1..kept[s] : Kept(s)[k] = log[s][k]
  BY KeptLog
<1>2. log'[s] \in Seq(Event) /\ kept'[s] \in Nat /\ kept[s] <= kept'[s] /\ kept'[s] <= Len(log'[s])
  BY DEF LogStep, LogsTyped, LogChanges
<1>3. Kept(s)' = SubSeq(log'[s], 1, kept'[s])
  BY DEF Kept
<1>4. DOMAIN Kept(s)' = 1..kept'[s] /\ \A k \in 1..kept'[s] : Kept(s)'[k] = log'[s][k]
  BY <1>2, <1>3, Truncated
<1>5. \A k \in 1..kept[s] : log'[s][k] = log[s][k]
  <2>1. CASE log'[s] = log[s]
    BY <2>1
  <2>2. CASE \E e \in Event : log'[s] = Append(log[s], e)
    BY <1>1, <2>2, Appends
  <2>3. CASE kept'[s] <= Len(log[s]) /\ log'[s] = SubSeq(log[s], 1, kept'[s])
    BY <1>1, <1>2, <2>3, Truncated
  <2> QED BY <2>1, <2>2, <2>3 DEF LogStep, LogChanges
<1>6. 1..kept[s] \subseteq 1..kept'[s]
  BY <1>1, <1>2
<1> QED BY <1>1, <1>4, <1>5, <1>6 DEF KeptStays

\* the choices of a log count up
Counts(l) ==
  \A i \in Of(l, "mode") : l[i].revision = Cardinality({k \in Of(l, "mode") : k <= i})

\* So the last one has the number of all.
LEMMA LastCounts ==
  ASSUME NEW l \in Seq(Event), Counts(l), settings.enabled \in BOOLEAN
  PROVE  ModeOf(l).revision = Cardinality(Of(l, "mode"))
<1>1. CASE Of(l, "mode") = {}
  BY <1>1, ModeIsLast, FS_EmptySet
<1>2. CASE Of(l, "mode") # {}
  <2> DEFINE i == LastOf(l, "mode")
  <2>1. i \in Of(l, "mode") /\ \A k \in Of(l, "mode") : k <= i
    BY <1>2, LastIsLast
  <2>2. {k \in Of(l, "mode") : k <= i} = Of(l, "mode")
    <3> HIDE DEF i
    <3> QED BY <2>1
  <2>3. l[i].revision = Cardinality({k \in Of(l, "mode") : k <= i})
    BY <2>1 DEF Counts
  <2> QED BY <1>2, <2>2, <2>3, ModeIsLast
<1> QED BY <1>1, <1>2

\* The next choice counts on.
LEMMA AppendCounts ==
  ASSUME NEW l \in Seq(Event), NEW e \in Event, Counts(l),
         e.kind = "mode" => e.revision = Cardinality(Of(l, "mode")) + 1
  PROVE  Counts(Append(l, e))
<1> DEFINE n == Len(l) + 1
           all == Of(l, "mode")
           new == Append(l, e)
<1>1. /\ DOMAIN l = 1..Len(l) /\ Len(l) \in Nat /\ all \subseteq DOMAIN l
      /\ \A i \in DOMAIN l : new[i] = l[i]
      /\ new[n] = e /\ Of(new, "mode") = all \cup (IF e.kind = "mode" THEN {n} ELSE {})
  BY Appends, LastIsLast
<1> HIDE DEF n, all, new
<1>2. ASSUME NEW i \in all PROVE new[i].revision = Cardinality({k \in Of(new, "mode") : k <= i})
  <2>1. {k \in Of(new, "mode") : k <= i} = {k \in all : k <= i}
    BY <1>1 DEF n
  <2> QED BY <1>1, <2>1 DEF Counts, all
<1>3. ASSUME e.kind = "mode" PROVE new[n].revision = Cardinality({k \in Of(new, "mode") : k <= n})
  <2>1. {k \in Of(new, "mode") : k <= n} = all \cup {n} /\ n \notin all
    BY <1>1, <1>3 DEF n
  <2>2. IsFiniteSet(1..Len(l)) /\ all \in SUBSET (1..Len(l))
    BY <1>1, FS_Interval
  <2>3. IsFiniteSet(all)
    BY <2>2, FS_Subset
  <2>4. Cardinality(all \cup {n}) = Cardinality(all) + 1
    BY <2>1, <2>3, FS_AddElement
  <2> QED BY <1>1, <1>3, <2>1, <2>4 DEF all
<1>4. Counts(new)
  BY <1>1, <1>2, <1>3 DEF Counts
<1> QED BY <1>4 DEF new

\* What is left of a log counts as before.
LEMMA PrefixCounts ==
  ASSUME NEW l \in Seq(Event), Counts(l), NEW n \in 0..Len(l)
  PROVE  Counts(SubSeq(l, 1, n))
<1> DEFINE cut == SubSeq(l, 1, n)
<1>1. /\ \A i \in 1..n : cut[i] = l[i]
      /\ Of(cut, "mode") = Of(l, "mode") \cap 1..n
  BY Truncated
<1> HIDE DEF cut
<1>2. ASSUME NEW i \in Of(cut, "mode") PROVE cut[i].revision = Cardinality({k \in Of(cut, "mode") : k <= i})
  <2>1. i \in Of(l, "mode") /\ i \in 1..n
    BY <1>1
  <2>2. {k \in Of(cut, "mode") : k <= i} = {k \in Of(l, "mode") : k <= i}
    <3>1. Of(l, "mode") \subseteq DOMAIN l /\ DOMAIN l = 1..Len(l)
      BY LastIsLast
    <3>2. \A k \in Of(l, "mode") : k <= i => k \in 1..n
      BY <2>1, <3>1
    <3> QED BY <1>1, <3>2
  <2> QED BY <1>1, <2>1, <2>2 DEF Counts
<1>3. Counts(cut)
  BY <1>2 DEF Counts
<1> QED BY <1>3 DEF cut

\* A choice is made when the last one is persisted, so it counts on.
LEMMA StepsCount ==
  ASSUME RevisionTyped, LogStep, ModesCountUp
  PROVE  ModesCountUp'
<1>1. \A s \in Sessions : log[s] \in Seq(Event) /\ Counts(log[s])
  BY KeptLog DEF RevisionTyped, ModesCountUp, Counts
<1>2. ASSUME NEW s \in Sessions PROVE Counts(log'[s])
  <2>1. CASE log'[s] = log[s]
    BY <1>1, <2>1
  <2>2. CASE \E e \in Event : log'[s] = Append(log[s], e) /\ Writes(s, e)
    <3>1. PICK e \in Event : log'[s] = Append(log[s], e) /\ Writes(s, e)
      BY <2>2
    <3>2. ModeOf(log[s]).revision = Cardinality(Of(log[s], "mode"))
      BY <1>1, LastCounts DEF RevisionTyped, PlansTyped
    <3>3. e.kind = "mode" => e.revision = Cardinality(Of(log[s], "mode")) + 1
      BY <3>1, <3>2 DEF Writes, MayChoose
    <3> QED BY <1>1, <3>1, <3>3, AppendCounts
  <2>3. CASE kept'[s] <= Len(log[s]) /\ log'[s] = SubSeq(log[s], 1, kept'[s])
    <3>1. kept'[s] \in 0..Len(log[s])
      BY <1>1, <2>3 DEF LogStep, LogsTyped
    <3> QED BY <1>1, <2>3, <3>1, PrefixCounts
  <2> QED BY <2>1, <2>2, <2>3 DEF LogStep, LogChanges
<1> QED BY <1>2 DEF ModesCountUp, Counts
-----------------------------------------------------------------------------
(* What conversations are shown                                                *)

\* the version that the event e shows exists
Exists(e) ==
  /\ e.revision \in DOMAIN Revisions(e.root)
  /\ e.approved => Revisions(e.root)[e.revision].approved

\* an operation shows one version
OnceIn(l) == \A i, k \in Of(l, "snapshot") : l[i].op = l[k].op => i = k

ShowsOnce(s) == (\A i \in Of(log[s], "snapshot") : Exists(log[s][i])) /\ OnceIn(log[s])

OnceReceived == \A t \in DOMAIN plans : \A x, y \in Receipts(t) : x.op = y.op => x = y

\* A version that exists does so after the step.
LEMMA VersionsExistOn ==
  ASSUME \A t : VersionsStay(t), NEW e, Exists(e)
  PROVE  Exists(e)'
<1>1. VersionsStay(e.root)
  OBVIOUS
<1> QED BY <1>1 DEF Exists, VersionsStay

\* A log keeps showing what there is, and each operation one version of it.
LEMMA StepsShow ==
  ASSUME LogsTyped, LogStep, \A t : VersionsStay(t), NEW s \in Sessions, ShowsOnce(s)
  PROVE  /\ \A i \in Of(log'[s], "snapshot") : \A e : e = log'[s][i] => Exists(e)'
         /\ OnceIn(log'[s])
<1>1. log[s] \in Seq(Event) /\ Of(log[s], "snapshot") \subseteq DOMAIN log[s]
  BY LastIsLast DEF LogsTyped
<1>2. \A i \in Of(log[s], "snapshot") : \A e : e = log[s][i] => Exists(e)'
  BY VersionsExistOn DEF ShowsOnce
<1>3. CASE \E e \in Event : log'[s] = Append(log[s], e) /\ Writes(s, e)
  <2>1. PICK e \in Event : log'[s] = Append(log[s], e) /\ Writes(s, e)
    BY <1>3
  <2> DEFINE n == Len(log[s]) + 1
  <2>2. /\ \A i \in DOMAIN log[s] : log'[s][i] = log[s][i]
        /\ log'[s][n] = e /\ n \notin DOMAIN log[s]
        /\ Of(log'[s], "snapshot") = Of(log[s], "snapshot") \cup (IF e.kind = "snapshot" THEN {n} ELSE {})
    BY <1>1, <2>1, Appends
  <2> HIDE DEF n
  <2>3. ASSUME e.kind = "snapshot"
        PROVE  Exists(e)' /\ \A i \in Of(log[s], "snapshot") : log[s][i].op # e.op
    <3>1. Exists(e) /\ SnapshotsOf(s, e.op) = {}
      BY <2>1, <2>3 DEF Writes, Exists
    <3> QED BY <3>1, VersionsExistOn DEF SnapshotsOf
  <2>4. OnceIn(log'[s])
    BY <1>1, <2>2, <2>3 DEF OnceIn, ShowsOnce
  <2>5. \A i \in Of(log'[s], "snapshot") : \A x : x = log'[s][i] => Exists(x)'
    <3> SUFFICES ASSUME NEW i \in Of(log'[s], "snapshot"), NEW x, x = log'[s][i]
                 PROVE  Exists(x)'
      OBVIOUS
    <3>1. CASE i \in Of(log[s], "snapshot")
      BY <1>1, <1>2, <2>2, <3>1
    <3>2. CASE i = n /\ e.kind = "snapshot"
      <4>1. x = e
        BY <2>2, <3>2
      <4> QED BY <2>3, <3>2, <4>1
    <3> QED BY <2>2, <3>1, <3>2
  <2> QED BY <2>4, <2>5
<1>4. CASE log'[s] = log[s]
  BY <1>2, <1>4 DEF ShowsOnce
<1>5. CASE kept'[s] <= Len(log[s]) /\ log'[s] = SubSeq(log[s], 1, kept'[s])
  <2>1. kept'[s] \in 0..Len(log[s])
    BY <1>1, <1>5 DEF LogStep, LogsTyped
  <2>2. /\ \A i \in 1..kept'[s] : log'[s][i] = log[s][i]
        /\ Of(log'[s], "snapshot") = Of(log[s], "snapshot") \cap 1..kept'[s]
    BY <1>1, <1>5, <2>1, Truncated
  <2> QED BY <1>2, <2>2 DEF ShowsOnce, OnceIn
<1> QED BY <1>3, <1>4, <1>5 DEF LogStep, LogChanges

\* A receipt is left by an operation that left none.
LEMMA StepsReceive ==
  ASSUME RevisionTyped, JobIsNew, [RevisionNext]_revisionVars, OnceReceived
  PROVE  OnceReceived'
<1> SUFFICES ASSUME NEW t \in DOMAIN plans', NEW x \in Receipts(t)', NEW y \in Receipts(t)', x.op = y.op
             PROVE  x = y
  BY DEF OnceReceived
<1>1. PlansTyped
  BY DEF RevisionTyped
<1>2. CASE Receipts(t)' = Receipts(t)
  BY <1>1, <1>2, PlanKnown DEF OnceReceived
<1>3. CASE \E receipt : Receipts(t)' = Receipts(t) \cup {receipt} /\ NewFor(t, receipt.op)
  BY <1>1, <1>3, PlanKnown DEF OnceReceived, NewFor
<1>4. CASE AddStep
  <2>1. PICK def \in Drafts, op \in Ops, s \in Sessions \cup {User}, goal \in Goals \cup {NoGoal} :
          AddRevision(def, op, s, goal) /\ NewFor(def.taskId, op)
    BY <1>4 DEF AddStep
  <2> DEFINE receipt == [op |-> op, session |-> s, def |-> def,
                         revision |-> Len(Revisions(def.taskId)) + 1]
  <2>2. receipt.op = op
    OBVIOUS
  <2>3. \/ Receipts(t)' = Receipts(t)
        \/ t = def.taskId /\ Receipts(t)' = Receipts(t) \cup {receipt}
    BY <1>1, <2>1, Added
  <2> HIDE DEF receipt
  <2> QED BY <1>2, <1>3, <2>1, <2>2, <2>3
<1>5. CASE ApproveStep
  <2>1. PICK z \in DOMAIN plans, op \in Ops : \E i \in DOMAIN Revisions(z) : ApprovePlan(z, op, i)
    BY <1>5 DEF ApproveStep
  <2>2. PICK i \in DOMAIN Revisions(z) : ApprovePlan(z, op, i)
    BY <2>1
  <2> DEFINE receipt == [op |-> op, session |-> User, def |-> Revisions(z)[i].def, revision |-> i]
  <2>3. receipt.op = op /\ NewFor(z, op)
    BY <2>2 DEF ApprovePlan
  <2>4. Receipts(t)' = Receipts(t) \/ (t = z /\ Receipts(t)' = Receipts(t) \cup {receipt})
    BY <1>1, <2>2, Approved
  <2> HIDE DEF receipt
  <2> QED BY <1>2, <1>3, <2>3, <2>4
<1>6. CASE plans' = plans
  BY <1>2, <1>6 DEF Receipts
<1> QED BY <1>4, <1>5, <1>6, PlanSteps
-----------------------------------------------------------------------------
(* Goals and task identities                                                   *)

\* What a step makes of the versions: it adds one, or they say what they said.
LEMMA VersionSteps ==
  ASSUME RevisionTyped, AddStep \/ ApproveStep \/ plans' = plans
  PROVE  \/ AddStep
         \/ /\ DOMAIN plans' = DOMAIN plans
            /\ \A t : VersionsStay(t) /\ DOMAIN Revisions(t)' = DOMAIN Revisions(t)
<1>1. PlansTyped /\ \A t : VersionsStay(t)
  BY StepsKeepVersions DEF RevisionTyped
<1>2. CASE ApproveStep
  <2>1. PICK x \in DOMAIN plans, op \in Ops : \E i \in DOMAIN Revisions(x) : ApprovePlan(x, op, i)
    BY <1>2 DEF ApproveStep
  <2>2. PICK i \in DOMAIN Revisions(x) : ApprovePlan(x, op, i)
    BY <2>1
  <2>3. DOMAIN plans' = DOMAIN plans /\ \A t : t # x => Revisions(t)' = Revisions(t)
    BY <1>1, <2>2, Approved
  <2>4. DOMAIN Revisions(x)' = DOMAIN Revisions(x)
    BY <1>1, <2>2, Approved, ApprovedFields
  <2> QED BY <1>1, <2>3, <2>4
<1>3. CASE plans' = plans
  BY <1>1, <1>3 DEF Revisions
<1> QED BY <1>2, <1>3

\* What an added version is, and for whom.
LEMMA AddedVersion ==
  ASSUME RevisionTyped, AddStep
  PROVE  \E def \in Drafts, s \in Sessions \cup {User}, goal \in Goals \cup {NoGoal} :
           /\ IdentityHolds(def) /\ (s = User \/ Binds(s, goal, def.taskId))
           /\ s # User => s = job.session /\ goal = job.assessment.goal /\ job.kind = "commit"
           /\ DOMAIN plans' = DOMAIN plans \cup {def.taskId}
           /\ LET t == def.taskId
                  n == Len(Revisions(t)) + 1
              IN  /\ DOMAIN Revisions(t)' = DOMAIN Revisions(t) \cup {n} /\ n \notin DOMAIN Revisions(t)
                  /\ \A i \in DOMAIN Revisions(t) : Revisions(t)'[i] = Revisions(t)[i]
                  /\ Revisions(t)'[n].def = def /\ Revisions(t)'[n].session = s
                  /\ Revisions(t)'[n].goal = goal
                  /\ \A x : x # t => Revisions(x)' = Revisions(x)
<1>1. PICK def \in Drafts, op \in Ops, s \in Sessions \cup {User}, goal \in Goals \cup {NoGoal} :
        /\ AddRevision(def, op, s, goal)
        /\ s = User \/ (/\ job.kind = "commit" /\ s = job.session /\ goal = job.assessment.goal
                        /\ Binds(s, goal, def.taskId))
  BY DEF AddStep
<1> DEFINE t        == def.taskId
           n        == Len(Revisions(t)) + 1
           revision == [def |-> def, session |-> s, goal |-> goal, approved |-> FALSE]
<1>2. /\ DOMAIN plans' = DOMAIN plans \cup {t} /\ Revisions(t)' = Append(Revisions(t), revision)
      /\ revision \in Revision /\ Revisions(t) \in Seq(Revision)
      /\ \A x : x # t => Revisions(x)' = Revisions(x)
  BY <1>1, Added, PlanKnown DEF RevisionTyped
<1>3. IdentityHolds(def)
  BY <1>1 DEF AddRevision
<1>4. revision.def = def /\ revision.session = s /\ revision.goal = goal
  OBVIOUS
<1> HIDE DEF revision, t
<1>5. /\ DOMAIN Revisions(t)' = DOMAIN Revisions(t) \cup {n} /\ n \notin DOMAIN Revisions(t)
      /\ \A i \in DOMAIN Revisions(t) : Revisions(t)'[i] = Revisions(t)[i]
      /\ Revisions(t)'[n] = revision
  BY <1>2
<1> HIDE DEF n
<1>6. /\ IdentityHolds(def) /\ (s = User \/ Binds(s, goal, t))
      /\ s # User => s = job.session /\ goal = job.assessment.goal /\ job.kind = "commit"
      /\ DOMAIN plans' = DOMAIN plans \cup {t}
      /\ Revisions(t)'[n].def = def /\ Revisions(t)'[n].session = s /\ Revisions(t)'[n].goal = goal
  BY <1>1, <1>2, <1>3, <1>4, <1>5 DEF t
<1>7. def \in Drafts /\ s \in Sessions \cup {User} /\ goal \in Goals \cup {NoGoal}
  BY <1>1
<1> QED BY <1>2, <1>5, <1>6, <1>7 DEF t, n

\* A plan is changed for its own goal alone.
LEMMA StepsKeepGoals ==
  ASSUME RevisionTyped, OneGoal, PlansApart, AddStep \/ ApproveStep \/ plans' = plans
  PROVE  OneGoal'
<1> SUFFICES ASSUME NEW t \in DOMAIN plans', NEW i \in DOMAIN Revisions(t)', NEW k \in DOMAIN Revisions(t)',
                    Revisions(t)'[i].session # User, Revisions(t)'[k].session # User
             PROVE  /\ Revisions(t)'[i].session = Revisions(t)'[k].session
                    /\ Revisions(t)'[i].goal = Revisions(t)'[k].goal
  BY DEF OneGoal
<1>1. CASE AddStep
  <2>1. PICK def \in Drafts, s \in Sessions \cup {User}, goal \in Goals \cup {NoGoal} :
           /\ s = User \/ Binds(s, goal, def.taskId)
           /\ DOMAIN plans' = DOMAIN plans \cup {def.taskId}
           /\ LET x == def.taskId
                  n == Len(Revisions(x)) + 1
              IN  /\ DOMAIN Revisions(x)' = DOMAIN Revisions(x) \cup {n} /\ n \notin DOMAIN Revisions(x)
                  /\ \A j \in DOMAIN Revisions(x) : Revisions(x)'[j] = Revisions(x)[j]
                  /\ Revisions(x)'[n].session = s
                  /\ Revisions(x)'[n].goal = goal
                  /\ \A y : y # x => Revisions(y)' = Revisions(y)
    BY <1>1, AddedVersion
  <2>2. CASE t = def.taskId
    <3> DEFINE n == Len(Revisions(t)) + 1
    <3>1. /\ DOMAIN Revisions(t)' = DOMAIN Revisions(t) \cup {n}
          /\ \A j \in DOMAIN Revisions(t) : Revisions(t)'[j] = Revisions(t)[j]
          /\ Revisions(t)'[n].session = s /\ Revisions(t)'[n].goal = goal
      BY <2>1, <2>2
    <3> HIDE DEF n
    <3>2. ASSUME NEW j \in DOMAIN Revisions(t), Revisions(t)[j].session # User, s # User
          PROVE  Revisions(t)[j].session = s /\ Revisions(t)[j].goal = goal
      <4>1. t \in DOMAIN plans
        BY DEF Revisions
      <4>2. PICK m \in DOMAIN Revisions(t) : Revisions(t)[m].session = s /\ Revisions(t)[m].goal = goal
        BY <2>1, <2>2, <3>2, <4>1 DEF Binds, PlansOf, Revisions
      <4> QED BY <3>2, <4>1, <4>2 DEF OneGoal
    <3>3. ASSUME i \in DOMAIN Revisions(t), k \in DOMAIN Revisions(t)
          PROVE  /\ Revisions(t)[i].session # User /\ Revisions(t)[k].session # User =>
                      Revisions(t)[i].session = Revisions(t)[k].session
                        /\ Revisions(t)[i].goal = Revisions(t)[k].goal
      BY <3>3 DEF OneGoal, Revisions
    <3> QED BY <3>1, <3>2, <3>3
  <2>3. CASE t # def.taskId
    BY <2>1, <2>3 DEF OneGoal
  <2> QED BY <2>2, <2>3
<1>2. CASE /\ DOMAIN plans' = DOMAIN plans
           /\ \A x : VersionsStay(x) /\ DOMAIN Revisions(x)' = DOMAIN Revisions(x)
  BY <1>2 DEF OneGoal, VersionsStay
<1> QED BY <1>1, <1>2, VersionSteps

\* A goal has one plan, and identities are not taken from other plans.
LEMMA StepsKeepApart ==
  ASSUME RevisionTyped, PlansApart, AddStep \/ ApproveStep \/ plans' = plans
  PROVE  PlansApart'
<1> SUFFICES ASSUME NEW t \in DOMAIN plans', NEW other \in DOMAIN plans' \ {t}
             PROVE  /\ \A i \in DOMAIN Revisions(t)', k \in DOMAIN Revisions(other)' :
                         Revisions(t)'[i].session # User =>
                           Revisions(t)'[i].session # Revisions(other)'[k].session
                             \/ Revisions(t)'[i].goal # Revisions(other)'[k].goal
                    /\ IdsOf(t)' \cap IdsOf(other)' = {}
  BY DEF PlansApart
<1>1. CASE AddStep
  <2>1. PICK def \in Drafts, s \in Sessions \cup {User}, goal \in Goals \cup {NoGoal} :
           /\ IdentityHolds(def) /\ (s = User \/ Binds(s, goal, def.taskId))
           /\ DOMAIN plans' = DOMAIN plans \cup {def.taskId}
           /\ LET x == def.taskId
                  n == Len(Revisions(x)) + 1
              IN  /\ DOMAIN Revisions(x)' = DOMAIN Revisions(x) \cup {n} /\ n \notin DOMAIN Revisions(x)
                  /\ \A j \in DOMAIN Revisions(x) : Revisions(x)'[j] = Revisions(x)[j]
                  /\ Revisions(x)'[n].def = def /\ Revisions(x)'[n].session = s
                  /\ Revisions(x)'[n].goal = goal
                  /\ \A y : y # x => Revisions(y)' = Revisions(y)
    BY <1>1, AddedVersion
  <2> DEFINE x == def.taskId
             n == Len(Revisions(x)) + 1
  <2>2. /\ DOMAIN Revisions(x)' = DOMAIN Revisions(x) \cup {n} /\ n \notin DOMAIN Revisions(x)
        /\ \A j \in DOMAIN Revisions(x) : Revisions(x)'[j] = Revisions(x)[j]
        /\ Revisions(x)'[n].def = def /\ Revisions(x)'[n].session = s /\ Revisions(x)'[n].goal = goal
        /\ \A y : y # x => Revisions(y)' = Revisions(y)
        /\ \A y \in DOMAIN plans \ {x} : Ids(def) \cap IdsOf(y) = {}
        /\ s = User \/ PlansOf(s, goal) \subseteq {x}
        /\ DOMAIN plans' = DOMAIN plans \cup {x}
    BY <2>1 DEF IdentityHolds, Binds
  <2> HIDE DEF x, n
  <2>3. x \notin DOMAIN plans => Revisions(x) = <<>>
    BY DEF Revisions
  <2>4. IdsOf(x)' = IdsOf(x) \cup Ids(def)
    BY <2>2 DEF IdsOf
  <2>5. \A y : y # x => IdsOf(y)' = IdsOf(y)
    BY <2>2 DEF IdsOf
  <2>6. x \notin DOMAIN plans => IdsOf(x) = {}
    BY <2>3 DEF IdsOf
  <2>7. ASSUME NEW y \in DOMAIN plans \ {x}, NEW j \in DOMAIN Revisions(y), s # User
        PROVE  Revisions(y)[j].session # s \/ Revisions(y)[j].goal # goal
    BY <2>2, <2>7 DEF PlansOf, Revisions
  <2>8. IdsOf(t)' \cap IdsOf(other)' = {}
    BY <2>2, <2>4, <2>5, <2>6 DEF PlansApart
  <2>9. ASSUME NEW i \in DOMAIN Revisions(t)', NEW k \in DOMAIN Revisions(other)',
               Revisions(t)'[i].session # User
        PROVE  Revisions(t)'[i].session # Revisions(other)'[k].session
                 \/ Revisions(t)'[i].goal # Revisions(other)'[k].goal
    <3>1. CASE t = x
      <4>1. other \in DOMAIN plans /\ other # x /\ Revisions(other)' = Revisions(other)
        BY <2>2, <3>1
      <4>2. CASE i = n
        BY <2>2, <2>7, <2>9, <3>1, <4>1, <4>2
      <4>3. CASE i # n
        <5>1. i \in DOMAIN Revisions(t) /\ Revisions(t)'[i] = Revisions(t)[i] /\ t \in DOMAIN plans
          BY <2>2, <2>3, <3>1, <4>3
        <5> QED BY <2>9, <4>1, <5>1 DEF PlansApart
      <4> QED BY <4>2, <4>3
    <3>2. CASE other = x
      <4>1. t \in DOMAIN plans /\ t # x /\ Revisions(t)' = Revisions(t)
        BY <2>2, <3>2
      <4>2. CASE k = n
        BY <2>2, <2>7, <2>9, <3>2, <4>1, <4>2
      <4>3. CASE k # n
        <5>1. k \in DOMAIN Revisions(other) /\ Revisions(other)'[k] = Revisions(other)[k] /\ other \in DOMAIN plans
          BY <2>2, <2>3, <3>2, <4>3
        <5> QED BY <2>9, <4>1, <5>1 DEF PlansApart
      <4> QED BY <4>2, <4>3
    <3>3. CASE t # x /\ other # x
      BY <2>2, <2>9, <3>3 DEF PlansApart
    <3> QED BY <3>1, <3>2, <3>3
  <2> QED BY <2>8, <2>9
<1>2. CASE /\ DOMAIN plans' = DOMAIN plans
           /\ \A x : VersionsStay(x) /\ DOMAIN Revisions(x)' = DOMAIN Revisions(x)
  <2>1. \A x : IdsOf(x)' = IdsOf(x)
    BY <1>2 DEF IdsOf, VersionsStay
  <2> QED BY <1>2, <2>1 DEF PlansApart, VersionsStay
<1> QED BY <1>1, <1>2, VersionSteps
-----------------------------------------------------------------------------
(* Assessments                                                                 *)

\* What is persisted assesses the goal as complex.
Assessed(s, goal) == \E k \in Assessments(Kept(s), goal) : Kept(s)[k].decision = "complex"

\* An assessment that is persisted stays.
LEMMA AssessedStays ==
  ASSUME LogsTyped, LogStep, NEW s \in Sessions, NEW goal, Assessed(s, goal)
  PROVE  Assessed(s, goal)'
<1>1. KeptStays(s)
  BY StepsKeep
<1> QED BY <1>1 DEF Assessed, KeptStays, Assessments, Of

\* The assessment of the proposal under way is persisted, and stays so.
LEMMA StepsKeepJob ==
  ASSUME RevisionTyped, VersionsExist, JobIsNew, JobIsAssessed, [RevisionNext]_revisionVars
  PROVE  JobIsAssessed'
<1>1. LogStep /\ LogsTyped
  BY LogSteps DEF RevisionTyped
<1>2. CASE job' = job /\ job.kind = "commit"
  <2>1. PICK s \in Sessions : s = job.session
    BY <1>2 DEF RevisionTyped, JobTyped
  <2>2. KeptStays(s)
    BY <1>1, StepsKeep
  <2>3. \E k \in DOMAIN Kept(s)' : Kept(s)'[k] = job.assessment
    BY <1>2, <2>1, <2>2 DEF JobIsAssessed, KeptStays
  <2> QED BY <1>2, <2>1, <2>3 DEF JobIsAssessed, Kept
<1>3. CASE /\ job'.kind = "commit" /\ IsAssessed(job'.session, job'.assessment)
           /\ UNCHANGED <<plans, log, kept>>
  BY <1>3 DEF JobIsAssessed, IsAssessed, Kept
<1>4. CASE job'.kind # "commit"
  BY <1>4 DEF JobIsAssessed
<1> QED BY <1>2, <1>3, <1>4, JobSteps DEF JobStep, Idle

\* A version that a model made was assessed.
LEMMA StepsKeepAssessed ==
  ASSUME RevisionTyped, VersionsExist, JobIsNew, JobIsAssessed, ModelPlansWereAssessed,
         [RevisionNext]_revisionVars
  PROVE  ModelPlansWereAssessed'
<1>1. LogStep /\ LogsTyped /\ PlansTyped
  BY LogSteps DEF RevisionTyped
<1>2. SUFFICES ASSUME NEW t \in DOMAIN plans', NEW i \in DOMAIN Revisions(t)',
                      NEW s, s = Revisions(t)'[i].session, NEW goal, goal = Revisions(t)'[i].goal, s # User
               PROVE  Assessed(s, goal)'
  BY DEF ModelPlansWereAssessed, Assessed
<1>3. AddStep \/ ApproveStep \/ plans' = plans
  BY PlanSteps
\* a version there was
<1>4. ASSUME i \in DOMAIN Revisions(t), s = Revisions(t)[i].session, goal = Revisions(t)[i].goal
      PROVE  Assessed(s, goal)'
  <2>1. t \in DOMAIN plans /\ Revisions(t)[i] \in Revision
    BY <1>1, <1>4, PlanKnown
  <2>2. s \in Sessions /\ Assessed(s, goal)
    BY <1>2, <1>4, <2>1 DEF ModelPlansWereAssessed, Assessed, Revision
  <2> QED BY <1>1, <2>2, AssessedStays
<1>5. CASE AddStep
  <2>1. PICK def \in Drafts, z \in Sessions \cup {User}, g \in Goals \cup {NoGoal} :
           /\ z # User => z = job.session /\ g = job.assessment.goal /\ job.kind = "commit"
           /\ LET x == def.taskId
                  n == Len(Revisions(x)) + 1
              IN  /\ DOMAIN Revisions(x)' = DOMAIN Revisions(x) \cup {n}
                  /\ \A j \in DOMAIN Revisions(x) : Revisions(x)'[j] = Revisions(x)[j]
                  /\ Revisions(x)'[n].session = z /\ Revisions(x)'[n].goal = g
                  /\ \A y : y # x => Revisions(y)' = Revisions(y)
    BY <1>5, AddedVersion
  <2>2. \/ i \in DOMAIN Revisions(t) /\ Revisions(t)'[i] = Revisions(t)[i]
        \/ s = z /\ goal = g
    BY <1>2, <2>1
  <2>3. CASE s = z /\ goal = g
    <3>1. /\ s \in Sessions /\ s = job.session /\ goal = job.assessment.goal /\ job.kind = "commit"
          /\ job.assessment \in Assessment
      BY <1>2, <2>1, <2>3 DEF RevisionTyped, JobTyped
    <3>2. job.assessment.kind = "assessment"
      BY <3>1 DEF Assessment
    <3>3. Assessed(s, goal)
      BY <3>1, <3>2 DEF JobIsAssessed, Assessed, Assessments, Of
    <3> QED BY <1>1, <3>1, <3>3, AssessedStays
  <2> QED BY <1>2, <1>4, <2>2, <2>3
<1>6. CASE /\ DOMAIN plans' = DOMAIN plans
           /\ \A x : VersionsStay(x) /\ DOMAIN Revisions(x)' = DOMAIN Revisions(x)
  BY <1>2, <1>4, <1>6 DEF VersionsStay
<1> QED BY <1>3, <1>5, <1>6, VersionSteps
-----------------------------------------------------------------------------
(* The invariant is inductive                                                  *)

\* The part of it that is about what is shown, log by log.
LEMMA ShownSplits ==
  ShownWasCommittedOnce <=> (\A s \in Sessions : ShowsOnce(s)) /\ OnceReceived
<1>1. ASSUME NEW s \in Sessions
      PROVE  ShowsOnce(s) <=>
             \A i \in Of(log[s], "snapshot") :
               /\ log[s][i].revision \in DOMAIN Revisions(log[s][i].root)
               /\ log[s][i].approved => Revisions(log[s][i].root)[log[s][i].revision].approved
               /\ SnapshotsOf(s, log[s][i].op) = {i}
  <2>1. OnceIn(log[s]) <=> \A i \in Of(log[s], "snapshot") : SnapshotsOf(s, log[s][i].op) = {i}
    BY DEF OnceIn, SnapshotsOf
  <2> QED BY <2>1 DEF ShowsOnce, Exists
<1> QED BY <1>1 DEF ShownWasCommittedOnce, OnceReceived

\* What is shown stays as it was committed, once per operation.
LEMMA StepsKeepShown ==
  ASSUME RevisionTyped, VersionsExist, JobIsNew, ShownWasCommittedOnce, [RevisionNext]_revisionVars
  PROVE  ((\A s \in Sessions : ShowsOnce(s)) /\ OnceReceived)'
<1>1. LogStep /\ LogsTyped /\ PlansTyped /\ \A t : VersionsStay(t)
  BY LogSteps, PlanSteps, StepsKeepVersions DEF RevisionTyped
<1>2. (\A s \in Sessions : ShowsOnce(s)) /\ OnceReceived
  BY ShownSplits
<1>3. OnceReceived'
  BY <1>2, StepsReceive
<1>4. ASSUME NEW s \in Sessions PROVE ShowsOnce(s)'
  <2>1. /\ \A i \in Of(log'[s], "snapshot") : \A e : e = log'[s][i] => Exists(e)'
        /\ OnceIn(log'[s])
    BY <1>1, <1>2, StepsShow
  <2> QED BY <2>1 DEF ShowsOnce, Exists
<1> QED BY <1>3, <1>4

\* The service starts without plans, logs and operations.
LEMMA VersionedInit == RevisionInit => Versioned
<1> SUFFICES ASSUME RevisionInit PROVE Versioned
  OBVIOUS
<1>1. /\ DOMAIN plans = {} /\ job = Idle /\ unrecorded = {}
      /\ \A s \in Sessions : log[s] = <<>> /\ kept[s] = 0
  BY DEF RevisionInit
<1>2. LogsTyped
  BY DEF RevisionInit, LogsTyped
<1>3. PlansTyped /\ JobTyped
  BY <1>1 DEF RevisionInit, PlansTyped, JobTyped, Idle
<1>4. OneGoal /\ PlansApart /\ VersionsExist /\ ModelPlansWereAssessed
  BY <1>1 DEF OneGoal, PlansApart, VersionsExist, ModelPlansWereAssessed
<1>5. JobIsAssessed /\ JobIsNew
  BY <1>1 DEF JobIsAssessed, JobIsNew, Idle
<1>6. ModesCountUp /\ ShownWasCommittedOnce
  BY <1>1 DEF ModesCountUp, ShownWasCommittedOnce, Of
<1> QED BY <1>2, <1>3, <1>4, <1>5, <1>6 DEF Versioned, RevisionTyped

\* Every step keeps the invariant.
LEMMA VersionedNext == Versioned /\ [RevisionNext]_revisionVars => Versioned'
<1>1. ShownWasCommittedOnce' <=> ((\A s \in Sessions : ShowsOnce(s)) /\ OnceReceived)'
  BY ShownSplits, PTL
<1> SUFFICES ASSUME Versioned, [RevisionNext]_revisionVars PROVE Versioned'
  OBVIOUS
<1>2. LogStep /\ (AddStep \/ ApproveStep \/ plans' = plans)
  BY LogSteps, PlanSteps DEF Versioned
<1>3. RevisionTyped' /\ VersionsExist' /\ JobIsNew'
  BY StepsTyped, StepsExist, StepsNew DEF Versioned
<1>4. OneGoal' /\ PlansApart'
  BY <1>2, StepsKeepGoals, StepsKeepApart DEF Versioned
<1>5. JobIsAssessed' /\ ModelPlansWereAssessed'
  BY StepsKeepJob, StepsKeepAssessed DEF Versioned
<1>6. ModesCountUp'
  BY <1>2, StepsCount DEF Versioned
<1>7. ShownWasCommittedOnce'
  BY <1>1, StepsKeepShown DEF Versioned
<1> QED BY <1>3, <1>4, <1>5, <1>6, <1>7 DEF Versioned

\* So it always holds.
LEMMA AlwaysVersioned == RevisionSpec => []Versioned
<1> QED BY VersionedInit, VersionedNext, PTL DEF RevisionSpec
-----------------------------------------------------------------------------
(* What that gives                                                             *)

\* The service starts again whatever was committed: every plan is of one goal
\* of one conversation, no two plans are of the same, and no task belongs to two.
THEOREM PlansCanReopen == RevisionSpec => []PlansReopen
<1>1. ASSUME Versioned PROVE PlansReopen
  <2> DEFINE bindings(t) == {<<Revisions(t)[i].session, Revisions(t)[i].goal>> :
                               i \in {k \in DOMAIN Revisions(t) : Revisions(t)[k].session # User}}
  <2>1. OneGoal /\ PlansApart
    BY <1>1 DEF Versioned
  <2>2. ASSUME NEW t \in DOMAIN plans PROVE Cardinality(bindings(t)) <= 1
    <3>1. ASSUME NEW x \in bindings(t) PROVE bindings(t) = {x}
      <4>1. ASSUME NEW y \in bindings(t) PROVE y = x
        BY <2>1, <2>2, <3>1, <4>1 DEF OneGoal
      <4> HIDE DEF bindings
      <4> QED BY <3>1, <4>1
    <3> HIDE DEF bindings
    <3>2. CASE bindings(t) = {}
      BY <3>2, FS_EmptySet
    <3>3. CASE bindings(t) # {}
      <4>1. PICK x : bindings(t) = {x}
        BY <3>1, <3>3
      <4>2. Cardinality({x}) = 1
        BY FS_Singleton
      <4> QED BY <4>1, <4>2
    <3> QED BY <3>2, <3>3
  <2>3. ASSUME NEW t \in DOMAIN plans, NEW other \in DOMAIN plans \ {t}
        PROVE  bindings(t) \cap bindings(other) = {} /\ IdsOf(t) \cap IdsOf(other) = {}
    BY <2>1 DEF PlansApart
  <2> QED BY <2>2, <2>3 DEF PlansReopen
<1> QED BY <1>1, AlwaysVersioned, PTL

\* However flushes fail and are retried, a revision of the mode names one choice.
THEOREM ChoicesCountUp == RevisionSpec => []ModesCountUp
<1>1. Versioned => ModesCountUp
  BY DEF Versioned
<1> QED BY <1>1, AlwaysVersioned, PTL

\* What a model planned is justified by an assessment that no crash takes back.
THEOREM ModelPlansAreJustified == RevisionSpec => []ModelPlansWereAssessed
<1>1. Versioned => ModelPlansWereAssessed
  BY DEF Versioned
<1> QED BY <1>1, AlwaysVersioned, PTL

\* A conversation is shown, once per operation, what was committed.
THEOREM ShownIsCommittedOnce == RevisionSpec => []ShownWasCommittedOnce
<1>1. Versioned => ShownWasCommittedOnce
  BY DEF Versioned
<1> QED BY <1>1, AlwaysVersioned, PTL

\* A version is appended or the current one approved, and nothing else changes.
THEOREM PlanHistoriesAreFinal == RevisionSpec => PlanHistoryIsFinal
<1> DEFINE Step(t) ==
      LET old == Revisions(t)
          new == plans'[t].revisions
      IN  \/ Len(new) = Len(old) + 1 /\ SubSeq(new, 1, Len(old)) = old /\ ~ Last(new).approved
          \/ /\ Len(new) = Len(old)
             /\ \A i \in DOMAIN old :
                  new[i] = IF i = Len(old) /\ new[i].approved THEN [old[i] EXCEPT !.approved = TRUE]
                           ELSE old[i]
<1>1. ASSUME Versioned, [RevisionNext]_revisionVars, NEW t \in DOMAIN plans PROVE Step(t)
  <2>1. RevisionTyped /\ JobIsNew /\ PlansTyped
    BY <1>1 DEF Versioned, RevisionTyped
  <2>2. Revisions(t) \in Seq(Revision) /\ \A i \in DOMAIN Revisions(t) : Revisions(t)[i] \in Revision
    BY <2>1, PlanKnown
  <2>3. \A i \in DOMAIN Revisions(t) :
          Revisions(t)[i].approved => [Revisions(t)[i] EXCEPT !.approved = TRUE] = Revisions(t)[i]
    BY <2>2 DEF Revision
  <2>4. CASE t \in DOMAIN plans' /\ Revisions(t)' = Revisions(t)
    <3>1. plans'[t].revisions = Revisions(t)
      BY <2>4 DEF Revisions
    <3> QED BY <2>3, <3>1
  <2>5. CASE AddStep
    <3>1. PICK def \in Drafts, op \in Ops, s \in Sessions \cup {User}, goal \in Goals \cup {NoGoal} :
            AddRevision(def, op, s, goal)
      BY <2>5 DEF AddStep
    <3> DEFINE revision == [def |-> def, session |-> s, goal |-> goal, approved |-> FALSE]
    <3>2. /\ revision \in Revision /\ t \in DOMAIN plans'
          /\ t = def.taskId => Revisions(t)' = Append(Revisions(t), revision)
          /\ t # def.taskId => Revisions(t)' = Revisions(t)
      BY <2>1, <3>1, Added
    <3>3. ~ revision.approved
      OBVIOUS
    <3> HIDE DEF revision
    <3>4. CASE t = def.taskId
      <4>1. plans'[t].revisions = Append(Revisions(t), revision)
        BY <3>2, <3>4 DEF Revisions
      <4>2. /\ Len(Append(Revisions(t), revision)) = Len(Revisions(t)) + 1
            /\ SubSeq(Append(Revisions(t), revision), 1, Len(Revisions(t))) = Revisions(t)
            /\ Last(Append(Revisions(t), revision)) = revision
        BY <2>2, <3>2 DEF Last
      <4> QED BY <3>3, <4>1, <4>2
    <3> QED BY <2>4, <3>2, <3>4
  <2>6. CASE ApproveStep
    <3>1. PICK x \in DOMAIN plans, op \in Ops : \E i \in DOMAIN Revisions(x) : ApprovePlan(x, op, i)
      BY <2>6 DEF ApproveStep
    <3>2. PICK i \in DOMAIN Revisions(x) : ApprovePlan(x, op, i)
      BY <3>1
    <3>3. /\ i = Len(Revisions(x)) /\ DOMAIN plans' = DOMAIN plans
          /\ t = x => Revisions(t)' = [Revisions(t) EXCEPT ![i].approved = TRUE]
          /\ t # x => Revisions(t)' = Revisions(t)
      BY <2>1, <3>2, Approved
    <3>4. CASE t = x
      <4>1. plans'[t].revisions = [Revisions(t) EXCEPT ![i].approved = TRUE]
        BY <1>1, <3>3, <3>4 DEF Revisions
      <4> DEFINE old == Revisions(t)
                 new == plans'[t].revisions
      <4>2. old \in Seq(Revision) /\ i \in DOMAIN old /\ i = Len(old) /\ \A k \in DOMAIN old : old[k] \in Revision
        BY <2>2, <3>3, <3>4
      <4>3. Len(new) = Len(old) /\ new[i] = [old[i] EXCEPT !.approved = TRUE]
              /\ \A k \in DOMAIN old \ {i} : new[k] = old[k]
        BY <4>1, <4>2
      <4>4. new[i].approved
        BY <4>2, <4>3 DEF Revision
      <4>5. \A k \in DOMAIN old : k # i => k # Len(old)
        BY <4>2
      <4> HIDE DEF old, new
      <4>6. \A k \in DOMAIN old :
              new[k] = IF k = Len(old) /\ new[k].approved THEN [old[k] EXCEPT !.approved = TRUE] ELSE old[k]
        BY <4>2, <4>3, <4>4, <4>5
      <4> QED BY <4>3, <4>6 DEF old, new
    <3> QED BY <1>1, <2>4, <3>3, <3>4
  <2>7. CASE plans' = plans
    BY <1>1, <2>4, <2>7 DEF Revisions
  <2> QED BY <2>1, <2>5, <2>6, <2>7, <1>1, PlanSteps
<1>2. Versioned /\ [RevisionNext]_revisionVars => [\A t \in DOMAIN plans : Step(t)]_revisionVars
  BY <1>1
<1> QED BY <1>2, AlwaysVersioned, PTL DEF RevisionSpec, PlanHistoryIsFinal
=============================================================================
