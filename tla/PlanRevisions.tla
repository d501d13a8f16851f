---------------------------- MODULE PlanRevisions ----------------------------
(***************************************************************************)
(* The plan service between a conversation's log and the table of plans:   *)
(* the user chooses a planning mode, the model assesses a message and      *)
(* proposes a plan for its goal, the user saves and approves versions, and *)
(* the versions a conversation saw are recorded in its log.  The service   *)
(* works off one operation at a time, but each reads and writes over        *)
(* several awaits, while messages arrive, the conversation moves to another *)
(* project, its log is written behind and the process may crash.           *)
(*                                                                         *)
(* A log is the live sequence of events; what is kept of it is a prefix.   *)
(* Refusals that leave nothing behind are left out: whatever a step checks *)
(* besides its guard may also fail (End).  What execution adds to a plan   *)
(* is in TaskExecution.                                                    *)
(***************************************************************************)
EXTENDS TaskGraph

CONSTANTS
  Sessions, Goals, Ops,  \* conversations, goal and operation identities
  Drafts,                \* the definitions users save and models propose
  User,                  \* who saves without a conversation
  NoGoal,                \* goalId of a plan no model proposed
  MaxEvents,             \* bound: events of a log
  MaxReceipts,           \* bound: saves and approvals of all plans
  MaxSettings            \* bound: changes of the settings

VARIABLES
  plans,      \* durable: the stored plans by their root task
  settings,   \* durable: planning preferences and testing override
  log,        \* the events of each conversation
  kept,       \* how many of them are persisted
  job,        \* the operation under way in the service's queue
  unrecorded  \* proposals committed in one slot and to be recorded in a later one

durable == <<plans, settings>>
revisionVars == <<plans, settings, log, kept, job, unrecorded>>

Idle == [kind |-> "idle"]

RevisionInit ==
  /\ plans = <<>>
  /\ settings = [enabled |-> TRUE, fine |-> FALSE, force |-> FALSE, revision |-> 0]
  /\ log = [s \in Sessions |-> <<>>]
  /\ kept = [s \in Sessions |-> 0]
  /\ job = Idle
  /\ unrecorded = {}

(****************************************************************************)
(* Logs                                                                      *)
(****************************************************************************)
Of(l, kind) == {i \in DOMAIN l : l[i].kind = kind}
LastOf(l, kind) == IF Of(l, kind) = {} THEN 0 ELSE Max(Of(l, kind))
Kept(s) == SubSeq(log[s], 1, kept[s])

Emit(s, event) ==
  /\ Len(log[s]) < MaxEvents
  /\ log' = [log EXCEPT ![s] = Append(@, event)]

\* the agent's input and the move of a conversation, whatever the queue does
Message(s) == Emit(s, [kind |-> "message"]) /\ UNCHANGED <<durable, kept, job, unrecorded>>
Move(s)    == Emit(s, [kind |-> "moved"]) /\ UNCHANGED <<durable, kept, job, unrecorded>>

\* the log is drained behind the appends, or by somebody else's flush
Persist(s) ==
  /\ \E n \in kept[s] + 1..Len(log[s]) : kept' = [kept EXCEPT ![s] = n]
  /\ UNCHANGED <<durable, log, job, unrecorded>>

\* a write under way may be torn anywhere
Crash ==
  /\ \E n \in [Sessions -> 0..MaxEvents] :
       /\ \A s \in Sessions : n[s] \in kept[s]..Len(log[s])
       /\ log' = [s \in Sessions |-> SubSeq(log[s], 1, n[s])]
       /\ kept' = n
  /\ job' = Idle /\ unrecorded' = {}
  /\ UNCHANGED durable

(****************************************************************************)
(* The queue: an operation's last step is to flush the log it appended to    *)
(****************************************************************************)
Flush(s) == job' = [kind |-> "flush", session |-> s]

\* a failed flush leaves the event in the live log
End ==
  /\ job # Idle
  /\ \/ job.kind = "flush" /\ kept' = [kept EXCEPT ![job.session] = Len(log[job.session])]
     \/ UNCHANGED kept
  /\ job' = Idle
  /\ UNCHANGED <<durable, log, unrecorded>>

SetPreferences ==
  /\ job = Idle /\ settings.revision < MaxSettings
  /\ \E enabled, fine, force \in BOOLEAN :
       settings' = [enabled |-> enabled, fine |-> fine, force |-> force,
                    revision |-> settings.revision + 1]
  /\ UNCHANGED <<plans, log, kept, job, unrecorded>>

(****************************************************************************)
(* Modes                                                                     *)
(****************************************************************************)
ModeOf(l) ==
  LET i == LastOf(l, "mode")
  IN  IF i = 0 THEN [enabled |-> settings.enabled, revision |-> 0]
      ELSE [enabled |-> l[i].enabled, revision |-> l[i].revision]

\* (as if only the persisted choice counted)
MayChooseKept(s) == TRUE

\* a choice that is not persisted yet has to be retried first
MayChoose(s) == ModeOf(log[s]).revision = ModeOf(Kept(s)).revision

SetMode(s, enabled, op) ==
  /\ job = Idle
  /\ IF \E i \in Of(log[s], "mode") : log[s][i].op = op
     THEN /\ \E i \in Of(log[s], "mode") : log[s][i].op = op /\ log[s][i].enabled = enabled
          /\ UNCHANGED log
     ELSE /\ MayChoose(s)
          /\ Emit(s, [kind |-> "mode", enabled |-> enabled, op |-> op,
                      revision |-> ModeOf(Kept(s)).revision + 1])
  /\ Flush(s)
  /\ UNCHANGED <<durable, kept, unrecorded>>

\* requireMode, of the revision the model saw
RequireMode(s, revision) ==
  /\ ModeOf(Kept(s)).enabled \/ settings.force
  /\ ModeOf(Kept(s)).revision = revision

\* resolve: the revisions stand for what they revised
Policy(s) == [mode |-> ModeOf(Kept(s)).revision, settings |-> settings.revision,
              moved |-> LastOf(log[s], "moved")]

(****************************************************************************)
(* Assessments                                                               *)
(****************************************************************************)
Routes == {"new_goal", "clarification", "modify", "query"}
Decisions == {"simple", "clarify", "infeasible", "complex"}

\* goalPlan: the plan of a goal of a conversation
PlansOf(s, goal) ==
  {t \in DOMAIN plans : \E i \in DOMAIN plans[t].revisions :
     plans[t].revisions[i].session = s /\ plans[t].revisions[i].goal = goal}

Assessments(l, goal) == {i \in Of(l, "assessment") : l[i].goal = goal /\ l[i].route # "query"}

\* randomUUID gives a new goal; any other is one of this conversation
Routed(s, route, goal) ==
  LET earlier == Assessments(log[s], goal)
  IN  IF route = "new_goal"
      THEN \A r \in Sessions : \A i \in Of(log[r], "assessment") : log[r][i].goal # goal
      ELSE /\ earlier # {}
           /\ route = "clarification" => log[s][Max(earlier)].decision = "clarify"
           /\ route = "modify" => PlansOf(s, goal) # {}

BeginAssess(s) ==
  /\ job = Idle
  /\ \E revision \in 0..MaxEvents :
       /\ RequireMode(s, revision)
       /\ job' = [kind |-> "assess", session |-> s, revision |-> revision]
  /\ UNCHANGED <<durable, log, kept, unrecorded>>

ResolveAssess ==
  /\ job.kind = "assess"
  /\ job' = [kind |-> "route", session |-> job.session, revision |-> job.revision,
             policy |-> Policy(job.session)]
  /\ UNCHANGED <<durable, log, kept, unrecorded>>

\* a message is assessed once; the same assessment again is only flushed
Assess(decision, route, goal) ==
  LET s == job.session
      event == [kind |-> "assessment", revision |-> job.revision, decision |-> decision,
                route |-> route, goal |-> goal, policy |-> job.policy,
                message |-> LastOf(log[s], "message")]
      made == {i \in Of(log[s], "assessment") : log[s][i].message = event.message}
  IN
  /\ job.kind = "route" /\ event.message # 0
  /\ settings.force => decision # "simple" \/ route = "query"
  /\ IF made # {}
     THEN (\E i \in made : log[s][i] = event) /\ UNCHANGED log
     ELSE Routed(s, route, goal) /\ Emit(s, event)
  /\ Flush(s)
  /\ UNCHANGED <<durable, kept, unrecorded>>

(****************************************************************************)
(* Proposals, saves and approvals                                            *)
(****************************************************************************)
Revisions(t) == IF t \in DOMAIN plans THEN plans[t].revisions ELSE <<>>
Receipts(t)  == IF t \in DOMAIN plans THEN plans[t].receipts ELSE {}
IdsOf(t)     == UNION {Ids(Revisions(t)[i].def) : i \in DOMAIN Revisions(t)}

\* retry: the receipt of the same operation, which has to be of the same request
Repeats(op, s, def) == {x \in Receipts(def.taskId) : x.op = op /\ x.session = s /\ x.def = def}
NewFor(t, op) == \A x \in Receipts(t) : x.op # op

\* validateIdentity: identities neither return nor belong to two plans
IdentityHolds(def) ==
  LET t == def.taskId
      current == IF Revisions(t) = <<>> THEN {} ELSE Ids(Last(Revisions(t)).def)
  IN  /\ Ids(def) \cap IdsOf(t) \subseteq current
      /\ \A other \in DOMAIN plans \ {t} : Ids(def) \cap IdsOf(other) = {}

Store(t, revisions, receipt) ==
  /\ Cardinality(UNION {plans[x].receipts : x \in DOMAIN plans}) < MaxReceipts
  /\ plans' = [x \in DOMAIN plans \cup {t} |->
                 IF x = t THEN [revisions |-> revisions, receipts |-> Receipts(t) \cup {receipt}]
                 ELSE plans[x]]

\* the version is appended, unapproved
AddRevision(def, op, s, goal) ==
  LET t == def.taskId
      revision == [def |-> def, session |-> s, goal |-> goal, approved |-> FALSE]
  IN  /\ IdentityHolds(def)
      /\ Store(t, Append(Revisions(t), revision),
               [op |-> op, session |-> s, def |-> def, revision |-> Len(Revisions(t)) + 1])

ToRecord(s, op, t, revision) ==
  unrecorded' = unrecorded \cup {[session |-> s, op |-> op, root |-> t, revision |-> revision]}

BeginPropose(s, def, op) ==
  /\ job = Idle /\ Admissible(def)
  /\ \E revision \in 0..MaxEvents :
       /\ RequireMode(s, revision)
       /\ \/ /\ NewFor(def.taskId, op)
             /\ job' = [kind |-> "propose", session |-> s, revision |-> revision, def |-> def, op |-> op]
             /\ UNCHANGED unrecorded
          \/ /\ \E x \in Repeats(op, s, def) : ToRecord(s, op, def.taskId, x.revision)
             /\ UNCHANGED job
  /\ UNCHANGED <<durable, log, kept>>

\* (as if the live log were read for the assessment, too)
AssessedLive(s) == log[s]

\* only what is persisted can authorize a proposal
AssessedIn(s) == Kept(s)

CheckAssessment ==
  LET s == job.session
      l == AssessedIn(s)
      a == LastOf(l, "assessment")
  IN
  /\ job.kind = "propose"
  /\ a # 0 /\ l[a].revision = job.revision /\ l[a].decision = "complex" /\ l[a].route # "query"
  /\ l[a].message = LastOf(l, "message") /\ l[a].message = LastOf(log[s], "message")
  /\ job' = [kind |-> "commit", session |-> s, def |-> job.def, op |-> job.op, assessment |-> l[a]]
  /\ UNCHANGED <<durable, log, kept, unrecorded>>

\* (as if a goal's own plan were not looked for)
BindsPrevious(s, goal, t) == t \in DOMAIN plans => t \in PlansOf(s, goal)

\* a goal has one plan, and a plan is changed for its own goal alone
Binds(s, goal, t) ==
  /\ PlansOf(s, goal) \subseteq {t}
  /\ t \in DOMAIN plans => t \in PlansOf(s, goal)

CommitProposal ==
  LET s == job.session
      t == job.def.taskId
      goal == job.assessment.goal
  IN
  /\ job.kind = "commit"
  /\ Policy(s) = job.assessment.policy
  /\ settings.fine => job.def.phased
  /\ settings.force => Cardinality({i \in Leaves(job.def) : job.def.tasks[i].required}) >= 2
  /\ Binds(s, goal, t)
  /\ AddRevision(job.def, job.op, s, goal)
  /\ ToRecord(s, job.op, t, Len(Revisions(t)) + 1)
  /\ job' = Idle
  /\ UNCHANGED <<settings, log, kept>>

Save(def, op) ==
  /\ job = Idle /\ Admissible(def) /\ NewFor(def.taskId, op)
  /\ AddRevision(def, op, User,
       IF Revisions(def.taskId) = <<>> THEN NoGoal ELSE Last(Revisions(def.taskId)).goal)
  /\ UNCHANGED <<settings, log, kept, job, unrecorded>>

\* (as if the version asked for were approved, current or not)
ApproveAsked(t, op, i) ==
  /\ job = Idle /\ NewFor(t, op)
  /\ Store(t, [Revisions(t) EXCEPT ![i].approved = TRUE],
           [op |-> op, session |-> User, def |-> Revisions(t)[i].def, revision |-> i])
  /\ UNCHANGED <<settings, log, kept, job, unrecorded>>

\* the user approves the version seen, if it is still the current one
ApprovePlan(t, op, i) ==
  /\ job = Idle /\ NewFor(t, op)
  /\ i = Len(Revisions(t))
  /\ Store(t, [Revisions(t) EXCEPT ![i].approved = TRUE],
           [op |-> op, session |-> User, def |-> Revisions(t)[i].def, revision |-> i])
  /\ UNCHANGED <<settings, log, kept, job, unrecorded>>

(****************************************************************************)
(* Snapshots                                                                 *)
(****************************************************************************)
SnapshotsOf(s, op) == {i \in Of(log[s], "snapshot") : log[s][i].op = op}
Snapshot(op, t, revision, approved) ==
  [kind |-> "snapshot", op |-> op, root |-> t, revision |-> revision, approved |-> approved]

\* (as if the log were not searched for the operation)
RecordAgain(s, event) == Emit(s, event) /\ Flush(s)

\* appendSnapshot: the operation was recorded already, or is now
RecordOnce(s, event) ==
  /\ IF SnapshotsOf(s, event.op) # {}
     THEN (\A i \in SnapshotsOf(s, event.op) : log[s][i] = event) /\ UNCHANGED log
     ELSE Emit(s, event)
  /\ Flush(s)

\* recordSnapshot, in a slot of its own after the one that committed
RecordProposal(w) ==
  /\ job = Idle
  /\ \/ RecordOnce(w.session, Snapshot(w.op, w.root, w.revision, FALSE))
     \/ UNCHANGED <<log, job>>
  /\ unrecorded' = unrecorded \ {w}
  /\ UNCHANGED <<durable, kept>>

\* snapshot: a conversation reads a version; read again it stays as it was seen
ReadVersion(s, t, op, i) ==
  /\ job = Idle
  /\ IF SnapshotsOf(s, op) # {}
     THEN (\A k \in SnapshotsOf(s, op) : log[s][k].root = t) /\ UNCHANGED log /\ Flush(s)
     ELSE RecordOnce(s, Snapshot(op, t, i, Revisions(t)[i].approved))
  /\ UNCHANGED <<durable, kept, unrecorded>>

RevisionNext ==
  \/ \E s \in Sessions :
       \/ Message(s) \/ Move(s) \/ Persist(s) \/ BeginAssess(s)
       \/ \E op \in Ops :
            \/ \E enabled \in BOOLEAN : SetMode(s, enabled, op)
            \/ \E def \in Drafts : BeginPropose(s, def, op)
            \/ \E t \in DOMAIN plans : \E i \in DOMAIN Revisions(t) : ReadVersion(s, t, op, i)
  \/ \E decision \in Decisions, route \in Routes, goal \in Goals : Assess(decision, route, goal)
  \/ \E def \in Drafts, op \in Ops : Save(def, op)
  \/ \E t \in DOMAIN plans, op \in Ops : \E i \in DOMAIN Revisions(t) : ApprovePlan(t, op, i)
  \/ \E w \in unrecorded : RecordProposal(w)
  \/ SetPreferences \/ ResolveAssess \/ CheckAssessment \/ CommitProposal
  \/ End \/ Crash

RevisionSpec == RevisionInit /\ [][RevisionNext]_revisionVars

-----------------------------------------------------------------------------
(* Properties                                                                *)

\* Whatever was committed in whatever order, the service starts again: the checks
\* of Service.init on goals, conversations and task identities pass.
PlansReopen ==
  LET bindings(t) == {<<Revisions(t)[i].session, Revisions(t)[i].goal>> :
                        i \in {k \in DOMAIN Revisions(t) : Revisions(t)[k].session # User}}
  IN  \A t \in DOMAIN plans :
        /\ Cardinality(bindings(t)) <= 1
        /\ \A other \in DOMAIN plans \ {t} :
             /\ bindings(t) \cap bindings(other) = {}
             /\ IdsOf(t) \cap IdsOf(other) = {}

\* The choices of mode in a log count up from one without a gap or a repetition,
\* however flushes fail, are retried or happen behind: a revision names one choice.
ModesCountUp ==
  \A s \in Sessions : \A i \in Of(log[s], "mode") :
    log[s][i].revision = Cardinality({k \in Of(log[s], "mode") : k <= i})

\* A model's version of a plan outlives the log that justified it only together
\* with it: the assessment of its goal as complex is persisted in the
\* conversation before the version is, and no crash takes it back.
ModelPlansWereAssessed ==
  \A t \in DOMAIN plans : \A i \in DOMAIN Revisions(t) :
    LET revision == Revisions(t)[i] IN
    revision.session # User =>
      \E k \in Assessments(Kept(revision.session), revision.goal) :
        Kept(revision.session)[k].decision = "complex"

\* What a conversation is shown was committed before, and a retry repeats neither
\* the version (one operation of a plan made one) nor its entry in the log.
ShownWasCommittedOnce ==
  /\ \A s \in Sessions : \A i \in Of(log[s], "snapshot") :
       LET shown == log[s][i] IN
       /\ shown.revision \in DOMAIN Revisions(shown.root)
       /\ shown.approved => Revisions(shown.root)[shown.revision].approved
       /\ SnapshotsOf(s, shown.op) = {i}
  /\ \A t \in DOMAIN plans : \A x, y \in Receipts(t) : x.op = y.op => x = y

\* The history of a plan is final: a step appends one version or approves the
\* current one, and an approval never moves to another version.
PlanHistoryIsFinal ==
  [][\A t \in DOMAIN plans :
       LET old == Revisions(t)
           new == plans'[t].revisions
       IN  \/ Len(new) = Len(old) + 1 /\ SubSeq(new, 1, Len(old)) = old /\ ~ Last(new).approved
           \/ /\ Len(new) = Len(old)
              /\ \A i \in DOMAIN old :
                   new[i] = IF i = Len(old) /\ new[i].approved THEN [old[i] EXCEPT !.approved = TRUE]
                            ELSE old[i]
    ]_revisionVars
=============================================================================
