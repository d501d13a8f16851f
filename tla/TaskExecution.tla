---------------------------- MODULE TaskExecution ----------------------------
(***************************************************************************)
(* The execution transactions of packages/workspace/personal-workflow       *)
(* (execution.ts) with the plan edits that compete with them (index.ts) and *)
(* the agent hooks that call them (skill-dev-workflow installExecution).    *)
(*                                                                          *)
(* One plan aggregate.  Every transaction runs in one slot of the service's *)
(* mutation queue (index.ts:170) and commits the whole aggregate at once, so *)
(* a transaction is one action; what interleaves are the slots, the agents' *)
(* turns, the tool calls between their slots, storage failures and crashes. *)
(*                                                                          *)
(* Abstractions of data:                                                    *)
(*  - permission, directory and backend checks (permissionReason, the        *)
(*    permission fingerprint, sameDirectory) are an input `ok` of every slot *)
(*    that makes them, and the comparison with the stored workspace baseline *)
(*    an input `changed`: both depend on state anybody may change between    *)
(*    two slots;                                                            *)
(*  - the recorded start time is the set `expired` of runs whose duration    *)
(*    has passed, which only grows;                                         *)
(*  - a request that is refused, or retried with the receipt it already has, *)
(*    changes nothing and has no step;                                      *)
(*  - operation ids are uuids: Fresh stands for one nobody ever repeats, the *)
(*    members of Ops for ids that clients may send again, in any request.    *)
(***************************************************************************)
EXTENDS PlanProjection

CONSTANTS
  Plan,            \* the task definition, the same in every revision
  Sessions,        \* conversations
  Runs,            \* identities of attempts
  Calls,           \* tool call identities the model provider may use
  Ops, Fresh,      \* operation identities
  NoRun,           \* forSession(...) === null
  MaxRevisions,    \* bound of the model on plan revisions
  MaxActions,      \* authorization.maxActions
  MaxTurns,        \* authorization.maxTurns
  RelayEvery,      \* values offered for authorization.relayEveryPhases, 0 = absent
  Automatic,       \* values offered for authorization.mode # 'manual'
  Native,          \* whether conversations may have the codex backend
  Timed,           \* attempts whose duration may pass within the model
  Background       \* conversations whose tools may leave background jobs

ASSUME ConstantsAssumption ==
  /\ Fresh \notin Ops
  /\ NoRun \notin Runs
  /\ MaxRevisions \in Nat \ {0}
  /\ MaxActions \in Nat \ {0}
  /\ MaxTurns \in Nat \ {0}
  /\ RelayEvery \subseteq Nat
  /\ Automatic \subseteq BOOLEAN /\ Native \subseteq BOOLEAN
  /\ Timed \subseteq Runs /\ Background \subseteq Sessions

Elements(s) == {s[i] : i \in DOMAIN s}

ASSUME PlanAssumption ==
  /\ Plan.tasks \in Seq(Elements(Plan.tasks)) /\ Plan.phases \in Seq(Elements(Plan.phases))
  /\ Admissible(Plan)

VARIABLES
  approvals,       \* durable: for each revision, whether it was approved
  runs,            \* durable: the attempts, by run identity
  receipts,        \* durable: how many committed records name an operation
  expired,         \* runs whose maxDurationMs has passed since startedAt
  agent,           \* volatile: where the conversation's turn is
  calls,           \* volatile: tool calls between admission and settlement
  jobs,            \* volatile: conversations with background work
  interrupts       \* volatile: queued interrupt() slots of idle conversations

durable  == <<approvals, runs, receipts>>
volatile == <<agent, calls, jobs, interrupts>>
vars     == <<approvals, runs, receipts, expired, agent, calls, jobs, interrupts>>

Tasks == Ids(Plan)

ActionStatus == {"pending", "succeeded", "failed", "unknown", "reconciled"}
RunStatus == {"running", "paused", "needs_reconciliation", "completed", "cancelled"}

Action   == [call : Calls, status : ActionStatus]
Done     == [task : Tasks, evidence : Seq(SUBSET Calls), actionsUsed : Nat]
Transfer == [op : Ops \cup {Fresh}, source : Sessions, target : Sessions,
             epoch : Nat, status : {"prepared", "transferred"}]

TaskRun ==
  [task : Tasks, planRevision : Nat, session : Sessions, sessions : Seq(Sessions),
   epoch : Nat, status : RunStatus, automatic : BOOLEAN, native : BOOLEAN,
   relay : Nat, turns : Nat, actions : Seq(Action), evidence : Seq(SUBSET Calls),
   range : Seq(Tasks), done : Seq(Done), handoffs : Seq(Transfer)]

\* a dispatched call: run is NoRun when the conversation was an ordinary one
Call == [session : Sessions, run : Runs \cup {NoRun}, call : Calls,
         stage : {"admitted", "dispatched", "refused"}]

AgentStage == {"idle", "prestep", "injected", "entering", "turn"}

TypeOK ==
  /\ approvals \in Seq(BOOLEAN) /\ approvals # <<>>
  /\ DOMAIN runs \subseteq Runs /\ \A r \in DOMAIN runs : runs[r] \in TaskRun
  /\ receipts \in [Ops -> Nat]
  /\ expired \subseteq Runs
  /\ agent \in [Sessions -> AgentStage]
  /\ calls \subseteq Call
  /\ jobs \subseteq Sessions /\ interrupts \subseteq Sessions
-----------------------------------------------------------------------------
(* Reading the aggregate                                                     *)

Current  == Len(approvals)
Approved == approvals[Current]

Prepared(run)   == \E i \in DOMAIN run.handoffs : run.handoffs[i].status = "prepared"
HasAction(run, statuses) == \E i \in DOMAIN run.actions : run.actions[i].status \in statuses
Exhausted(r) ==
  \/ Len(runs[r].actions) >= MaxActions
  \/ runs[r].turns >= MaxTurns
  \/ r \in expired

\* (as if receivers of a prepared transfer were not bound yet)
BoundByHistory(run, s) == s \in Elements(run.sessions)

BoundTo(run, s) ==
  s \in Elements(run.sessions) \/ \E i \in DOMAIN run.handoffs : run.handoffs[i].target = s

\* forSession: the attempt of a current, former or receiving conversation
ForSession(s) ==
  IF \E r \in DOMAIN runs : BoundTo(runs[r], s)
  THEN CHOOSE r \in DOMAIN runs : BoundTo(runs[r], s)
  ELSE NoRun

OwnedTasks(run) == IF run.range = <<>> THEN {run.task} ELSE Elements(run.range)
DoneTasks(run)  == {run.done[i].task : i \in DOMAIN run.done}

\* (as if only the current task of a sequence were observed)
FactsOfCurrentTasks ==
  [t \in Tasks |->
     LET of == {r \in DOMAIN runs : runs[r].planRevision = Current
                                    /\ t \in {runs[r].task} \cup DoneTasks(runs[r])}
         run == runs[CHOOSE r \in of : TRUE]
     IN  IF of = {} THEN NoFact
         ELSE IF t \in DoneTasks(run) THEN "completed" ELSE run.status]

\* view(): the observations of the current revision's attempts
Facts ==
  [t \in Tasks |->
     LET of == {r \in DOMAIN runs : runs[r].planRevision = Current
                                    /\ t \in OwnedTasks(runs[r])}
         run == runs[CHOOSE r \in of : TRUE]
     IN  IF of = {} THEN NoFact
         ELSE IF t \in DoneTasks(run) THEN "completed"
         ELSE IF t = run.task THEN run.status
         ELSE "paused"]

ReadyTasks == Ready(Plan, Approved, Facts)

\* denial(): the reason refusing an owner's work, given the checks made of
\* permission, directory and backend; an ordinary conversation is not refused
Denied(s, ok) ==
  LET r == ForSession(s) IN
    r # NoRun /\ (\/ ~ ok
                  \/ runs[r].session # s
                  \/ runs[r].status # "running"
                  \/ runs[r].planRevision # Current \/ ~ Approved
                  \/ r \in expired)

Owns(s) == LET r == ForSession(s) IN r # NoRun /\ runs[r].session = s
RunsAsOwner(s) == Owns(s) /\ runs[ForSession(s)].status = "running"

InFlight(s)   == {k \in calls : k.session = s}
\* the workspace/session-activity waterfall: the turn and background jobs
Inactive(s) == agent[s] = "idle" /\ s \notin jobs
-----------------------------------------------------------------------------
(* Writing the aggregate                                                     *)

Store(r, run) ==
  runs' = [x \in DOMAIN runs \cup {r} |-> IF x = r THEN run ELSE runs[x]]

\* retry(): an operation that left a record is answered from it or refused
NewOperation(op) == op \in Ops => receipts[op] = 0
Receipt(op) ==
  receipts' = IF op \notin Ops THEN receipts ELSE [receipts EXCEPT ![op] = @ + 1]

Remark(run, from, to) ==
  [i \in DOMAIN run.actions |->
     IF run.actions[i].status = from THEN [run.actions[i] EXCEPT !.status = to]
                                     ELSE run.actions[i]]

\* checkAccess and beginAction expose a refused running owner
FenceOwner(s) ==
  IF RunsAsOwner(s)
  THEN LET r == ForSession(s)
       IN  Store(r, [runs[r] EXCEPT !.status = "needs_reconciliation"])
  ELSE UNCHANGED runs
-----------------------------------------------------------------------------
(* Plan edits (index.ts commitProposal, approve) on a plan that exists        *)

\* (as if a stopped attempt never had calls in flight)
BlocksWhileRunning(run) == run.status = "running" \/ Prepared(run)

BlocksEditing(run) ==
  \/ run.status = "running"
  \/ HasAction(run, {"pending", "unknown"})
  \/ Prepared(run)

Save(op) ==
  /\ NewOperation(op)
  /\ Current < MaxRevisions
  /\ \A r \in DOMAIN runs : ~ BlocksEditing(runs[r])
  /\ approvals' = Append(approvals, FALSE)
  /\ Receipt(op)
  /\ UNCHANGED <<runs, expired, volatile>>

Approve(op) ==
  /\ NewOperation(op)
  /\ approvals' = [approvals EXCEPT ![Current] = TRUE]
  /\ Receipt(op)
  /\ UNCHANGED <<runs, expired, volatile>>
-----------------------------------------------------------------------------
(* Selection by the user (claim)                                             *)

\* the one leaf of each phase of the range, and the root after the last one
RangeTasks(first, last) ==
  LET leaf(p) == CHOOSE t \in Tasks : t # Plan.taskId /\ PhaseOf(Plan, t) = p
  IN  [i \in 1..(last - first + 1) |-> leaf(first + i - 1)]
      \o (IF last = Len(Plan.phases) THEN <<Plan.taskId>> ELSE <<>>)

\* tasks.filter(...): those of the range that are kept, in order
Kept(first, last, keep) ==
  LET tasks == RangeTasks(first, last)
      kept[n \in 0..Len(tasks)] ==
        IF n = 0 THEN <<>>
        ELSE IF tasks[n] \in keep THEN Append(kept[n-1], tasks[n])
        ELSE kept[n-1]
  IN  kept[Len(tasks)]

Remaining(first, last) ==
  Kept(first, last, {t \in Tasks : TaskStatus(Plan, Approved, Facts, t) # "completed"})

\* selectSequence: an automatic inclusive phase range, nothing of it taken
Selects(t, last, range) ==
  /\ Plan.phased
  /\ range = Remaining(PhaseOf(Plan, t), last)
  /\ range # <<>> /\ Head(range) = t
  /\ \A r \in DOMAIN runs : runs[r].planRevision = Current =>
       OwnedTasks(runs[r]) \cap Elements(range) = {} /\ runs[r].task \notin Elements(range)

NewRun(s, t, automatic, native, range, relay) ==
  [task |-> t, planRevision |-> Current, session |-> s, sessions |-> <<s>>, epoch |-> 1,
   status |-> "running", automatic |-> automatic, native |-> native, relay |-> relay,
   turns |-> 0, actions |-> <<>>, evidence |-> <<>>, range |-> range, done |-> <<>>,
   handoffs |-> <<>>]

\* workflowClaim asks for an idle conversation and queues the slot; one that wakes
\* meanwhile asks for access behind it
Selecting(s) == agent[s] \in {"idle", "prestep", "injected"}

ClaimTask(s, r, t, op, automatic, native) ==
  /\ Selecting(s)
  /\ NewOperation(op) /\ r \notin DOMAIN runs
  /\ ForSession(s) = NoRun
  /\ t \in ReadyTasks
  /\ Store(r, NewRun(s, t, automatic, native, <<>>, 0))
  /\ Receipt(op)
  /\ UNCHANGED <<approvals, expired, volatile>>

ClaimPhases(s, r, t, op, native, last, relay) ==
  /\ Selecting(s)
  /\ NewOperation(op) /\ r \notin DOMAIN runs
  /\ ForSession(s) = NoRun
  /\ t \in ReadyTasks
  /\ LET range == Remaining(PhaseOf(Plan, t), last) IN
       /\ Selects(t, last, range)
       /\ Store(r, NewRun(s, t, TRUE, native, range, relay))
  /\ Receipt(op)
  /\ UNCHANGED <<approvals, expired, volatile>>
-----------------------------------------------------------------------------
(* The owner's controls: stop, resume                                        *)
(* owner() answers only the current owner at its epoch; a session owns one    *)
(* epoch of one attempt, so the session identifies both.                      *)

Stop(r, op, cancel) ==
  /\ NewOperation(op)
  /\ runs[r].status \notin {"completed", "cancelled"}
  /\ Store(r, [runs[r] EXCEPT !.status = IF cancel THEN "cancelled" ELSE "paused"])
  /\ Receipt(op)
  /\ UNCHANGED <<approvals, expired, volatile>>

\* (as if the approval were only checked when the attempt was claimed)
ResumeUnchecked(r, note, ok) ==
  /\ runs[r].status \in {"paused", "needs_reconciliation"}
  /\ ok
  /\ Prepared(runs[r]) => note
  /\ ~ HasAction(runs[r], {"pending"})
  /\ Inactive(runs[r].session)

MayResume(r, note, ok) ==
  /\ runs[r].status \in {"paused", "needs_reconciliation"}
  /\ ok /\ runs[r].planRevision = Current /\ Approved
  /\ Prepared(runs[r]) => note
  /\ ~ HasAction(runs[r], {"pending"})
  /\ Inactive(runs[r].session)

NeedsNote(r, changed) ==
  changed \/ HasAction(runs[r], {"unknown"}) \/ runs[r].status = "needs_reconciliation"

\* (as if resuming ignored a prepared transfer)
ResumeToRunning(r, op, note, ok, changed) ==
  /\ NewOperation(op)
  /\ MayResume(r, note, ok)
  /\ NeedsNote(r, changed) => note
  /\ ~ Exhausted(r)
  /\ Store(r, [runs[r] EXCEPT !.status = "running",
                               !.actions = Remark(runs[r], "unknown", "reconciled")])
  /\ Receipt(op)
  /\ UNCHANGED <<approvals, expired, volatile>>

Resume(r, op, note, ok, changed) ==
  /\ NewOperation(op)
  /\ MayResume(r, note, ok)
  /\ NeedsNote(r, changed) => note
  /\ ~ Exhausted(r)
  /\ Store(r, [runs[r] EXCEPT
                 !.status = IF Prepared(runs[r]) THEN "paused" ELSE "running",
                 !.actions = Remark(runs[r], "unknown", "reconciled")])
  /\ Receipt(op)
  /\ UNCHANGED <<approvals, expired, volatile>>

\* the refusal 'explicit-reconciliation-required' is recorded, without receipt
ResumeUnreconciled(r, op, ok, changed) ==
  /\ NewOperation(op)
  /\ MayResume(r, FALSE, ok)
  /\ NeedsNote(r, changed)
  /\ Store(r, [runs[r] EXCEPT !.status = "needs_reconciliation"])
  /\ UNCHANGED <<approvals, receipts, expired, volatile>>
-----------------------------------------------------------------------------
(* Transfer to a new conversation                                            *)

\* handoffs take a fresh `session-<uuid>`, one nothing was ever bound to
Unused(s) == ForSession(s) = NoRun /\ Inactive(s) /\ s \notin interrupts

\* (as if settled actions were enough to transfer)
PrepareWhileActive(r, op, ok) ==
  /\ ~ (runs[r].native /\ runs[r].range = <<>>)
  /\ NewOperation(op)
  /\ runs[r].status \in {"running", "paused"}
  /\ ~ HasAction(runs[r], {"pending", "unknown"})
  /\ ~ Prepared(runs[r])
  /\ ok /\ runs[r].planRevision = Current /\ Approved
  /\ ~ Exhausted(r)

\* (as if the operation were only looked up among this attempt's transfers)
PrepareUnreceipted(r, op, ok) ==
  /\ PrepareWhileActive(r, Fresh, ok)
  /\ Inactive(runs[r].session)
  /\ \A i \in DOMAIN runs[r].handoffs : op # Fresh => runs[r].handoffs[i].op # op

MayPrepare(r, op, ok) ==
  /\ ~ (runs[r].native /\ runs[r].range = <<>>)
  /\ NewOperation(op)
  /\ runs[r].status \in {"running", "paused"}
  /\ ~ HasAction(runs[r], {"pending", "unknown"})
  /\ ~ Prepared(runs[r])
  /\ ok /\ runs[r].planRevision = Current /\ Approved
  /\ ~ Exhausted(r)
  /\ Inactive(runs[r].session)

PrepareHandoff(r, target, op, ok, changed) ==
  /\ MayPrepare(r, op, ok)
  /\ runs[r].status = "paused" => ~ changed
  /\ Unused(target)
  /\ Store(r, [runs[r] EXCEPT
                 !.status = "paused",
                 !.handoffs = Append(@, [op |-> op, source |-> runs[r].session,
                                         target |-> target, epoch |-> runs[r].epoch,
                                         status |-> "prepared"])])
  /\ Receipt(op)
  /\ UNCHANGED <<approvals, expired, volatile>>

\* a paused source whose files changed is recorded as needing reconciliation
PrepareChanged(r, op, ok) ==
  /\ MayPrepare(r, op, ok)
  /\ runs[r].status = "paused"
  /\ Store(r, [runs[r] EXCEPT !.status = "needs_reconciliation"])
  /\ UNCHANGED <<approvals, receipts, expired, volatile>>

Transferred(run, i) ==
  [run EXCEPT !.session = run.handoffs[i].target,
              !.sessions = Append(@, run.handoffs[i].target),
              !.epoch = @ + 1,
              !.handoffs = [@ EXCEPT ![i].status = "transferred"]]

\* (as if a transfer outlived the cancellation of its attempt)
FinishCancelled(r, i, ok, changed) ==
  LET handoff == runs[r].handoffs[i] IN
  /\ handoff.status = "prepared"
  /\ runs[r].epoch = handoff.epoch /\ runs[r].session = handoff.source
  /\ ok /\ runs[r].planRevision = Current /\ Approved
  /\ ~ changed
  /\ Store(r, Transferred(runs[r], i))
  /\ UNCHANGED <<approvals, receipts, expired, volatile>>

\* (as if the receiver began with the whole budget)
FinishRefilled(r, i, ok, changed) ==
  /\ runs[r].status = "paused" /\ runs[r].handoffs[i].status = "prepared"
  /\ ok /\ ~ changed
  /\ Store(r, [Transferred(runs[r], i) EXCEPT !.turns = 0])
  /\ UNCHANGED <<approvals, receipts, expired, volatile>>

FinishHandoff(r, i, ok, changed) ==
  LET handoff == runs[r].handoffs[i] IN
  /\ handoff.status = "prepared"
  /\ runs[r].epoch = handoff.epoch /\ runs[r].session = handoff.source
  /\ runs[r].status = "paused"
  /\ ok /\ runs[r].planRevision = Current /\ Approved
  /\ ~ changed
  /\ Store(r, Transferred(runs[r], i))
  /\ UNCHANGED <<approvals, receipts, expired, volatile>>
-----------------------------------------------------------------------------
(* Turns of a conversation (agent-loop turn(), the agent/pre-step,            *)
(* agent/turn-stopping and agent/status hooks)                                *)

GoIdle(s) ==
  /\ agent' = [agent EXCEPT ![s] = "idle"]
  /\ interrupts' = interrupts \cup {s}

\* a user or continue message opens a counted step, any other one does not
Wake(s, stage) ==
  /\ agent[s] = "idle"
  /\ agent' = [agent EXCEPT ![s] = stage]
  /\ UNCHANGED <<durable, expired, calls, jobs, interrupts>>

\* a message steered into a running turn is claimed by the next step
Steer(s) ==
  /\ agent[s] = "turn" /\ InFlight(s) = {}
  /\ agent' = [agent EXCEPT ![s] = "prestep"]
  /\ UNCHANGED <<durable, expired, calls, jobs, interrupts>>

\* the queue is first in first out: interrupt() of the last idle goes first
CheckAccess(s, ok) ==
  /\ agent[s] \in {"prestep", "injected"} /\ s \notin interrupts
  /\ ~ Denied(s, ok)
  /\ agent' = [agent EXCEPT ![s] = IF @ = "prestep" THEN "entering" ELSE "turn"]
  /\ UNCHANGED <<durable, expired, calls, jobs, interrupts>>

\* at the start of a step the refusal ends the turn
StepDenied(s, ok) ==
  /\ agent[s] \in {"prestep", "injected", "turn"} /\ s \notin interrupts
  /\ InFlight(s) = {}
  /\ Denied(s, ok)
  /\ FenceOwner(s)
  /\ GoIdle(s)
  /\ UNCHANGED <<approvals, receipts, expired, calls, jobs>>

\* before a tool call (tools/pre-execute, beginAction) it refuses that call
ToolDenied(s, ok) ==
  /\ agent[s] = "turn"
  /\ Denied(s, ok)
  /\ FenceOwner(s)
  /\ UNCHANGED <<approvals, receipts, expired, volatile>>

EnterTurn(s, ok) ==
  LET r == ForSession(s)
      admitted == ~ Denied(s, ok) /\ (r # NoRun => runs[r].turns < MaxTurns)
  IN
  /\ agent[s] = "entering"
  /\ IF admitted
     THEN /\ agent' = [agent EXCEPT ![s] = "turn"]
          /\ UNCHANGED interrupts
          /\ IF r = NoRun THEN UNCHANGED runs
             ELSE Store(r, [runs[r] EXCEPT !.turns = @ + 1])
     ELSE /\ GoIdle(s)
          /\ IF Denied(s, ok) THEN UNCHANGED runs        \* denied: nothing stored
             ELSE Store(r, [runs[r] EXCEPT !.status = "paused"])
  /\ UNCHANGED <<approvals, receipts, expired, calls, jobs>>

\* a failed request, a cancelled turn, an aborted step: turn-stopping is not
\* emitted; calls in flight are awaited first
AbortTurn(s) ==
  /\ agent[s] # "idle" /\ InFlight(s) = {}
  /\ GoIdle(s)
  /\ UNCHANGED <<durable, expired, calls, jobs>>

\* the slot queued when the conversation became idle; its failure is logged
Interrupt(s, stored) ==
  /\ s \in interrupts
  /\ interrupts' = interrupts \ {s}
  /\ IF stored /\ RunsAsOwner(s)
     THEN LET r == ForSession(s)
          IN  Store(r, [runs[r] EXCEPT !.status = "needs_reconciliation",
                          !.actions = Remark(runs[r], "pending", "unknown")])
     ELSE UNCHANGED runs
  /\ UNCHANGED <<approvals, receipts, expired, agent, calls, jobs>>
-----------------------------------------------------------------------------
(* Tool calls (the tools/execute wrapper: beginAction, the synchronous        *)
(* recheck, the tool body, settleAction)                                      *)

BeginAction(s, c, ok) ==
  LET r == ForSession(s)
      new(stage) == [session |-> s, run |-> r, call |-> c, stage |-> stage]
  IN
  /\ agent[s] = "turn"
  /\ ~ Denied(s, ok)
  /\ \A k \in InFlight(s) : k.call # c
  /\ IF r = NoRun
     THEN calls' = calls \cup {new("dispatched")} /\ UNCHANGED runs
     ELSE IF Len(runs[r].actions) >= MaxActions
     THEN Store(r, [runs[r] EXCEPT !.status = "paused"]) /\ UNCHANGED calls
     ELSE /\ \A i \in DOMAIN runs[r].actions : runs[r].actions[i].call # c
          /\ Store(r, [runs[r] EXCEPT
                         !.actions = Append(@, [call |-> c, status |-> "pending"])])
          /\ calls' = calls \cup {new("admitted")}
  /\ UNCHANGED <<approvals, receipts, expired, agent, jobs, interrupts>>

Dispatch(k, ok) ==
  /\ k.stage = "admitted"
  /\ calls' = (calls \ {k}) \cup
       {[k EXCEPT !.stage = IF Denied(k.session, ok) THEN "refused" ELSE "dispatched"]}
  /\ UNCHANGED <<durable, expired, agent, jobs, interrupts>>

\* (as if the stage the call ended in were recorded)
SettleRaw(k, succeeded, stored) ==
  /\ k.stage # "admitted" /\ k.run # NoRun /\ stored
  /\ calls' = calls \ {k}
  /\ Store(k.run, [runs[k.run] EXCEPT !.actions =
       [i \in DOMAIN @ |-> IF @[i].call = k.call THEN [@[i] EXCEPT !.status = k.stage]
                                                 ELSE @[i]]])
  /\ UNCHANGED <<approvals, receipts, expired, agent, jobs, interrupts>>

\* settleAction has no guard but the call's identity; when its store fails the
\* call is over and its record stays pending
Settle(k, succeeded, stored) ==
  /\ k.stage # "admitted" /\ k.run # NoRun
  /\ k.stage = "refused" => ~ succeeded
  /\ calls' = calls \ {k}
  /\ IF ~ stored THEN UNCHANGED runs
     ELSE Store(k.run, [runs[k.run] EXCEPT !.actions =
            [i \in DOMAIN @ |-> IF @[i].call = k.call
                                THEN [@[i] EXCEPT !.status = IF succeeded THEN "succeeded" ELSE "failed"]
                                ELSE @[i]]])
  /\ UNCHANGED <<approvals, receipts, expired, agent, jobs, interrupts>>

\* a call of an ordinary conversation is not recorded anywhere
EndOrdinary(k) ==
  /\ k.run = NoRun
  /\ calls' = calls \ {k}
  /\ UNCHANGED <<durable, expired, agent, jobs, interrupts>>

\* a running tool may leave work behind that its conversation owns
StartJob(s) ==
  /\ s \in Background /\ \E k \in InFlight(s) : k.stage = "dispatched"
  /\ jobs' = jobs \cup {s}
  /\ UNCHANGED <<durable, expired, agent, calls, interrupts>>

EndJob(s) ==
  /\ s \in jobs
  /\ jobs' = jobs \ {s}
  /\ UNCHANGED <<durable, expired, agent, calls, interrupts>>
-----------------------------------------------------------------------------
(* Completion and the end of a turn                                          *)

\* (as if a sequence could cite the actions of its earlier tasks)
AllActions(run) == Elements(run.actions)

\* the actions of the current task: those after the last completed one
TaskActions(run) ==
  LET used == IF run.done = <<>> THEN 0 ELSE run.done[Len(run.done)].actionsUsed
  IN  {run.actions[i] : i \in (used + 1)..Len(run.actions)}

Citable(run) == {a.call : a \in {b \in TaskActions(run) : b.status = "succeeded"}}

\* workflow_complete is itself not an admitted action; cited calls must be
\* settled successes of this task (a native run reports none)
Complete(s, cited, ok) ==
  LET r == ForSession(s) IN
  /\ agent[s] = "turn" /\ r # NoRun
  /\ ~ Denied(s, ok)
  /\ ~ HasAction(runs[r], {"pending", "unknown"})
  /\ s \notin jobs
  /\ IF runs[r].native THEN cited = {} ELSE cited # {} /\ cited \subseteq Citable(runs[r])
  /\ Store(r, [runs[r] EXCEPT !.status = "completed", !.evidence = Append(@, cited)])
  /\ UNCHANGED <<approvals, receipts, expired, volatile>>

\* the attempts that advanceSequence counts: completed tasks of this revision
CompletedFacts ==
  [t \in Tasks |->
     IF \E r \in DOMAIN runs : /\ runs[r].planRevision = Current
                               /\ \/ t \in DoneTasks(runs[r])
                                  \/ t = runs[r].task /\ runs[r].status = "completed"
     THEN "completed" ELSE NoFact]

RelayDue(run, done, next) ==
  /\ run.relay > 0
  /\ Cardinality({PhaseOf(Plan, done[i].task) : i \in DOMAIN done}) % run.relay = 0
  /\ PhaseOf(Plan, next) # PhaseOf(Plan, run.task)

\* the status with which the next task of the sequence begins
AdvancedStatus(r, done, next, ok) ==
  IF ~ ok \/ runs[r].planRevision # Current \/ ~ Approved THEN "needs_reconciliation"
  ELSE IF next \notin Ready(Plan, Approved, CompletedFacts) THEN "paused"
  ELSE IF Exhausted(r) \/ RelayDue(runs[r], done, next) THEN "paused"
  ELSE "running"

ContinueOrIdle(s, continue) ==
  IF continue THEN agent' = [agent EXCEPT ![s] = "prestep"] /\ UNCHANGED interrupts
  ELSE GoIdle(s)

\* turn-stopping on a completed task of a sequence (advanceSequence)
EndTurnAdvance(s, ok) ==
  LET r == ForSession(s) IN
  /\ agent[s] = "turn" /\ InFlight(s) = {}
  /\ Owns(s) /\ runs[r].status = "completed" /\ Len(runs[r].done) + 1 < Len(runs[r].range)
  /\ LET run  == runs[r]
         next == run.range[Len(run.done) + 2]
         done == Append(run.done, [task |-> run.task, evidence |-> run.evidence,
                                   actionsUsed |-> Len(run.actions)])
         status == AdvancedStatus(r, done, next, ok)
     IN  /\ Store(r, [run EXCEPT !.task = next, !.evidence = <<>>, !.done = done,
                                 !.status = status])
         /\ ContinueOrIdle(s, status = "running")
  /\ UNCHANGED <<approvals, receipts, expired, calls, jobs>>

CanContinue(s, r, ok) ==
  ~ runs[r].native /\ runs[r].automatic /\ ~ Exhausted(r) /\ ~ Denied(s, ok)

\* turn-stopping on a running task: continue within the authorization or pause
EndTurnRunning(s, ok) ==
  LET r == ForSession(s) IN
  /\ agent[s] = "turn" /\ InFlight(s) = {}
  /\ RunsAsOwner(s) /\ ~ HasAction(runs[r], {"pending"})
  /\ Store(r, [runs[r] EXCEPT !.status = IF CanContinue(s, r, ok) THEN "running" ELSE "paused"])
  /\ ContinueOrIdle(s, CanContinue(s, r, ok))
  /\ UNCHANGED <<approvals, receipts, expired, calls, jobs>>

\* turn-stopping with nothing to settle, or refused by a pending action
EndTurnOther(s) ==
  LET r == ForSession(s) IN
  /\ agent[s] = "turn" /\ InFlight(s) = {}
  /\ Owns(s) =>
       CASE runs[r].status = "running" -> HasAction(runs[r], {"pending"})
         [] runs[r].status = "completed" -> Len(runs[r].done) + 1 >= Len(runs[r].range)
         [] OTHER -> TRUE
  /\ GoIdle(s)
  /\ UNCHANGED <<durable, expired, calls, jobs>>
-----------------------------------------------------------------------------
(* Time, and the process: everything in memory is lost, and recover() marks   *)
(* every interrupted attempt before the service is exposed again              *)

Expire(r) ==
  /\ r \in (DOMAIN runs \cap Timed) \ expired
  /\ expired' = expired \cup {r}
  /\ UNCHANGED <<durable, volatile>>

Recovered(run) ==
  IF run.status = "running" \/ HasAction(run, {"pending"})
  THEN [run EXCEPT !.status = "needs_reconciliation",
                   !.actions = Remark(run, "pending", "unknown")]
  ELSE run

Restart ==
  /\ runs' = [r \in DOMAIN runs |-> Recovered(runs[r])]
  /\ agent' = [s \in Sessions |-> "idle"]
  /\ calls' = {} /\ jobs' = {} /\ interrupts' = {}
  /\ UNCHANGED <<approvals, receipts, expired>>
-----------------------------------------------------------------------------
Init ==
  /\ approvals = <<FALSE>>
  /\ runs = <<>>
  /\ receipts = [op \in Ops |-> 0]
  /\ expired = {}
  /\ agent = [s \in Sessions |-> "idle"]
  /\ calls = {} /\ jobs = {} /\ interrupts = {}

Operations == Ops \cup {Fresh}

Edits == \E op \in Operations : Save(op) \/ Approve(op)

Claims ==
  \E s \in Sessions, r \in Runs, t \in Tasks, op \in Operations, native \in Native :
    \/ \E automatic \in Automatic : ClaimTask(s, r, t, op, automatic, native)
    \/ \E last \in PhaseOf(Plan, t)..Len(Plan.phases), relay \in RelayEvery :
         TRUE \in Automatic /\ ClaimPhases(s, r, t, op, native, last, relay)

Controls ==
  \E r \in DOMAIN runs, op \in Operations :
    \/ \E cancel \in BOOLEAN : Stop(r, op, cancel)
    \/ \E note, ok, changed \in BOOLEAN :
         Resume(r, op, note, ok, changed) \/ ResumeUnreconciled(r, op, ok, changed)

Handoffs ==
  \E r \in DOMAIN runs, ok, changed \in BOOLEAN :
    \/ \E op \in Operations :
         \/ \E target \in Sessions : PrepareHandoff(r, target, op, ok, changed)
         \/ PrepareChanged(r, op, ok)
    \/ \E i \in DOMAIN runs[r].handoffs : FinishHandoff(r, i, ok, changed)

Turns ==
  \E s \in Sessions :
    \/ \E stage \in {"prestep", "injected"} : Wake(s, stage)
    \/ Steer(s) \/ AbortTurn(s) \/ EndTurnOther(s)
    \/ \E stored \in BOOLEAN : Interrupt(s, stored)
    \/ \E ok \in BOOLEAN :
         \/ CheckAccess(s, ok) \/ StepDenied(s, ok) \/ EnterTurn(s, ok)
         \/ EndTurnAdvance(s, ok) \/ EndTurnRunning(s, ok)

ToolCalls ==
  \/ \E s \in Sessions :
       \/ StartJob(s) \/ EndJob(s)
       \/ \E ok \in BOOLEAN :
            \/ ToolDenied(s, ok)
            \/ \E c \in Calls : BeginAction(s, c, ok)
            \/ \E cited \in SUBSET Calls : Complete(s, cited, ok)
  \/ \E k \in calls :
       \/ EndOrdinary(k)
       \/ \E ok \in BOOLEAN : Dispatch(k, ok)
       \/ \E succeeded, stored \in BOOLEAN : Settle(k, succeeded, stored)

Next ==
  \/ Edits \/ Claims \/ Controls \/ Handoffs \/ Turns \/ ToolCalls
  \/ \E r \in Runs : Expire(r)
  \/ Restart

Spec == Init /\ [][Next]_vars
-----------------------------------------------------------------------------
(* Safety                                                                    *)

\* Work only ever runs under the exact revision the user approved: an edit
\* (commitProposal) and every path back to running (claim, resume, the
\* continuation and the advance of endTurn) exclude each other.
RunningIsCurrentAndApproved ==
  \A r \in DOMAIN runs : runs[r].status = "running" =>
    runs[r].planRevision = Current /\ Approved

\* From prepareHandoff until its transfer nobody works on the attempt: it is
\* stopped, has nothing unsettled, its plan cannot be edited away under it, and
\* the one prepared transfer names the owner and epoch that finishHandoff asks for.
PreparedHandoffIsQuiescent ==
  \A r \in DOMAIN runs : \A i \in DOMAIN runs[r].handoffs :
    LET run == runs[r]  handoff == run.handoffs[i] IN
    handoff.status = "prepared" =>
      /\ run.status \in {"paused", "cancelled"}
      /\ ~ HasAction(run, {"pending", "unknown"})
      /\ run.planRevision = Current
      /\ handoff.source = run.session /\ handoff.epoch = run.epoch
      /\ \A s \in {run.session, handoff.target} : InFlight(s) = {} /\ s \notin jobs

\* A conversation bound to an attempt has effects in flight (tool calls between
\* admission and settlement, background jobs) only while it owns the attempt:
\* after a transfer no former owner is still acting on the workspace.
OneExecutor ==
  \A s \in Sessions :
    (InFlight(s) # {} \/ s \in jobs) /\ ForSession(s) # NoRun => Owns(s)

\* An edit waits for every admitted call of every attempt (index.ts:477), also
\* of stopped ones: no call of an older revision is ever in flight.
NoCallOfAnOldRevision ==
  \A k \in calls : k.run # NoRun => runs[k.run].planRevision = Current

\* An operation identity leaves at most one record, over receipts, execution
\* receipts and handoffs together, however often and for whatever it is resent.
OperationsCommitOnce == \A op \in Ops : receipts[op] <= 1
-----------------------------------------------------------------------------
(* storedPlanSchema (schema.ts:8): what a record must satisfy to be reopened  *)

OneAttemptPerTask ==
  \A r, q \in DOMAIN runs :
    r # q /\ runs[r].planRevision = runs[q].planRevision
      => OwnedTasks(runs[r]) \cap OwnedTasks(runs[q]) = {}

OneAttemptPerSession ==
  /\ \A r, q \in DOMAIN runs :
       r # q => Elements(runs[r].sessions) \cap Elements(runs[q].sessions) = {}
  /\ \A r \in DOMAIN runs : IsInjective(runs[r].sessions)

AccountsHold(run) ==
  /\ run.session = Last(run.sessions) /\ run.epoch = Len(run.sessions)
  /\ run.turns <= MaxTurns /\ Len(run.actions) <= MaxActions
  /\ \A i, j \in DOMAIN run.actions :
       run.actions[i].call = run.actions[j].call => i = j

SucceededIn(run, first, last) ==
  {run.actions[i].call : i \in {j \in first..last : run.actions[j].status = "succeeded"}}

\* cited calls succeeded within the task's own share of the actions
CitationsHold(run, evidence, first, last) ==
  /\ evidence # <<>>
  /\ \A i \in DOMAIN evidence :
       IF run.native THEN evidence[i] = {}
       ELSE evidence[i] # {} /\ evidence[i] \subseteq SucceededIn(run, first, last)

EvidenceHolds(run) ==
  LET used(i) == IF i = 0 THEN 0 ELSE run.done[i].actionsUsed
      n == Len(run.done)
  IN  /\ \A i \in 1..n :
           /\ used(i-1) <= used(i) /\ used(i) <= Len(run.actions)
           /\ CitationsHold(run, run.done[i].evidence, used(i-1) + 1, used(i))
      /\ run.status = "completed" =>
           CitationsHold(run, run.evidence, used(n) + 1, Len(run.actions))

\* the range is what the other attempts left of some inclusive phase range
\* (the attempt's own first and last phase are not kept: one of them fits)
SequenceHolds(r) ==
  LET run == runs[r]
      others == UNION {DoneTasks(runs[q]) \cup
                         (IF runs[q].status = "completed" THEN {runs[q].task} ELSE {}) :
                       q \in {x \in DOMAIN runs \ {r} :
                                runs[x].planRevision = run.planRevision}}
  IN  run.range # <<>> =>
        /\ \E last \in DOMAIN Plan.phases :
             run.range = Kept(PhaseOf(Plan, Head(run.range)), last, Tasks \ others)
        /\ Len(run.done) < Len(run.range)
        /\ run.range[Len(run.done) + 1] = run.task
        /\ \A i \in DOMAIN run.done : run.done[i].task = run.range[i]

TransfersHold(run) ==
  /\ Cardinality({i \in DOMAIN run.handoffs : run.handoffs[i].status = "prepared"}) <= 1
  /\ \A i \in DOMAIN run.handoffs :
       LET handoff == run.handoffs[i] IN
       /\ run.sessions[handoff.epoch] = handoff.source
       /\ handoff.status = "transferred" => run.sessions[handoff.epoch + 1] = handoff.target

\* Whatever is committed can be reopened after a crash: every stored aggregate
\* passes the whole validation of storedPlanSchema, which refuses to load it else.
StoredPlanLoads ==
  /\ OneAttemptPerTask
  /\ OneAttemptPerSession
  /\ \A r \in DOMAIN runs :
       /\ AccountsHold(runs[r]) /\ EvidenceHolds(runs[r])
       /\ SequenceHolds(r) /\ TransfersHold(runs[r])
-----------------------------------------------------------------------------
(* What a step may never do                                                  *)

\* Ownership moves only to the target of a prepared transfer, by one epoch, out
\* of a paused attempt whose former owner has nothing in flight; the history of
\* owners is never rewritten.
OwnershipMoves ==
  [][\A r \in DOMAIN runs :
       /\ IsPrefix(runs[r].sessions, runs'[r].sessions)
       /\ runs'[r].session # runs[r].session =>
            /\ \E i \in DOMAIN runs[r].handoffs :
                 /\ runs[r].handoffs[i].status = "prepared"
                 /\ runs[r].handoffs[i].target = runs'[r].session
            /\ runs'[r].epoch = runs[r].epoch + 1
            /\ runs[r].status = "paused" /\ runs'[r].status = "paused"
            /\ InFlight(runs[r].session) = {} /\ runs[r].session \notin jobs]_vars

\* Turns, actions and completed phases accumulate over pauses, transfers,
\* restarts and phases: no step gives any of the authorization back.
BudgetsNeverRefill ==
  [][\A r \in DOMAIN runs :
       /\ runs'[r].turns >= runs[r].turns
       /\ Len(runs'[r].actions) >= Len(runs[r].actions)
       /\ \A i \in DOMAIN runs[r].actions :
            runs'[r].actions[i].call = runs[r].actions[i].call
       /\ IsPrefix(runs[r].done, runs'[r].done)]_vars
-----------------------------------------------------------------------------
(* Claims of the documentation the code does not keep                        *)

Quiet(run) == Inactive(run.session) /\ run.session \notin interrupts
                /\ ~ HasAction(run, {"pending"})

\* docs/personal-workflow.md:47 offers re-planning for a cancelled task: with
\* nothing in flight, cancelled attempts leave the plan open for a new version.
CancelledAdmitsReplanning ==
  \A r \in DOMAIN runs :
    runs[r].status = "cancelled" /\ Quiet(runs[r]) => ~ BlocksEditing(runs[r])

\* execution.ts:266 calls cancelled a terminal state: nothing leaves it.
CancelledIsTerminal ==
  [][\A r \in DOMAIN runs : runs[r].status = "cancelled" => runs'[r].status = "cancelled"]_vars

\* docs/personal-workflow.md:133 keeps restart recovery of a phase sequence on
\* the explicit reconcile and resume path, which a completed status refuses: an
\* unfinished sequence at rest is never left with the status of its last task.
UnfinishedSequenceCanResume ==
  \A r \in DOMAIN runs :
    Len(runs[r].done) + 1 < Len(runs[r].range) /\ Quiet(runs[r])
      => runs[r].status # "completed"
=============================================================================
