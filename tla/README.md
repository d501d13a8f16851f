# Merforge: the personal workflow, specified

Merforge is a desktop assistant whose agents work in the user's files. Its own
core is the *workflow*: a goal becomes a plan of tasks, the user approves one
exact version of it, selects a task for a conversation, and the agent of that
conversation then works on that task, and on nothing else, until it is stopped,
completed, transferred to another conversation or interrupted by a crash. What
the user authorized (which version, which task, how many turns and actions, who
owns it) must hold over all of that. An organization gives
its employees' agents the same over a network: finite grants, paid actions, and
their withdrawal at any time. This directory specifies these cores in TLA+, and
the storage below them, checks them with TLC and proves the central results with
TLAPS.

Sources are named relative to the repository; `pw/` stands for
`packages/workspace/personal-workflow/src/`, `org/` for
`packages/workspace/organization/src/`, `host/` for
`packages/workspace/organization-execution/src/`, `controller/` for
`packages/api/session-controller/src/`, `domain/` for
`packages/storage/storage-domain/src/` and `json/` for
`packages/storage/storage-json/src/`.

## 1. Inventory

### Components, their state, operations and correctness

| Component | Source | State | Operations | What makes it correct |
| --- | --- | --- | --- | --- |
| Task graph validation | `packages/util/task-graph`, `pw/plan-schema.ts` | none (pure) | `taskGraphErrors`, `definitionSchema` | accepts exactly the definitions whose hierarchy and completion edges can be ordered and whose phases agree with that order |
| Plan projection | `pw/projection.ts` | none (pure) | `projectPlan` | nothing counts as completed before what it waits for; an accepted plan can always go on |
| Plan service: proposals, approval | `pw/index.ts` | plan aggregates: revisions, receipts | `save`, `propose`, `approve`, `snapshot` | one writer; versions are immutable; an edit never overlaps work on the old version; an operation id commits once |
| Plan service: mode, assessment, preferences | `pw/index.ts`, `pw/planning.ts`, `pw/mode-projection.ts` | two settings records; modes, assessments and snapshots as events of a conversation | `setMode`, `assess`, `requireMode`, `resolve`, `setPreferences` | a proposal belongs to the mode, goal and policy it was assessed under, and what justifies it is persisted first |
| Task execution service | `pw/execution.ts`, `pw/execution-schema.ts`, `pw/schema.ts` | the attempts (`TaskRun`) of each aggregate | `claim`, `stop`, `resume`, `prepareHandoff`, `finishHandoff`, `beginAction`, `settleAction`, `beginTurn`, `endTurn`, `advanceSequence`, `complete`, `interrupt`, `recover`, `denial`, `checkAccess` | one owner at a time, approved version only, budgets never refilled, whatever is stored can be reopened |
| Workflow hooks of the agent | `packages/skill/skill-dev-workflow` | deadline timers | pre-step, pre-execute, guard, execute, turn-stopping and status hooks | every effect of an owner lies between its admission and its settlement |
| Agent loop | `packages/core/agent-loop` | queues, turn, step | turns of a conversation | hooks are called in the order the workflow relies on |
| Session controller relay | `controller/` | the relays under way (`workflowRelays`) | the `agent/status` listener, `workflowHandoff`, `relayWorkflow` | a relay happens once, as often as authorized, and one cut off waits for its user |
| Workspace baselines | `pw/workspace-baseline.ts` | none | observe, compare | I/O: what changed since the last observation |
| Storage domain | `domain/` | write chain, memory image | `open`, `put`, `update`, `delete`, `set`, `close` | memory only shows what was written, in call order; close drains; a reopening shows what was acknowledged |
| Storage backends | `json/`, `packages/storage/storage-sqlite` | files | `loadAll`, `putRecord`, `deleteRecord`, `setGlobal`, `backupRecord`, `close` | a call changes its record whole or not at all, and durably |
| Organization execution authority | `org/execution.ts`, `org/execution-database.ts` | tables of delegations, runs, actions, human requests | `grant-execution`, `revoke-execution`, `create-run`, `transition-run`, `resume-run`, `request-execution-human`, `reserve-action`, `settle-action`, answers, `invalidateExecution` | no permit without authority, no charge back, no fact taken back, the store opens again |
| Organization employee runtime | `host/` | bindings and action journal on each host, task directory | intervals: start, recover, work, stop; the guard of paid actions | an effect is paid, happens once and is never taken for what it was not |
| Organization connection | `packages/host/organization-connection` | pending operations | the execution channel, login, projections, events | an answer that is lost is not an answer that says no |
| Organization assignment | `org/assignment.ts`, `org/assignment-participant.ts` | offers, participants | offer, accept, return, invalidate | an execution stands on an accepted assignment |
| Organization work graph, delivery and acceptance, conversation and context | `org/workgraph.ts`, `org/delivery.ts`, ... | further tables of the database | commands, each one transaction | versions, reviews and visibility |
| Background jobs | `packages/jobs` | processes | start, stop | activity of a conversation is visible to admission |
| Sessions | `packages/core/session`, `packages/session` | event logs, buffered | append, drain, flush, read after a torn write | what is kept is a prefix of what happened |
| Everything else | tools, LLM adapters, sandbox, UI, gateway, installer | | | no state of the workflow |

`PROJECT.json` lists the same components with their files and says of each
whether it is modelled, partly modelled or not.

### How the parts interact

* **One mutation queue.** The plan service and the execution service share
  `enqueue` (`pw/index.ts`): every transaction runs alone in a slot, reads the
  aggregate, may await permission checks and a workspace observation, and
  commits the whole aggregate with one storage write.
* **Hooks.** The agent loop calls the hooks of `skill-dev-workflow`: `agent/pre-step`
  (`checkAccess`, then `beginTurn`), `tools/pre-execute`, the `tools/execute`
  wrapper (`beginAction`, a synchronous `denial`, the tool, `settleAction`),
  `agent/turn-stopping` (`endTurn`), and the idle status, which queues `interrupt`
  and waits for nobody.
* **Storage.** The aggregates of the plan service are records of the domain
  `personal_workflow`, kept by the JSON backend in one document. A domain runs
  its writes in a chain, one at a time: the backend first, then memory, then the
  event.
* **Waterfall.** `prepareHandoff` and `resume` ask `workspace/session-activity`
  whether the conversation is idle and has no background job.
* **Controller.** The session controller calls `prepareHandoff`, creates and flushes
  the receiving conversation and calls `finishHandoff`. A sequence authorized to
  change its conversation is paused as `phase-relay-ready`; the listener of the
  agent's status then sets off `relayWorkflow`, which transfers, resumes and
  sends the first message. Any turn that ends in such a conversation wakes it.
* **Logs.** The plan service appends its events to a live log and flushes it; it
  decides from the *persisted* log where a decision has to outlive a crash, and
  from the live one where it must not lag behind.
* **Authority and hosts.** An employee's host sends commands, one at a time, over
  the execution channel; each is one SQLite transaction of the organization that
  ends by withdrawing whatever has lost its authority. Between the transactions
  the host marks its journal, acts and reports.

### What is hard here

The queue makes transactions atomic, and leaves everything else interleaved: a
tool runs *between* two slots, so the attempt it was admitted for may be
stopped, cancelled, edited, transferred or recovered meanwhile; `interrupt` is
queued and arrives after other transactions; completion and the advance of a
phase sequence are two commits in two hooks; a store may fail after the tool has
run; the process may crash anywhere, and what was committed then has to pass
`storedPlanSchema` or the plan is gone. Below it, a storage write is a sequence of
file operations any of which may fail or be the last one before a crash, while
further writes, a close of the domain and a close of its backend are waiting.
A relay is eight awaits long and its conversation is free between any two. A
proposal reads settings, log and plans over five awaits while the user
writes on. In an organization all of that happens on machines that crash on their
own, to a service that may execute a command whose answer never arrives and may
withdraw a permit while its host is between the mark and the effect.
`PROJECT.json` "hazards" lists these at
their lines with the properties that watch them.

## 2. Modules

| Module | Models | Extends / uses |
| --- | --- | --- |
| `TaskGraph` | `taskGraphErrors`, the phase rules of `definitionSchema` | |
| `PlanProjection` | `projectPlan` | `TaskGraph` |
| `PlanAdmission` | a definition through validation, approval and completion facts, beside the reference definitions | `PlanProjection` |
| `TaskLease` | abstract: what execution promises about ownership | |
| `TaskExecution` | the execution service with the edits and hooks that compete with it | `PlanProjection` |
| `TaskExecutionLease` | the refinement mapping onto `TaskLease` | `TaskExecution` |
| `StorageDomain` | one storage domain over a unit of the JSON backend, in either layout, down to its file operations | |
| `PlanRevisions` | the plan service between the logs of conversations, the settings and the plans | `TaskGraph` |
| `WorkflowRelay` | the session controller's relay, composed with the execution service | `TaskExecution` |
| `ExecutionAuthority` | the organization's execution commands and the withdrawal after each | |
| `EmployeeRuntime` | hosts of an employee with guard, journal, recovery and lost answers, composed with the authority | `ExecutionAuthority` |
| `ActionLedger` | abstract: what hosts and service together promise about a paid action | |
| `MCPlans`, `MCTaskExecution`, `MCWorkflowRelay`, `MCStorageDomain`, `MCExecutionAuthority`, `MCEmployeeRuntime` | small instances | |
| `TaskLease_proofs`, `TaskExecution_proofs`, `TaskExecutionLease_proofs`, `PlanAdmission_proofs`, `PlanRevisions_proofs`, `WorkflowRelay_proofs`, `StorageDomain_proofs`, `EmployeeRuntime_proofs` | theorems; the last one also those about `ExecutionAuthority` | `TLAPS` |

Definitions marked `(as if ...)` describe a change somebody might make to the
code by mistake. Nothing refers to them; each shows, put in the place of the
definition next to it, that a property notices.

### State and code

| `TaskExecution` | Code |
| --- | --- |
| `approvals` | `StoredPlan.revisions[].approval` of the one aggregate |
| `runs` | `StoredPlan.runs`, `TaskRun` without its texts |
| `receipts` | how many of `receipts`, `executionReceipts` and `handoffs` name an operation |
| `expired` | `Date.now() - startedAt >= maxDurationMs` |
| `agent`, `calls`, `jobs` | the agent's turn, tool calls between `beginAction` and `settleAction`, background work |
| `interrupts` | `interrupt()` slots in the queue of conversations gone idle |

Every transaction is one action with the name of its method or of the case of it:
`Save`, `Approve`, `ClaimTask`, `ClaimPhases`, `Stop`, `Resume`,
`ResumeUnreconciled`, `PrepareHandoff`, `PrepareChanged`, `FinishHandoff`,
`CheckAccess`, `StepDenied`, `ToolDenied`, `EnterTurn`, `Interrupt`, `BeginAction`,
`Dispatch`, `Settle`, `Complete`, `EndTurnAdvance`, `EndTurnRunning`,
`EndTurnOther`. A refusal that stores something (`PrepareChanged`,
`ResumeUnreconciled`, the fencing of an owner who is denied) is an action too;
a refusal that stores nothing has no step. `Wake`, `Steer`, `AbortTurn`,
`StartJob`, `EndJob` and `EndOrdinary` are the agent, `Expire` is time, and
`Restart` is a crash followed by `recover()`, which runs before the service is
exposed.

| `StorageDomain` | Code |
| --- | --- |
| `file`, `disk` | the documents of the unit as the system shows them, and as a loss of power leaves them |
| `stage` | the name in `DomainFacility.reserved`: free, held by `open`, in use, held by `close` |
| `unit` | whether the backend unit rejects calls (`closed`) |
| `todo`, `copying` | where the loop of `bootstrapLegacyUnit` stands |
| `memory` | `KvTableImpl.records` and `DomainImpl.globalValue` |
| `request`, `chain`, `step` | every write with its answer, those in `DomainImpl.chain`, and how far the first one came |
| `since` | history: the writes requested before this opening |

`Open`, `Import`, `ImportSync`, `Backup`, `Activate` and `OpenFails` are
`DomainFacility.open` with `loadAll`; `Enqueue` is `put`, `update`, `delete` and
`set`; `Vacuous`, `Refuse`, `Start`, `Publish`, `Sync`, `Fail` and `Apply` are the
steps of the running write between its awaits; `Close` and `Release` are `close`,
and `CloseBackend` is the backend's own. `Crash` ends the process, `LosePower`
the system with it, and `WriteBack` is the system syncing a directory unasked.

| `PlanRevisions` | Code |
| --- | --- |
| `plans` | the table `plans`: revisions and receipts by root task |
| `settings` | the preferences and the testing override, one revision for both |
| `log`, `kept` | the events of a live session, and how many of them can be read after a crash |
| `job` | where the operation in the service's queue stands between its awaits |
| `unrecorded` | `propose` between its two slots: committed, its snapshot to come |

`SetMode`, `SetPreferences`, `Save`, `ApprovePlan` and `ReadVersion` (`snapshot`) are
the methods; `assess` is `BeginAssess`, `ResolveAssess` and `Assess`, and
`propose` is `BeginPropose`, `CheckAssessment`, `CommitProposal` and, in a slot of its
own, `RecordProposal`; `End` is the end of the slot, with the flush it waits for or
any refusal. `Message`, `Move` and `Persist` come when they like. `Crash` cuts each log
anywhere behind what is kept: a batch being written may be torn.

| `WorkflowRelay` | Code |
| --- | --- |
| `ready` | `run.reason === 'phase-relay-ready'` of a stored attempt |
| `relay` | `workflowRelays` and the await at which its operation stands |
| `hops`, `fate` | history: transfers by relay, and how the last one ended |

`SetOff` is the listener; `Settled`, `Gathered`, `Prepare`, `Created`, `Finish`,
`ResumeReceiver` and `Send` are the awaits of `relayWorkflow` and
`workflowHandoff`, `Fail` is a rejection at any of them. Every other action is one of
`TaskExecution`, by the user (`ByUser`), the workflow (`Workflow`) or a crash
(`Reboot`).

| `ExecutionAuthority` | Code |
| --- | --- |
| `grant`, `run`, `permit`, `human` | the rows of `execution_delegations`, `execution_runs`, `execution_actions`, `execution_human_requests` |
| `accepted` | the assignment is accepted and not invalidated |
| `overdue` | whose `expiresAt` or maximal duration has passed |

Commands are named as in the code. `Commit` is the transaction around each, with
the withdrawal (`Lapse`, `Suspend`, `Retire`, `Withdraw`) in the order of
`invalidateExecution`; `Restart`, `Restore`, `ExpireQualifications` and
`LoseAssignment` are transactions without a command of the employee.

| `EmployeeRuntime` | Code |
| --- | --- |
| `host` | the interval of a host and the action its guard is at (`state`, `running`, `tail`) |
| `binding`, `journal` | `execution.json` of a run, and the evidence file of an action, both durable |
| `directory` | the content of the file an action replaces |
| `late` | commands sent whose answer was given up, and which the service may still execute |
| `times` | history: how often an action took effect |
| `setup` | which parts of the instance a behaviour uses |

`Start`, `Recover`, `PauseBeforeRecovery`, `Inspect`, `ReportFinding`,
`EndRecovery`, `BeginWork`, `FailTurn`, `EndTurn`, `Succeed`, `StopRun` and `Close` are
the awaits of `executeInterval` and `runExecution`; `AskApproval`, `Reserve`, `Note`,
`Clear`, `Issue`, `Dispatch`, `Observe`, `Report` and `Abandon` those of
`ActionGuard.execute`. `Send` is the channel: answered, refused or lost.

`TaskExecution` takes a store as one step: it happens or it does not. That is
what `StorageDomain` shows of a write that is acknowledged (`VisibleIsWritten`,
`ReopenShowsAcknowledged`). For a write that is rejected it is what the comments of
the code promise and `StorageRejected` refutes: memory keeps the old plan, and a
restart may show the new one. `TaskExecution` leaves that restart out.

### Abstractions

* Permission, directory and backend checks are an input `ok` of each slot that
  makes them, and the comparison with the stored workspace baseline an input
  `changed`. Both depend on state anybody may change between two slots, so
  every outcome is possible in every slot.
* Time is the set `expired`, which only grows.
* Operation ids: `Fresh` stands for uuids nobody repeats, the members of `Ops` for
  ids that clients may resend for the same or another request.
* A storage failure of a transaction is a step that changes nothing, or
  `AbortTurn` when a hook was waiting for it. Where the code goes on after it
  (`settleAction`, `interrupt`) it is the input `stored`.
* The session controller asks for an idle conversation before it queues a claim
  (`workflowClaim`, the only caller). The conversation may wake while the slot waits,
  and then asks for access in a slot behind it: `Selecting`.
* A conversation owns one epoch of one attempt, so the owner check of a control
  request is the conversation itself.
* The task definition is the same in every version: what an edit changes for
  execution is that the version is another and unapproved.
* Subagents of an owner are refused by `denial` and keep no state; they are left out.
* A stored record is the set of the writes it carries: `put` starts over,
  `update` adds itself to what it finds. A lost, repeated or misplaced write
  then shows in the contents. A domain has one table and the global slot.
* Only the entries of directories are unsynced: `writeAtomic` syncs the temporary
  file before it renames it, and a directory, once made, is taken to stay.
  Windows, where no directory is synced, is not modelled. Keys are
  path-safe (another key rejects before it touches anything).
* The memory of a `single` unit, set before and rolled back after a failed
  publication, equals the domain's whenever a write starts, because the chain
  lets no two overlap; it has no variable.
* Refusals without a trace are left out in `PlanRevisions` and the organization's
  modules: permissions, membership, visibility, dependencies, policy and a stale
  `expectedRevision` only make an action not happen, and each action may fail to.
* A policy is the revisions of mode and settings and the position of the last move,
  which is what the compared text is made of. Which conversation a plan was made
  in is part of it; what it says beyond its task tree is not.
* A relay's transfer is known by its source conversation: the code keeps the
  handoff's identity in a local variable, and a conversation has one at a time.
  Selections, permissions and instructions copied to the receiver are left out.
* The authority has one assignment. A restore brings back the last copy and ends with
  the invalidation of a restart; an older copy also forgets facts, of which nothing
  here can speak.
* A host's journal is one record for each action and changes whole; a binding that is
  reserved and one that is ready behave alike. After a lost answer the connection
  refuses further commands until it has reconciled, which is one more refusal.
  The native Codex interval is not modelled, native grants and runs of the service are.

## 3. Runs

All runs are exhaustive. `SYMMETRY` permutes conversations, attempts, calls,
actions, goals and operations; every constant that names some of them names all of
them, and no temporal property of a symmetric run is a liveness property. Deadlock
is checked, except in `Plans`, `OrgAuthority` and `OrgRuntime`, where a definition is
refused, every fact recorded, or every grant spent and every run ended.

| Run | Instance | Properties |
| --- | --- | --- |
| `Plans` | all trees of three tasks over two phases with every edge, two-task definitions with repeated and unknown names, all phase-plan candidates of a root and three leaves over three phases; beside it one conversation, two goals, three drafts that share a root or nothing, three operation ids | `KahnIsExact`, `EarliestPhaseCanProgress`, `ProjectionIsLeast`, `PhasePlanIsSerial`; `PlansReopen`, `ModesCountUp`, `ModelPlansWereAssessed`, `ShownWasCommittedOnce`, `PlanHistoryIsFinal` |
| `ExecHandoff` | one attempt at a task or at a sequence of two phases, two conversations, two versions, a call, background jobs, a deadline, two turns and actions | `TypeOK`, `OneExecutor`, `PreparedHandoffIsQuiescent`, `RunningIsCurrentAndApproved`, `NoCallOfAnOldRevision`, `ImplementsLease`, `OwnershipMoves`, `BudgetsNeverRefill` |
| `ExecParallel` | two attempts on two tasks, three conversations, one operation id that any request may carry | `StoredPlanLoads`, `OperationsCommitOnce` |
| `ExecRelay` | an automatic two-phase sequence, relays after each phase or never, of the API backend with calls as evidence or native with an authorization that expires; or two native ones without relays | `StoredPlanLoads`, `RelaysAsAuthorized`, `DueRelayIsUnderWay` |
| `ExecCancelReplan`, `ExecCancelTerminal`, `ExecSequenceStall`, `ExecRelayRecovery` | see Findings | one each, violated |
| `Storage` | one record and the global, in either layout, any document at the start, three writes and losses of power, two beside a legacy file to import, or one with both, under `FairSpec` | `TypeOK`, `InCallOrder`, `ClosedIsDrained`, `VisibleIsWritten`, `ReopenShowsAcknowledged`, `WritesSettle`, `CloseEnds` |
| `StorageRejected` | see Findings | `RejectedLeavesNoTrace`, violated |
| `OrgAuthority` | an API grant of two actions and a native one of one, two runs, two actions, a request, a deadline | `TypeOK`, `StoreReopens`, `LivePermitsHaveAuthority`, `EndedRunsAreSettled`, `NothingRunsPastAQuestion`, `FactsAreFinal` |
| `OrgRuntime` | five setups of one or two hosts: two actions, an action that needs approval, deadlines, late commands, two hosts, under `FairSpec` | `RuntimeTypeOK`, `EffectsAreMarked`, `EndedRunsExplainEffects`, `KeepsLedger`, `IntervalsEnd` |

What they say:

* `KahnIsExact`: the validator's count refuses exactly what has no order.
  `EarliestPhaseCanProgress`: in an accepted plan some task of the earliest
  unfinished phase is ready, whatever order facts arrive in, so no accepted plan
  is stuck by its own rules. `ProjectionIsLeast`: the loop ends in the least
  fixpoint. `PhasePlanIsSerial`: a phase plan offers one leaf at a time, which
  phase sequences rely on.
* `PlansReopen`: whatever is saved and proposed, the service's own checks at its
  start pass, so no order of commits locks the user out of all plans.
  `ModesCountUp`: a revision names one choice of mode, also when its flush failed
  and was retried. `ModelPlansWereAssessed`: a stored proposal always comes with
  the persisted assessment that allowed it, so no crash leaves a plan nobody can
  explain. `ShownWasCommittedOnce`: a snapshot in a log shows a version that is stored,
  once, however often a proposal is retried. `PlanHistoryIsFinal`: versions are only
  appended, and only the current one is ever approved.
* `OneExecutor`: only the current owner has effects in flight; no former owner
  and no receiver has. `ImplementsLease` says the same of the whole life of an
  attempt, through an abstract machine of eight actions.
* `PreparedHandoffIsQuiescent`: between the two halves of a transfer nobody works
  on the attempt and its plan stays. `OwnershipMoves`: the owner changes only along a
  prepared transfer, by one epoch, out of a paused attempt.
* `BudgetsNeverRefill`: turns, actions and finished phases only accumulate.
* `RunningIsCurrentAndApproved`, `NoCallOfAnOldRevision`: work runs under the exact
  approved version, and an edit waits for calls of attempts already stopped.
* `StoredPlanLoads`: every committed state passes `storedPlanSchema`, or the
  plan would be lost at the next start.
* `OperationsCommitOnce`: one record per operation id over three lists.
* `RelaysAsAuthorized`: a sequence changes its conversation no more often than its
  authorization says for the phases it finished, over failures, restarts and
  resumes. `DueRelayIsUnderWay`: a relay that is due is worked on, or it failed,
  the process died or the user stepped in; none is forgotten because the idle
  status came before the pause was stored.
* `InCallOrder`: what a domain reads is what the acknowledged calls make of it in the
  order they were made, with rejected ones between them. `ClosedIsDrained`: a name
  is free only when every accepted write was answered. `VisibleIsWritten`: no write
  is seen before its document says the same and, unless it is the removal of one, is
  synced.
  `ReopenShowsAcknowledged`: an opening shows every record as it was last read, up to
  writes that were rejected or cut off by a crash. There are three exceptions, which the
  property names. The table has been emptied and a legacy file is imported (again:
  nothing but the presence of documents says that it was). The removal of a record was
  not synced before power was lost (`rm` is followed by no sync of the directory,
  unlike every other change). And a record may go as it was imported: an opening fails
  between its rename and its sync, the next one finds the document and shows it, a
  write of the other slot is synced, power is lost, and the document of that slot then
  suppresses the import.
* `WritesSettle`, `CloseEnds`: neither a failing write nor a backend closed first
  holds up the writes behind it, or close.
* `StoreReopens`: the database passes the validation it is opened with.
  `LivePermitsHaveAuthority`: after any transaction a usable permit has an accepted
  assignment, an active grant and a run at work behind it. `EndedRunsAreSettled`,
  `NothingRunsPastAQuestion`: no run ends with an action unexplained, or works past
  a question. `FactsAreFinal`: settlements, decisions, endings and charges stay.
* `EffectsAreMarked`: no effect without a durable mark before it. `KeepsLedger`: hosts
  and service together implement the ledger: paid before performed, performed
  at most once, never concluded `not-issued` after it happened, never performed after
  it was concluded. `EndedRunsExplainEffects` says it of whole runs, whichever host
  recovered them. `IntervalsEnd`: an interval never waits for ever.

`docs/organization-execution.md:58` has a restart of the service pause every run
that has not ended. The code asks only whether some run is at work
(`org/index.ts:97`) and leaves API runs that wait for an answer waiting
(`org/execution.ts:224`). The model follows the code; no run states the sentence.

### Bounds and why they are enough

`MaxRevisions` (1 or 2): an edit affects an attempt by making its version old
and unapproved, which one edit does. `MaxActions`, `MaxTurns` (1 or 2): with two,
the counters are seen below, at and, were a check missing, above their limits, and a
settled action stands beside a pending one. One call
is in flight at a time; the theorems are about any number of them. Two attempts show every conflict
over a task, a third conversation can be a receiver while two own. Two phases show the
first, the last and the advance; `RelayEvery` is absent or one, so that the
relay falls on an advance. `Timed` names the attempts whose duration may pass,
`Background` the conversations whose tools may leave jobs, `Automatic` and
`Native` which authorizations and backends are offered. No transfer chain is
bounded except by the number of conversations: a receiver has to be unused.

The constraint `InScope` of `MCWorkflowRelay` bounds `ExecRelay`, not the
specification: a lone attempt with or without relays, of the API backend with its
calls or native with its deadline, or two native attempts without relays. TLC
leaves out relays beside a second attempt, which meets them only over the
conversations, as `ExecParallel` shows of transfers; the theorems about `RelaySpec` do
not.

`MaxEvents`, `MaxReceipts`, `MaxSettings` and the constraint `MCParts` of `MCPlans` bound
what happens together: two choices of mode around one assessment, two goals, a
change of settings and a move around one assessment, two snapshots of a
proposal, or three saves and approvals. Three are what an approval of an outdated
version takes, two what a retry or a second goal takes. Conversations share only
the identities of plans and tasks, and the user's own saves stand for those of
another conversation.

`MaxOverdue` (1): each deadline withdraws on its own. Two actions exhaust the budget
of the API grant and exceed that of the native one. In `OrgRuntime` the setups
split what interacts: two actions follow one another in the serial guard, one
suffices for approvals, deadlines, a second host and late commands.

`MaxWrites` (3, 2 or 1): three writes are a rejected one between two others, or a
deletion between a put and an update; a crash, close or loss of power may
follow any of them and openings are not bounded. One write is what the import
needs to lose a record to power: it is synced where the import was not. One key beside the global slot
is enough for the chain, which is one for the whole domain: the two are the
neighbours a whole document carries along, and lie in two directories otherwise.

`Storage` and `OrgRuntime` assume fairness. `FairSpec` of `StorageDomain` asks that the
running write goes on (`ChainStep`: a file operation answers, with a result or an
error, and a settled promise runs what awaits it) and that a drained close is
finished (`Release`). `FairSpec` of `EmployeeRuntime` asks that a host goes on
(`HostStep`: its own awaits settle, and every request of the channel has a timeout)
and that an interval ends by its timer or its recheck (`FailTurn`). Nothing is
assumed of callers, openings, crashes, the write-back of the system, models,
people or answers. Every other property is a safety property and holds however the
parts are scheduled.

## 4. Findings

Each is a statement of the repository's own text that the code does not keep; a
run shows the shortest way there.

1. `ExecCancelReplan`. The state table of `docs/personal-workflow.md:47` offers
   re-planning for a cancelled task. An attempt cancelled with a prepared transfer or
   an unknown action blocks every edit (`pw/index.ts:477`), and no operation
   accepts the attempt any more, so the block is permanent.
2. `ExecCancelTerminal`. `pw/execution.ts:266` calls cancelled a terminal state.
   When the process dies with an action of a cancelled attempt pending, `recover()`
   stores `needs_reconciliation`, and the attempt can be resumed.
3. `ExecSequenceStall`. `docs/personal-workflow.md:133` keeps restart recovery on
   the explicit resume path. Completion of a phase and the advance are two commits; a
   crash or an abort between them leaves the sequence `completed` in its middle,
   which neither `resume` nor `stop` nor a turn accepts.
4. `StorageRejected`. `json/per-record-unit.ts:9` has a failed write change neither file
   nor memory, `domain/domain.ts:5` promises that reads and medium do not diverge.
   `writeAtomic` also rejects when the sync of the directory fails, after the rename: the
   next opening shows the rejected write. The `single` layout shares the function, so
   a transition of a plan that its caller saw fail may be there after a restart.
5. `ExecRelayRecovery`. `packages/workspace/personal-workflow/README.md:51` has a failed
   transfer and a restart require explicit recovery. The reason
   `phase-relay-ready` outlives both, and the listener (`controller/index.ts:172`) asks
   for nothing else: any turn of the paused conversation that ends, one whose
   input the workflow refused included, sets the relay off again and resumes the
   attempt in a receiver.

## 5. Proofs

| Theorem | States | Argument |
| --- | --- | --- |
| `TaskLease_proofs!LeaseInvariant`, `LeaseIsExclusive`, `LeaseBindsOnce` | the lease is exclusive and binds once | `IInv` |
| `TaskExecution_proofs!TypeCorrect`, `RunsAreApproved` | `TypeOK`, `RunningIsCurrentAndApproved` | `Typed`, `Licensed` |
| `TaskExecution_proofs!BudgetsAreSpent`, `OperationsAreCommittedOnce` | `BudgetsNeverRefill`, `OperationsCommitOnce` | `Typed`, and what a change of an attempt may be |
| `TaskExecutionLease_proofs!ExecutionImplementsLease` | `ImplementsLease` | `Handed`, step by step |
| `TaskExecutionLease_proofs!OwnersAct` | `OneExecutor` | from the refinement and `LeaseInvariant` |
| `TaskExecutionLease_proofs!CallsAreCurrent`, `TransfersFindNothingUnderWay`, `OwnershipIsHandedOver` | `NoCallOfAnOldRevision`, `PreparedHandoffIsQuiescent`, `OwnershipMoves` | `Consistent` |
| `TaskExecutionLease_proofs!StoredPlansLoad` | `StoredPlanLoads` | `Loadable` |
| `WorkflowRelay_proofs!RelayedAttemptsAreKept` | `StoredPlanLoads`, `OneExecutor` and five more of `TaskExecution`, of `RelaySpec` | `RelayKeepsToService`: `RelaySpec => Spec`, step by step |
| `WorkflowRelay_proofs!DueRelaysAreAttended`, `RelaysAreEarned` | `DueRelayIsUnderWay`, `RelaysAsAuthorized` | `Attended`, `Authorized` |
| `PlanAdmission_proofs!CyclesAreExact`, `ProjectionsAreLeast` | `KahnIsExact`, `ProjectionIsLeast` | the loops, round by round |
| `PlanAdmission_proofs!ApprovedPlansProgress`, `PhasePlansAreSerial` | `EarliestPhaseCanProgress`, `PhasePlanIsSerial` | `Admitted`, and the unfinished task of least rank |
| `PlanRevisions_proofs!PlansCanReopen`, `ChoicesCountUp`, `ModelPlansAreJustified`, `ShownIsCommittedOnce`, `PlanHistoriesAreFinal` | `PlansReopen`, `ModesCountUp`, `ModelPlansWereAssessed`, `ShownWasCommittedOnce`, `PlanHistoryIsFinal` | `Versioned` |
| `StorageDomain_proofs!StorageTypes`, `CallsKeepOrder`, `CloseDrains`, `WrittenFirst` | `TypeOK`, `InCallOrder`, `ClosedIsDrained`, `VisibleIsWritten` | `IInv` |
| `StorageDomain_proofs!ReopeningRecalls` | `ReopenShowsAcknowledged` | `IInv` and `Recalled` |
| `EmployeeRuntime_proofs!AuthorityTypes`, `StoreAlwaysReopens`, `PermitsHaveAuthority`, `EndedRunsSettled`, `QuestionsStopRuns`, `FactsStayFinal` | the six properties of `OrgAuthority` | `IInv` |
| `EmployeeRuntime_proofs!RuntimeTypes`, `EffectsLeaveMarks`, `EndedRunsExplain`, `RuntimeKeepsLedger` | `RuntimeTypeOK`, `EffectsAreMarked`, `EndedRunsExplainEffects`, `KeepsLedger` | `RuntimeIInv` |

So every safety property and every refinement that a passing run checks is a theorem
for every plan and definition, every number of conversations, attempts, calls, goals,
operations, keys, writes, hosts, grants, runs, actions and requests, and every bound,
under the named assumptions of each module, which TLC evaluates for its instances:

* `TaskExecution`: `ConstantsAssumption` (bounds are positive, `Fresh` is no client id,
  `NoRun` no attempt) and `PlanAssumption` (tasks and phases are sequences, and the
  plan is one that `definitionSchema` accepts; nothing else is ever approved).
* `PlanAdmission`: `CandidatesAssumption` (the tasks and phases of a submitted definition
  are arrays, and so are the dependencies of a task, which are hence finite).
* `StorageDomain`: `StorageAssumption` (documents, records and names are apart).
* `ExecutionAuthority` and `EmployeeRuntime`: `None` is no id, actions are finitely
  many, budgets are numbers, and the sets of the instance are what they are used as.

The invariants, and why they are needed:

* `IInv` of the lease. `OnlyHoldersAct` is not inductive: accepting an offer
  would make an acting former owner illegal unless the holder is known to be at
  rest while an offer is open, and two leases could share a conversation. So
  `IInv` adds `OffersAreQuiet` (an offered lease is suspended, and nobody bound to it
  acts) and `BoundToOne`.
* `Typed` is `TypeOK` with `CallsAreKnown`: settling a call writes to the attempt the
  call names, which therefore must exist. With it every transaction that changes a
  stored attempt is one of ten ways to change a record (`Changes`: it is marked,
  resumed, interrupted, prepares or finishes a transfer, counts a step, completes its
  task, advances, admits a call or settles one). What follows is proved of those
  ways, not of every transaction again: budgets, operations, calls and transfers.
* `Licensed` adds `RunningIsCurrentAndApproved` to `Typed`. It is inductive because
  an edit refuses while anything runs and every path to running checks the
  version in the same slot; each of the two without the other would break it.
* `Handed` adds what ties records to the lease: owners and epochs agree with the
  transfers (`RunsHanded`), and a turn outlives its calls (`CallsInTurn`). The
  second is why an idle conversation is one without calls in flight, which is all
  `prepareHandoff` asks. Each action is then shown to be one lease step or a
  stutter.
* `Consistent`. An edit looks at the stored attempts only, so that it leaves no call of
  an old revision needs every call in flight to be open on record there
  (`CallsAreCarried`). The settlement of one call keeps that for the others because
  an attempt has one call under an identity (`CallsAreOne`). `TransfersRest` is what
  `prepareHandoff` checked and nothing undoes until `finishHandoff`.
* `Loadable` restates the validation of `storedPlanSchema` so that it is inductive:
  the sums over the tasks of a sequence are accounted for (`Accounted`), transfers
  name their places (`Recorded`), completion goes with its evidence (`Evidenced`), the
  completed tasks lead the range (`Sequenced`), a range is what the other attempts
  leave of its phases (`Ranged`), and no task of a revision is owned twice. The last
  two speak of several attempts: a step changes one of them, and must leave it with
  its tasks and no less achieved (`Follows`).
* The relay is proved by simulation: its actions are conjunctions of an action of
  the service and what happens to the relay, and `Prepare`, `Finish` and
  `ResumeReceiver` supply the receiver, the handoff and the operation that the
  service leaves open. So the theorems about `TaskExecution` hold with relays
  (`Served`), and two more invariants stand on them. `Attended`: a message to go on is
  only sent for a former owner, so a relay that is due in the present owner is not
  taken for one that has arrived. `Authorized`: the phases an attempt completed earn
  the transfers relays made of it and the one that is pending (`Earns`). A relay under
  way must not be counted twice, nor a second one be pending beside it, which is
  what `ReadyIsPaused`, `RelaysOfOwners` and `PreparesOnce` are for.
* `PlanAdmission`. The loops of the code are recursive functions, to which the library's
  induction theorems cannot be applied here. `Induction` derives induction over the
  numbers from the well-foundedness of intervals, and `Recursion` that such a function
  exists and takes the values its equation says. `Drained` is the invariant of
  Kahn's queue: after k steps a node is queued, once, exactly when the dependencies it
  waits for have been dequeued. Its end ranks the nodes when all were counted; else
  those that were not wait for each other, and no rank fits. The projection's rounds
  only add, so they end within as many rounds as tasks, in a set that is closed and
  that every closed set contains. Progress takes the least-ranked unfinished task of
  the earliest open phase: what it waits for lies in no later phase, hence is complete.
* `Versioned` of the plan service adds to the state properties what an operation
  carries over its awaits: the proposal about to be committed is assessed in the
  *persisted* log (`JobIsAssessed`), which no crash shortens, and its operation is
  unused (`JobIsNew`) because the queue admits nobody in between; receipts and
  snapshots to come name versions there are (`VersionsExist`).
* `IInv` of the storage adds to the three invariants that the chain is the unanswered
  end of the requests (`ChainIsQueue`), that only a domain in use has one
  (`ChainInUse`), that nothing stored foresees a request (`NothingForeseen`), and that
  what memory shows, or the first write is about to show, lies in its document
  (`Shown`). Without the last, a write applied after its publication could show what the
  document does not say.
* `Recalled`: the document, and what a loss of power leaves of it, say what was read
  last, or a named excuse holds, or the running write has just replaced it. The two
  documents need a relation of their own (`DiskFollows`): an opening shows the one, a
  later loss of power brings back the other. The proof showed that the third
  exception of the property is needed: it did not go through for the import of a legacy
  file under losses of power, and TLC found the behaviour in an instance with both,
  which `Storage` has since.
* `IInv` of the authority is `Sound` of the records beside `LivePermitsHaveAuthority`.
  A command changes the records, then the withdrawal reads them; the records
  between the two are `Sound` but not yet without dead permits. So the proof has two
  halves: each command makes sound records of sound ones (`CommitSound` cites
  these), and the withdrawal makes of sound records a state where every
  live permit has its authority. `Sound` adds to the properties that records name each
  other (`Linked`), and that a grant was charged once for each permit (`Accounted`),
  which needs the finite-set theorems on cardinality.
* `RuntimeIInv` sets beside it that one host has an action in hand or evidence of it
  (`OneHost`), that its evidence is where the stage of its guard says (`InHand`), that
  an effect is single and marked, and that whatever is about to be reported, by a
  host or by a command whose answer was given up, agrees with what happened
  (`ClaimsHold`). Steps are of three kinds: hosts have nothing in hand or stay as they
  are (`Releases`), one takes an action on (`Takes`) or works on it (`Works`); in each
  the service concludes only what somebody was entitled to claim. The ledger is
  then a mapping of steps.

Only model-checked: the three liveness properties `WritesSettle`, `CloseEnds` and
`IntervalsEnd`, and that no run deadlocks where that is checked. The provers handle
neither `ENABLED` nor what fairness promises of it. No module uses a RECURSIVE
operator; recursion is written with recursive functions, so that every module can be
proved about.

## 6. Not modelled, and the plan

In this order, the next steps:

1. **Proofs**: the parts of the liveness properties that are safety, such as a chain
   that only becomes shorter while a close waits, and a measure that every fair step of
   a host lowers.
2. **The native interval** of `host/`: a Codex thread as one paid turn, with its own
   journal, its attachments and its cancellation.
3. **Assignment and delivery**: offers, acceptance and returns under competing
   versions; submission and review with the same withdrawal as the execution.
4. **Work graph and planning** of the organization: each command is one transaction,
   so what matters is the order of versions between planners.
5. **Sessions**: locks, forks and compaction of logs over several processes.

Not stated as a run, but seen while modelling: an operation id is an identity
within one plan for `save` and `approve` (`pw/types.ts:13`) and within a conversation for
snapshots (`docs/personal-workflow.md:27`), so an id reused for another plan commits
there, and its snapshot conflicts ever after; and a message may arrive between the
check of the live goal (`pw/index.ts:463`) and the commit of the proposal.

Left out for good: hashing and git observation (I/O; their outcome is an input),
formatting (`exportPlan`), the UI, LLM adapters, tool bodies, the sandbox, the
installer and the network transport: they keep no state of the workflow.
