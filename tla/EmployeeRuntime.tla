--------------------------- MODULE EmployeeRuntime ---------------------------
(* An employee's hosts executing a run of the organization: the serial guard  *)
(* of paid actions, its durable journal, intervals that start, end, crash and *)
(* resume, and commands whose answers are lost.                               *)
EXTENDS ExecutionAuthority

CONSTANTS
  Hosts,     \* the machines the employee is signed in on
  Writes,    \* the contents that replace a file of the task directory
  Setups     \* what of all this a behaviour uses

ASSUME WritesAssumption == Writes \subseteq Contents
ASSUME NoRunAssumption == None \notin Runs \cup Actions
ASSUME SetupsAssumption ==
  Setups \subseteq [hosts : SUBSET Hosts, actions : SUBSET Actions, requests : SUBSET Requests,
                    contents : SUBSET Contents,
                    approval : BOOLEAN,     \* whether a write asks its employee first
                    deadlines : BOOLEAN,    \* whether deadlines pass
                    late : Nat]             \* bound: commands of lost answers yet to arrive

VARIABLES
  setup,      \* one of Setups, for good
  host,       \* what each host is doing
  binding,    \* its durable record of each run
  journal,    \* its durable evidence of each action
  directory,  \* the content of the file in its task directory
  late,       \* commands that may still reach the service
  times       \* how often each action took effect in the world

hostVars == <<setup, host, binding, journal, directory, times>>
vars == <<authorityVars, hostVars, late>>

Idle == [at |-> "idle", run |-> None, act |-> None, resumed |-> FALSE, todo |-> {}]
Guarded == {"charged", "noted", "cleared", "issued", "acted", "reporting"}
Evidence == {"none", "reserved", "issued", "unknown"} \cup Settled
Commands == [kind : {"start", "resume", "pause", "succeed", "ask", "reserve", "settle"},
             run : Runs, id : Actions \cup Requests \cup {None},
             about : Contents \cup Settled \cup {"unknown", None}, approval : Requests \cup {None}]

Simple(kind, r) == [kind |-> kind, run |-> r, id |-> None, about |-> None, approval |-> None]
Settle(r, a, outcome) == [Simple("settle", r) EXCEPT !.id = a, !.about = outcome]

RuntimeInit ==
  /\ Init
  /\ setup \in Setups
  /\ host = [h \in Hosts |-> Idle]
  /\ binding = [h \in Hosts |-> [r \in Runs |-> "ready"]]
  /\ journal = [h \in Hosts |-> [a \in Actions |-> "none"]]
  /\ directory = [h \in Hosts |-> None]
  /\ late = {}
  /\ times = [a \in Actions |-> 0]

(****************************************************************************)
(* One command at a time goes from a host to the service: it is answered,    *)
(* refused or never arrives, or its answer is lost and the service may still  *)
(* execute it at any later time.                                             *)
(****************************************************************************)
Execute(c) ==
  \/ c.kind = "start"   /\ TransitionRun(c.run, "running", None)
  \/ c.kind = "resume"  /\ ResumeRun(c.run)
  \/ c.kind = "pause"   /\ TransitionRun(c.run, "paused", None)
  \/ c.kind = "succeed" /\ TransitionRun(c.run, "succeeded", None)
  \/ c.kind = "ask"     /\ RequestHuman(c.run, c.id, c.about)
  \/ c.kind = "reserve" /\ ReserveAction(c.run, c.id, c.about, c.approval)
  \/ c.kind = "settle"  /\ SettleAction(c.id, c.about)

\* the host goes on as answered, or as failed when it has no answer
Send(h, c, answered, failed) ==
  \/ Execute(c) /\ host' = [host EXCEPT ![h] = answered] /\ UNCHANGED late
  \/ host' = [host EXCEPT ![h] = failed] /\ UNCHANGED <<authorityVars, late>>
  \/ /\ Cardinality(late) < setup.late
     /\ late' = late \cup {c}
     /\ host' = [host EXCEPT ![h] = failed]
     /\ UNCHANGED authorityVars

Arrive == \E c \in late : Execute(c) /\ late' = late \ {c} /\ UNCHANGED hostVars
Drop == \E c \in late : late' = late \ {c} /\ UNCHANGED <<authorityVars, hostVars>>

Eligible(r) == run[r].state \in Open /\ Qualified(run[r].grant) /\ MayDispatch(r)

\* the next step of host h, the rest of its state unchanged
Go(h, at) == host' = [host EXCEPT ![h].at = at]
At(h, at) == host[h].at = at

(****************************************************************************)
(* Intervals (executeInterval, reconcile, runExecution).                     *)
(****************************************************************************)
Start(h, r) ==
  /\ At(h, "idle") /\ h \in setup.hosts
  /\ binding[h][r] = "ready"
  /\ run[r].state = "prepared" /\ Eligible(r)
  /\ host' = [host EXCEPT ![h] = [Idle EXCEPT !.at = "starting", !.run = r]]
  /\ binding' = [binding EXCEPT ![h][r] = "executing"]
  /\ UNCHANGED <<authorityVars, setup, journal, directory, late, times>>

\* the employee reviews the directory, then continues or only reports
Recover(h, r, continue) ==
  /\ At(h, "idle")
  /\ binding[h][r] \in {"executing", "stopped"}
  /\ continue => /\ Eligible(r)
                 /\ run[r].state \in {"running", "paused", "waiting-human"}
                 /\ grant[run[r].grant].used < Budget[run[r].grant]
  /\ host' = [host EXCEPT ![h] = [Idle EXCEPT !.at = "recovering", !.run = r, !.resumed = continue]]
  /\ UNCHANGED <<authorityVars, setup, binding, journal, directory, late, times>>

PauseBeforeRecovery(h) ==
  /\ At(h, "recovering")
  /\ UNCHANGED <<setup, binding, journal, directory, times>>
  /\ IF run[host[h].run].state = "running"
     THEN Send(h, Simple("pause", host[h].run), [host[h] EXCEPT !.at = "inspecting"], Idle)
     ELSE Go(h, "inspecting") /\ UNCHANGED <<authorityVars, late>>

\* (as if an action without a result had not happened)
FindingUndone(h, a) ==
  IF journal[h][a] \in {"succeeded", "failed"} THEN journal[h][a]
  ELSE IF journal[h][a] = "none" THEN "unknown" ELSE "not-issued"

\* what the journal and the file tell about an action the service has open
Finding(h, a) ==
  CASE journal[h][a] = "none" -> "unknown"
    [] journal[h][a] \in {"reserved", "not-issued"} -> "not-issued"
    [] journal[h][a] \in {"issued", "unknown", "succeeded", "failed"} ->
         IF permit[a].request \in Writes
         THEN IF directory[h] = permit[a].request THEN "succeeded" ELSE "unknown"
         ELSE IF journal[h][a] \in Settled THEN journal[h][a] ELSE "unknown"

OpenActions(r) == {a \in PermitsOf(r) : permit[a].state \in Unsettled}

Inspect(h) ==
  /\ At(h, "inspecting")
  /\ LET r == host[h].run
         open == OpenActions(r)
         known == {a \in open : Finding(h, a) # "unknown"}
         resumed == host[h].resumed /\ known = open
     IN  host' = [host EXCEPT ![h] =
           [host[h] EXCEPT !.at = "settling", !.todo = {<<a, Finding(h, a)>> : a \in known},
                           !.resumed = resumed]]
  /\ UNCHANGED <<authorityVars, setup, binding, journal, directory, late, times>>

ReportFinding(h) ==
  /\ At(h, "settling")
  /\ \E t \in host[h].todo :
       Send(h, Settle(host[h].run, t[1], t[2]), [host[h] EXCEPT !.todo = @ \ {t}], Idle)
  /\ UNCHANGED <<setup, binding, journal, directory, times>>

EndRecovery(h) ==
  /\ At(h, "settling")
  /\ host[h].todo = {}
  /\ IF host[h].resumed
     THEN /\ Go(h, "starting")
          /\ binding' = [binding EXCEPT ![h][host[h].run] = "executing"]
     ELSE host' = [host EXCEPT ![h] = Idle] /\ UNCHANGED binding
  /\ UNCHANGED <<authorityVars, setup, journal, directory, late, times>>

BeginWork(h) ==
  /\ At(h, "starting")
  /\ LET kind == IF host[h].resumed THEN "resume" ELSE "start"
     IN  Send(h, Simple(kind, host[h].run), [host[h] EXCEPT !.at = "working"], [host[h] EXCEPT !.at = "stopping"])
  /\ UNCHANGED <<setup, binding, journal, directory, times>>

\* a question of the model; the turn goes on until it needs the service again
Ask(h, q) ==
  /\ At(h, "working")
  /\ human[q].state = "absent" /\ \A c \in late : c.id # q
  /\ run[host[h].run].state = "running" /\ Eligible(host[h].run)
  /\ Send(h, [Simple("ask", host[h].run) EXCEPT !.id = q], host[h], host[h])
  /\ UNCHANGED <<setup, binding, journal, directory, times>>

\* the model fails, a limit is reached, or the employee aborts the interval
FailTurn(h) ==
  /\ At(h, "working")
  /\ Go(h, "halted")
  /\ UNCHANGED <<authorityVars, setup, binding, journal, directory, late, times>>

\* (as if the interval stayed until it has its answer)
EndTurnAnswered(h) ==
  /\ host[h].at \in {"working", "halted"}
  /\ run[host[h].run].state # "waiting-human"
  /\ Go(h, IF At(h, "working") THEN "finishing" ELSE "stopping")
  /\ UNCHANGED <<authorityVars, setup, binding, journal, directory, late, times>>

\* an interval that waits for an answer leaves its run as it is
EndTurn(h) ==
  /\ host[h].at \in {"working", "halted"}
  /\ Go(h, IF run[host[h].run].state = "waiting-human" THEN "closing"
           ELSE IF At(h, "working") THEN "finishing" ELSE "stopping")
  /\ UNCHANGED <<authorityVars, setup, binding, journal, directory, late, times>>

Succeed(h) ==
  /\ At(h, "finishing")
  /\ Send(h, Simple("succeed", host[h].run), [host[h] EXCEPT !.at = "closing"], [host[h] EXCEPT !.at = "stopping"])
  /\ UNCHANGED <<setup, binding, journal, directory, times>>

StopRun(h) ==
  /\ At(h, "stopping")
  /\ LET closing == [host[h] EXCEPT !.at = "closing"]
     IN  Send(h, Simple("pause", host[h].run), closing, closing)
  /\ UNCHANGED <<setup, binding, journal, directory, times>>

Close(h) ==
  /\ At(h, "closing")
  /\ host' = [host EXCEPT ![h] = Idle]
  /\ binding' = [binding EXCEPT ![h][host[h].run] = "stopped"]
  /\ UNCHANGED <<authorityVars, setup, journal, directory, late, times>>

\* the process ends; what it wrote and what it did to the world stays
Crash(h) ==
  /\ ~At(h, "idle")
  /\ host' = [host EXCEPT ![h] = Idle]
  /\ UNCHANGED <<authorityVars, setup, binding, journal, directory, late, times>>

(****************************************************************************)
(* One paid action (ActionGuard.perform).  A failure halts the guard.        *)
(****************************************************************************)
Fresh(a) ==
  /\ permit[a].state = "absent"
  /\ \A c \in late : c.id # a

\* a write that needs an approval and has none asks for it and waits
AskApproval(h, q, content) ==
  /\ At(h, "working")
  /\ setup.approval /\ content \in Writes
  /\ \A p \in Requests : ~ApprovalCovers(p, host[h].run, content)
  /\ human[q].state = "absent" /\ \A c \in late : c.id # q
  /\ run[host[h].run].state = "running" /\ Eligible(host[h].run)
  /\ LET halted == [host[h] EXCEPT !.at = "halted"]
     IN  Send(h, [Simple("ask", host[h].run) EXCEPT !.id = q, !.about = content], halted, halted)
  /\ UNCHANGED <<setup, binding, journal, directory, times>>

Reserve(h, a, content, approval) ==
  /\ At(h, "working")
  /\ Fresh(a)
  /\ run[host[h].run].state = "running" /\ Eligible(host[h].run)
  /\ IF setup.approval /\ content \in Writes
     THEN approval # None /\ ApprovalCovers(approval, host[h].run, content)
     ELSE approval = None
  /\ Send(h, [Simple("reserve", host[h].run) EXCEPT !.id = a, !.about = content, !.approval = approval],
          [host[h] EXCEPT !.at = "charged", !.act = a], [host[h] EXCEPT !.at = "halted"])
  /\ UNCHANGED <<setup, binding, journal, directory, times>>

Halted(h) == [host[h] EXCEPT !.at = "halted", !.act = None]

Record(h, evidence) == journal' = [journal EXCEPT ![h][host[h].act] = evidence]

\* (as if a guard that gives up kept its action)
NoteKept(h) ==
  /\ At(h, "charged")
  /\ IF permit[host[h].act].state = "reserved"
     THEN Record(h, "reserved") /\ Go(h, "noted")
     ELSE Go(h, "halted") /\ UNCHANGED journal
  /\ UNCHANGED <<authorityVars, setup, binding, directory, late, times>>

\* the permit as the read after the command shows it
Note(h) ==
  /\ At(h, "charged")
  /\ IF permit[host[h].act].state = "reserved"
     THEN Record(h, "reserved") /\ Go(h, "noted")
     ELSE host' = [host EXCEPT ![h] = Halted(h)] /\ UNCHANGED journal
  /\ UNCHANGED <<authorityVars, setup, binding, directory, late, times>>

Clear(h) ==
  /\ At(h, "noted")
  /\ run[host[h].run].state = "running" /\ Eligible(host[h].run)
  /\ permit[host[h].act].state = "reserved"
  /\ Go(h, "cleared")
  /\ UNCHANGED <<authorityVars, setup, binding, journal, directory, late, times>>

\* (as if the mark were written with the result)
IssueUnmarked(h) ==
  /\ At(h, "cleared")
  /\ Go(h, "issued")
  /\ UNCHANGED <<authorityVars, setup, binding, journal, directory, late, times>>

Issue(h) ==
  /\ At(h, "cleared")
  /\ Record(h, "issued")
  /\ Go(h, "issued")
  /\ UNCHANGED <<authorityVars, setup, binding, directory, late, times>>

\* any check or wait up to the mark "issued" may fail; nothing was done yet
Abandon(h) ==
  /\ host[h].at \in {"noted", "cleared", "issued"}
  /\ Record(h, "not-issued")
  /\ Go(h, "reporting")
  /\ UNCHANGED <<authorityVars, setup, binding, directory, late, times>>

Dispatch(h) ==
  /\ At(h, "issued")
  /\ times' = [times EXCEPT ![host[h].act] = @ + 1]
  /\ LET content == permit[host[h].act].request
     IN  directory' = IF content \in Writes THEN [directory EXCEPT ![h] = content] ELSE directory
  /\ Go(h, "acted")
  /\ UNCHANGED <<authorityVars, setup, binding, journal, late>>

\* (as if a failed consumer had done nothing)
ObserveThrown(h, outcome) ==
  /\ At(h, "acted") \/ (At(h, "issued") /\ outcome = "unknown")
  /\ Record(h, IF outcome = "unknown" THEN "not-issued" ELSE outcome)
  /\ Go(h, "reporting")
  /\ UNCHANGED <<authorityVars, setup, binding, directory, late, times>>

\* what the consumer returned, or that it failed, with its effect or before it
Observe(h, outcome) ==
  /\ At(h, "acted") \/ (At(h, "issued") /\ outcome = "unknown")
  /\ Record(h, outcome)
  /\ Go(h, "reporting")
  /\ UNCHANGED <<authorityVars, setup, binding, directory, late, times>>

\* after its own evidence the guard reports; only an observed outcome lets it go on
Report(h) ==
  /\ At(h, "reporting")
  /\ LET a == host[h].act
     IN  Send(h, Settle(host[h].run, a, journal[h][a]),
              IF journal[h][a] \in {"succeeded", "failed"} THEN [Halted(h) EXCEPT !.at = "working"] ELSE Halted(h),
              Halted(h))
  /\ UNCHANGED <<setup, binding, journal, directory, times>>

\* the evidence cannot be written: the action stays as it is
LoseEvidence(h) ==
  /\ host[h].at \in Guarded
  /\ host' = [host EXCEPT ![h] = Halted(h)]
  /\ UNCHANGED <<authorityVars, setup, binding, journal, directory, late, times>>

(****************************************************************************)
EmployeeEdits(h) ==
  /\ \E content \in (Writes \cap setup.contents) \cup {None} : directory' = [directory EXCEPT ![h] = content]
  /\ UNCHANGED <<authorityVars, setup, host, binding, journal, late, times>>

\* the employee at the client, and those who answer
Decide ==
  /\ \/ \E g \in Grants \ Native : GrantExecution(g) \/ RevokeExecution(g)
     \/ \E r \in Runs, g \in Grants : CreateRun(r, g)
     \/ \E r \in Runs, state \in {"paused", "cancelled"} : TransitionRun(r, state, None)
     \/ \E q \in Requests, decision \in Decided : Answer(q, decision)
  /\ UNCHANGED <<hostVars, late>>

Surroundings ==
  /\ LoseAssignment \/ Restart \/ ExpireQualifications \/ (PassDeadline /\ setup.deadlines)
  /\ UNCHANGED <<hostVars, late>>

HostStep(h) ==
  \/ PauseBeforeRecovery(h) \/ Inspect(h) \/ ReportFinding(h) \/ EndRecovery(h)
  \/ BeginWork(h) \/ EndTurn(h) \/ Succeed(h) \/ StopRun(h) \/ Close(h)
  \/ \E q \in setup.requests : Ask(h, q) \/ \E content \in setup.contents : AskApproval(h, q, content)
  \/ \E a \in setup.actions, content \in setup.contents, approval \in Requests \cup {None} :
       Reserve(h, a, content, approval)
  \/ Note(h) \/ Clear(h) \/ Issue(h) \/ Abandon(h) \/ Dispatch(h)
  \/ \E outcome \in {"succeeded", "failed", "unknown"} : Observe(h, outcome)
  \/ Report(h) \/ LoseEvidence(h)

RuntimeNext ==
  \/ Decide \/ Surroundings \/ Arrive \/ Drop
  \/ \E h \in Hosts :
       \/ \E r \in Runs : Start(h, r) \/ \E continue \in BOOLEAN : Recover(h, r, continue)
       \/ HostStep(h) \/ FailTurn(h) \/ Crash(h) \/ EmployeeEdits(h)

RuntimeSpec == RuntimeInit /\ [][RuntimeNext]_vars

\* the code of a host runs on, every request ends by its timeout, and the timer
\* of the interval ends the turn
FairSpec == RuntimeSpec /\ \A h \in Hosts : WF_vars(HostStep(h)) /\ WF_vars(FailTurn(h))

(****************************************************************************)
(* Properties                                                                *)
(****************************************************************************)
RuntimeTypeOK ==
  /\ TypeOK
  /\ \A h \in Hosts :
       /\ host[h].at \in {"idle", "starting", "recovering", "inspecting", "settling", "working", "halted",
                          "finishing", "stopping", "closing"} \cup Guarded
       /\ host[h].run \in Runs \cup {None} /\ (host[h].at = "idle" <=> host[h].run = None)
       /\ host[h].act \in Actions \cup {None} /\ (host[h].at \in Guarded <=> host[h].act # None)
       /\ host[h].resumed \in BOOLEAN /\ host[h].todo \subseteq Actions \X Settled
       /\ directory[h] \in Writes \cup {None}
  /\ binding \in [Hosts -> [Runs -> {"ready", "executing", "stopped"}]]
  /\ journal \in [Hosts -> [Actions -> Evidence]]
  /\ late \subseteq Commands
  /\ times \in [Actions -> Nat]

\* Whatever took effect, its host can tell later: the effect is preceded by a
\* durable mark that outlives crashes and is never taken for "not issued".
EffectsAreMarked ==
  \A a \in Actions : times[a] > 0 =>
    \E h \in Hosts : journal[h][a] \in {"issued", "unknown", "succeeded", "failed"}

\* A run that ended as succeeded explains every effect of it as an effect,
\* whoever else worked on it, crashed, or reported late.
EndedRunsExplainEffects ==
  \A a \in Actions : times[a] > 0 /\ run[permit[a].run].state = "succeeded" =>
    permit[a].state \in {"succeeded", "failed"}

\* Hosts, service and lost answers together keep the ledger of paid actions.
Ledger == INSTANCE ActionLedger WITH
  charged <- {a \in Actions : permit[a].state # "absent"},
  visible <- {a \in Actions : permit[a].state # "absent" /\ permit[a].request \in Writes},
  conclusion <- [a \in Actions |-> IF permit[a].state \in Settled THEN permit[a].state ELSE "open"]
KeepsLedger == Ledger!Spec

\* Every interval ends, crashed or not, without an answer of any person.
IntervalsEnd == \A h \in Hosts : host[h].at # "idle" ~> host[h].at = "idle"
=============================================================================
