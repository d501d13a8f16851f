---------------------------- MODULE WorkflowRelay ----------------------------
(* The session controller's automatic relay of phase sequences, composed with *)
(* the execution service: a sequence that was authorized to change the         *)
(* conversation after every so many phases is paused as "phase-relay-ready",   *)
(* and when its conversation goes idle an operation of the controller prepares *)
(* a receiver, transfers the attempt, resumes it there and sends a message to  *)
(* go on.  Between any two of its steps the user, other turns, a failure or a  *)
(* crash may come.                                                            *)
EXTENDS TaskExecution

VARIABLES
  ready,     \* durable: the attempts whose reason is "phase-relay-ready"
  relay,     \* volatile: how far the relay of each conversation came (workflowRelays)
  hops,      \* history: the transfers relays made
  fate       \* history: what became of the last relay an attempt was due

relayVars == <<ready, relay, hops, fate>>
allVars == <<vars, relayVars>>

Stages == {"none", "settling", "gathering", "preparing", "creating", "finishing", "resuming", "sending"}
Fates == {"none", "due", "resumed", "halted", "user"}

RelayInit ==
  /\ Init
  /\ ready = {}
  /\ relay = [s \in Sessions |-> "none"]
  /\ hops = [r \in Runs |-> 0]
  /\ fate = [r \in Runs |-> "none"]

\* (as if any pause of a sequence asked for a relay)
RelaysPaused(s) ==
  Owns(s) /\ runs[ForSession(s)].status = "paused" /\ runs[ForSession(s)].relay > 0

\* what the listener of agent/status looks at, and the operation again
IsReady(s) == Owns(s) /\ ForSession(s) \in ready

\* (as if the status were announced before the pause is stored)
SetOffEarly ==
  relay' = [s \in Sessions |->
    IF agent[s] # "idle" /\ agent'[s] = "idle" /\ relay[s] = "none" /\ IsReady(s)
    THEN "settling" ELSE relay[s]]

\* an agent that goes idle sets off a relay unless one is under way
SetOff ==
  relay' = [s \in Sessions |->
    IF agent[s] # "idle" /\ agent'[s] = "idle" /\ relay[s] = "none" /\ IsReady(s)'
    THEN "settling" ELSE relay[s]]

(****************************************************************************)
(* The workflow as in TaskExecution, and what it does to relays.             *)
(****************************************************************************)
\* who is taken out of "paused" is given another reason
StillPaused == {r \in ready : runs'[r].status = "paused"}

\* advanceSequence paused the attempt for nothing but its relay
Reached(r) ==
  /\ Len(runs'[r].done) > Len(runs[r].done)
  /\ runs'[r].status = "paused"
  /\ runs'[r].task \in Ready(Plan, Approved, CompletedFacts)
  /\ ~ Exhausted(r)

Workflow ==
  /\ Edits \/ Claims \/ Turns \/ ToolCalls \/ \E r \in Runs : Expire(r)
  /\ LET due == {r \in DOMAIN runs : Reached(r)}
     IN  /\ ready' = StillPaused \cup due
         /\ fate' = [r \in Runs |-> IF r \in due THEN "due" ELSE fate[r]]
  /\ SetOff
  /\ UNCHANGED hops

\* the user stops, resumes or transfers the attempt; each gives it another reason
ByUser(r) ==
  /\ \/ \E cancel \in BOOLEAN, op \in Operations : Stop(r, op, cancel)
     \/ \E ok, changed \in BOOLEAN :
          \/ \E op \in Operations :
               \/ \E note \in BOOLEAN : Resume(r, op, note, ok, changed)
               \/ ResumeUnreconciled(r, op, ok, changed)
               \/ \E target \in Sessions : PrepareHandoff(r, target, op, ok, changed)
               \/ PrepareChanged(r, op, ok)
          \/ \E i \in DOMAIN runs[r].handoffs : FinishHandoff(r, i, ok, changed)
  /\ ready' = ready \ {r}
  /\ fate' = [fate EXCEPT ![r] = IF @ = "none" THEN @ ELSE "user"]
  /\ UNCHANGED <<relay, hops>>

\* the reason survives the process, the operations do not
Reboot ==
  /\ Restart
  /\ relay' = [s \in Sessions |-> "none"]
  /\ fate' = [r \in Runs |-> IF fate[r] = "due" THEN "halted" ELSE fate[r]]
  /\ ready' = StillPaused
  /\ UNCHANGED hops

(****************************************************************************)
(* relayWorkflow and workflowHandoff                                         *)
(****************************************************************************)
Go(s, stage) == relay' = [relay EXCEPT ![s] = stage]

\* the relay of s ends without having arrived
GiveUp(s) ==
  /\ Go(s, "none")
  /\ LET r == ForSession(s)
     IN  fate' = [fate EXCEPT ![r] = IF @ = "due" THEN "halted" ELSE @]

\* any await may fail, any check of a request refuse it, and disposal stops it;
\* only the wait for the agent does nothing but wait
Fail(s) ==
  /\ relay[s] # "none"
  /\ relay[s] = "settling" => agent[s] = "idle"
  /\ GiveUp(s)
  /\ UNCHANGED <<vars, ready, hops>>

Settled(s) ==
  /\ relay[s] = "settling" /\ agent[s] = "idle"
  /\ IF IsReady(s) THEN Go(s, "gathering") /\ UNCHANGED fate ELSE GiveUp(s)
  /\ UNCHANGED <<vars, ready, hops>>

\* the instructions of all its conversations were read
Gathered(s) ==
  /\ relay[s] = "gathering"
  /\ IF IsReady(s) THEN Go(s, "preparing") /\ UNCHANGED fate ELSE GiveUp(s)
  /\ UNCHANGED <<vars, ready, hops>>

Prepare(s) ==
  LET r == ForSession(s) IN
  /\ relay[s] = "preparing" /\ Owns(s)
  /\ \E ok \in BOOLEAN :
       \/ \E target \in Sessions, changed \in BOOLEAN :
            PrepareHandoff(r, target, Fresh, ok, changed) /\ Go(s, "creating") /\ UNCHANGED fate
       \/ PrepareChanged(r, Fresh, ok) /\ GiveUp(s)
  /\ ready' = ready \ {r}
  /\ UNCHANGED hops

\* the receiver is created, configured as its source and flushed
Created(s) ==
  /\ relay[s] = "creating"
  /\ Go(s, "finishing")
  /\ UNCHANGED <<vars, ready, hops, fate>>

\* the transfer the relay of s goes through: a conversation prepares one in its life
MadeFor(s, r, i) == i \in DOMAIN runs[r].handoffs /\ runs[r].handoffs[i].source = s
Receives(to, s, r) ==
  \E i \in DOMAIN runs[r].handoffs : MadeFor(s, r, i) /\ runs[r].handoffs[i].target = to

\* the transfer is finished, or was by the user meanwhile
Finish(s) ==
  /\ relay[s] = "finishing"
  /\ \E r \in DOMAIN runs : \E i \in DOMAIN runs[r].handoffs :
       /\ MadeFor(s, r, i)
       /\ \/ \E ok, changed \in BOOLEAN : FinishHandoff(r, i, ok, changed)
          \/ runs[r].handoffs[i].status = "transferred" /\ UNCHANGED vars
       /\ hops' = [hops EXCEPT ![r] = IF runs'[r].session # runs[r].session THEN @ + 1 ELSE @]
  /\ Go(s, "resuming")
  /\ UNCHANGED <<ready, fate>>

ResumeReceiver(s) ==
  /\ relay[s] = "resuming"
  /\ \E r \in DOMAIN runs :
       /\ Receives(runs[r].session, s, r)
       /\ \E ok, changed \in BOOLEAN :
            \/ /\ Resume(r, Fresh, FALSE, ok, changed)
               /\ Go(s, "sending")
               /\ fate' = [fate EXCEPT ![r] = IF @ = "due" THEN "resumed" ELSE @]
            \/ ResumeUnreconciled(r, Fresh, ok, changed) /\ GiveUp(s)
       /\ ready' = ready \ {r}
  /\ UNCHANGED hops

\* the message to go on opens a step, or waits behind the turn under way
Send(s) ==
  /\ relay[s] = "sending"
  /\ \E r \in DOMAIN runs, to \in Sessions :
       /\ Receives(to, s, r)
       /\ IF agent[to] = "idle" THEN Wake(to, "prestep") ELSE UNCHANGED vars
  /\ Go(s, "none")
  /\ UNCHANGED <<ready, hops, fate>>

RelayStep(s) ==
  Settled(s) \/ Gathered(s) \/ Prepare(s) \/ Created(s) \/ Finish(s) \/ ResumeReceiver(s) \/ Send(s)

RelayNext ==
  \/ Workflow \/ Reboot
  \/ \E r \in DOMAIN runs : ByUser(r)
  \/ \E s \in Sessions : RelayStep(s) \/ Fail(s)

RelaySpec == RelayInit /\ [][RelayNext]_allVars

-----------------------------------------------------------------------------
\* A sequence changes its conversation by relay at most once for every so many
\* phases it completed, whatever failed, was resumed or restarted in between.
PhasesDone(r) == Cardinality({PhaseOf(Plan, runs[r].done[i].task) : i \in DOMAIN runs[r].done})
RelaysAsAuthorized ==
  \A r \in DOMAIN runs : hops[r] > 0 => hops[r] * runs[r].relay <= PhasesDone(r) /\ runs[r].relay > 0

\* A relay that is due is never forgotten: from the commit that paused the
\* sequence until it runs in the receiver an operation of the controller works on
\* it, or the relay failed, the process died or the user stepped in.
DueRelayIsUnderWay ==
  \A r \in DOMAIN runs : fate[r] = "due" => \E s \in Sessions : relay[s] # "none" /\ ForSession(s) = r

\* personal-workflow/README.md:51 has a failed transfer and a restart require
\* explicit recovery: an attempt whose relay was cut off does not run until
\* its user has dealt with it.
RecoveryIsExplicit ==
  \A r \in DOMAIN runs : fate[r] = "halted" => runs[r].status # "running"
=============================================================================
