------------------------- MODULE ExecutionAuthority -------------------------
(* The organization service's permission to execute one accepted assignment:  *)
(* finite grants, runs, charged one-use permits and human requests.  Every    *)
(* command is one transaction that ends by withdrawing what has lost its      *)
(* authority.                                                                 *)
EXTENDS Naturals, FiniteSets

CONSTANTS
  Grants,      \* execution delegations an employee may make
  Native,      \* the grants of the native backend, whose only capability is codex-turn
  Runs, Actions, Requests,
  Contents,    \* what a permit or a request is about, told apart by its digest
  Budget,      \* for each grant, the actions it pays for
  MaxTurns,    \* actions a native run may take
  Reasons,     \* the stop reasons clients name themselves
  MaxOverdue,  \* bound: deadlines that pass
  None

ASSUME NativeAssumption == Native \subseteq Grants
ASSUME ReasonsAssumption ==
  Reasons \subseteq {"employee-stop", "duration-limit", "turn-limit", "authority-lost", "native-terminal"}
ASSUME NoneAssumption == None \notin Contents \cup Requests \cup Grants
ASSUME ActionsAssumption == IsFiniteSet(Actions)
ASSUME BudgetAssumption == Budget \in [Grants -> Nat] /\ MaxTurns \in Nat /\ MaxOverdue \in Nat

VARIABLES
  accepted,   \* the assignment is accepted and nothing invalidates it
  grant, run, permit, human,
  overdue     \* grants, permits, requests and native runs whose deadline has passed

authorityVars == <<accepted, grant, run, permit, human, overdue>>

Open == {"prepared", "running", "paused", "waiting-human"}
Ended == {"succeeded", "failed", "cancelled"}
Unsettled == {"reserved", "unknown"}
Settled == {"succeeded", "failed", "not-issued"}
Decided == {"answered", "approved", "denied"}
StopReasons == {"employee-stop", "duration-limit", "turn-limit", "authority-lost", "native-terminal"}

GrantRecords == [state : {"absent", "active", "revoked", "invalidated", "expired"}, used : Nat]
RunRecords == [state : {"absent"} \cup Open \cup Ended, grant : Grants \cup {None},
               started : BOOLEAN, stop : StopReasons \cup {None}]
PermitRecords == [state : {"absent"} \cup Unsettled \cup Settled, run : Runs \cup {None},
                  request : Contents \cup {None}, approval : Requests \cup {None}]
\* a request about no content is a question, one about a content asks to approve it
HumanRecords == [state : {"absent", "pending", "expired", "cancelled"} \cup Decided,
                 run : Runs \cup {None}, request : Contents \cup {None}]

NoGrant == [state |-> "absent", used |-> 0]
NoRun == [state |-> "absent", grant |-> None, started |-> FALSE, stop |-> None]
NoPermit == [state |-> "absent", run |-> None, request |-> None, approval |-> None]
NoRequest == [state |-> "absent", run |-> None, request |-> None]

PermitsOf(r) == {a \in Actions : permit[a].state # "absent" /\ permit[a].run = r}
OfNative(R, r) == R[r].grant \in Native
Answers(r) == {h \in Requests : human[h].state # "absent" /\ human[h].run = r}

(****************************************************************************)
(* The withdrawal at the end of every transaction.  It reads the records as  *)
(* the operation left them.                                                  *)
(****************************************************************************)
TimedOut(R, r) == R[r].started /\ r \in overdue

Lapse(acc, G) ==
  [g \in Grants |->
    IF G[g].state = "active" /\ (~acc \/ g \in overdue)
    THEN [G[g] EXCEPT !.state = IF g \in overdue THEN "expired" ELSE "invalidated"]
    ELSE G[g]]

\* G holds the grants after they lapsed
Lost(G, R, r, restart) == restart \/ TimedOut(R, r) \/ G[R[r].grant].state # "active"

Suspend(G, R, restart) ==
  [r \in Runs |->
    LET reason == IF TimedOut(R, r) THEN "duration-limit" ELSE "authority-lost"
        pauses == IF OfNative(R, r)
                  THEN R[r].state \in Open /\ (R[r].state # "paused" \/ R[r].stop # reason)
                  ELSE R[r].state \in {"prepared", "running"}
    IN  IF pauses /\ Lost(G, R, r, restart)
        THEN [R[r] EXCEPT !.state = "paused", !.stop = IF OfNative(R, r) THEN reason ELSE None]
        ELSE R[r]]

\* a permit expires no later than the grant that paid for it
PermitOverdue(R, P, a) == a \in overdue \/ R[P[a].run].grant \in overdue

\* (as if a permit outlived the pause of its run)
RetireOfEnded(G, R, P, restart) ==
  [a \in Actions |->
    IF P[a].state = "reserved" /\ (Lost(G, R, P[a].run, restart) \/ R[P[a].run].state \in Ended)
    THEN [P[a] EXCEPT !.state = "unknown"]
    ELSE P[a]]

Retire(G, R, P, restart) ==
  [a \in Actions |->
    IF /\ P[a].state = "reserved"
       /\ \/ Lost(G, R, P[a].run, restart)
          \/ R[P[a].run].state \in Ended \cup {"paused"}
          \/ PermitOverdue(R, P, a)
    THEN [P[a] EXCEPT !.state = "unknown"]
    ELSE P[a]]

\* R holds the runs after they were suspended
Withdraw(acc, R, H) ==
  [h \in Requests |->
    IF /\ H[h].state = "pending"
       /\ \/ h \in overdue \/ ~acc
          \/ R[H[h].run].state \in Ended
          \/ OfNative(R, H[h].run) /\ R[H[h].run].stop \in {"authority-lost", "duration-limit", "employee-stop"}
    THEN [H[h] EXCEPT !.state = IF h \in overdue THEN "expired" ELSE "cancelled"]
    ELSE H[h]]

Commit(acc, G, R, P, H, restart) ==
  LET lapsed == Lapse(acc, G)
      suspended == Suspend(lapsed, R, restart)
  IN  /\ accepted' = acc
      /\ grant' = lapsed
      /\ run' = suspended
      /\ permit' = Retire(lapsed, R, P, restart)
      /\ human' = Withdraw(acc, suspended, H)
      /\ UNCHANGED overdue

(****************************************************************************)
(* The employee's commands.                                                  *)
(****************************************************************************)
Init ==
  /\ accepted = TRUE
  /\ grant = [g \in Grants |-> NoGrant]
  /\ run = [r \in Runs |-> NoRun]
  /\ permit = [a \in Actions |-> NoPermit]
  /\ human = [h \in Requests |-> NoRequest]
  /\ overdue = {}

\* what every command that opens or uses a run asks for (owner)
Qualified(g) == accepted /\ grant[g].state = "active" /\ g \notin overdue

\* a native run has turns and time left (requireNativeDispatch)
MayDispatch(r) ==
  OfNative(run, r) => Cardinality(PermitsOf(r)) < MaxTurns /\ ~TimedOut(run, r)

\* (as if only permits in use stood in the way)
UnresolvedReserved(r) == \E a \in PermitsOf(r) : permit[a].state = "reserved"

Unresolved(r) == \E a \in PermitsOf(r) : permit[a].state \in Unsettled

GrantExecution(g) ==
  /\ accepted
  /\ grant[g].state = "absent"
  /\ Commit(accepted, [grant EXCEPT ![g].state = "active"], run, permit, human, FALSE)

RevokeExecution(g) ==
  /\ grant[g].state = "active"
  /\ Commit(accepted, [grant EXCEPT ![g].state = "revoked"], run, permit, human, FALSE)

CreateRun(r, g) ==
  /\ Qualified(g)
  /\ run[r].state = "absent"
  /\ \A q \in Runs : run[q].state \notin Open
  /\ Commit(accepted, grant, [run EXCEPT ![r] = [NoRun EXCEPT !.state = "prepared", !.grant = g]],
            permit, human, FALSE)

\* a run starts, is stopped by its employee, or ends; the reason is the client's
TransitionRun(r, state, reason) ==
  /\ run[r].state \in Open
  /\ IF run[r].state = "waiting-human" /\ state = "paused"
     THEN Commit(accepted, grant, run, permit, human, FALSE)
     ELSE /\ state = "running" =>
               Qualified(run[r].grant) /\ MayDispatch(r) /\ run[r].state = "prepared"
          /\ state \in {"succeeded", "failed"} => run[r].state = "running" /\ ~Unresolved(r)
          /\ Commit(accepted, grant,
                    [run EXCEPT ![r] =
                      [@ EXCEPT !.state = state,
                                !.started = OfNative(run, r) /\ (run[r].started \/ state = "running"),
                                !.stop = IF ~OfNative(run, r) \/ state = "running" THEN None
                                         ELSE IF reason # None THEN reason
                                         ELSE IF state \in Ended THEN "native-terminal"
                                         ELSE "employee-stop"]],
                    permit, human, FALSE)

\* (as if a request that is not pending no longer mattered)
ResumeUnasked(r) ==
  /\ run[r].state \in {"paused", "waiting-human"}
  /\ Qualified(run[r].grant) /\ MayDispatch(r)
  /\ grant[run[r].grant].used < Budget[run[r].grant]
  /\ ~Unresolved(r)
  /\ \A h \in Answers(r) : human[h].state # "pending"
  /\ Commit(accepted, grant,
            [run EXCEPT ![r] = [@ EXCEPT !.state = "running", !.started = OfNative(run, r), !.stop = None]],
            permit, human, FALSE)

ResumeRun(r) ==
  /\ run[r].state \in {"paused", "waiting-human"}
  /\ Qualified(run[r].grant) /\ MayDispatch(r)
  /\ grant[run[r].grant].used < Budget[run[r].grant]
  /\ ~Unresolved(r)
  /\ \A h \in Answers(r) : human[h].state \in Decided
  /\ Commit(accepted, grant,
            [run EXCEPT ![r] = [@ EXCEPT !.state = "running", !.started = OfNative(run, r), !.stop = None]],
            permit, human, FALSE)

RequestHuman(r, h, about) ==
  /\ run[r].state = "running"
  /\ Qualified(run[r].grant)
  /\ human[h].state = "absent"
  /\ Commit(accepted, grant, [run EXCEPT ![r].state = "waiting-human"], permit,
            [human EXCEPT ![h] = [state |-> "pending", run |-> r, request |-> about]], FALSE)

\* the designated person answers the question, or approves or denies the content
Answer(h, decision) ==
  /\ accepted
  /\ human[h].state = "pending"
  /\ h \notin overdue
  /\ decision \in (IF human[h].request = None THEN {"answered"} ELSE {"approved", "denied"})
  /\ Commit(accepted, grant, run, permit, [human EXCEPT ![h].state = decision], FALSE)

\* (as if an approval could be used again)
ApprovalCoversAll(h, r, content) ==
  /\ human[h].state = "approved"
  /\ human[h].run = r
  /\ human[h].request = content
  /\ h \notin overdue

\* an approval is good for one permit of the same run and content
ApprovalCovers(h, r, content) ==
  /\ human[h].state = "approved"
  /\ human[h].run = r
  /\ human[h].request = content
  /\ h \notin overdue
  /\ \A a \in Actions : permit[a].approval # h

\* (as if the budget were only looked at on resuming)
ReserveUnbudgeted(r, a, content, approval) ==
  /\ permit[a].state = "absent"
  /\ run[r].state = "running"
  /\ Qualified(run[r].grant)
  /\ OfNative(run, r) => MayDispatch(r) /\ ~Unresolved(r)
  /\ approval # None => ~OfNative(run, r) /\ ApprovalCovers(approval, r, content)
  /\ Commit(accepted, [grant EXCEPT ![run[r].grant].used = @ + 1], run,
            [permit EXCEPT ![a] = [state |-> "reserved", run |-> r, request |-> content, approval |-> approval]],
            human, FALSE)

ReserveAction(r, a, content, approval) ==
  /\ permit[a].state = "absent"
  /\ run[r].state = "running"
  /\ Qualified(run[r].grant)
  /\ OfNative(run, r) => MayDispatch(r) /\ ~Unresolved(r)
  /\ approval # None => ~OfNative(run, r) /\ ApprovalCovers(approval, r, content)
  /\ grant[run[r].grant].used < Budget[run[r].grant]
  /\ LET g == run[r].grant
         last == \/ grant[g].used + 1 >= Budget[g]
                 \/ Cardinality(PermitsOf(r)) + 1 >= MaxTurns
     IN  Commit(accepted, [grant EXCEPT ![g].used = @ + 1],
                IF OfNative(run, r) /\ last THEN [run EXCEPT ![r].stop = "turn-limit"] ELSE run,
                [permit EXCEPT ![a] = [state |-> "reserved", run |-> r, request |-> content, approval |-> approval]],
                human, FALSE)

\* (as if a later report replaced an earlier one)
SettleAnew(a, outcome) ==
  /\ permit[a].state # "absent"
  /\ outcome \in Settled \cup {"unknown"}
  /\ Commit(accepted, grant, run, [permit EXCEPT ![a].state = outcome], human, FALSE)

\* a report of what happened; it never gives the charge back
SettleAction(a, outcome) ==
  /\ \/ permit[a].state = "reserved" /\ outcome \in Settled \cup {"unknown"}
     \/ permit[a].state = "unknown" /\ outcome \in Settled
     \/ permit[a].state = outcome    \* the same report again
  /\ Commit(accepted, grant, run, [permit EXCEPT ![a].state = outcome], human, FALSE)

(****************************************************************************)
(* What happens to the authority from outside.                               *)
(****************************************************************************)
\* a change of the plan, of a member or of the assignment itself, and a restore
LoseAssignment == accepted /\ Commit(FALSE, grant, run, permit, human, FALSE)
Restore == Commit(FALSE, grant, run, permit, human, TRUE)

\* the service starts again; it looks for work in progress only
Restart ==
  /\ \E r \in Runs : run[r].state \in {"running", "waiting-human"}
  /\ Commit(accepted, grant, run, permit, human, TRUE)

\* before every operation, reads included
ExpireQualifications ==
  /\ \/ \E g \in Grants : grant[g].state = "active" /\ g \in overdue
     \/ \E a \in Actions : permit[a].state = "reserved" /\ PermitOverdue(run, permit, a)
     \/ \E h \in Requests : human[h].state = "pending" /\ h \in overdue
     \/ \E r \in Runs : run[r].state \in Open /\ TimedOut(run, r) /\ run[r].stop # "duration-limit"
  /\ Commit(accepted, grant, run, permit, human, FALSE)

Deadlines ==
  {g \in Grants : grant[g].state = "active"} \cup {a \in Actions : permit[a].state = "reserved"}
    \cup {h \in Requests : human[h].state \in {"pending", "approved"}} \cup {r \in Runs : run[r].started}

PassDeadline ==
  /\ Cardinality(overdue) < MaxOverdue
  /\ \E x \in Deadlines \ overdue : overdue' = overdue \cup {x}
  /\ UNCHANGED <<accepted, grant, run, permit, human>>

Command ==
  \/ \E g \in Grants : GrantExecution(g) \/ RevokeExecution(g)
  \/ \E r \in Runs, g \in Grants : CreateRun(r, g)
  \/ \E r \in Runs, reason \in Reasons \cup {None} :
       \E state \in {"running", "paused"} \cup Ended : TransitionRun(r, state, reason)
  \/ \E r \in Runs : ResumeRun(r)
  \/ \E r \in Runs, h \in Requests, about \in Contents \cup {None} : RequestHuman(r, h, about)
  \/ \E h \in Requests, decision \in Decided : Answer(h, decision)
  \/ \E r \in Runs, a \in Actions, content \in Contents, approval \in Requests \cup {None} :
       ReserveAction(r, a, content, approval)
  \/ \E a \in Actions, outcome \in Settled \cup {"unknown"} : SettleAction(a, outcome)

Environment == LoseAssignment \/ Restore \/ Restart \/ ExpireQualifications \/ PassDeadline

Next == Command \/ Environment

Spec == Init /\ [][Next]_authorityVars

(****************************************************************************)
(* Properties                                                                *)
(****************************************************************************)
\* Every record has the fields and states execution-schema.ts allows, and no
\* grant is charged beyond its budget.
TypeOK ==
  /\ accepted \in BOOLEAN
  /\ grant \in [Grants -> GrantRecords]
  /\ \A g \in Grants : grant[g].used <= Budget[g]
  /\ run \in [Runs -> RunRecords]
  /\ permit \in [Actions -> PermitRecords]
  /\ human \in [Requests -> HumanRecords]
  /\ overdue \subseteq Grants \cup Actions \cup Requests \cup Runs

\* What the service demands of its store before it opens it again
\* (validateExecutionDatabase): a grant was charged once for every permit of
\* its runs, a native run past "prepared" has started, an approval paid for
\* one permit of its own run and content.
ChargedFor(g) == {a \in Actions : permit[a].state # "absent" /\ run[permit[a].run].grant = g}
ChargesAddUp == \A g \in Grants : grant[g].used = Cardinality(ChargedFor(g))
NativeRunsStarted ==
  \A r \in Runs :
    /\ run[r].state = "prepared" => ~run[r].started /\ run[r].stop = None
    /\ run[r].state \in {"running", "waiting-human", "succeeded", "failed"} => run[r].started = OfNative(run, r)
    /\ run[r].started \/ run[r].stop # None => OfNative(run, r)
ApprovalsSpentOnce ==
  \A a \in Actions : permit[a].approval # None =>
    LET h == human[permit[a].approval]
    IN  /\ h.state = "approved" /\ h.run = permit[a].run /\ h.request = permit[a].request
        /\ \A b \in Actions : permit[b].approval = permit[a].approval => b = a
StoreReopens == ChargesAddUp /\ NativeRunsStarted /\ ApprovalsSpentOnce

\* Outside a transaction no permit is usable whose authority is gone: its
\* assignment is accepted, its grant active and its run at work or waiting for
\* an answer, whatever was revoked, expired, restarted or restored since.
LivePermitsHaveAuthority ==
  \A a \in Actions : permit[a].state = "reserved" =>
    /\ accepted
    /\ grant[run[permit[a].run].grant].state = "active"
    /\ run[permit[a].run].state \in {"running", "waiting-human"}

\* A run that ended as succeeded or failed left no action unexplained, also
\* when reports, retirements and restarts of others came in between.
EndedRunsAreSettled ==
  \A a \in Actions : permit[a].state \in Unsettled =>
    run[permit[a].run].state \notin {"succeeded", "failed"}

\* No run works past a question: while it runs, everything it asked was
\* answered, approved or denied, and none of that by expiry or withdrawal.
NothingRunsPastAQuestion ==
  \A h \in Requests : human[h].state \notin Decided \cup {"absent"} => run[human[h].run].state # "running"

\* Facts are final: no command, expiry or restart takes back how an action was
\* settled, how a request was decided, that a run ended, that a grant is over
\* or an action it was charged for.
FactsAreFinal ==
  [][ /\ \A a \in Actions : permit[a].state \in Settled => permit'[a] = permit[a]
      /\ \A h \in Requests : human[h].state \in Decided => human'[h] = human[h]
      /\ \A r \in Runs : run[r].state \in Ended => run'[r] = run[r]
      /\ \A g \in Grants : grant[g].state \notin {"absent", "active"} => grant'[g] = grant[g]
      /\ \A g \in Grants : grant'[g].used >= grant[g].used ]_authorityVars
=============================================================================
