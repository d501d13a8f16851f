----------------------- MODULE TaskExecutionLease_proofs -----------------------
(* TaskExecution implements TaskLease, for any plan and any number of          *)
(* conversations, attempts and calls; with it, what TaskLease promises holds of *)
(* the service.                                                                *)
(*                                                                             *)
(* The second half is about what the stored attempts and the calls in flight   *)
(* say of each other: transfers find nothing under way, edits leave no call of  *)
(* an older revision behind, and what is committed can be reopened.            *)
EXTENDS TaskExecutionLease, TaskExecution_proofs

Proved == INSTANCE TaskLease_proofs
            WITH leases <- [r \in DOMAIN runs |-> LeaseOf(runs[r])],
                 acting <- {s \in Sessions : Acts(s)}

\* The current owner is the last of the history, at most one transfer is under
\* way, and an attempt with one neither runs nor is completed.
HandedRun(run) ==
  /\ run.sessions # <<>> /\ run.session = run.sessions[Len(run.sessions)]
  /\ Prepared(run) => run.status \notin {"running", "completed"}
  /\ \A i, j \in DOMAIN run.handoffs :
       run.handoffs[i].status = "prepared" /\ run.handoffs[j].status = "prepared" => i = j

RunsHanded == \A r \in DOMAIN runs : HandedRun(runs[r])

\* A turn never ends before its calls.
CallsInTurn == \A k \in calls : agent[k.session] = "turn"

Handed == Typed /\ RunsHanded /\ CallsInTurn

LeaseStep == [Lease!Next]_(Lease!vars)
-----------------------------------------------------------------------------
(* Reading the mapping                                                         *)

\* What the invariant says of one attempt.
LEMMA HandedKnown ==
  ASSUME Handed, NEW r \in DOMAIN runs
  PROVE  r \in Runs /\ runs[r] \in TaskRun /\ HandedRun(runs[r])
  BY RunsTyped DEF Handed, RunsHanded

\* A conversation bound to no attempt is free of every lease.
LEMMA UnboundIsFree ==
  ASSUME Handed, NEW s \in Sessions, ForSession(s) = NoRun
  PROVE  Lease!Free(s)
<1>1. \A r \in DOMAIN runs : ~ BoundTo(runs[r], s)
  <2>1. NoRun \notin DOMAIN runs
    BY ConstantsAssumption DEF Handed, Typed, TypeOK
  <2> QED BY <2>1 DEF ForSession
<1>2. ASSUME NEW r \in DOMAIN runs PROVE ~ Lease!Bound(r, s)
  BY <1>1 DEF Lease!Bound, LeaseOf, Receivers, BoundTo, Elements
<1> QED BY <1>2 DEF Lease!Free

\* The holder of a lease is the owner of its attempt.
LEMMA HolderIsSession ==
  ASSUME Handed, NEW r \in DOMAIN runs
  PROVE  Lease!Holder(r) = runs[r].session
  BY HandedKnown DEF Lease!Holder, LeaseOf, HandedRun

\* A conversation at rest without background work does not act.
LEMMA InactiveDoesNotAct ==
  ASSUME Handed, NEW s \in Sessions, Inactive(s)
  PROVE  ~ Acts(s)
  BY DEF Handed, CallsInTurn, Inactive, Acts, InFlight

\* An owner owns an attempt that exists.
LEMMA OwnerKnown ==
  ASSUME Handed, NEW s, Owns(s)
  PROVE  ForSession(s) \in DOMAIN runs
  BY DEF Owns, ForSession

\* Who acts depends on the calls and the background jobs alone.
LEMMA SameActing ==
  ASSUME calls' = calls, jobs' = jobs
  PROVE  {s \in Sessions : Acts(s)}' = {s \in Sessions : Acts(s)}
  BY DEF Acts, InFlight
-----------------------------------------------------------------------------
(* Writing an attempt as a step of its lease                                   *)

\* Storing an attempt replaces its lease.
LEMMA StoreIsPut ==
  ASSUME NEW r, NEW run, Store(r, run)
  PROVE  Lease!Put(r, LeaseOf(run))
  BY DEF Store, Lease!Put

\* Storing an attempt that satisfies the invariant keeps it for all.
LEMMA StoreHanded ==
  ASSUME Handed, NEW r, NEW run, Store(r, run), HandedRun(run)
  PROVE  RunsHanded'
  BY DEF Handed, RunsHanded, Store

\* run has the owners and transfers of old
SameOwners(old, run) ==
  run.session = old.session /\ run.sessions = old.sessions /\ run.handoffs = old.handoffs

\* With the same owners and transfers an attempt has the same lease but for working.
LEMMA SameOffers ==
  ASSUME NEW old, NEW run, SameOwners(old, run)
  PROVE  /\ run.sessions = old.sessions
         /\ Offers(run) = Offers(old) /\ Receivers(run) = Receivers(old)
         /\ Prepared(run) = Prepared(old)
  BY DEF SameOwners, Offers, Receivers, Prepared

\* Such an attempt's lease differs from the old one in whether it is worked on.
LEMMA LeaseReplaced ==
  ASSUME NEW old, NEW run, SameOwners(old, run), NEW working, Working(run) = working
  PROVE  LeaseOf(run) = [LeaseOf(old) EXCEPT !.working = working]
<1> DEFINE lease(w) == [owners |-> run.sessions, working |-> w,
                        offers |-> Offers(run), receivers |-> Receivers(run)]
<1>1. LeaseOf(old) = lease(Working(old))
  BY SameOffers DEF LeaseOf
<1>2. LeaseOf(run) = lease(working)
  BY DEF LeaseOf
<1>3. ASSUME NEW w PROVE [lease(w) EXCEPT !.working = working] = lease(working)
  OBVIOUS
<1> QED BY <1>1, <1>2, <1>3

\* What takes an attempt out of running suspends its lease.
LEMMA SuspendStep ==
  ASSUME Handed, NEW r \in DOMAIN runs, NEW run, SameOwners(runs[r], run), Store(r, run),
         run.status # "running", run.status = "completed" => ~ Prepared(runs[r]),
         calls' = calls, jobs' = jobs
  PROVE  RunsHanded' /\ LeaseStep
<1>1. HandedRun(run)
  BY HandedKnown DEF HandedRun, SameOwners, Prepared
<1>2. Working(run) = FALSE
  BY DEF Working
<1>3. LeaseOf(run) = [LeaseOf(runs[r]) EXCEPT !.working = FALSE]
  BY <1>2, LeaseReplaced
<1>4. [x \in DOMAIN runs |-> LeaseOf(runs[x])][r] = LeaseOf(runs[r])
  OBVIOUS
<1>5. Lease!Suspend(r)
  BY <1>3, <1>4, SameActing DEF Store, Lease!Put, Lease!Suspend
<1> QED BY <1>1, <1>5, HandedKnown, StoreHanded DEF LeaseStep, Lease!Next

\* What puts an attempt back to running continues its lease.
LEMMA ContinueStep ==
  ASSUME Handed, NEW r \in DOMAIN runs, NEW run, SameOwners(runs[r], run), Store(r, run),
         run.status = "running", ~ Prepared(runs[r]), calls' = calls, jobs' = jobs
  PROVE  RunsHanded' /\ LeaseStep
<1>1. HandedRun(run)
  BY HandedKnown DEF HandedRun, SameOwners, Prepared
<1>2. Working(run) = TRUE
  BY SameOffers DEF Working
<1>3. LeaseOf(run) = [LeaseOf(runs[r]) EXCEPT !.working = TRUE]
  BY <1>2, LeaseReplaced
<1>4. LeaseOf(runs[r]).offers = {}
  <2>1. Offers(runs[r]) = {}
    BY DEF Offers, Prepared
  <2> QED BY <2>1 DEF LeaseOf
<1>5. [x \in DOMAIN runs |-> LeaseOf(runs[x])][r] = LeaseOf(runs[r])
  OBVIOUS
<1>6. Lease!Continue(r)
  BY <1>3, <1>4, <1>5, SameActing DEF Store, Lease!Put, Lease!Continue
<1> QED BY <1>1, <1>6, HandedKnown, StoreHanded DEF LeaseStep, Lease!Next

\* What changes neither owners nor status keeps every lease.
LEMMA SameLeases ==
  ASSUME Handed, NEW r \in DOMAIN runs, NEW run, SameOwners(runs[r], run), Store(r, run),
         run.status = runs[r].status
  PROVE  /\ RunsHanded'
         /\ [x \in DOMAIN runs |-> LeaseOf(runs[x])]' = [x \in DOMAIN runs |-> LeaseOf(runs[x])]
<1>1. HandedRun(run)
  BY HandedKnown DEF HandedRun, SameOwners, Prepared
<1>2. LeaseOf(run) = LeaseOf(runs[r])
  <2>1. Working(run) = Working(runs[r])
    BY SameOffers DEF Working
  <2> QED BY <2>1, SameOffers DEF LeaseOf
<1> QED BY <1>1, <1>2, StoreHanded DEF Store

\* Without a stored attempt the leases stay.
LEMMA SameRunsLeases ==
  ASSUME Handed, runs' = runs
  PROVE  /\ RunsHanded'
         /\ [x \in DOMAIN runs |-> LeaseOf(runs[x])]' = [x \in DOMAIN runs |-> LeaseOf(runs[x])]
  BY DEF Handed, RunsHanded

\* A step that stores no attempt and begins or ends no effect is a stutter of the lease.
LEMMA Stutter ==
  ASSUME Handed, runs' = runs, calls' = calls, jobs' = jobs
  PROVE  RunsHanded' /\ LeaseStep
  BY SameRunsLeases, SameActing DEF LeaseStep, Lease!vars
-----------------------------------------------------------------------------
(* The transactions of the user                                                *)

\* A claim binds a conversation that nothing was bound to.
LEMMA ClaimStep ==
  ASSUME Handed, NEW s \in Sessions, NEW r \in Runs, NEW t, NEW automatic, NEW native,
         NEW range, NEW relay, r \notin DOMAIN runs, ForSession(s) = NoRun,
         Store(r, NewRun(s, t, automatic, native, range, relay)), calls' = calls, jobs' = jobs
  PROVE  RunsHanded' /\ LeaseStep
<1> DEFINE run == NewRun(s, t, automatic, native, range, relay)
<1>1. run.session = s /\ run.sessions = <<s>> /\ run.status = "running" /\ run.handoffs = <<>>
  BY DEF NewRun
<1> HIDE DEF run
<1>2. DOMAIN run.handoffs = {} /\ ~ Prepared(run)
  BY <1>1 DEF Prepared
<1>3. HandedRun(run)
  BY <1>1, <1>2 DEF HandedRun
<1>4. LeaseOf(run) = [owners |-> <<s>>, working |-> TRUE, offers |-> {}, receivers |-> {}]
  <2>1. Working(run) = TRUE
    BY <1>1, <1>2 DEF Working
  <2>2. Offers(run) = {} /\ Receivers(run) = {}
    BY <1>2 DEF Offers, Receivers
  <2> QED BY <1>1, <2>1, <2>2 DEF LeaseOf
<1>5. Lease!Claim(r, s)
  BY <1>4, UnboundIsFree, SameActing DEF run, Store, Lease!Put, Lease!Claim
<1> QED BY <1>3, <1>5, StoreHanded DEF run, LeaseStep, Lease!Next

\* Both forms of claim, of a task and of a range of phases.
LEMMA ClaimsStep == ASSUME Handed, Claims PROVE RunsHanded' /\ LeaseStep
<1>1. PICK s \in Sessions, r \in Runs, t \in Tasks, op \in Operations, native \in Native :
        \/ \E automatic \in Automatic : ClaimTask(s, r, t, op, automatic, native)
        \/ \E last, relay : ClaimPhases(s, r, t, op, native, last, relay)
  BY DEF Claims
<1>2. ASSUME NEW automatic, ClaimTask(s, r, t, op, automatic, native)
      PROVE  RunsHanded' /\ LeaseStep
  BY <1>2, ClaimStep DEF ClaimTask, volatile
<1>3. ASSUME NEW last, NEW relay, ClaimPhases(s, r, t, op, native, last, relay)
      PROVE  RunsHanded' /\ LeaseStep
  <2> DEFINE range == Remaining(PhaseOf(Plan, t), last)
  <2>1. /\ r \notin DOMAIN runs /\ ForSession(s) = NoRun
        /\ Store(r, NewRun(s, t, TRUE, native, range, relay))
        /\ calls' = calls /\ jobs' = jobs
    BY <1>3 DEF ClaimPhases, volatile
  <2> HIDE DEF range
  <2> QED BY <2>1, ClaimStep
<1> QED BY <1>1, <1>2, <1>3

\* The controls of the owner suspend the lease or, resuming, continue it.
LEMMA ControlsStep ==
  ASSUME Handed, NEW r \in DOMAIN runs, NEW op, NEW cancel, NEW note, NEW ok, NEW changed,
         \/ Stop(r, op, cancel) \/ ResumeUnreconciled(r, op, ok, changed)
         \/ PrepareChanged(r, op, ok) \/ Resume(r, op, note, ok, changed)
  PROVE  RunsHanded' /\ LeaseStep
<1>1. calls' = calls /\ jobs' = jobs
  BY DEF Stop, ResumeUnreconciled, PrepareChanged, Resume, volatile
<1>2. runs[r] \in TaskRun
  BY HandedKnown
<1>3. ASSUME NEW status, status \notin {"running", "completed"},
             Store(r, [runs[r] EXCEPT !.status = status])
      PROVE  RunsHanded' /\ LeaseStep
  <2> DEFINE run == [runs[r] EXCEPT !.status = status]
  <2>1. SameOwners(runs[r], run) /\ run.status = status
    BY <1>2 DEF SameOwners, TaskRun
  <2>2. Store(r, run)
    BY <1>3
  <2> HIDE DEF run
  <2> QED BY <1>1, <1>3, <2>1, <2>2, SuspendStep
<1>4. CASE Stop(r, op, cancel) \/ ResumeUnreconciled(r, op, ok, changed) \/ PrepareChanged(r, op, ok)
  <2>1. \E status \in {"cancelled", "paused", "needs_reconciliation"} :
          Store(r, [runs[r] EXCEPT !.status = status])
    BY <1>4 DEF Stop, ResumeUnreconciled, PrepareChanged
  <2> QED BY <1>3, <2>1
<1>5. CASE Resume(r, op, note, ok, changed)
  <2> DEFINE status == IF Prepared(runs[r]) THEN "paused" ELSE "running"
             actions == Remark(runs[r], "unknown", "reconciled")
             run == [runs[r] EXCEPT !.status = status, !.actions = actions]
  <2>1. Store(r, run)
    BY <1>5 DEF Resume
  <2>2. SameOwners(runs[r], run) /\ run.status = status
    <3> HIDE DEF status, actions
    <3> QED BY <1>2 DEF SameOwners, TaskRun
  <2> HIDE DEF run
  <2>3. CASE Prepared(runs[r])
    BY <1>1, <2>1, <2>2, <2>3, SuspendStep
  <2>4. CASE ~ Prepared(runs[r])
    BY <1>1, <2>1, <2>2, <2>4, ContinueStep
  <2> QED BY <2>3, <2>4
<1> QED BY <1>4, <1>5
-----------------------------------------------------------------------------
(* Transfer                                                                    *)

Leased(owners, working, offers, receivers) ==
  [owners |-> owners, working |-> working, offers |-> offers, receivers |-> receivers]
Offered(lease, b, g, u) ==
  [lease EXCEPT !.working = b, !.offers = g, !.receivers = @ \cup u]
Accepted(lease, s, b, g) ==
  [lease EXCEPT !.owners = Append(@, s), !.working = b, !.offers = g]

\* The fields of a lease, replaced one after the other.
LEMMA LeaseOffered ==
  ASSUME NEW owners, NEW w, NEW f, NEW v, NEW b, NEW g, NEW u
  PROVE  Offered(Leased(owners, w, f, v), b, g, u) = Leased(owners, b, g, v \cup u)
<1> DEFINE x0 == Leased(owners, w, f, v)
           x1 == Leased(owners, b, f, v)
           x2 == Leased(owners, b, g, v)
           x3 == Leased(owners, b, g, v \cup u)
<1>1. [x0 EXCEPT !.working = b] = x1 /\ [x1 EXCEPT !.offers = g] = x2 /\ x0.receivers = v
  BY DEF Leased
<1>2. [x2 EXCEPT !.receivers = v \cup u] = x3
  BY DEF Leased
<1> HIDE DEF x0, x1, x2, x3
<1>3. [x0 EXCEPT !.working = b, !.offers = g, !.receivers = v \cup u]
        = [[[x0 EXCEPT !.working = b] EXCEPT !.offers = g] EXCEPT !.receivers = v \cup u]
  OBVIOUS
<1>4. [x0 EXCEPT !.working = b, !.offers = g, !.receivers = x0.receivers \cup u] = x3
  BY <1>1, <1>2, <1>3
<1> QED BY <1>4 DEF x0, x3, Offered

\* The fields of a lease, replaced one after the other.
LEMMA LeaseAccepted ==
  ASSUME NEW owners, NEW w, NEW f, NEW v, NEW s, NEW b, NEW g
  PROVE  Accepted(Leased(owners, w, f, v), s, b, g) = Leased(Append(owners, s), b, g, v)
<1> DEFINE new == Append(owners, s)
           x0 == Leased(owners, w, f, v)
           x1 == Leased(new, w, f, v)
           x2 == Leased(new, b, f, v)
           x3 == Leased(new, b, g, v)
<1>1. x0.owners = owners
  BY DEF Leased
<1> HIDE DEF new
<1>2. [x0 EXCEPT !.owners = new] = x1 /\ [x1 EXCEPT !.working = b] = x2
  BY DEF Leased
<1>3. [x2 EXCEPT !.offers = g] = x3
  BY DEF Leased
<1> HIDE DEF x0, x1, x2, x3
<1>4. [x0 EXCEPT !.owners = new, !.working = b, !.offers = g]
        = [[[x0 EXCEPT !.owners = new] EXCEPT !.working = b] EXCEPT !.offers = g]
  OBVIOUS
<1>5. [x0 EXCEPT !.owners = Append(x0.owners, s), !.working = b, !.offers = g] = x3
  BY <1>1, <1>2, <1>3, <1>4 DEF new
<1> QED BY <1>5 DEF x0, x3, new, Accepted

\* Preparing offers the attempt to a conversation that is free and at rest.
LEMMA PrepareHandoffStep ==
  ASSUME Handed, NEW r \in DOMAIN runs, NEW target \in Sessions, NEW op, NEW ok, NEW changed,
         PrepareHandoff(r, target, op, ok, changed)
  PROVE  RunsHanded' /\ LeaseStep
<1> DEFINE old == runs[r]
           offer == [op |-> op, source |-> old.session, target |-> target,
                     epoch |-> old.epoch, status |-> "prepared"]
           handoffs == Append(old.handoffs, offer)
           run == [old EXCEPT !.status = "paused", !.handoffs = handoffs]
<1>1. old \in TaskRun /\ r \in Runs /\ HandedRun(old) /\ ~ Prepared(old)
  BY HandedKnown DEF PrepareHandoff, MayPrepare
<1>2. Store(r, run) /\ calls' = calls /\ jobs' = jobs
  BY DEF PrepareHandoff, volatile
<1>3. old.handoffs \in Seq(Transfer) /\ Len(old.handoffs) \in Nat
      /\ DOMAIN old.handoffs = 1..Len(old.handoffs)
  BY <1>1 DEF TaskRun
<1> DEFINE n == Len(old.handoffs)
<1>4. /\ DOMAIN handoffs = 1..(n + 1)
      /\ \A i \in 1..n : handoffs[i] = old.handoffs[i]
      /\ handoffs[n + 1] = offer
  BY <1>3
<1>5. offer.status = "prepared" /\ offer.target = target
  OBVIOUS
<1>6. \A i \in 1..n : old.handoffs[i].status # "prepared"
  BY <1>1, <1>3 DEF Prepared
<1> HIDE DEF offer, handoffs
<1>7. run.session = old.session /\ run.sessions = old.sessions /\ run.status = "paused"
      /\ run.handoffs = handoffs
  BY <1>1 DEF TaskRun
<1> HIDE DEF run
<1>8. \A i \in DOMAIN handoffs : handoffs[i].status = "prepared" <=> i = n + 1
  BY <1>3, <1>4, <1>5, <1>6
<1>9. HandedRun(run)
  BY <1>1, <1>7, <1>8 DEF HandedRun
<1> DEFINE no == FALSE
<1> HIDE DEF no
<1>10. LeaseOf(run) = Offered(LeaseOf(old), no, {target}, {target})
  <2> DEFINE was == Working(old)
  <2>1. Working(run) = no
    BY <1>7 DEF Working, no
  <2>2. Offers(run) = {target}
    <3>1. {j \in DOMAIN handoffs : handoffs[j].status = "prepared"} = {n + 1}
      BY <1>3, <1>4, <1>8
    <3> QED BY <1>4, <1>5, <1>7, <3>1 DEF Offers
  <2>3. Receivers(run) = Receivers(old) \cup {target}
    BY <1>3, <1>4, <1>5, <1>7 DEF Receivers
  <2>4. LeaseOf(old) = Leased(old.sessions, was, Offers(old), Receivers(old))
    BY DEF LeaseOf, Leased
  <2>5. LeaseOf(run) = Leased(old.sessions, no, {target}, Receivers(old) \cup {target})
    BY <1>7, <2>1, <2>2, <2>3 DEF LeaseOf, Leased
  <2> HIDE DEF was
  <2> QED BY <2>4, <2>5, LeaseOffered
<1>11. Lease!Offer(r, target)
  <2>1. Lease!Free(target) /\ ~ Acts(target)
    BY UnboundIsFree, InactiveDoesNotAct DEF PrepareHandoff, Unused
  <2>2. ~ Acts(old.session)
    <3>1. old.session \in Sessions /\ Inactive(old.session)
      BY <1>1 DEF PrepareHandoff, MayPrepare, TaskRun
    <3> QED BY <3>1, InactiveDoesNotAct
  <2>3. [x \in DOMAIN runs |-> LeaseOf(runs[x])][r] = LeaseOf(old)
    OBVIOUS
  <2>4. LeaseOf(old).offers = {}
    <3>1. Offers(old) = {}
      BY <1>1 DEF Offers, Prepared
    <3> QED BY <3>1 DEF LeaseOf
  <2>5. Lease!Put(r, Offered(LeaseOf(old), no, {target}, {target}))
    BY <1>2, <1>10 DEF Store, Lease!Put
  <2>6. Lease!Holder(r) = old.session
    BY HolderIsSession
  <2> QED BY <1>2, <2>1, <2>2, <2>3, <2>4, <2>5, <2>6, SameActing DEF no, Offered, Lease!Offer, Lease!Put
<1> QED BY <1>1, <1>2, <1>9, <1>11, StoreHanded DEF LeaseStep, Lease!Next

\* Finishing makes the receiver of the one prepared transfer the owner.
LEMMA FinishHandoffStep ==
  ASSUME Handed, NEW r \in DOMAIN runs, NEW i \in DOMAIN runs[r].handoffs, NEW ok, NEW changed,
         FinishHandoff(r, i, ok, changed)
  PROVE  RunsHanded' /\ LeaseStep
<1> DEFINE old == runs[r]
           target == old.handoffs[i].target
           sessions == Append(old.sessions, target)
           handoffs == [old.handoffs EXCEPT ![i].status = "transferred"]
           epoch == old.epoch + 1
           run == [old EXCEPT !.session = target, !.sessions = sessions, !.epoch = epoch,
                              !.handoffs = handoffs]
<1>1. old \in TaskRun /\ r \in Runs /\ HandedRun(old)
      /\ old.handoffs[i].status = "prepared" /\ old.status = "paused"
  BY HandedKnown DEF FinishHandoff
<1>2. Store(r, run) /\ calls' = calls /\ jobs' = jobs
  BY DEF FinishHandoff, Transferred, volatile
<1>3. old.handoffs \in Seq(Transfer) /\ old.sessions \in Seq(Sessions)
  BY <1>1 DEF TaskRun
<1>4. old.handoffs[i] \in Transfer /\ target \in Sessions
  <2>1. old.handoffs[i] \in Transfer
    BY <1>3
  <2> QED BY <2>1 DEF Transfer
<1>5. /\ DOMAIN handoffs = DOMAIN old.handoffs
      /\ \A j \in DOMAIN old.handoffs \ {i} : handoffs[j] = old.handoffs[j]
      /\ handoffs[i].status = "transferred" /\ handoffs[i].target = target
  BY <1>3, <1>4 DEF Transfer
<1>6. sessions # <<>> /\ sessions[Len(sessions)] = target
  BY <1>3, <1>4
<1> HIDE DEF sessions, handoffs, epoch
<1>7. run.session = target /\ run.sessions = sessions /\ run.handoffs = handoffs
      /\ run.status = "paused"
  <2> HIDE DEF target
  <2> QED BY <1>1 DEF TaskRun
<1> HIDE DEF run
<1>8. \A j \in DOMAIN old.handoffs : old.handoffs[j].status = "prepared" => j = i
  BY <1>1 DEF HandedRun
<1>9. \A j \in DOMAIN handoffs : handoffs[j].status # "prepared"
  <2>1. handoffs[i].status # "prepared"
    BY <1>5
  <2>2. ASSUME NEW j \in DOMAIN handoffs, j # i PROVE handoffs[j].status # "prepared"
    BY <1>5, <1>8, <2>2
  <2> QED BY <2>1, <2>2
<1>10. ~ Prepared(run)
  BY <1>7, <1>9 DEF Prepared
<1>11. HandedRun(run)
  BY <1>6, <1>7, <1>9, <1>10 DEF HandedRun
<1> DEFINE no == FALSE
<1> HIDE DEF no
<1>12. LeaseOf(run) = Accepted(LeaseOf(old), target, no, {})
  <2> DEFINE was == Working(old)
  <2>1. Working(run) = no
    BY <1>7 DEF Working, no
  <2>2. Offers(run) = {}
    BY <1>7, <1>9 DEF Offers
  <2>3. Receivers(run) = Receivers(old)
    <3>1. \A j \in DOMAIN old.handoffs : handoffs[j].target = old.handoffs[j].target
      BY <1>5
    <3> QED BY <1>5, <1>7, <3>1 DEF Receivers
  <2>4. LeaseOf(old) = Leased(old.sessions, was, Offers(old), Receivers(old))
    BY DEF LeaseOf, Leased
  <2>5. LeaseOf(run) = Leased(Append(old.sessions, target), no, {}, Receivers(old))
    BY <1>7, <2>1, <2>2, <2>3 DEF LeaseOf, Leased, sessions
  <2> HIDE DEF was, target
  <2> QED BY <2>4, <2>5, LeaseAccepted
<1>13. target \in LeaseOf(old).offers
  <2>1. target \in Offers(old)
    BY <1>1 DEF Offers
  <2> QED BY <2>1 DEF LeaseOf
<1>14. Lease!Accept(r, target)
  <2>1. [x \in DOMAIN runs |-> LeaseOf(runs[x])][r] = LeaseOf(old)
    OBVIOUS
  <2>2. Lease!Put(r, Accepted(LeaseOf(old), target, no, {}))
    BY <1>2, <1>12 DEF Store, Lease!Put
  <2> HIDE DEF target
  <2> QED BY <1>2, <1>13, <2>1, <2>2, SameActing DEF no, Accepted, Lease!Accept, Lease!Put
<1> HIDE DEF target
<1> QED BY <1>1, <1>2, <1>4, <1>11, <1>14, StoreHanded DEF LeaseStep, Lease!Next
-----------------------------------------------------------------------------
(* Turns                                                                       *)

\* An owner is stopped by a refusal, an interrupt or an exhausted limit.
LEMMA StatusStep ==
  ASSUME Handed, NEW r \in DOMAIN runs, NEW status, status \notin {"running", "completed"},
         Store(r, [runs[r] EXCEPT !.status = status]), calls' = calls, jobs' = jobs
  PROVE  RunsHanded' /\ LeaseStep
<1> DEFINE run == [runs[r] EXCEPT !.status = status]
<1>1. SameOwners(runs[r], run) /\ run.status = status
  BY HandedKnown DEF SameOwners, TaskRun
<1>2. Store(r, run)
  OBVIOUS
<1> HIDE DEF run
<1> QED BY <1>1, <1>2, SuspendStep

\* A refusal suspends the lease of a running owner.
LEMMA FenceStep ==
  ASSUME Handed, NEW s, FenceOwner(s), calls' = calls, jobs' = jobs
  PROVE  RunsHanded' /\ LeaseStep
<1>1. CASE RunsAsOwner(s)
  <2>1. ForSession(s) \in DOMAIN runs
    BY <1>1, OwnerKnown DEF RunsAsOwner
  <2> QED BY <1>1, <2>1, StatusStep DEF FenceOwner
<1>2. CASE ~ RunsAsOwner(s)
  BY <1>2, Stutter DEF FenceOwner
<1> QED BY <1>1, <1>2

\* A counted step leaves the lease; the step over the limit suspends it.
LEMMA EnterTurnStep ==
  ASSUME Handed, NEW s, NEW ok, EnterTurn(s, ok)
  PROVE  RunsHanded' /\ LeaseStep
<1> DEFINE r == ForSession(s)
           turns == runs[r].turns + 1
           run == [runs[r] EXCEPT !.turns = turns]
<1>1. calls' = calls /\ jobs' = jobs
  BY DEF EnterTurn
<1>2. CASE runs' = runs
  BY <1>1, <1>2, Stutter
<1>3. CASE r \in DOMAIN runs /\ Store(r, [runs[r] EXCEPT !.status = "paused"])
  BY <1>1, <1>3, StatusStep
<1>4. CASE r \in DOMAIN runs /\ Store(r, run)
  <2> HIDE DEF turns
  <2>1. SameOwners(runs[r], run) /\ run.status = runs[r].status
    BY <1>4, HandedKnown DEF SameOwners, TaskRun
  <2> HIDE DEF run
  <2> QED BY <1>1, <1>4, <2>1, SameLeases, SameActing DEF LeaseStep, Lease!vars
<1>5. r = NoRun \/ r \in DOMAIN runs
  BY DEF ForSession
<1> QED BY <1>2, <1>3, <1>4, <1>5 DEF EnterTurn, Denied

\* The interrupt of an idle conversation suspends its lease.
LEMMA InterruptStep ==
  ASSUME Handed, NEW s, NEW stored, Interrupt(s, stored)
  PROVE  RunsHanded' /\ LeaseStep
<1> DEFINE r == ForSession(s)
           actions == Remark(runs[r], "pending", "unknown")
           run == [runs[r] EXCEPT !.status = "needs_reconciliation", !.actions = actions]
<1>1. calls' = calls /\ jobs' = jobs
  BY DEF Interrupt
<1>2. CASE runs' = runs
  BY <1>1, <1>2, Stutter
<1>3. CASE RunsAsOwner(s) /\ Store(r, run)
  <2>1. r \in DOMAIN runs
    BY <1>3, OwnerKnown DEF RunsAsOwner
  <2> HIDE DEF actions
  <2>2. SameOwners(runs[r], run) /\ run.status = "needs_reconciliation"
    BY <2>1, HandedKnown DEF SameOwners, TaskRun
  <2>3. Store(r, run)
    BY <1>3
  <2> HIDE DEF run
  <2> QED BY <1>1, <2>1, <2>2, <2>3, SuspendStep
<1> QED BY <1>2, <1>3 DEF Interrupt

\* Completion suspends a lease nobody is being offered.
LEMMA CompleteStep ==
  ASSUME Handed, NEW s, NEW cited, NEW ok, Complete(s, cited, ok)
  PROVE  RunsHanded' /\ LeaseStep
<1> DEFINE r == ForSession(s)
           evidence == Append(runs[r].evidence, cited)
           run == [runs[r] EXCEPT !.status = "completed", !.evidence = evidence]
<1>1. r \in DOMAIN runs /\ runs[r].status = "running" /\ Store(r, run)
      /\ calls' = calls /\ jobs' = jobs
  BY DEF Complete, ForSession, Denied, volatile
<1>2. ~ Prepared(runs[r])
  BY <1>1, HandedKnown DEF HandedRun
<1> HIDE DEF evidence
<1>3. SameOwners(runs[r], run) /\ run.status = "completed"
  BY <1>1, HandedKnown DEF SameOwners, TaskRun
<1> HIDE DEF run
<1> QED BY <1>1, <1>2, <1>3, SuspendStep

\* Going on, to the next step or the next phase, continues the lease.
LEMMA EndTurnStep ==
  ASSUME Handed, NEW s, NEW ok, EndTurnAdvance(s, ok) \/ EndTurnRunning(s, ok)
  PROVE  RunsHanded' /\ LeaseStep
<1> DEFINE r == ForSession(s)
<1>1. r \in DOMAIN runs /\ runs[r].status \in {"running", "completed"}
      /\ calls' = calls /\ jobs' = jobs
  BY OwnerKnown DEF EndTurnAdvance, EndTurnRunning, RunsAsOwner
<1>2. ~ Prepared(runs[r])
  BY <1>1, HandedKnown DEF HandedRun
<1>3. ASSUME NEW run, SameOwners(runs[r], run), Store(r, run)
      PROVE  RunsHanded' /\ LeaseStep
  BY <1>1, <1>2, <1>3, SuspendStep, ContinueStep
<1>4. CASE EndTurnRunning(s, ok)
  <2> DEFINE status == IF CanContinue(s, r, ok) THEN "running" ELSE "paused"
             run == [runs[r] EXCEPT !.status = status]
  <2>1. Store(r, run)
    BY <1>4 DEF EndTurnRunning
  <2> HIDE DEF status
  <2>2. SameOwners(runs[r], run)
    BY <1>1, HandedKnown DEF SameOwners, TaskRun
  <2> HIDE DEF run
  <2> QED BY <1>3, <2>1, <2>2
<1>5. CASE EndTurnAdvance(s, ok)
  <2> DEFINE next == runs[r].range[Len(runs[r].done) + 2]
             done == Append(runs[r].done, [task |-> runs[r].task, evidence |-> runs[r].evidence,
                                           actionsUsed |-> Len(runs[r].actions)])
             status == AdvancedStatus(r, done, next, ok)
             none == <<>>
             run == [runs[r] EXCEPT !.task = next, !.evidence = none, !.done = done,
                                    !.status = status]
  <2>1. Store(r, run)
    BY <1>5 DEF EndTurnAdvance
  <2> HIDE DEF next, done, status, none
  <2>2. SameOwners(runs[r], run)
    BY <1>1, HandedKnown DEF SameOwners, TaskRun
  <2> HIDE DEF run
  <2> QED BY <1>3, <2>1, <2>2
<1> QED BY <1>4, <1>5
-----------------------------------------------------------------------------
(* Tool calls                                                                  *)

\* A new call makes its conversation act.
LEMMA ActingAdds ==
  ASSUME Handed, NEW s \in Sessions, NEW k, k.session = s, calls' = calls \cup {k}, jobs' = jobs
  PROVE  {x \in Sessions : Acts(x)}' = {x \in Sessions : Acts(x)} \cup {s}
<1>1. ASSUME NEW x \in Sessions PROVE Acts(x)' <=> Acts(x) \/ x = s
  BY DEF Acts, InFlight
<1> QED BY <1>1

\* A finished call leaves its conversation acting or not, the others as they were.
LEMMA ActingEnds ==
  ASSUME Handed, NEW s \in Sessions, NEW k \in calls, k.session = s,
         calls' = calls \ {k}, jobs' = jobs
  PROVE  \/ {x \in Sessions : Acts(x)}' = {x \in Sessions : Acts(x)}
         \/ {x \in Sessions : Acts(x)}' = {x \in Sessions : Acts(x)} \ {s}
<1>1. ASSUME NEW x \in Sessions, x # s PROVE Acts(x)' <=> Acts(x)
  BY <1>1 DEF Acts, InFlight
<1>2. Acts(s)
  BY DEF Acts, InFlight
<1>3. CASE Acts(s)'
  BY <1>1, <1>2, <1>3
<1>4. CASE ~ Acts(s)'
  BY <1>1, <1>4
<1> QED BY <1>3, <1>4

\* A call begins in an ordinary conversation or under the attempt its
\* conversation holds; at the limit of actions the attempt is paused instead.
LEMMA BeginActionStep ==
  ASSUME Handed, NEW s \in Sessions, NEW c, NEW ok, BeginAction(s, c, ok)
  PROVE  RunsHanded' /\ LeaseStep
<1> DEFINE r == ForSession(s)
           actions == Append(runs[r].actions, [call |-> c, status |-> "pending"])
           run == [runs[r] EXCEPT !.actions = actions]
           new(stage) == [session |-> s, run |-> r, call |-> c, stage |-> stage]
<1>1. jobs' = jobs
  BY DEF BeginAction
<1>2. CASE r = NoRun
  <2>1. runs' = runs /\ calls' = calls \cup {new("dispatched")}
    BY <1>2 DEF BeginAction
  <2>2. {x \in Sessions : Acts(x)}' = {x \in Sessions : Acts(x)} \cup {s}
    BY <1>1, <2>1, ActingAdds
  <2>3. Lease!Act(s)
    BY <1>2, <2>1, <2>2, UnboundIsFree, SameRunsLeases DEF Lease!Act
  <2> QED BY <2>1, <2>3, SameRunsLeases DEF LeaseStep, Lease!Next
<1>3. CASE r # NoRun /\ Len(runs[r].actions) >= MaxActions
  <2>1. r \in DOMAIN runs
    BY <1>3 DEF ForSession
  <2>2. calls' = calls /\ Store(r, [runs[r] EXCEPT !.status = "paused"])
    BY <1>3 DEF BeginAction
  <2> QED BY <1>1, <2>1, <2>2, StatusStep
<1>4. CASE r # NoRun /\ ~ (Len(runs[r].actions) >= MaxActions)
  <2>1. r \in DOMAIN runs /\ runs[r].session = s /\ runs[r].status = "running"
    BY <1>4 DEF BeginAction, Denied, ForSession
  <2>2. calls' = calls \cup {new("admitted")} /\ Store(r, run)
    BY <1>4 DEF BeginAction
  <2>3. {x \in Sessions : Acts(x)}' = {x \in Sessions : Acts(x)} \cup {s}
    BY <1>1, <2>2, ActingAdds
  <2> HIDE DEF actions
  <2>4. SameOwners(runs[r], run) /\ run.status = runs[r].status
    BY <2>1, HandedKnown DEF SameOwners, TaskRun
  <2> HIDE DEF run
  <2>5. RunsHanded' /\ [x \in DOMAIN runs |-> LeaseOf(runs[x])]' = [x \in DOMAIN runs |-> LeaseOf(runs[x])]
    BY <2>1, <2>2, <2>4, SameLeases
  <2>6. Lease!Holder(r) = s
    BY <2>1, HolderIsSession
  <2>7. [x \in DOMAIN runs |-> LeaseOf(runs[x])][r].working
    <3>1. Working(runs[r])
      BY <2>1, HandedKnown DEF Working, HandedRun
    <3>2. LeaseOf(runs[r]).working
      BY <3>1 DEF LeaseOf
    <3> QED BY <2>1, <3>2
  <2>8. Lease!Act(s)
    BY <2>1, <2>3, <2>5, <2>6, <2>7 DEF Lease!Act
  <2> QED BY <2>5, <2>8 DEF LeaseStep, Lease!Next
<1> QED BY <1>2, <1>3, <1>4

\* A call in flight belongs to a conversation and to a known attempt or none.
LEMMA CallSession ==
  ASSUME Handed, NEW k \in calls
  PROVE  k.session \in Sessions /\ (k.run = NoRun \/ k.run \in DOMAIN runs)
  BY DEF Handed, Typed, TypeOK, Call, CallsAreKnown

\* A call that ends leaves its conversation at rest or with other effects.
LEMMA EndCallStep ==
  ASSUME Handed, NEW k \in calls, NEW succeeded, NEW stored,
         Settle(k, succeeded, stored) \/ EndOrdinary(k)
  PROVE  RunsHanded' /\ LeaseStep
<1> DEFINE same == [x \in DOMAIN runs |-> LeaseOf(runs[x])]
<1>1. calls' = calls \ {k} /\ jobs' = jobs
  BY DEF Settle, EndOrdinary
<1>2. RunsHanded' /\ same' = same
  <2>1. CASE runs' = runs
    BY <2>1, SameRunsLeases
  <2>2. CASE runs' # runs
    <3>1. k.run \in DOMAIN runs
      BY <2>2, CallSession DEF Settle, EndOrdinary, durable
    <3>2. PICK actions : Store(k.run, [runs[k.run] EXCEPT !.actions = actions])
      BY <2>2 DEF Settle, EndOrdinary, durable
    <3> DEFINE run == [runs[k.run] EXCEPT !.actions = actions]
    <3>3. SameOwners(runs[k.run], run) /\ run.status = runs[k.run].status
      BY <3>1, HandedKnown DEF SameOwners, TaskRun
    <3>4. Store(k.run, run)
      BY <3>2
    <3> HIDE DEF run
    <3> QED BY <3>1, <3>3, <3>4, SameLeases
  <2> QED BY <2>1, <2>2
<1>3. LeaseStep
  <2> DEFINE s == k.session
  <2>1. s \in Sessions
    BY CallSession
  <2>2. CASE {x \in Sessions : Acts(x)}' = {x \in Sessions : Acts(x)}
    BY <1>2, <2>2 DEF LeaseStep, Lease!vars
  <2>3. CASE {x \in Sessions : Acts(x)}' = {x \in Sessions : Acts(x)} \ {s}
    <3>1. Lease!Rest(s)
      BY <1>2, <2>3 DEF Lease!Rest
    <3> QED BY <2>1, <3>1 DEF LeaseStep, Lease!Next
  <2> QED BY <1>1, <2>1, <2>2, <2>3, ActingEnds
<1> QED BY <1>2, <1>3

\* The recheck before the tool body neither begins nor ends an effect.
LEMMA DispatchStep ==
  ASSUME Handed, NEW k \in calls, NEW ok, Dispatch(k, ok)
  PROVE  RunsHanded' /\ LeaseStep
<1> DEFINE moved == [k EXCEPT !.stage = IF Denied(k.session, ok) THEN "refused" ELSE "dispatched"]
<1>1. k \in Call
  BY DEF Handed, Typed, TypeOK
<1>2. moved.session = k.session
  BY <1>1 DEF Call
<1>3. calls' = (calls \ {k}) \cup {moved} /\ jobs' = jobs /\ runs' = runs
  BY DEF Dispatch, durable
<1> HIDE DEF moved
<1>4. ASSUME NEW x PROVE Acts(x)' <=> Acts(x)
  BY <1>2, <1>3 DEF Acts, InFlight
<1>5. {x \in Sessions : Acts(x)}' = {x \in Sessions : Acts(x)}
  BY <1>4
<1> QED BY <1>3, <1>5, SameRunsLeases DEF LeaseStep, Lease!vars

\* A background job continues the effect of a call and may outlast it.
LEMMA JobStep ==
  ASSUME Handed, NEW s \in Sessions, StartJob(s) \/ EndJob(s)
  PROVE  RunsHanded' /\ LeaseStep
<1>1. runs' = runs /\ calls' = calls
  BY DEF StartJob, EndJob, durable
<1>2. CASE {x \in Sessions : Acts(x)}' = {x \in Sessions : Acts(x)}
  BY <1>1, <1>2, SameRunsLeases DEF LeaseStep, Lease!vars
<1>3. CASE {x \in Sessions : Acts(x)}' = {x \in Sessions : Acts(x)} \ {s}
  <2>1. Lease!Rest(s)
    BY <1>1, <1>3, SameRunsLeases DEF Lease!Rest
  <2> QED BY <1>1, <2>1, SameRunsLeases DEF LeaseStep, Lease!Next
<1>4. \A x \in Sessions : x # s => (Acts(x)' <=> Acts(x))
  BY <1>1 DEF StartJob, EndJob, Acts, InFlight
<1>5. Acts(s)
  BY DEF StartJob, EndJob, Acts
<1>6. CASE Acts(s)'
  BY <1>2, <1>4, <1>5, <1>6
<1>7. CASE ~ Acts(s)'
  BY <1>3, <1>4, <1>7
<1> QED BY <1>6, <1>7

\* After a restart nobody works and nothing is in flight.
LEMMA RestartStep == ASSUME Handed, Restart PROVE RunsHanded' /\ LeaseStep
<1>1. ASSUME NEW r \in DOMAIN runs
      PROVE  /\ SameOwners(runs[r], Recovered(runs[r]))
             /\ Recovered(runs[r]).status # "running"
             /\ Recovered(runs[r]).status \in {runs[r].status, "needs_reconciliation"}
  <2> DEFINE actions == Remark(runs[r], "pending", "unknown")
             marked == [runs[r] EXCEPT !.status = "needs_reconciliation", !.actions = actions]
  <2>1. \/ Recovered(runs[r]) = runs[r] /\ runs[r].status # "running"
        \/ Recovered(runs[r]) = marked
    BY DEF Recovered
  <2> HIDE DEF actions
  <2>2. marked.status = "needs_reconciliation" /\ SameOwners(runs[r], marked)
    BY HandedKnown DEF SameOwners, TaskRun
  <2> HIDE DEF marked
  <2> QED BY <2>1, <2>2 DEF SameOwners
<1>2. DOMAIN runs' = DOMAIN runs /\ \A r \in DOMAIN runs : runs'[r] = Recovered(runs[r])
  BY DEF Restart
<1>3. RunsHanded'
  <2>1. ASSUME NEW r \in DOMAIN runs PROVE HandedRun(Recovered(runs[r]))
    BY <1>1, HandedKnown, SameOffers DEF HandedRun, SameOwners
  <2> QED BY <1>2, <2>1 DEF RunsHanded
<1>4. ASSUME NEW r \in DOMAIN runs
      PROVE  LeaseOf(Recovered(runs[r])) = [LeaseOf(runs[r]) EXCEPT !.working = FALSE]
  <2>1. Working(Recovered(runs[r])) = FALSE
    BY <1>1 DEF Working
  <2> QED BY <1>1, <2>1, LeaseReplaced
<1>5. {x \in Sessions : Acts(x)}' = {}
  BY DEF Restart, Acts, InFlight
<1>6. Lease!Crash
  BY <1>2, <1>4, <1>5 DEF Lease!Crash
<1> QED BY <1>3, <1>6 DEF LeaseStep, Lease!Next
-----------------------------------------------------------------------------
(* Turns end after their calls                                                 *)

\* A conversation without calls may be at any stage of a turn.
LEMMA QuietTurn ==
  ASSUME Handed, NEW s \in Sessions, InFlight(s) = {}, calls' \subseteq calls,
         NEW stage, agent' = [agent EXCEPT ![s] = stage]
  PROVE  CallsInTurn'
<1>1. ASSUME NEW k \in calls' PROVE agent'[k.session] = "turn"
  <2>1. k \in calls /\ k.session # s
    BY DEF InFlight
  <2>2. agent[k.session] = "turn" /\ agent \in [Sessions -> AgentStage]
    BY <2>1 DEF Handed, CallsInTurn, Typed, TypeOK
  <2> QED BY <2>1, <2>2
<1> QED BY <1>1 DEF CallsInTurn

\* Outside the body of a turn nothing is in flight.
LEMMA NoTurnNoCalls ==
  ASSUME Handed, NEW s, agent[s] # "turn"
  PROVE  InFlight(s) = {}
  BY DEF Handed, CallsInTurn, InFlight

\* While turns stay where they are, calls may only begin inside of one.
LEMMA SameAgentTurn ==
  ASSUME Handed, agent' = agent,
         \A k \in calls' : k \in calls \/ agent[k.session] = "turn"
  PROVE  CallsInTurn'
  BY DEF Handed, CallsInTurn

\* No hook leaves a turn while one of its calls is in flight.
LEMMA TurnsKeepCalls == ASSUME Handed, Turns PROVE CallsInTurn'
<1>1. PICK s \in Sessions :
        \/ \E stage \in {"prestep", "injected"} : Wake(s, stage)
        \/ Steer(s) \/ AbortTurn(s) \/ EndTurnOther(s)
        \/ \E stored \in BOOLEAN : Interrupt(s, stored)
        \/ \E ok \in BOOLEAN :
             \/ CheckAccess(s, ok) \/ StepDenied(s, ok) \/ EnterTurn(s, ok)
             \/ EndTurnAdvance(s, ok) \/ EndTurnRunning(s, ok)
  BY DEF Turns
<1>2. ASSUME NEW stored, Interrupt(s, stored) PROVE CallsInTurn'
  BY <1>2, SameAgentTurn DEF Interrupt
<1>3. ASSUME NEW stage, NEW ok,
             \/ Wake(s, stage) \/ Steer(s) \/ AbortTurn(s) \/ EndTurnOther(s)
             \/ CheckAccess(s, ok) \/ StepDenied(s, ok) \/ EnterTurn(s, ok)
             \/ EndTurnAdvance(s, ok) \/ EndTurnRunning(s, ok)
      PROVE  CallsInTurn'
  <2>1. calls' = calls
    BY <1>3 DEF Wake, Steer, AbortTurn, EndTurnOther, CheckAccess, StepDenied, EnterTurn,
                EndTurnAdvance, EndTurnRunning
  <2>2. InFlight(s) = {}
    BY <1>3, NoTurnNoCalls DEF Wake, Steer, AbortTurn, EndTurnOther, CheckAccess, StepDenied,
                               EnterTurn, EndTurnAdvance, EndTurnRunning
  <2>3. \E new : agent' = [agent EXCEPT ![s] = new]
    BY <1>3 DEF Wake, Steer, AbortTurn, EndTurnOther, CheckAccess, StepDenied, EnterTurn,
                EndTurnAdvance, EndTurnRunning, GoIdle, ContinueOrIdle
  <2> QED BY <2>1, <2>2, <2>3, QuietTurn
<1> QED BY <1>1, <1>2, <1>3

\* Calls begin, go on and end inside a turn.
LEMMA ToolCallsKeepCalls == ASSUME Handed, ToolCalls PROVE CallsInTurn'
<1>1. ASSUME NEW s \in Sessions, NEW c, NEW ok, NEW cited,
             \/ StartJob(s) \/ EndJob(s) \/ ToolDenied(s, ok) \/ BeginAction(s, c, ok)
             \/ Complete(s, cited, ok)
      PROVE  CallsInTurn'
  BY <1>1, SameAgentTurn
     DEF StartJob, EndJob, ToolDenied, BeginAction, Complete, volatile
<1>2. ASSUME NEW k \in calls, NEW ok, NEW succeeded, NEW stored,
             EndOrdinary(k) \/ Settle(k, succeeded, stored)
      PROVE  CallsInTurn'
  BY <1>2, SameAgentTurn DEF EndOrdinary, Settle
<1>3. ASSUME NEW k \in calls, NEW ok, Dispatch(k, ok) PROVE CallsInTurn'
  <2> DEFINE moved == [k EXCEPT !.stage = IF Denied(k.session, ok) THEN "refused" ELSE "dispatched"]
  <2>1. k \in Call /\ agent[k.session] = "turn"
    BY DEF Handed, Typed, TypeOK, CallsInTurn
  <2>2. moved.session = k.session
    BY <2>1 DEF Call
  <2>3. calls' = (calls \ {k}) \cup {moved} /\ agent' = agent
    BY <1>3 DEF Dispatch
  <2> HIDE DEF moved
  <2> QED BY <2>1, <2>2, <2>3, SameAgentTurn
<1> QED BY <1>1, <1>2, <1>3 DEF ToolCalls
-----------------------------------------------------------------------------
(* The specification                                                           *)

\* The invariant holds of a plan without attempts.
LEMMA InitHanded == Init => Handed
  BY InitTyped DEF Init, Handed, RunsHanded, CallsInTurn

\* Every step keeps the invariant and is a step of the lease.
LEMMA NextHanded == Handed /\ [Next]_vars => Handed' /\ LeaseStep
<1> SUFFICES ASSUME Handed, [Next]_vars PROVE Handed' /\ LeaseStep
  OBVIOUS
<1>1. Typed'
  BY NextTyped DEF Handed
<1>2. RunsHanded' /\ LeaseStep
  <2>1. CASE Edits
    BY <2>1, Stutter DEF Edits, Save, Approve, volatile
  <2>2. CASE Claims
    BY <2>2, ClaimsStep
  <2>3. CASE Controls
    BY <2>3, ControlsStep DEF Controls
  <2>4. CASE Handoffs
    BY <2>4, ControlsStep, PrepareHandoffStep, FinishHandoffStep DEF Handoffs
  <2>5. CASE Turns
    <3>1. ASSUME NEW s, NEW stage, NEW ok,
                 Wake(s, stage) \/ Steer(s) \/ AbortTurn(s) \/ EndTurnOther(s) \/ CheckAccess(s, ok)
          PROVE  RunsHanded' /\ LeaseStep
      BY <3>1, Stutter DEF Wake, Steer, AbortTurn, EndTurnOther, CheckAccess, durable
    <3>2. ASSUME NEW s, NEW ok, StepDenied(s, ok) PROVE RunsHanded' /\ LeaseStep
      BY <3>2, FenceStep DEF StepDenied
    <3> QED BY <2>5, <3>1, <3>2, InterruptStep, EnterTurnStep, EndTurnStep DEF Turns
  <2>6. CASE ToolCalls
    <3>1. ASSUME NEW s, NEW ok, ToolDenied(s, ok) PROVE RunsHanded' /\ LeaseStep
      BY <3>1, FenceStep DEF ToolDenied, volatile
    <3> QED BY <2>6, <3>1, JobStep, BeginActionStep, CompleteStep, EndCallStep, DispatchStep
            DEF ToolCalls
  <2>7. CASE \E r \in Runs : Expire(r)
    BY <2>7, Stutter DEF Expire, durable, volatile
  <2>8. CASE Restart
    BY <2>8, RestartStep
  <2>9. CASE UNCHANGED vars
    BY <2>9, Stutter DEF vars
  <2> QED BY <2>1, <2>2, <2>3, <2>4, <2>5, <2>6, <2>7, <2>8, <2>9 DEF Next
<1>3. CallsInTurn'
  <2>1. CASE agent' = agent /\ calls' = calls
    BY <2>1, SameAgentTurn
  <2>2. CASE Turns
    BY <2>2, TurnsKeepCalls
  <2>3. CASE ToolCalls
    BY <2>3, ToolCallsKeepCalls
  <2>4. CASE Restart
    BY <2>4 DEF Restart, CallsInTurn
  <2>5. CASE Edits \/ Claims \/ Controls \/ Handoffs \/ (\E r \in Runs : Expire(r)) \/ UNCHANGED vars
    <3>1. CASE Edits
      BY <2>1, <3>1 DEF Edits, Save, Approve, volatile
    <3>2. CASE Claims
      <4>1. ASSUME NEW s, NEW r, NEW t, NEW op, NEW automatic, NEW native, NEW last, NEW relay,
                   \/ ClaimTask(s, r, t, op, automatic, native)
                   \/ ClaimPhases(s, r, t, op, native, last, relay)
            PROVE  CallsInTurn'
        BY <2>1, <4>1 DEF ClaimTask, ClaimPhases, volatile
      <4> QED BY <3>2, <4>1 DEF Claims
    <3>3. CASE Controls
      BY <2>1, <3>3 DEF Controls, Stop, Resume, ResumeUnreconciled, volatile
    <3>4. CASE Handoffs
      BY <2>1, <3>4 DEF Handoffs, PrepareHandoff, PrepareChanged, FinishHandoff, volatile
    <3>5. CASE (\E r \in Runs : Expire(r)) \/ UNCHANGED vars
      BY <2>1, <3>5 DEF Expire, volatile, vars
    <3> QED BY <2>5, <3>1, <3>2, <3>3, <3>4, <3>5
  <2> QED BY <2>2, <2>3, <2>4, <2>5 DEF Next
<1> QED BY <1>1, <1>2, <1>3 DEF Handed

\* The invariant of the refinement.
LEMMA AlwaysHanded == Spec => []Handed
<1> QED BY InitHanded, NextHanded, PTL DEF Spec

\* Whatever execution.ts does to turns, budgets, phases and plan versions,
\* attempts change hands only the way TaskLease says.
THEOREM ExecutionImplementsLease == Spec => ImplementsLease
<1>1. Init => Lease!Init
  <2> SUFFICES ASSUME Init PROVE Lease!Init
    OBVIOUS
  <2>1. DOMAIN runs = {} /\ [r \in DOMAIN runs |-> LeaseOf(runs[r])] = <<>>
    BY DEF Init
  <2>2. {s \in Sessions : Acts(s)} = {}
    BY DEF Init, Acts, InFlight
  <2> QED BY <2>1, <2>2 DEF Lease!Init
<1>2. Handed /\ [Next]_vars => [Lease!Next]_(Lease!vars)
  BY NextHanded DEF LeaseStep
<1> QED BY <1>1, <1>2, AlwaysHanded, PTL DEF Spec, ImplementsLease, Lease!Spec

\* So every behaviour of the service is one TaskLease_proofs speaks about.
LEMMA LeaseIsProved == Spec => Proved!Spec
<1>1. Lease!Init => Proved!Init
  BY DEF Lease!Init, Proved!Init
<1>2. [Lease!Next]_(Lease!vars) => [Proved!Next]_(Proved!vars)
  BY DEF Lease!Next, Lease!vars, Lease!Claim, Lease!Suspend, Lease!Continue, Lease!Offer,
         Lease!Accept, Lease!Act, Lease!Rest, Lease!Crash, Lease!Put, Lease!Free, Lease!Bound,
         Lease!Holder, Proved!Next, Proved!vars, Proved!Claim, Proved!Suspend, Proved!Continue,
         Proved!Offer, Proved!Accept, Proved!Act, Proved!Rest, Proved!Crash, Proved!Put,
         Proved!Free, Proved!Bound, Proved!Holder
<1> QED BY <1>1, <1>2, ExecutionImplementsLease, PTL DEF ImplementsLease, Lease!Spec, Proved!Spec

\* A conversation bound to an attempt has effects in flight only while it owns
\* the attempt: what TaskLease promises, read back through the mapping.
THEOREM OwnersAct == Spec => []OneExecutor
<1>1. Spec => Proved!Spec
  BY LeaseIsProved
<1>2. Proved!Spec => []Proved!OnlyHoldersAct
  BY Proved!LeaseIsExclusive
<1>3. Handed /\ Proved!OnlyHoldersAct => OneExecutor
  <2> SUFFICES ASSUME Handed, Proved!OnlyHoldersAct, NEW s \in Sessions, Acts(s),
                      ForSession(s) # NoRun
               PROVE  Owns(s)
    BY DEF OneExecutor, Acts
  <2> DEFINE r == ForSession(s)
  <2>1. r \in DOMAIN runs /\ BoundTo(runs[r], s)
    BY DEF ForSession
  <2>2. Proved!Bound(r, s)
    BY <2>1 DEF Proved!Bound, LeaseOf, Receivers, BoundTo, Elements
  <2>3. Proved!Holder(r) = runs[r].session
    BY <2>1, HandedKnown DEF Proved!Holder, LeaseOf, HandedRun
  <2> QED BY <2>1, <2>2, <2>3 DEF Proved!OnlyHoldersAct, Owns
<1> QED BY <1>1, <1>2, <1>3, AlwaysHanded, PTL
-----------------------------------------------------------------------------
(* The records                                                                 *)

\* The sequences of an attempt, and what is in them.
LEMMA Fields ==
  ASSUME NEW run \in TaskRun
  PROVE  /\ run.sessions \in Seq(Sessions) /\ \A i \in DOMAIN run.sessions : run.sessions[i] \in Sessions
         /\ run.actions \in Seq(Action) /\ \A i \in DOMAIN run.actions : run.actions[i] \in Action
         /\ run.range \in Seq(Tasks) /\ \A i \in DOMAIN run.range : run.range[i] \in Tasks
         /\ run.done \in Seq(Done) /\ \A i \in DOMAIN run.done : run.done[i] \in Done
         /\ run.handoffs \in Seq(Transfer) /\ \A i \in DOMAIN run.handoffs : run.handoffs[i] \in Transfer
<1>1. /\ run.sessions \in Seq(Sessions) /\ run.actions \in Seq(Action) /\ run.range \in Seq(Tasks)
      /\ run.done \in Seq(Done) /\ run.handoffs \in Seq(Transfer)
  BY DEF TaskRun
<1> QED BY <1>1

\* The current owner is the last of the history.
LEMMA OwnerIsLast ==
  ASSUME Handed, NEW r \in DOMAIN runs
  PROVE  /\ Len(runs[r].sessions) \in DOMAIN runs[r].sessions
         /\ runs[r].session = runs[r].sessions[Len(runs[r].sessions)]
         /\ runs[r].session \in Sessions /\ BoundTo(runs[r], runs[r].session)
<1>1. runs[r].sessions \in Seq(Sessions) /\ HandedRun(runs[r])
  BY HandedKnown, Fields
<1>2. /\ Len(runs[r].sessions) \in DOMAIN runs[r].sessions
      /\ runs[r].session = runs[r].sessions[Len(runs[r].sessions)]
  BY <1>1 DEF HandedRun
<1>3. runs[r].session \in Sessions
  BY <1>1, <1>2
<1>4. BoundTo(runs[r], runs[r].session)
  BY <1>2 DEF BoundTo, Elements
<1> QED BY <1>2, <1>3, <1>4
-----------------------------------------------------------------------------
(* Calls in flight and prepared transfers                                      *)

\* The call k is one of the current owner of run, for the current revision, and
\* run still records it as open.
Carries(run, k) ==
  /\ k.session = run.session
  /\ run.planRevision = Current
  /\ \E i \in DOMAIN run.actions :
       run.actions[i].call = k.call /\ run.actions[i].status \in {"pending", "unknown"}

CallsAreCarried == \A k \in calls : k.run # NoRun => Carries(runs[k.run], k)

\* An attempt has one call in flight under an identity.
CallsAreOne ==
  \A k, l \in calls : k.run # NoRun /\ k.run = l.run /\ k.call = l.call => k = l

\* With a transfer prepared the attempt has stopped, everything is settled, its
\* revision is current, and the transfer names its owner and its epoch.
AtRest(run) ==
  Prepared(run) =>
    /\ run.status \in {"paused", "cancelled"}
    /\ ~ HasAction(run, {"pending", "unknown"})
    /\ run.planRevision = Current
    /\ \A i \in DOMAIN run.handoffs : run.handoffs[i].status = "prepared" =>
         run.handoffs[i].source = run.session /\ run.handoffs[i].epoch = run.epoch

TransfersRest == \A r \in DOMAIN runs : AtRest(runs[r])

Consistent == CallsAreCarried /\ CallsAreOne /\ TransfersRest

\* What a change of the attempt r leaves true: it still carries its calls.
StillCarries(r, run) ==
  \A k \in calls' : k.run = r => Carries(run, k)

\* Carries and AtRest read the current revision of the plan, which stays.
LEMMA SameRevision == ASSUME approvals' = approvals PROVE Current' = Current
  BY DEF Current

\* No call of another attempt is touched by a change of r.
LEMMA StoreConsistent ==
  ASSUME Handed, Consistent, approvals' = approvals, NEW r \in DOMAIN runs, NEW run,
         Store(r, run), AtRest(run), StillCarries(r, run), CallsAreOne',
         \A k \in calls' : k \in calls \/ k.run = r
  PROVE  Consistent'
<1>1. Current' = Current
  BY SameRevision
<1>2. /\ DOMAIN runs' = DOMAIN runs /\ runs'[r] = run
      /\ \A q \in DOMAIN runs \ {r} : runs'[q] = runs[q]
  BY DEF Store
<1>3. ASSUME NEW k \in calls', k.run # NoRun PROVE Carries(runs[k.run], k)'
  <2>1. CASE k.run = r
    BY <1>1, <1>2, <2>1 DEF StillCarries, Carries
  <2>2. CASE k.run # r
    <3>1. k \in calls /\ Carries(runs[k.run], k) /\ k.run \in DOMAIN runs
      BY <1>3, <2>2 DEF Consistent, CallsAreCarried, Handed, Typed, CallsAreKnown
    <3> QED BY <1>1, <1>2, <2>2, <3>1 DEF Carries
  <2> QED BY <2>1, <2>2
<1>4. ASSUME NEW q \in DOMAIN runs' PROVE AtRest(runs[q])'
  BY <1>1, <1>2 DEF Consistent, TransfersRest, AtRest
<1> QED BY <1>3, <1>4 DEF Consistent, CallsAreCarried, TransfersRest

\* With the same owner, revision and actions an attempt carries the same calls.
LEMMA SameCarries ==
  ASSUME Consistent, NEW r \in DOMAIN runs, r # NoRun, NEW run, calls' \subseteq calls,
         run.session = runs[r].session, run.planRevision = runs[r].planRevision,
         run.actions = runs[r].actions
  PROVE  StillCarries(r, run) /\ CallsAreOne'
  BY DEF Consistent, CallsAreCarried, CallsAreOne, StillCarries, Carries

\* An attempt that has everything settled has no call in flight.
LEMMA SettledHasNoCalls ==
  ASSUME Handed, Consistent, NEW r \in DOMAIN runs, ~ HasAction(runs[r], {"pending", "unknown"})
  PROVE  \A k \in calls : k.run # r
  BY ConstantsAssumption DEF Consistent, CallsAreCarried, Carries, HasAction, Handed, Typed, TypeOK

\* Neither has an attempt whose owner is inactive.
LEMMA InactiveHasNoCalls ==
  ASSUME Handed, Consistent, NEW r \in DOMAIN runs, Inactive(runs[r].session)
  PROVE  \A k \in calls : k.run # r
  BY ConstantsAssumption
     DEF Consistent, CallsAreCarried, Carries, Inactive, Handed, CallsInTurn, Typed, TypeOK
-----------------------------------------------------------------------------
(* Changes of an attempt                                                       *)

\* With the same transfers an attempt has the same one prepared.
LEMMA SameTransfers ==
  ASSUME NEW old, NEW run, SameHistory(old, run)
  PROVE  Prepared(run) = Prepared(old)
  BY DEF SameHistory, Prepared

\* An attempt that runs or is completed has no transfer prepared.
LEMMA WorkingIsUnprepared ==
  ASSUME Handed, NEW r \in DOMAIN runs, runs[r].status \in {"running", "completed"}
  PROVE  ~ Prepared(runs[r])
  BY HandedKnown DEF HandedRun

\* A new status, with a stop or a pause where a transfer is prepared.
LEMMA MarksConsistent ==
  ASSUME Handed, Consistent, approvals' = approvals, NEW r \in DOMAIN runs, NEW run,
         Store(r, run), Marks(runs[r], run)
  PROVE  Consistent'
<1>1. r # NoRun
  BY HandedKnown, ConstantsAssumption
<1>2. StillCarries(r, run) /\ CallsAreOne' /\ calls' = calls
  BY <1>1, SameCarries DEF Marks, SameHistory, SameTerms, SameUse
<1>3. AtRest(runs[r])
  BY DEF Consistent, TransfersRest
<1>4. AtRest(run)
  BY <1>3, SameTransfers, WorkingIsUnprepared
     DEF Marks, SameHistory, SameTerms, SameUse, AtRest, HasAction
<1> QED BY <1>2, <1>4, StoreConsistent

\* Resuming reconciles what is unknown, when the owner has nothing in flight.
LEMMA ResumesConsistent ==
  ASSUME Handed, Consistent, approvals' = approvals, NEW r \in DOMAIN runs, NEW run,
         Store(r, run), Resumes(runs[r], run)
  PROVE  Consistent'
<1> DEFINE old == runs[r]
<1>1. r # NoRun /\ old \in TaskRun
  BY HandedKnown, ConstantsAssumption
<1>2. calls' = calls /\ \A k \in calls : k.run # r
  BY InactiveHasNoCalls DEF Resumes
<1>3. StillCarries(r, run) /\ CallsAreOne'
  BY <1>2 DEF StillCarries, CallsAreOne, Consistent
<1>4. AtRest(old)
  BY DEF Consistent, TransfersRest
<1>5. HasAction(run, {"pending", "unknown"}) => HasAction(old, {"pending", "unknown"})
  BY <1>1, RemarkSpends DEF Resumes, HasAction
<1>6. AtRest(run)
  BY <1>4, <1>5, SameTransfers DEF Resumes, SameHistory, SameTerms, AtRest
<1> QED BY <1>2, <1>3, <1>6, StoreConsistent

\* An interrupted owner's open calls become unknown, and stay open.
LEMMA InterruptsConsistent ==
  ASSUME Handed, Consistent, approvals' = approvals, NEW r \in DOMAIN runs, NEW run,
         Store(r, run), Interrupts(runs[r], run)
  PROVE  Consistent'
<1> DEFINE old == runs[r]
<1>1. r # NoRun /\ old \in TaskRun
  BY HandedKnown, ConstantsAssumption
<1>2. AtRest(run)
  BY SameTransfers, WorkingIsUnprepared DEF Interrupts, AtRest
<1>3. ASSUME NEW k \in calls, k.run = r PROVE Carries(run, k)
  <2>1. Carries(old, k)
    BY <1>1, <1>3 DEF Consistent, CallsAreCarried
  <2> QED BY <1>1, <2>1, RemarkSpends DEF Interrupts, SameHistory, SameTerms, Carries
<1>4. calls' = calls
  BY DEF Interrupts
<1>5. StillCarries(r, run) /\ CallsAreOne'
  BY <1>3, <1>4 DEF StillCarries, CallsAreOne, Consistent
<1> QED BY <1>2, <1>4, <1>5, StoreConsistent

\* A transfer is prepared when nothing of the attempt is open.
LEMMA PreparesConsistent ==
  ASSUME Handed, Consistent, approvals' = approvals, NEW r \in DOMAIN runs, NEW run,
         Store(r, run), Prepares(runs[r], run)
  PROVE  Consistent'
<1> DEFINE old == runs[r]
<1>1. r # NoRun /\ old \in TaskRun
  BY HandedKnown, ConstantsAssumption
<1>2. StillCarries(r, run) /\ CallsAreOne' /\ calls' = calls
  BY <1>1, SameCarries DEF Prepares, SameTerms, SameUse
<1>3. PICK offer \in Transfer :
        /\ run.handoffs = Append(old.handoffs, offer)
        /\ offer.source = old.session /\ offer.epoch = old.epoch
  <2>1. PICK op \in Ops \cup {Fresh}, target \in Sessions :
          run.handoffs = Append(old.handoffs, [op |-> op, source |-> old.session,
            target |-> target, epoch |-> old.epoch, status |-> "prepared"])
    BY DEF Prepares
  <2> DEFINE offer == [op |-> op, source |-> old.session, target |-> target,
                       epoch |-> old.epoch, status |-> "prepared"]
  <2>2. offer \in Transfer /\ offer.source = old.session /\ offer.epoch = old.epoch
    BY <1>1 DEF Transfer, TaskRun
  <2> QED BY <2>1, <2>2
<1>4. old.handoffs \in Seq(Transfer)
  BY <1>1 DEF TaskRun
<1>5. ASSUME NEW i \in DOMAIN run.handoffs, run.handoffs[i].status = "prepared"
      PROVE  run.handoffs[i].source = run.session /\ run.handoffs[i].epoch = run.epoch
  <2>1. CASE i \in DOMAIN old.handoffs
    <3>1. run.handoffs[i] = old.handoffs[i]
      BY <1>3, <1>4, <2>1
    <3> QED BY <1>5, <2>1, <3>1 DEF Prepares, Prepared
  <2>2. CASE i \notin DOMAIN old.handoffs
    <3>1. run.handoffs[i] = offer
      BY <1>3, <1>4, <2>2
    <3> QED BY <1>3, <3>1 DEF Prepares
  <2> QED BY <2>1, <2>2
<1>6. AtRest(run)
  BY <1>5 DEF Prepares, SameTerms, SameUse, AtRest, HasAction
<1> QED BY <1>2, <1>6, StoreConsistent

\* Finishing it leaves none prepared, and there was no call to carry.
LEMMA FinishesConsistent ==
  ASSUME Handed, Consistent, approvals' = approvals, NEW r \in DOMAIN runs, NEW run,
         NEW i \in DOMAIN runs[r].handoffs, Store(r, run), Finishes(runs[r], run, i)
  PROVE  Consistent'
<1> DEFINE old == runs[r]
<1>1. r # NoRun /\ old \in TaskRun /\ HandedRun(old)
  BY HandedKnown, ConstantsAssumption
<1>2. ~ HasAction(old, {"pending", "unknown"})
  BY DEF Finishes, Prepared, Consistent, TransfersRest, AtRest
<1>3. calls' = calls /\ \A k \in calls : k.run # r
  BY <1>2, SettledHasNoCalls DEF Finishes
<1>4. StillCarries(r, run) /\ CallsAreOne'
  BY <1>3 DEF StillCarries, CallsAreOne, Consistent
<1>5. ~ Prepared(run)
  <2>1. SUFFICES ASSUME NEW j \in DOMAIN run.handoffs, run.handoffs[j].status = "prepared"
                 PROVE  FALSE
    BY DEF Prepared
  <2>2. old.handoffs \in Seq(Transfer) /\ old.handoffs[i] \in Transfer
    BY <1>1 DEF TaskRun
  <2>3. /\ run.handoffs = [old.handoffs EXCEPT ![i].status = "transferred"]
        /\ old.handoffs[i].status = "prepared"
    BY DEF Finishes
  <2>4. j # i
    BY <2>1, <2>2, <2>3 DEF Transfer
  <2>5. j \in DOMAIN old.handoffs /\ old.handoffs[j].status = "prepared"
    BY <2>1, <2>2, <2>3, <2>4
  <2> QED BY <1>1, <2>3, <2>4, <2>5 DEF HandedRun
<1>6. AtRest(run)
  BY <1>5 DEF AtRest
<1> QED BY <1>3, <1>4, <1>6, StoreConsistent

\* A counted step, a completed task and the next task leave the calls alone.
LEMMA WorkConsistent ==
  ASSUME Handed, Consistent, approvals' = approvals, NEW r \in DOMAIN runs, NEW run,
         Store(r, run), Counts(runs[r], run) \/ Finds(runs[r], run) \/ Advances(runs[r], run)
  PROVE  Consistent'
<1>1. r # NoRun
  BY HandedKnown, ConstantsAssumption
<1>2. StillCarries(r, run) /\ CallsAreOne' /\ calls' = calls
  BY <1>1, SameCarries DEF Counts, Finds, Advances, SameHistory, SameTerms, SameUse
<1>3. AtRest(run)
  BY SameTransfers, WorkingIsUnprepared DEF Counts, Finds, Advances, AtRest
<1> QED BY <1>2, <1>3, StoreConsistent

\* An admitted call is recorded as pending under an identity of its own.
LEMMA AdmitsConsistent ==
  ASSUME Handed, Consistent, approvals' = approvals, NEW r \in DOMAIN runs, NEW run,
         NEW s \in Sessions, NEW c \in Calls, Store(r, run), Admits(runs[r], run, r, s, c)
  PROVE  Consistent'
<1> DEFINE old == runs[r]
           new == [session |-> s, run |-> r, call |-> c, stage |-> "admitted"]
<1>1. r # NoRun /\ old \in TaskRun
  BY HandedKnown, ConstantsAssumption
<1>2. AtRest(run)
  BY SameTransfers, WorkingIsUnprepared DEF Admits, AtRest
<1>3. calls' = calls \cup {new}
  BY DEF Admits
<1>4. run.actions = Append(old.actions, [call |-> c, status |-> "pending"])
  BY DEF Admits
<1>5. Carries(run, new)
  <2>1. Len(old.actions) + 1 \in DOMAIN run.actions
    BY <1>1, <1>4, AdmittedAction
  <2>2. /\ run.actions[Len(old.actions) + 1].call = new.call
        /\ run.actions[Len(old.actions) + 1].status = "pending"
    BY <1>1, <1>4, AdmittedAction
  <2> QED BY <2>1, <2>2 DEF Admits, SameHistory, SameTerms, Carries
<1>6. ASSUME NEW k \in calls, k.run = r PROVE Carries(run, k) /\ k.call # c
  <2>1. Carries(old, k)
    BY <1>1, <1>6 DEF Consistent, CallsAreCarried
  <2>2. PICK i \in DOMAIN old.actions :
          old.actions[i].call = k.call /\ old.actions[i].status \in {"pending", "unknown"}
    BY <2>1 DEF Carries
  <2>3. i \in DOMAIN run.actions /\ run.actions[i] = old.actions[i]
    BY <1>1, <1>4, AdmittedAction
  <2> QED BY <2>1, <2>2, <2>3 DEF Admits, SameHistory, SameTerms, Carries
<1>7. StillCarries(r, run)
  BY <1>3, <1>5, <1>6 DEF StillCarries
<1>8. CallsAreOne'
  BY <1>1, <1>3, <1>6 DEF CallsAreOne, Consistent
<1> QED BY <1>2, <1>3, <1>7, <1>8, StoreConsistent

\* An outcome closes the action of its own call alone.
LEMMA SettlesConsistent ==
  ASSUME Handed, Consistent, approvals' = approvals, NEW r \in DOMAIN runs, NEW run,
         NEW k \in calls, Store(r, run), Settles(runs[r], run, r, k)
  PROVE  Consistent'
<1> DEFINE old == runs[r]
<1>1. r # NoRun /\ old \in TaskRun /\ k.run = r /\ calls' = calls \ {k}
  BY HandedKnown, ConstantsAssumption DEF Settles
<1>2. Carries(old, k)
  BY <1>1 DEF Consistent, CallsAreCarried
<1>3. ~ Prepared(old)
  BY <1>2 DEF Carries, HasAction, Consistent, TransfersRest, AtRest
<1>4. AtRest(run)
  BY <1>3, SameTransfers DEF Settles, AtRest
<1>5. ASSUME NEW l \in calls, l.run = r, l # k PROVE Carries(run, l)
  <2>1. Carries(old, l) /\ l.call # k.call
    BY <1>1, <1>5 DEF Consistent, CallsAreCarried, CallsAreOne
  <2>2. PICK i \in DOMAIN old.actions :
          old.actions[i].call = l.call /\ old.actions[i].status \in {"pending", "unknown"}
    BY <2>1 DEF Carries
  <2>3. i \in DOMAIN run.actions /\ run.actions[i].call = l.call
        /\ run.actions[i].status = old.actions[i].status
    BY <1>1, <2>1, <2>2, OutcomeSpends DEF Settles
  <2> QED BY <2>1, <2>2, <2>3 DEF Settles, SameHistory, SameTerms, Carries
<1>6. StillCarries(r, run)
  BY <1>1, <1>5 DEF StillCarries
<1>7. CallsAreOne'
  BY <1>1 DEF CallsAreOne, Consistent
<1> QED BY <1>1, <1>4, <1>6, <1>7, StoreConsistent

\* Whatever changes an attempt keeps calls, actions and transfers in agreement.
LEMMA ChangeConsistent == ASSUME Handed, Consistent, ChangeStep PROVE Consistent'
<1>1. approvals' = approvals
  BY DEF ChangeStep
<1>2. PICK r \in DOMAIN runs, run \in TaskRun : Store(r, run) /\ Changes(r, run)
  BY DEF ChangeStep
<1> QED BY <1>1, <1>2, MarksConsistent, ResumesConsistent, InterruptsConsistent, PreparesConsistent,
           FinishesConsistent, WorkConsistent, AdmitsConsistent, SettlesConsistent DEF Changes
-----------------------------------------------------------------------------
(* Every other step                                                            *)

\* A new revision finds nothing open and nothing prepared.
LEMMA SaveConsistent == ASSUME Handed, Consistent, NEW op, Save(op) PROVE Consistent'
<1>1. runs' = runs /\ calls' = calls /\ \A r \in DOMAIN runs : ~ BlocksEditing(runs[r])
  BY DEF Save, volatile
<1>2. \A k \in calls : k.run = NoRun
  BY <1>1, SettledHasNoCalls DEF BlocksEditing, Handed, Typed, CallsAreKnown
<1>3. \A r \in DOMAIN runs : ~ Prepared(runs[r])
  BY <1>1 DEF BlocksEditing
<1>4. CallsAreCarried'
  BY <1>1, <1>2 DEF CallsAreCarried
<1>5. TransfersRest'
  BY <1>1, <1>3 DEF TransfersRest, AtRest
<1> QED BY <1>1, <1>4, <1>5 DEF Consistent, CallsAreOne

\* Approving leaves the current revision the current one.
LEMMA ApproveConsistent == ASSUME Handed, Consistent, NEW op, Approve(op) PROVE Consistent'
<1>1. Current' = Current
  BY DEF Approve, Current, Handed, Typed, TypeOK
<1>2. runs' = runs /\ calls' = calls
  BY DEF Approve, volatile
<1> QED BY <1>1, <1>2 DEF Consistent, CallsAreCarried, Carries, CallsAreOne, TransfersRest, AtRest

\* A new attempt has neither calls nor transfers.
LEMMA NewAttemptConsistent == ASSUME Handed, Consistent, NewAttemptStep PROVE Consistent'
<1>1. PICK r, run : r \notin DOMAIN runs /\ Store(r, run) /\ run.handoffs = <<>>
  BY DEF NewAttemptStep, NewRun
<1>2. approvals' = approvals /\ calls' = calls
  BY DEF NewAttemptStep
<1>3. Current' = Current
  BY <1>2, SameRevision
<1>4. DOMAIN runs' = DOMAIN runs \cup {r} /\ runs'[r] = run
      /\ \A q \in DOMAIN runs : runs'[q] = runs[q]
  BY <1>1 DEF Store
<1>5. CallsAreCarried'
  <2>1. SUFFICES ASSUME NEW k \in calls, k.run # NoRun PROVE Carries(runs[k.run], k)'
    BY <1>2 DEF CallsAreCarried
  <2>2. k.run \in DOMAIN runs /\ Carries(runs[k.run], k)
    BY <2>1 DEF Handed, Typed, CallsAreKnown, Consistent, CallsAreCarried
  <2> QED BY <1>3, <1>4, <2>2 DEF Carries
<1>6. TransfersRest'
  <2>1. ~ Prepared(run)
    BY <1>1 DEF Prepared
  <2> QED BY <1>3, <1>4, <2>1 DEF Consistent, TransfersRest, AtRest
<1> QED BY <1>2, <1>5, <1>6 DEF Consistent, CallsAreOne

\* Calls end, go on as the same call, or begin without an attempt.
LEMMA CallConsistent == ASSUME Handed, Consistent, CallStep PROVE Consistent'
<1>1. runs' = runs /\ Current' = Current
  BY SameRevision DEF CallStep
<1>2. ASSUME NEW k, k.run # NoRun, k \in calls'
      PROVE  \E l \in calls : l.run = k.run /\ l.call = k.call /\ l.session = k.session
  BY <1>2 DEF CallStep
<1>3. CallsAreCarried'
  BY <1>1, <1>2 DEF Consistent, CallsAreCarried, Carries
<1>4. CallsAreOne'
  <2>1. CASE calls' \subseteq calls
    BY <2>1 DEF Consistent, CallsAreOne
  <2>2. CASE \E k \in Call : calls' = calls \cup {k} /\ k.run = NoRun
    BY <2>2 DEF Consistent, CallsAreOne
  <2>3. CASE \E k \in calls, moved \in Call :
               /\ calls' = (calls \ {k}) \cup {moved}
               /\ moved.session = k.session /\ moved.run = k.run /\ moved.call = k.call
    BY <2>3 DEF Consistent, CallsAreOne
  <2> QED BY <2>1, <2>2, <2>3 DEF CallStep
<1>5. TransfersRest'
  BY <1>1 DEF Consistent, TransfersRest, AtRest
<1> QED BY <1>3, <1>4, <1>5 DEF Consistent

\* A restart ends every call, and marks no attempt that has a transfer prepared.
LEMMA RestartConsistent == ASSUME Handed, Consistent, Restart PROVE Consistent'
<1>1. calls' = {} /\ Current' = Current
  BY DEF Restart, Current
<1>2. CallsAreCarried' /\ CallsAreOne'
  BY <1>1 DEF CallsAreCarried, CallsAreOne
<1>3. ASSUME NEW r \in DOMAIN runs PROVE AtRest(Recovered(runs[r]))
  <2> DEFINE actions == Remark(runs[r], "pending", "unknown")
             marked == [runs[r] EXCEPT !.status = "needs_reconciliation", !.actions = actions]
  <2>1. AtRest(runs[r]) /\ runs[r] \in TaskRun
    BY HandedKnown DEF Consistent, TransfersRest
  <2>2. CASE runs[r].status = "running" \/ HasAction(runs[r], {"pending"})
    <3>1. ~ Prepared(runs[r])
      BY <2>1, <2>2 DEF AtRest, HasAction
    <3>2. marked.handoffs = runs[r].handoffs
      <4> HIDE DEF actions
      <4> QED BY <2>1 DEF TaskRun
    <3> HIDE DEF marked
    <3>3. ~ Prepared(marked)
      BY <3>1, <3>2 DEF Prepared
    <3> QED BY <2>2, <3>3 DEF Recovered, AtRest, marked
  <2> QED BY <2>1, <2>2 DEF Recovered
<1>4. TransfersRest'
  <2>1. DOMAIN runs' = DOMAIN runs /\ \A r \in DOMAIN runs : runs'[r] = Recovered(runs[r])
    BY DEF Restart
  <2> QED BY <1>1, <1>3, <2>1 DEF TransfersRest, AtRest
<1> QED BY <1>2, <1>4 DEF Consistent

\* No call of an older revision, no call twice and no transfer under way that
\* anything could disturb: with the invariant of the lease this is inductive.
LEMMA NextConsistent == Handed /\ Consistent /\ [Next]_vars => Consistent'
<1> SUFFICES ASSUME Handed, Consistent, [Next]_vars PROVE Consistent'
  OBVIOUS
<1>1. Edits \/ NewAttemptStep \/ ChangeStep \/ CallStep \/ Restart
  BY StepShape DEF Handed
<1> QED BY <1>1, SaveConsistent, ApproveConsistent, NewAttemptConsistent, ChangeConsistent, CallConsistent,
           RestartConsistent DEF Edits

\* Calls, actions and transfers agree in every reachable state.
LEMMA AlwaysConsistent == Spec => []Consistent
<1>1. Init => Consistent
  <2> SUFFICES ASSUME Init PROVE Consistent
    OBVIOUS
  <2>1. DOMAIN runs = {} /\ calls = {}
    BY DEF Init
  <2> QED BY <2>1 DEF Consistent, CallsAreCarried, CallsAreOne, TransfersRest
<1> QED BY <1>1, NextConsistent, AlwaysHanded, PTL DEF Spec

\* An edit waits for every admitted call of every attempt, also of stopped ones:
\* no call of an older revision is ever in flight.
THEOREM CallsAreCurrent == Spec => []NoCallOfAnOldRevision
<1>1. Consistent => NoCallOfAnOldRevision
  BY DEF Consistent, CallsAreCarried, Carries, NoCallOfAnOldRevision
<1> QED BY <1>1, AlwaysConsistent, PTL
-----------------------------------------------------------------------------
(* Transfers                                                                   *)

\* nobody tied to an attempt with a transfer prepared has an effect in flight
TransfersAreQuiet ==
  \A r \in DOMAIN runs : Prepared(runs[r]) =>
    \A s \in Sessions : BoundTo(runs[r], s) => ~ Acts(s)

\* That is the lease's promise about its offers.
LEMMA AlwaysQuiet == Spec => []TransfersAreQuiet
<1>1. Proved!IInv => TransfersAreQuiet
  <2> SUFFICES ASSUME Proved!IInv, NEW r \in DOMAIN runs, Prepared(runs[r]), NEW s \in Sessions,
                      BoundTo(runs[r], s)
               PROVE  ~ Acts(s)
    BY DEF TransfersAreQuiet
  <2>1. LeaseOf(runs[r]).offers # {}
    BY DEF LeaseOf, Offers, Prepared
  <2>2. Proved!Bound(r, s)
    BY DEF Proved!Bound, LeaseOf, Receivers, BoundTo, Elements
  <2> QED BY <2>1, <2>2 DEF Proved!IInv, Proved!OffersAreQuiet
<1> QED BY <1>1, LeaseIsProved, Proved!LeaseInvariant, PTL

\* From prepareHandoff until its transfer nobody works on the attempt: it is
\* stopped, has nothing unsettled, its plan cannot be edited away under it, and
\* the one prepared transfer names the owner and epoch that finishHandoff asks for.
THEOREM TransfersFindNothingUnderWay == Spec => []PreparedHandoffIsQuiescent
<1>1. Handed /\ Consistent /\ TransfersAreQuiet => PreparedHandoffIsQuiescent
  <2> SUFFICES ASSUME Handed, Consistent, TransfersAreQuiet, NEW r \in DOMAIN runs,
                      NEW i \in DOMAIN runs[r].handoffs, runs[r].handoffs[i].status = "prepared",
                      NEW s \in {runs[r].session, runs[r].handoffs[i].target}
               PROVE  /\ runs[r].status \in {"paused", "cancelled"}
                      /\ ~ HasAction(runs[r], {"pending", "unknown"})
                      /\ runs[r].planRevision = Current
                      /\ runs[r].handoffs[i].source = runs[r].session
                      /\ runs[r].handoffs[i].epoch = runs[r].epoch
                      /\ InFlight(s) = {} /\ s \notin jobs
    BY DEF PreparedHandoffIsQuiescent
  <2>1. Prepared(runs[r]) /\ AtRest(runs[r])
    BY DEF Prepared, Consistent, TransfersRest
  <2>2. s \in Sessions /\ BoundTo(runs[r], s)
    <3>1. runs[r].handoffs[i] \in Transfer
      BY HandedKnown, Fields
    <3> QED BY <3>1, OwnerIsLast DEF Transfer, BoundTo
  <2>3. ~ Acts(s)
    BY <2>1, <2>2 DEF TransfersAreQuiet
  <2> QED BY <2>1, <2>3 DEF AtRest, Acts
<1> QED BY <1>1, AlwaysHanded, AlwaysConsistent, AlwaysQuiet, PTL

\* A change of an attempt moves its ownership by finishing a transfer, or not at all.
LEMMA ChangeMoves ==
  ASSUME Handed, NEW r \in DOMAIN runs, NEW run \in TaskRun, Changes(r, run)
  PROVE  /\ IsPrefix(runs[r].sessions, run.sessions)
         /\ run.session # runs[r].session =>
              \E i \in DOMAIN runs[r].handoffs : Finishes(runs[r], run, i)
<1> DEFINE old == runs[r]
<1>1. old \in TaskRun
  BY HandedKnown
<1>2. IsPrefix(old.sessions, old.sessions)
  <2>1. Len(old.sessions) \in Nat
    BY <1>1 DEF TaskRun
  <2>2. Len(old.sessions) <= Len(old.sessions)
    BY <2>1
  <2> QED BY <2>2 DEF IsPrefix
<1>3. CASE run.session = old.session /\ run.sessions = old.sessions
  BY <1>2, <1>3
<1>4. ASSUME NEW i \in DOMAIN old.handoffs, Finishes(old, run, i)
      PROVE  IsPrefix(old.sessions, run.sessions)
  <2>1. old.handoffs[i] \in Transfer /\ old.sessions \in Seq(Sessions)
    BY <1>1, Fields
  <2> QED BY <1>4, <2>1, PrefixOfAppended DEF Finishes, Transfer
<1> QED BY <1>3, <1>4
        DEF Changes, Marks, Resumes, Interrupts, Prepares, Counts, Finds, Advances, Admits,
            Settles, SameHistory

\* Every step moves ownership that way, out of an attempt nobody acts for.
LEMMA NextMoves ==
  ASSUME Handed, TransfersAreQuiet, [Next]_vars, NEW r \in DOMAIN runs
  PROVE  /\ IsPrefix(runs[r].sessions, runs'[r].sessions)
         /\ runs'[r].session # runs[r].session =>
              /\ \E i \in DOMAIN runs[r].handoffs : Finishes(runs[r], runs'[r], i)
              /\ ~ Acts(runs[r].session)
<1>1. runs[r] \in TaskRun /\ HandedRun(runs[r])
  BY HandedKnown
<1>2. CASE runs'[r].session = runs[r].session /\ runs'[r].sessions = runs[r].sessions
  BY <1>1, <1>2 DEF TaskRun, IsPrefix
<1>3. CASE Edits \/ CallStep
  BY <1>2, <1>3 DEF Edits, Save, Approve, CallStep
<1>4. CASE NewAttemptStep
  <2>1. PICK q \in Runs \ DOMAIN runs : \E run : Store(q, run)
    BY <1>4 DEF NewAttemptStep
  <2>2. runs'[r] = runs[r]
    BY <2>1 DEF Store
  <2> QED BY <1>2, <2>2
<1>5. CASE Restart
  <2> DEFINE actions == Remark(runs[r], "pending", "unknown")
             marked == [runs[r] EXCEPT !.status = "needs_reconciliation", !.actions = actions]
  <2>1. runs'[r] = runs[r] \/ runs'[r] = marked
    BY <1>5 DEF Restart, Recovered
  <2>2. marked.session = runs[r].session /\ marked.sessions = runs[r].sessions
    <3> HIDE DEF actions
    <3> QED BY <1>1 DEF TaskRun
  <2> HIDE DEF marked
  <2> QED BY <1>2, <2>1, <2>2
<1>6. CASE ChangeStep
  <2>1. PICK q \in DOMAIN runs, run \in TaskRun : Store(q, run) /\ Changes(q, run)
    BY <1>6 DEF ChangeStep
  <2>2. CASE q # r
    <3>1. runs'[r] = runs[r]
      BY <2>1, <2>2 DEF Store
    <3> QED BY <1>2, <3>1
  <2>3. CASE q = r
    <3>1. runs'[r] = run /\ Changes(r, run)
      BY <2>1, <2>3 DEF Store
    <3>2. ASSUME NEW i \in DOMAIN runs[r].handoffs, Finishes(runs[r], run, i)
          PROVE  ~ Acts(runs[r].session)
      <4>1. Prepared(runs[r])
        BY <3>2 DEF Finishes, Prepared
      <4>2. runs[r].session \in Sessions /\ BoundTo(runs[r], runs[r].session)
        BY OwnerIsLast
      <4> QED BY <4>1, <4>2 DEF TransfersAreQuiet
    <3> QED BY <3>1, <3>2, ChangeMoves
  <2> QED BY <2>2, <2>3
<1> QED BY <1>3, <1>4, <1>5, <1>6, StepShape DEF Handed

\* Ownership moves only to the target of a prepared transfer, by one epoch, out
\* of a paused attempt whose former owner has nothing in flight; the history of
\* owners is never rewritten.
THEOREM OwnershipIsHandedOver == Spec => OwnershipMoves
<1>1. Handed /\ TransfersAreQuiet /\ [Next]_vars =>
        [\A r \in DOMAIN runs :
           /\ IsPrefix(runs[r].sessions, runs'[r].sessions)
           /\ runs'[r].session # runs[r].session =>
                /\ \E i \in DOMAIN runs[r].handoffs :
                     /\ runs[r].handoffs[i].status = "prepared"
                     /\ runs[r].handoffs[i].target = runs'[r].session
                /\ runs'[r].epoch = runs[r].epoch + 1
                /\ runs[r].status = "paused" /\ runs'[r].status = "paused"
                /\ InFlight(runs[r].session) = {} /\ runs[r].session \notin jobs]_vars
  <2> SUFFICES ASSUME Handed, TransfersAreQuiet, [Next]_vars, NEW r \in DOMAIN runs
               PROVE  /\ IsPrefix(runs[r].sessions, runs'[r].sessions)
                      /\ runs'[r].session # runs[r].session =>
                           /\ \E i \in DOMAIN runs[r].handoffs :
                                /\ runs[r].handoffs[i].status = "prepared"
                                /\ runs[r].handoffs[i].target = runs'[r].session
                           /\ runs'[r].epoch = runs[r].epoch + 1
                           /\ runs[r].status = "paused" /\ runs'[r].status = "paused"
                           /\ InFlight(runs[r].session) = {} /\ runs[r].session \notin jobs
    OBVIOUS
  <2>1. /\ IsPrefix(runs[r].sessions, runs'[r].sessions)
        /\ runs'[r].session # runs[r].session =>
             /\ \E i \in DOMAIN runs[r].handoffs : Finishes(runs[r], runs'[r], i)
             /\ ~ Acts(runs[r].session)
    BY NextMoves
  <2> QED BY <2>1 DEF Finishes, Acts
<1> QED BY <1>1, AlwaysHanded, AlwaysQuiet, PTL DEF Spec, OwnershipMoves
-----------------------------------------------------------------------------
(* What one stored attempt says of itself                                      *)

\* the actions that the first i completed tasks share
Used(run, i) == IF i = 0 THEN 0 ELSE run.done[i].actionsUsed

\* The budgets and the history of owners add up.
Accounted(run) ==
  /\ run.session = Last(run.sessions) /\ run.epoch = Len(run.sessions)
  /\ run.turns <= MaxTurns /\ Len(run.actions) <= MaxActions
  /\ \A i, j \in DOMAIN run.actions :
       run.actions[i].call = run.actions[j].call => i = j

\* Every transfer names its place in that history, and a receiver that was new.
Recorded(run) ==
  /\ IsInjective(run.sessions)
  /\ \A i \in DOMAIN run.handoffs :
       LET handoff == run.handoffs[i] IN
       /\ handoff.epoch \in 1..Len(run.sessions)
       /\ run.sessions[handoff.epoch] = handoff.source
       /\ handoff.status = "prepared" => handoff.target \notin Elements(run.sessions)
       /\ handoff.status = "transferred" =>
            /\ handoff.epoch + 1 \in 1..Len(run.sessions)
            /\ run.sessions[handoff.epoch + 1] = handoff.target

\* Evidence goes with completion, and completion leaves nothing open.
Evidenced(run) ==
  /\ run.status = "completed" => ~ HasAction(run, {"pending", "unknown"})
  /\ run.status # "completed" => run.evidence = <<>>
  /\ \A i \in 1..Len(run.done) :
       /\ Used(run, i - 1) <= Used(run, i) /\ Used(run, i) <= Len(run.actions)
       /\ CitationsHold(run, run.done[i].evidence, Used(run, i - 1) + 1, Used(run, i))
  /\ run.status = "completed" =>
       CitationsHold(run, run.evidence, Used(run, Len(run.done)) + 1, Len(run.actions))

\* The completed tasks are the first of the range, the current one is the next.
Sequenced(run) ==
  /\ run.range = <<>> => run.done = <<>>
  /\ run.range # <<>> =>
       /\ Len(run.done) < Len(run.range)
       /\ run.range[Len(run.done) + 1] = run.task
       /\ \A i \in DOMAIN run.done : run.done[i].task = run.range[i]

Sound(run) == Accounted(run) /\ Recorded(run) /\ Evidenced(run) /\ Sequenced(run)

\* Lengths and shares are numbers, and the actions are counted by their places.
LEMMA Numbers ==
  ASSUME NEW run \in TaskRun
  PROVE  /\ Len(run.sessions) \in Nat /\ DOMAIN run.sessions = 1..Len(run.sessions)
         /\ Len(run.actions) \in Nat /\ DOMAIN run.actions = 1..Len(run.actions)
         /\ Len(run.done) \in Nat /\ DOMAIN run.done = 1..Len(run.done)
         /\ Len(run.range) \in Nat /\ DOMAIN run.range = 1..Len(run.range)
         /\ run.epoch \in Nat /\ run.turns \in Nat
         /\ \A i \in 0..Len(run.done) : Used(run, i) \in Nat
<1>1. /\ Len(run.sessions) \in Nat /\ DOMAIN run.sessions = 1..Len(run.sessions)
      /\ Len(run.actions) \in Nat /\ DOMAIN run.actions = 1..Len(run.actions)
      /\ Len(run.done) \in Nat /\ DOMAIN run.done = 1..Len(run.done)
      /\ Len(run.range) \in Nat /\ DOMAIN run.range = 1..Len(run.range)
  BY Fields
<1>2. run.epoch \in Nat /\ run.turns \in Nat
  BY DEF TaskRun
<1>3. \A i \in DOMAIN run.done : run.done[i].actionsUsed \in Nat
  BY Fields DEF Done
<1> QED BY <1>1, <1>2, <1>3 DEF Used

\* What the accounts read.
LEMMA SameAccounts ==
  ASSUME NEW old, NEW run, Accounted(old), SameUse(old, run), run.session = old.session,
         run.sessions = old.sessions, run.epoch = old.epoch
  PROVE  Accounted(run)
  BY DEF Accounted, SameUse

\* New statuses of the same actions leave the accounts alone.
LEMMA SameCallsAccounted ==
  ASSUME NEW old, NEW run, Accounted(old), SameHistory(old, run), run.turns = old.turns,
         Len(run.actions) = Len(old.actions), DOMAIN run.actions = DOMAIN old.actions,
         \A i \in DOMAIN old.actions : run.actions[i].call = old.actions[i].call
  PROVE  Accounted(run)
  BY DEF Accounted, SameHistory

\* A finished transfer adds its receiver and one epoch.
LEMMA FinishesAccounted ==
  ASSUME NEW old \in TaskRun, NEW run, NEW i \in DOMAIN old.handoffs, Accounted(old),
         Finishes(old, run, i)
  PROVE  Accounted(run)
<1>1. old.sessions \in Seq(Sessions) /\ old.handoffs[i].target \in Sessions
  BY Fields DEF Transfer
<1>2. run.sessions = Append(old.sessions, old.handoffs[i].target)
      /\ run.session = old.handoffs[i].target /\ run.epoch = old.epoch + 1
  BY DEF Finishes
<1>3. Last(run.sessions) = run.session /\ Len(run.sessions) = Len(old.sessions) + 1
  BY <1>1, <1>2 DEF Last
<1> QED BY <1>2, <1>3 DEF Accounted, Finishes, SameUse

\* An admitted call is new and within the budget.
LEMMA AdmitsAccounted ==
  ASSUME NEW old \in TaskRun, NEW run, NEW r, NEW s, NEW c \in Calls, Accounted(old),
         Admits(old, run, r, s, c)
  PROVE  Accounted(run)
<1>1. run.actions = Append(old.actions, [call |-> c, status |-> "pending"])
  BY DEF Admits
<1>2. /\ Len(run.actions) = Len(old.actions) + 1 /\ Len(old.actions) \in Nat
      /\ DOMAIN old.actions = 1..Len(old.actions) /\ DOMAIN run.actions = 1..(Len(old.actions) + 1)
      /\ \A i \in DOMAIN old.actions : run.actions[i] = old.actions[i]
      /\ run.actions[Len(old.actions) + 1].call = c
  BY <1>1, AdmittedAction
<1>3. Len(run.actions) <= MaxActions
  BY <1>2, ConstantsAssumption DEF Admits
<1>4. ASSUME NEW i \in DOMAIN run.actions, NEW j \in DOMAIN run.actions,
             run.actions[i].call = run.actions[j].call
      PROVE  i = j
  <2>1. i \in DOMAIN old.actions \/ i = Len(old.actions) + 1
    BY <1>2
  <2>2. j \in DOMAIN old.actions \/ j = Len(old.actions) + 1
    BY <1>2
  <2> QED BY <1>2, <1>4, <2>1, <2>2 DEF Accounted, Admits
<1>5. run.session = Last(run.sessions) /\ run.epoch = Len(run.sessions) /\ run.turns <= MaxTurns
  BY DEF Admits, SameHistory, Accounted
<1> QED BY <1>3, <1>4, <1>5 DEF Accounted

\* A counted step is within the budget.
LEMMA CountsAccounted ==
  ASSUME NEW old \in TaskRun, NEW run, Accounted(old), Counts(old, run)
  PROVE  Accounted(run)
<1>1. run.turns <= MaxTurns
  BY Numbers, ConstantsAssumption DEF Counts
<1> QED BY <1>1 DEF Counts, SameHistory, Accounted

\* The accounts survive every change.
LEMMA ChangeAccounted ==
  ASSUME NEW r \in DOMAIN runs, runs[r] \in TaskRun, NEW run, Accounted(runs[r]), Changes(r, run)
  PROVE  Accounted(run)
<1> DEFINE old == runs[r]
<1>1. CASE Marks(old, run) \/ Prepares(old, run) \/ Finds(old, run) \/ Advances(old, run)
  BY <1>1, SameAccounts DEF Marks, Prepares, Finds, Advances, SameHistory
<1>2. CASE Resumes(old, run) \/ Interrupts(old, run)
  BY <1>2, SameCallsAccounted, RemarkSpends DEF Resumes, Interrupts
<1>3. ASSUME NEW k, Settles(old, run, r, k) PROVE Accounted(run)
  BY <1>3, SameCallsAccounted, OutcomeSpends DEF Settles
<1> QED BY <1>1, <1>2, <1>3, FinishesAccounted, AdmitsAccounted, CountsAccounted DEF Changes
-----------------------------------------------------------------------------
\* A prepared transfer is recorded at the end of the history.
LEMMA PreparesRecorded ==
  ASSUME Handed, NEW r \in DOMAIN runs, NEW run, Accounted(runs[r]), Recorded(runs[r]),
         Prepares(runs[r], run)
  PROVE  Recorded(run)
<1> DEFINE old == runs[r]
<1>1. old \in TaskRun /\ HandedRun(old)
  BY HandedKnown
<1>2. PICK op \in Ops \cup {Fresh}, target \in Sessions :
        /\ ForSession(target) = NoRun
        /\ run.handoffs = Append(old.handoffs, [op |-> op, source |-> old.session,
             target |-> target, epoch |-> old.epoch, status |-> "prepared"])
  BY DEF Prepares
<1> DEFINE offer == [op |-> op, source |-> old.session, target |-> target,
                     epoch |-> old.epoch, status |-> "prepared"]
<1>3. /\ offer \in Transfer /\ offer.source = old.session /\ offer.epoch = old.epoch
      /\ offer.target = target /\ offer.status = "prepared"
  BY <1>1 DEF Transfer, TaskRun
<1>4. run.sessions = old.sessions
  BY DEF Prepares
<1>5. old.epoch \in 1..Len(old.sessions) /\ old.sessions[old.epoch] = old.session
  <2>1. Len(old.sessions) \in Nat /\ Len(old.sessions) # 0
    BY <1>1, Fields DEF HandedRun
  <2> QED BY <1>1, <2>1 DEF Accounted, HandedRun
<1>6. target \notin Elements(old.sessions)
  <2>1. ~ BoundTo(old, target)
    BY <1>2, HandedKnown, ConstantsAssumption DEF ForSession, Handed, Typed, TypeOK
  <2> QED BY <2>1 DEF BoundTo
<1>7. old.handoffs \in Seq(Transfer) /\ run.handoffs = Append(old.handoffs, offer)
  BY <1>1, <1>2, Fields
<1> HIDE DEF offer
<1>8. ASSUME NEW i \in DOMAIN run.handoffs
      PROVE  \/ i \in DOMAIN old.handoffs /\ run.handoffs[i] = old.handoffs[i]
             \/ run.handoffs[i] = offer
  BY <1>3, <1>7
<1> QED BY <1>3, <1>4, <1>5, <1>6, <1>8 DEF Recorded

\* A finished one extends the history by its receiver, and was the only one.
LEMMA FinishesRecorded ==
  ASSUME NEW old \in TaskRun, HandedRun(old), NEW run, NEW i \in DOMAIN old.handoffs,
         Accounted(old), Recorded(old), Finishes(old, run, i)
  PROVE  Recorded(run)
<1> DEFINE n == Len(old.sessions)
           target == old.handoffs[i].target
<1>1. /\ old.sessions \in Seq(Sessions) /\ old.handoffs \in Seq(Transfer)
      /\ \A j \in DOMAIN old.handoffs : old.handoffs[j] \in Transfer
  BY Fields
<1>2. /\ run.sessions = Append(old.sessions, target) /\ target \in Sessions
      /\ run.handoffs = [old.handoffs EXCEPT ![i].status = "transferred"]
      /\ old.handoffs[i].status = "prepared" /\ old.handoffs[i].epoch = n
  BY <1>1 DEF Finishes, Accounted, Transfer
<1>3. /\ n \in Nat /\ DOMAIN old.sessions = 1..n /\ Len(run.sessions) = n + 1
      /\ DOMAIN run.sessions = 1..(n + 1)
      /\ run.sessions[n + 1] = target /\ \A j \in 1..n : run.sessions[j] = old.sessions[j]
  BY <1>1, <1>2
<1>4. target \notin Elements(old.sessions)
  BY <1>2 DEF Recorded
<1>5. IsInjective(run.sessions)
  <2>1. \A j \in 1..n : old.sessions[j] # target
    BY <1>3, <1>4 DEF Elements
  <2>2. \A j, k \in 1..n : old.sessions[j] = old.sessions[k] => j = k
    BY <1>3 DEF Recorded, IsInjective
  <2> HIDE DEF n, target
  <2>3. 1..(n + 1) = 1..n \cup {n + 1}
    BY <1>3
  <2> QED BY <1>3, <2>1, <2>2, <2>3 DEF IsInjective
<1>6. ASSUME NEW j \in DOMAIN run.handoffs
      PROVE  LET handoff == run.handoffs[j] IN
             /\ handoff.epoch \in 1..(n + 1)
             /\ run.sessions[handoff.epoch] = handoff.source
             /\ handoff.status = "prepared" => handoff.target \notin Elements(run.sessions)
             /\ handoff.status = "transferred" =>
                  /\ handoff.epoch + 1 \in 1..(n + 1)
                  /\ run.sessions[handoff.epoch + 1] = handoff.target
  <2>1. /\ j \in DOMAIN old.handoffs /\ old.handoffs[j] \in Transfer
        /\ old.handoffs[j].epoch \in 1..n
        /\ old.sessions[old.handoffs[j].epoch] = old.handoffs[j].source
        /\ old.handoffs[j].status = "transferred" =>
             /\ old.handoffs[j].epoch + 1 \in 1..n
             /\ old.sessions[old.handoffs[j].epoch + 1] = old.handoffs[j].target
    BY <1>1, <1>2 DEF Recorded
  <2>2. CASE j = i
    <3>1. /\ run.handoffs[j].epoch = n /\ run.handoffs[j].status = "transferred"
          /\ run.handoffs[j].source = old.handoffs[j].source /\ run.handoffs[j].target = target
      BY <1>2, <2>1, <2>2 DEF Transfer
    <3> HIDE DEF n, target
    <3> QED BY <1>2, <1>3, <2>1, <2>2, <3>1
  <2>3. CASE j # i
    <3>1. run.handoffs[j] = old.handoffs[j]
      BY <1>1, <1>2, <2>1, <2>3
    <3>2. old.handoffs[j].status = "transferred"
      BY <1>2, <2>1, <2>3 DEF HandedRun, Transfer
    <3> HIDE DEF n, target
    <3>3. old.handoffs[j].epoch \in 1..(n + 1) /\ old.handoffs[j].epoch + 1 \in 1..(n + 1)
      BY <1>3, <2>1
    <3> QED BY <1>3, <2>1, <3>1, <3>2, <3>3
  <2> QED BY <2>2, <2>3
<1> QED BY <1>3, <1>5, <1>6 DEF Recorded

\* The history survives every change.
LEMMA ChangeRecorded ==
  ASSUME Handed, NEW r \in DOMAIN runs, NEW run, Accounted(runs[r]), Recorded(runs[r]),
         Changes(r, run)
  PROVE  Recorded(run)
<1> DEFINE old == runs[r]
<1>1. CASE SameHistory(old, run)
  BY <1>1 DEF SameHistory, Recorded
<1>2. old \in TaskRun /\ HandedRun(old)
  BY HandedKnown
<1> QED BY <1>1, <1>2, PreparesRecorded, FinishesRecorded
        DEF Changes, Marks, Resumes, Interrupts, Counts, Finds, Advances, Admits, Settles
-----------------------------------------------------------------------------
\* Successes of the old actions are successes still, under the same calls.
Stays(old, run) ==
  /\ Len(old.actions) <= Len(run.actions)
  /\ \A i \in DOMAIN old.actions :
       /\ run.actions[i].call = old.actions[i].call
       /\ old.actions[i].status = "succeeded" => run.actions[i].status = "succeeded"

\* So what was citable in a share of the actions still is.
LEMMA CitationsStay ==
  ASSUME NEW old \in TaskRun, NEW run \in TaskRun, Stays(old, run), run.native = old.native,
         NEW first \in Nat \ {0}, NEW last \in Nat, last <= Len(old.actions), NEW evidence,
         CitationsHold(old, evidence, first, last)
  PROVE  CitationsHold(run, evidence, first, last)
<1>1. first..last \subseteq DOMAIN old.actions
  BY Numbers
<1>2. SucceededIn(old, first, last) \subseteq SucceededIn(run, first, last)
  BY <1>1 DEF SucceededIn, Stays
<1> QED BY <1>2 DEF CitationsHold

\* The shares of completed tasks stay as they are.
LEMMA SharesStay ==
  ASSUME NEW old \in TaskRun, NEW run \in TaskRun, Evidenced(old), Stays(old, run),
         run.native = old.native, NEW i \in 1..Len(old.done), i \in 1..Len(run.done),
         \A j \in 1..Len(old.done) : run.done[j] = old.done[j]
  PROVE  /\ Used(run, i - 1) <= Used(run, i) /\ Used(run, i) <= Len(run.actions)
         /\ CitationsHold(run, run.done[i].evidence, Used(run, i - 1) + 1, Used(run, i))
<1>1. /\ Len(old.done) \in Nat /\ Len(old.actions) \in Nat /\ Len(run.actions) \in Nat
      /\ \A j \in 0..Len(old.done) : Used(old, j) \in Nat
  BY Numbers
<1>2. i \in 0..Len(old.done) /\ i - 1 \in 0..Len(old.done)
  BY <1>1
<1>3. Used(run, i) = Used(old, i) /\ Used(run, i - 1) = Used(old, i - 1)
  BY <1>1 DEF Used
<1>4. /\ Used(old, i - 1) <= Used(old, i) /\ Used(old, i) <= Len(old.actions)
      /\ CitationsHold(old, old.done[i].evidence, Used(old, i - 1) + 1, Used(old, i))
  BY DEF Evidenced
<1>5. Used(old, i - 1) + 1 \in Nat \ {0} /\ Used(old, i) \in Nat
  BY <1>1, <1>2
<1>6. CitationsHold(run, old.done[i].evidence, Used(old, i - 1) + 1, Used(old, i))
  BY <1>4, <1>5, CitationsStay
<1>7. Used(old, i) <= Len(run.actions)
  BY <1>1, <1>2, <1>4 DEF Stays
<1> QED BY <1>3, <1>4, <1>6, <1>7

\* A change that leaves the work and the success of the actions alone.
LEMMA SameWorkEvidenced ==
  ASSUME NEW old \in TaskRun, NEW run \in TaskRun, Evidenced(old), Stays(old, run),
         run.native = old.native, SameWork(old, run),
         run.status = "completed" <=> old.status = "completed",
         run.status = "completed" =>
           Len(run.actions) = Len(old.actions) /\ ~ HasAction(run, {"pending", "unknown"})
  PROVE  Evidenced(run)
<1>1. run.done = old.done /\ run.evidence = old.evidence
  BY DEF SameWork
<1>2. \A i \in 1..Len(run.done) :
         /\ Used(run, i - 1) <= Used(run, i) /\ Used(run, i) <= Len(run.actions)
         /\ CitationsHold(run, run.done[i].evidence, Used(run, i - 1) + 1, Used(run, i))
  BY <1>1, SharesStay
<1>3. ASSUME run.status = "completed"
      PROVE  CitationsHold(run, run.evidence, Used(run, Len(run.done)) + 1, Len(run.actions))
  <2>1. CitationsHold(old, old.evidence, Used(old, Len(old.done)) + 1, Len(old.actions))
    BY <1>3 DEF Evidenced
  <2>2. Len(old.actions) \in Nat /\ Len(old.done) \in 0..Len(old.done)
    BY Numbers
  <2>3. Used(old, Len(old.done)) + 1 \in Nat \ {0} /\ Len(old.actions) <= Len(old.actions)
    BY <2>2, Numbers
  <2>4. Used(run, Len(run.done)) = Used(old, Len(old.done))
    BY <1>1 DEF Used
  <2> QED BY <1>1, <1>3, <2>1, <2>2, <2>3, <2>4, CitationsStay
<1> QED BY <1>1, <1>2, <1>3 DEF Evidenced

\* What remarking and recording an outcome leave of successes.
LEMMA SameUseStays ==
  ASSUME NEW old \in TaskRun, NEW run, run.actions = old.actions
  PROVE  Stays(old, run)
<1>1. Len(old.actions) <= Len(old.actions)
  BY Numbers
<1> QED BY <1>1 DEF Stays

\* Remarking touches no success.
LEMMA RemarkStays ==
  ASSUME NEW old \in TaskRun, NEW run, NEW from, from # "succeeded", NEW to,
         run.actions = Remark(old, from, to)
  PROVE  Stays(old, run)
<1>1. Len(run.actions) = Len(old.actions) /\ Len(old.actions) <= Len(old.actions)
  BY RemarkSpends, Numbers
<1> QED BY <1>1, RemarkSpends DEF Stays

\* Marked with new statuses, an attempt that is not completed stays sound.
LEMMA RemarkedEvidenced ==
  ASSUME NEW old \in TaskRun, NEW run \in TaskRun, Evidenced(old), run.native = old.native,
         SameWork(old, run), run.status # "completed", old.status # "completed",
         NEW from, from # "succeeded", NEW to, run.actions = Remark(old, from, to)
  PROVE  Evidenced(run)
  BY RemarkStays, SameWorkEvidenced

\* An admitted call comes after every share.
LEMMA AdmitsEvidenced ==
  ASSUME NEW old \in TaskRun, NEW run \in TaskRun, NEW r, NEW s, NEW c \in Calls, Evidenced(old),
         Admits(old, run, r, s, c)
  PROVE  Evidenced(run)
<1>1. run.actions = Append(old.actions, [call |-> c, status |-> "pending"])
  BY DEF Admits
<1>2. Len(old.actions) <= Len(run.actions)
      /\ \A i \in DOMAIN old.actions : run.actions[i] = old.actions[i]
  BY <1>1, AdmittedAction
<1>3. Stays(old, run)
  BY <1>2 DEF Stays
<1> QED BY <1>3, SameWorkEvidenced DEF Admits, SameTerms

\* An outcome is recorded for an open action, which was no success.
LEMMA SettlesEvidenced ==
  ASSUME Handed, Consistent, NEW r \in DOMAIN runs, NEW run \in TaskRun, NEW k \in calls,
         Accounted(runs[r]), Evidenced(runs[r]), Settles(runs[r], run, r, k)
  PROVE  Evidenced(run)
<1> DEFINE old == runs[r]
<1>1. old \in TaskRun /\ r # NoRun /\ k.run = r
  BY HandedKnown, ConstantsAssumption DEF Settles
<1>2. PICK i \in DOMAIN old.actions :
        old.actions[i].call = k.call /\ old.actions[i].status \in {"pending", "unknown"}
  BY <1>1 DEF Consistent, CallsAreCarried, Carries
<1>3. PICK status \in {"succeeded", "failed"} : run.actions = Outcome(old, k.call, status)
  BY DEF Settles
<1>4. /\ Len(run.actions) = Len(old.actions) /\ DOMAIN run.actions = DOMAIN old.actions
      /\ \A j \in DOMAIN old.actions :
           /\ run.actions[j].call = old.actions[j].call
           /\ run.actions[j].status = IF old.actions[j].call = k.call THEN status
                                      ELSE old.actions[j].status
  BY <1>1, <1>3, OutcomeSpends
<1>5. \A j \in DOMAIN old.actions : old.actions[j].status = "succeeded" => old.actions[j].call # k.call
  BY <1>2 DEF Accounted
<1>6. Stays(old, run)
  <2>1. Len(old.actions) <= Len(old.actions)
    BY <1>1, Numbers
  <2> QED BY <1>4, <1>5, <2>1 DEF Stays
<1>7. ~ HasAction(old, {"pending", "unknown"}) => ~ HasAction(run, {"pending", "unknown"})
  BY <1>3, <1>4 DEF HasAction
<1> QED BY <1>1, <1>4, <1>6, <1>7, SameWorkEvidenced DEF Settles, SameTerms, Evidenced

\* The calls a completion cites succeeded in the share of its task.
LEMMA FindsEvidenced ==
  ASSUME NEW old \in TaskRun, NEW run \in TaskRun, Evidenced(old), Finds(old, run)
  PROVE  Evidenced(run)
<1>1. /\ run.done = old.done /\ run.actions = old.actions /\ run.native = old.native
      /\ old.evidence = <<>> /\ run.status = "completed"
      /\ ~ HasAction(run, {"pending", "unknown"})
  BY DEF Finds, SameUse, SameTerms, Evidenced, HasAction
<1>2. PICK cited \in SUBSET Calls :
        /\ IF old.native THEN cited = {} ELSE cited # {} /\ cited \subseteq Citable(old)
        /\ run.evidence = Append(old.evidence, cited)
  BY DEF Finds
<1>3. run.evidence = <<cited>>
  BY <1>1, <1>2
<1>4. Citable(old) = SucceededIn(run, Used(run, Len(run.done)) + 1, Len(run.actions))
  <2>1. old.done = <<>> <=> Len(old.done) = 0
    BY Fields
  <2>2. TaskActions(old) =
          {old.actions[i] : i \in (Used(old, Len(old.done)) + 1)..Len(old.actions)}
    BY <2>1 DEF TaskActions, Used
  <2>3. Used(run, Len(run.done)) = Used(old, Len(old.done))
    BY <1>1 DEF Used
  <2> DEFINE share == (Used(old, Len(old.done)) + 1)..Len(old.actions)
  <2>4. Citable(old) = {a.call : a \in {b \in {old.actions[i] : i \in share} : b.status = "succeeded"}}
    BY <2>2 DEF Citable
  <2>5. SucceededIn(run, Used(run, Len(run.done)) + 1, Len(run.actions)) =
          {old.actions[i].call : i \in {j \in share : old.actions[j].status = "succeeded"}}
    BY <1>1, <2>3 DEF SucceededIn
  <2> HIDE DEF share
  <2> QED BY <2>4, <2>5
<1>5. CitationsHold(run, run.evidence, Used(run, Len(run.done)) + 1, Len(run.actions))
  BY <1>1, <1>2, <1>3, <1>4 DEF CitationsHold
<1>6. \A i \in 1..Len(run.done) :
         /\ Used(run, i - 1) <= Used(run, i) /\ Used(run, i) <= Len(run.actions)
         /\ CitationsHold(run, run.done[i].evidence, Used(run, i - 1) + 1, Used(run, i))
  BY <1>1, SharesStay, SameUseStays
<1> QED BY <1>1, <1>5, <1>6 DEF Evidenced

\* The share of the current task becomes that of the last completed one.
LEMMA AdvancesEvidenced ==
  ASSUME NEW old \in TaskRun, NEW run \in TaskRun, Evidenced(old), Advances(old, run)
  PROVE  Evidenced(run)
<1> DEFINE last == [task |-> old.task, evidence |-> old.evidence, actionsUsed |-> Len(old.actions)]
           n == Len(old.done)
<1>1. /\ run.done = Append(old.done, last) /\ run.actions = old.actions /\ run.native = old.native
      /\ run.evidence = <<>> /\ run.status # "completed" /\ old.status = "completed"
  BY DEF Advances, SameUse, SameTerms
<1>2. last \in Done
  BY Numbers DEF TaskRun, Done
<1>3. /\ n \in Nat /\ old.done \in Seq(Done) /\ Len(old.actions) \in Nat
      /\ \A j \in 0..n : Used(old, j) \in Nat
  BY Numbers, Fields
<1>4. last.evidence = old.evidence /\ last.actionsUsed = Len(old.actions)
  OBVIOUS
<1> HIDE DEF last
<1>5. /\ Len(run.done) = n + 1 /\ run.done[n + 1] = last
      /\ \A j \in 1..n : run.done[j] = old.done[j]
  BY <1>1, <1>2, <1>3
<1>6. CitationsHold(old, old.evidence, Used(old, n) + 1, Len(old.actions))
  BY <1>1 DEF Evidenced
<1>7. Used(run, n + 1) = Len(old.actions) /\ Used(run, n) = Used(old, n)
  BY <1>3, <1>4, <1>5 DEF Used
<1>8. Used(old, n) <= Len(old.actions)
  <2>1. CASE n = 0
    BY <1>3, <2>1 DEF Used
  <2>2. CASE n # 0
    <3>1. n \in 1..Len(old.done)
      BY <1>3, <2>2
    <3> QED BY <3>1 DEF Evidenced
  <2> QED BY <2>1, <2>2
<1>9. Stays(old, run)
  BY <1>1, SameUseStays
<1>10. CitationsHold(run, old.evidence, Used(old, n) + 1, Len(old.actions))
  <2>1. Used(old, n) + 1 \in Nat \ {0} /\ Len(old.actions) <= Len(old.actions)
    BY <1>3
  <2> QED BY <1>1, <1>3, <1>6, <1>9, <2>1, CitationsStay
<1> HIDE DEF n
<1>11. ASSUME NEW i \in 1..Len(run.done)
       PROVE  /\ Used(run, i - 1) <= Used(run, i) /\ Used(run, i) <= Len(run.actions)
              /\ CitationsHold(run, run.done[i].evidence, Used(run, i - 1) + 1, Used(run, i))
  <2>1. CASE i \in 1..n
    BY <1>1, <1>5, <1>9, <2>1, SharesStay DEF n
  <2>2. CASE i = n + 1
    <3>1. i - 1 = n /\ Len(old.actions) <= Len(old.actions)
      BY <1>3, <2>2
    <3> QED BY <1>1, <1>4, <1>5, <1>7, <1>8, <1>10, <2>2, <3>1
  <2> QED BY <1>3, <1>5, <2>1, <2>2
<1> QED BY <1>1, <1>11 DEF Evidenced

\* Evidence survives every change.
LEMMA ChangeEvidenced ==
  ASSUME Handed, Consistent, NEW r \in DOMAIN runs, NEW run \in TaskRun, Accounted(runs[r]),
         Evidenced(runs[r]), Changes(r, run)
  PROVE  Evidenced(run)
<1> DEFINE old == runs[r]
<1>1. old \in TaskRun
  BY HandedKnown
<1>2. CASE Resumes(old, run) \/ Interrupts(old, run)
  BY <1>1, <1>2, RemarkedEvidenced DEF Resumes, Interrupts, SameTerms
<1>3. ASSUME SameTerms(old, run), SameWork(old, run), run.actions = old.actions,
             run.status # "completed", old.status # "completed"
      PROVE  Evidenced(run)
  BY <1>1, <1>3, SameUseStays, SameWorkEvidenced DEF SameTerms
<1>4. CASE Marks(old, run) \/ Prepares(old, run) \/ Counts(old, run)
           \/ \E i \in DOMAIN old.handoffs : Finishes(old, run, i)
  BY <1>3, <1>4 DEF Marks, Prepares, Counts, Finishes, SameUse
<1> QED BY <1>1, <1>2, <1>4, AdmitsEvidenced, SettlesEvidenced, FindsEvidenced, AdvancesEvidenced
        DEF Changes
-----------------------------------------------------------------------------
\* The place in the range survives every change.
LEMMA ChangeSequenced ==
  ASSUME NEW r \in DOMAIN runs, runs[r] \in TaskRun, NEW run \in TaskRun, Sequenced(runs[r]),
         Changes(r, run)
  PROVE  Sequenced(run)
<1> DEFINE old == runs[r]
<1>1. CASE SameTerms(old, run) /\ run.task = old.task /\ run.done = old.done
  BY <1>1 DEF SameTerms, Sequenced
<1>2. CASE Advances(old, run)
  <2> DEFINE last == [task |-> old.task, evidence |-> old.evidence, actionsUsed |-> Len(old.actions)]
             n == Len(old.done)
  <2>1. last \in Done /\ last.task = old.task
    BY Numbers DEF TaskRun, Done
  <2>2. /\ run.range = old.range /\ n + 1 < Len(old.range) /\ run.task = old.range[n + 2]
        /\ run.done = Append(old.done, last)
    BY <1>2 DEF Advances, SameTerms
  <2> HIDE DEF last
  <2>3. /\ n \in Nat /\ Len(run.done) = n + 1 /\ DOMAIN run.done = 1..(n + 1)
        /\ run.done[n + 1] = last /\ \A i \in 1..n : run.done[i] = old.done[i]
        /\ DOMAIN old.done = 1..n
    BY <2>1, <2>2, Fields
  <2>4. run.range # <<>>
    BY <2>2, <2>3, Fields
  <2>5. \A i \in 1..n : old.done[i].task = old.range[i]
    BY <2>2, <2>3, <2>4 DEF Sequenced
  <2>6. old.range[n + 1] = old.task
    BY <2>2, <2>4 DEF Sequenced
  <2> HIDE DEF n
  <2>7. Len(run.done) + 1 = n + 2 /\ 1..(n + 1) = 1..n \cup {n + 1}
    BY <2>3
  <2> QED BY <2>1, <2>2, <2>3, <2>4, <2>5, <2>6, <2>7 DEF Sequenced
<1> QED BY <1>1, <1>2
        DEF Changes, Marks, Resumes, Interrupts, Prepares, Finishes, Counts, Finds, Admits,
            Settles, SameWork

\* Whatever changes a sound attempt leaves it sound.
LEMMA ChangeSound ==
  ASSUME Handed, Consistent, NEW r \in DOMAIN runs, NEW run \in TaskRun, Changes(r, run),
         Sound(runs[r])
  PROVE  Sound(run)
<1>1. runs[r] \in TaskRun
  BY HandedKnown
<1> QED BY <1>1, ChangeAccounted, ChangeRecorded, ChangeEvidenced, ChangeSequenced DEF Sound

\* A claimed attempt is sound from the start.
LEMMA NewRunSound ==
  ASSUME NEW s \in Sessions, NEW t \in Tasks, NEW automatic, NEW native, NEW range \in Seq(Tasks),
         NEW relay, range # <<>> => Head(range) = t
  PROVE  Sound(NewRun(s, t, automatic, native, range, relay))
<1> DEFINE run == NewRun(s, t, automatic, native, range, relay)
<1>1. /\ run.session = s /\ run.sessions = <<s>> /\ run.epoch = 1 /\ run.turns = 0
      /\ run.actions = <<>> /\ run.evidence = <<>> /\ run.done = <<>> /\ run.handoffs = <<>>
      /\ run.status = "running" /\ run.range = range /\ run.task = t
  BY DEF NewRun
<1> HIDE DEF run
<1>2. Accounted(run)
  BY <1>1, ConstantsAssumption DEF Accounted, Last
<1>3. Recorded(run)
  BY <1>1 DEF Recorded, IsInjective
<1>4. Evidenced(run)
  BY <1>1 DEF Evidenced
<1>5. Sequenced(run)
  BY <1>1 DEF Sequenced
<1> QED BY <1>2, <1>3, <1>4, <1>5 DEF Sound, run

\* Recovery marks attempts that are not completed, and changes nothing else.
LEMMA RecoveredFields ==
  ASSUME NEW old \in TaskRun, ~ (old.status = "completed" /\ HasAction(old, {"pending"}))
  PROVE  LET run == Recovered(old) IN
         run = old \/ /\ SameTerms(old, run) /\ SameHistory(old, run) /\ SameWork(old, run)
                      /\ run.turns = old.turns /\ run.actions = Remark(old, "pending", "unknown")
                      /\ old.status # "completed" /\ run.status = "needs_reconciliation"
<1> DEFINE actions == Remark(old, "pending", "unknown")
           marked == [old EXCEPT !.status = "needs_reconciliation", !.actions = actions]
<1>1. /\ SameTerms(old, marked) /\ SameHistory(old, marked) /\ SameWork(old, marked)
      /\ marked.turns = old.turns /\ marked.actions = actions
      /\ marked.status = "needs_reconciliation"
  <2> HIDE DEF actions
  <2> QED BY DEF TaskRun, SameTerms, SameHistory, SameWork
<1> HIDE DEF marked
<1>2. Recovered(old) = IF old.status = "running" \/ HasAction(old, {"pending"}) THEN marked ELSE old
  BY DEF Recovered, marked
<1> QED BY <1>1, <1>2

\* A recovered attempt is as sound as it was.
LEMMA RecoveredSound ==
  ASSUME NEW old \in TaskRun, Sound(old), Recovered(old) \in TaskRun
  PROVE  Sound(Recovered(old))
<1> DEFINE run == Recovered(old)
<1>1. ~ (old.status = "completed" /\ HasAction(old, {"pending"}))
  BY DEF Sound, Evidenced, HasAction
<1>2. CASE run = old
  BY <1>2
<1>3. CASE /\ SameTerms(old, run) /\ SameHistory(old, run) /\ SameWork(old, run)
           /\ run.turns = old.turns /\ run.actions = Remark(old, "pending", "unknown")
           /\ old.status # "completed" /\ run.status = "needs_reconciliation"
  <2> HIDE DEF run
  <2>1. Accounted(run)
    BY <1>3, SameCallsAccounted, RemarkSpends DEF Sound
  <2>2. Recorded(run)
    BY <1>3 DEF SameHistory, Sound, Recorded
  <2>3. run \in TaskRun
    BY DEF run
  <2>4. Evidenced(run)
    BY <1>3, <2>3, RemarkedEvidenced DEF Sound, SameTerms
  <2>5. Sequenced(run)
    BY <1>3 DEF SameTerms, SameWork, Sound, Sequenced
  <2> QED BY <2>1, <2>2, <2>4, <2>5 DEF Sound, run
<1> QED BY <1>1, <1>2, <1>3, RecoveredFields
-----------------------------------------------------------------------------
(* What the stored attempts say of each other                                  *)

\* the tasks an attempt has completed, the current one included
Achieved(run) == DoneTasks(run) \cup (IF run.status = "completed" THEN {run.task} ELSE {})

\* what the other attempts of the revision have completed
Others(r) ==
  UNION {Achieved(runs[q]) :
           q \in {x \in DOMAIN runs \ {r} : runs[x].planRevision = runs[r].planRevision}}

\* A range is what the others left of a range of phases of the plan.
Ranged(r) ==
  runs[r].range # <<>> =>
    /\ Plan.phased
    /\ \E last \in PhaseOf(Plan, Head(runs[r].range))..Len(Plan.phases) :
         runs[r].range = Kept(PhaseOf(Plan, Head(runs[r].range)), last, Tasks \ Others(r))

\* Every attempt is sound, every range is the rest of its phases, and no task
\* of a revision is owned twice.
Loadable ==
  /\ \A r \in DOMAIN runs : Sound(runs[r]) /\ Ranged(r)
  /\ OneAttemptPerTask

\* An attempt achieves tasks it owns.
LEMMA AchievedIsOwned ==
  ASSUME NEW run \in TaskRun, Sequenced(run)
  PROVE  run.task \in OwnedTasks(run) /\ Achieved(run) \subseteq OwnedTasks(run)
<1>1. CASE run.range = <<>>
  BY <1>1 DEF Sequenced, Achieved, DoneTasks, OwnedTasks
<1>2. CASE run.range # <<>>
  <2>1. Len(run.done) + 1 \in DOMAIN run.range /\ \A i \in DOMAIN run.done : i \in DOMAIN run.range
    BY <1>2, Numbers DEF Sequenced
  <2> QED BY <1>2, <2>1 DEF Sequenced, Achieved, DoneTasks, OwnedTasks, Elements
<1> QED BY <1>1, <1>2

\* A change keeps what is owned, and adds to what is achieved.
LEMMA ChangeOwns ==
  ASSUME NEW r \in DOMAIN runs, runs[r] \in TaskRun, NEW run \in TaskRun, Sound(runs[r]),
         Changes(r, run)
  PROVE  /\ run.planRevision = runs[r].planRevision /\ run.range = runs[r].range
         /\ OwnedTasks(run) = OwnedTasks(runs[r])
         /\ Achieved(runs[r]) \subseteq Achieved(run)
<1> DEFINE old == runs[r]
<1>1. run.planRevision = old.planRevision /\ run.range = old.range
  BY DEF Changes, Marks, Resumes, Interrupts, Prepares, Finishes, Counts, Finds, Advances,
         Admits, Settles, SameTerms
<1>2. CASE Advances(old, run)
  <2> DEFINE last == [task |-> old.task, evidence |-> old.evidence, actionsUsed |-> Len(old.actions)]
             n == Len(old.done)
  <2>1. last \in Done /\ last.task = old.task
    BY Numbers DEF TaskRun, Done
  <2>2. run.done = Append(old.done, last) /\ n + 1 < Len(old.range) /\ n \in Nat
    BY <1>2, Numbers DEF Advances
  <2> HIDE DEF last
  <2>3. /\ run.done[n + 1] = last /\ \A i \in DOMAIN old.done : run.done[i] = old.done[i]
        /\ n + 1 \in DOMAIN run.done /\ DOMAIN old.done \subseteq DOMAIN run.done
    BY <2>1, <2>2, Fields
  <2>4. Achieved(old) \subseteq Achieved(run)
    BY <2>1, <2>3 DEF Achieved, DoneTasks
  <2>5. old.range # <<>>
    BY <2>2, Fields
  <2> QED BY <1>1, <2>4, <2>5 DEF OwnedTasks
<1>3. CASE run.task = old.task /\ run.done = old.done
           /\ (old.status = "completed" => run.status = "completed")
  BY <1>1, <1>3 DEF OwnedTasks, Achieved, DoneTasks
<1> QED BY <1>1, <1>2, <1>3
        DEF Changes, Marks, Resumes, Interrupts, Prepares, Finishes, Counts, Finds, Admits,
            Settles, SameWork

\* A range stays the same when what is kept loses nothing of it.
LEMMA RangeStays ==
  ASSUME NEW first \in DOMAIN Plan.phases, NEW last \in first..Len(Plan.phases), Plan.phased,
         NEW keep, NEW less, less \subseteq keep,
         Elements(Kept(first, last, keep)) \cap keep \subseteq less
  PROVE  Kept(first, last, less) = Kept(first, last, keep)
<1> DEFINE tasks == Elements(RangeTasks(first, last))
<1>1. RangeTasks(first, last) \in Seq(Tasks)
  BY RangeTyped
<1>2. Elements(Kept(first, last, keep)) = tasks \cap keep
  BY <1>1, KeptOfRange
<1>3. less \cap tasks = keep \cap tasks
  BY <1>2
<1> QED BY <1>1, <1>3, KeptAgrees

\* The first task of a range is a task of the plan, in a phase of it.
LEMMA HeadInPhase ==
  ASSUME NEW run \in TaskRun, run.range # <<>>
  PROVE  PhaseOf(Plan, Head(run.range)) \in DOMAIN Plan.phases
<1>1. Head(run.range) \in Tasks
  BY Fields
<1> QED BY <1>1, PhaseOfTask

\* The attempts after a step, each owning what it owned and achieving no less.
Follows ==
  /\ DOMAIN runs' = DOMAIN runs
  /\ \A r \in DOMAIN runs :
       /\ runs'[r].planRevision = runs[r].planRevision /\ runs'[r].range = runs[r].range
       /\ OwnedTasks(runs'[r]) = OwnedTasks(runs[r])
       /\ Achieved(runs[r]) \subseteq Achieved(runs'[r])
       /\ Sound(runs'[r])

\* Such a step leaves no task owned twice.
LEMMA FollowsOnce == ASSUME OneAttemptPerTask, Follows PROVE OneAttemptPerTask'
<1> SUFFICES ASSUME NEW r \in DOMAIN runs', NEW q \in DOMAIN runs', r # q,
                    runs'[r].planRevision = runs'[q].planRevision
             PROVE  OwnedTasks(runs'[r]) \cap OwnedTasks(runs'[q]) = {}
  BY DEF OneAttemptPerTask
<1> QED BY DEF OneAttemptPerTask, Follows

\* And every range the rest of its phases: the others achieved none of its tasks.
LEMMA FollowsRanged ==
  ASSUME Typed, Typed', Loadable, Follows, NEW r \in DOMAIN runs
  PROVE  Ranged(r)'
<1> DEFINE range == runs[r].range
           others == Others(r)
           more == Others(r)'
           first == PhaseOf(Plan, Head(range))
<1> SUFFICES ASSUME range # <<>>
             PROVE  Plan.phased /\ \E last \in first..Len(Plan.phases) :
                                     range = Kept(first, last, Tasks \ more)
  BY DEF Follows, Ranged
<1>1. Plan.phased /\ \E last \in first..Len(Plan.phases) : range = Kept(first, last, Tasks \ others)
  BY DEF Loadable, Ranged
<1>2. PICK last \in first..Len(Plan.phases) : range = Kept(first, last, Tasks \ others)
  BY <1>1
<1>3. others \subseteq more
  BY DEF Others, Follows
<1>4. more \cap Elements(range) = {}
  <2>1. SUFFICES ASSUME NEW q \in DOMAIN runs, q # r,
                        runs'[q].planRevision = runs'[r].planRevision
                 PROVE  Achieved(runs'[q]) \cap Elements(range) = {}
    BY DEF Others, Follows
  <2>2. OwnedTasks(runs[q]) \cap OwnedTasks(runs[r]) = {}
    BY <2>1 DEF Loadable, OneAttemptPerTask, Follows
  <2>3. OwnedTasks(runs[r]) = Elements(range)
    BY DEF OwnedTasks
  <2>4. Achieved(runs'[q]) \subseteq OwnedTasks(runs'[q])
    <3>1. runs'[q] \in TaskRun
      BY DEF Follows, Typed, TypeOK
    <3> QED BY <3>1, AchievedIsOwned DEF Follows, Sound
  <2>5. OwnedTasks(runs'[q]) = OwnedTasks(runs[q])
    BY DEF Follows
  <2> QED BY <2>2, <2>3, <2>4, <2>5
<1>5. first \in DOMAIN Plan.phases
  BY RunsTyped, HeadInPhase
<1> HIDE DEF range, others, more, first
<1> DEFINE keep == Tasks \ others
           less == Tasks \ more
<1>6. less \subseteq keep /\ Elements(range) \cap keep \subseteq less
  BY <1>3, <1>4
<1>7. range = Kept(first, last, keep)
  BY <1>2
<1>8. range = Kept(first, last, less)
  <2> HIDE DEF keep, less
  <2> QED BY <1>1, <1>2, <1>5, <1>6, <1>7, RangeStays
<1> QED BY <1>1, <1>8
-----------------------------------------------------------------------------
(* What a claim finds: the facts of the plan are those of its attempts         *)

\* A task is ready when no attempt of the revision owns it.
LEMMA ReadyIsUnowned ==
  ASSUME Typed, NEW t \in ReadyTasks, NEW r \in DOMAIN runs, runs[r].planRevision = Current
  PROVE  t \notin OwnedTasks(runs[r])
<1>1. t \in Tasks /\ TaskStatus(Plan, Approved, Facts, t) = "ready"
  BY DEF ReadyTasks, Ready, Tasks
<1>2. CASE Facts[t] = "completed"
  BY <1>1, <1>2 DEF TaskStatus, NoFact
<1>3. CASE Facts[t] \notin {"completed", NoFact}
  <2>1. TaskStatus(Plan, Approved, Facts, t) = Facts[t]
    BY <1>3 DEF TaskStatus
  <2> QED BY <1>1, <2>1, FactsAreStatuses
<1>4. CASE Facts[t] = NoFact
  BY <1>1, <1>4, FactsAreStatuses
<1> QED BY <1>2, <1>3, <1>4

\* A task counts as completed when an attempt of the revision achieved it.
LEMMA CompletedIsAchieved ==
  ASSUME NEW t \in Tasks, TaskStatus(Plan, Approved, Facts, t) = "completed"
  PROVE  \E r \in DOMAIN runs : runs[r].planRevision = Current /\ t \in Achieved(runs[r])
<1>1. Facts[t] = "completed"
  <2>1. CASE Facts[t] \notin {"completed", NoFact}
    BY <2>1 DEF TaskStatus
  <2>2. CASE Facts[t] = NoFact
    BY <2>2 DEF TaskStatus, NoFact
  <2> QED BY <2>1, <2>2
<1> QED BY <1>1, FactsAreObserved DEF Achieved, NoFact
-----------------------------------------------------------------------------
(* Every step keeps what is stored loadable                                    *)

\* A change of one attempt leaves the others as they are.
LEMMA ChangeFollows == ASSUME Handed, Consistent, Loadable, Typed', ChangeStep PROVE Follows
<1>1. PICK r \in DOMAIN runs, run \in TaskRun : Store(r, run) /\ Changes(r, run)
  BY DEF ChangeStep
<1>2. /\ DOMAIN runs' = DOMAIN runs /\ runs'[r] = run
      /\ \A q \in DOMAIN runs \ {r} : runs'[q] = runs[q]
  BY <1>1 DEF Store
<1>3. runs[r] \in TaskRun /\ \A q \in DOMAIN runs : Sound(runs[q])
  BY HandedKnown DEF Loadable
<1>4. /\ run.planRevision = runs[r].planRevision /\ run.range = runs[r].range
      /\ OwnedTasks(run) = OwnedTasks(runs[r]) /\ Achieved(runs[r]) \subseteq Achieved(run)
  BY <1>1, <1>3, ChangeOwns
<1>5. Sound(run)
  BY <1>1, <1>3, ChangeSound
<1> QED BY <1>2, <1>3, <1>4, <1>5 DEF Follows

\* So does the recovery after a crash.
LEMMA RestartFollows == ASSUME Handed, Loadable, Typed', Restart PROVE Follows
<1>1. DOMAIN runs' = DOMAIN runs /\ \A r \in DOMAIN runs : runs'[r] = Recovered(runs[r])
  BY DEF Restart
<1>2. ASSUME NEW r \in DOMAIN runs
      PROVE  /\ runs'[r].planRevision = runs[r].planRevision /\ runs'[r].range = runs[r].range
             /\ OwnedTasks(runs'[r]) = OwnedTasks(runs[r])
             /\ Achieved(runs[r]) \subseteq Achieved(runs'[r])
             /\ Sound(runs'[r])
  <2> DEFINE run == Recovered(runs[r])
  <2>1. runs[r] \in TaskRun /\ Sound(runs[r]) /\ run \in TaskRun /\ runs'[r] = run
    <3>1. runs'[r] \in TaskRun
      BY <1>1 DEF Typed, TypeOK
    <3> QED BY <1>1, <3>1, HandedKnown DEF Loadable
  <2>2. Sound(run)
    BY <2>1, RecoveredSound
  <2>3. \/ run = runs[r]
        \/ SameTerms(runs[r], run) /\ SameWork(runs[r], run) /\ runs[r].status # "completed"
    <3>1. ~ (runs[r].status = "completed" /\ HasAction(runs[r], {"pending"}))
      BY <2>1 DEF Sound, Evidenced, HasAction
    <3> QED BY <2>1, <3>1, RecoveredFields
  <2> HIDE DEF run
  <2> QED BY <2>1, <2>2, <2>3 DEF SameTerms, SameWork, OwnedTasks, Achieved, DoneTasks
<1> QED BY <1>1, <1>2 DEF Follows

\* A claimed attempt takes tasks nobody has, in the order the plan has them.
LEMMA NewAttemptLoadable ==
  ASSUME Typed, Typed', Loadable, NewAttemptStep
  PROVE  Loadable'
<1>1. PICK s \in Sessions, r \in Runs, t \in Tasks, automatic \in BOOLEAN, native \in BOOLEAN,
           range \in Seq(Tasks), relay \in Nat :
        /\ r \notin DOMAIN runs /\ t \in ReadyTasks
        /\ range = <<>> \/ \E last \in PhaseOf(Plan, t)..Len(Plan.phases) : Selects(t, last, range)
        /\ Store(r, NewRun(s, t, automatic, native, range, relay))
  BY DEF NewAttemptStep
<1> DEFINE run == NewRun(s, t, automatic, native, range, relay)
<1>2. range # <<>> => Head(range) = t
  BY <1>1 DEF Selects
<1>3. Sound(run)
  BY <1>2, NewRunSound
<1>4. run.planRevision = Current /\ run.range = range /\ run.task = t /\ Achieved(run) = {}
  BY DEF NewRun, Achieved, DoneTasks
<1> HIDE DEF run
<1>5. /\ DOMAIN runs' = DOMAIN runs \cup {r} /\ runs'[r] = run
      /\ \A q \in DOMAIN runs : runs'[q] = runs[q] /\ q # r
  BY <1>1 DEF Store, run
<1>6. ASSUME NEW q \in DOMAIN runs, runs[q].planRevision = Current
      PROVE  OwnedTasks(runs[q]) \cap OwnedTasks(run) = {}
  <2>1. CASE range = <<>>
    BY <1>1, <1>4, <1>6, <2>1, ReadyIsUnowned DEF OwnedTasks
  <2>2. CASE range # <<>>
    BY <1>1, <1>4, <1>6, <2>2 DEF OwnedTasks, Selects
  <2> QED BY <2>1, <2>2
<1>7. OneAttemptPerTask'
  <2> SUFFICES ASSUME NEW p \in DOMAIN runs', NEW q \in DOMAIN runs', p # q,
                      runs'[p].planRevision = runs'[q].planRevision
               PROVE  OwnedTasks(runs'[p]) \cap OwnedTasks(runs'[q]) = {}
    BY DEF OneAttemptPerTask
  <2>1. CASE p = r \/ q = r
    BY <1>4, <1>5, <1>6, <2>1
  <2>2. CASE p # r /\ q # r
    BY <1>5, <2>2 DEF Loadable, OneAttemptPerTask
  <2> QED BY <2>1, <2>2
<1>8. ASSUME NEW q \in DOMAIN runs PROVE Ranged(q)'
  <2>1. Others(q)' = Others(q)
    BY <1>4, <1>5 DEF Others
  <2> QED BY <1>5, <2>1 DEF Loadable, Ranged
<1>9. Ranged(r)'
  <2> SUFFICES ASSUME range # <<>>
               PROVE  Plan.phased /\ \E last \in PhaseOf(Plan, t)..Len(Plan.phases) :
                        range = Kept(PhaseOf(Plan, t), last, Tasks \ Others(r)')
    BY <1>2, <1>4, <1>5 DEF Ranged
  <2>1. PICK last \in PhaseOf(Plan, t)..Len(Plan.phases) : Selects(t, last, range)
    BY <1>1
  <2> DEFINE others == Others(r)'
             keep == {u \in Tasks : TaskStatus(Plan, Approved, Facts, u) # "completed"}
             less == Tasks \ others
             first == PhaseOf(Plan, t)
  <2>2. Plan.phased /\ first \in DOMAIN Plan.phases /\ range = Kept(first, last, keep)
    BY <2>1, PhaseOfTask DEF Selects, Remaining
  <2>3. others = UNION {Achieved(runs[q]) : q \in {x \in DOMAIN runs : runs[x].planRevision = Current}}
    BY <1>4, <1>5 DEF Others
  <2>4. ASSUME NEW u \in Tasks, TaskStatus(Plan, Approved, Facts, u) = "completed"
        PROVE  u \in others
    BY <2>3, <2>4, CompletedIsAchieved
  <2>5. ASSUME NEW u \in Elements(range) PROVE u \notin others
    <3>1. SUFFICES ASSUME NEW q \in DOMAIN runs, runs[q].planRevision = Current,
                          u \in Achieved(runs[q])
                   PROVE  FALSE
      BY <2>3
    <3>2. u \in OwnedTasks(runs[q])
      BY <3>1, RunsTyped, AchievedIsOwned DEF Loadable, Sound
    <3>3. OwnedTasks(run) = Elements(range)
      BY <1>4 DEF OwnedTasks
    <3> QED BY <1>6, <2>5, <3>1, <3>2, <3>3
  <2>6. Elements(range) \subseteq Tasks
    BY <1>1 DEF Elements
  <2> HIDE DEF others
  <2>7. less \subseteq keep /\ Elements(range) \cap keep \subseteq less
    BY <2>4, <2>5, <2>6
  <2> HIDE DEF keep, less, first
  <2>8. Kept(first, last, less) = range
    BY <2>1, <2>2, <2>7, RangeStays DEF first
  <2> QED BY <2>1, <2>2, <2>8 DEF first, less, others
<1>10. \A q \in DOMAIN runs' : Sound(runs'[q])
  BY <1>3, <1>5 DEF Loadable
<1> QED BY <1>5, <1>7, <1>8, <1>9, <1>10 DEF Loadable

\* Every stored aggregate can be loaded, with calls and transfers in agreement.
LEMMA NextLoadable == Handed /\ Consistent /\ Loadable /\ [Next]_vars => Loadable'
<1> SUFFICES ASSUME Handed, Consistent, Loadable, [Next]_vars PROVE Loadable'
  OBVIOUS
<1>1. Typed /\ Typed'
  BY NextTyped DEF Handed
<1>2. CASE Edits \/ CallStep
  <2>1. runs' = runs
    BY <1>2 DEF Edits, Save, Approve, CallStep
  <2>2. ASSUME NEW r \in DOMAIN runs PROVE Ranged(r)'
    <3>1. Others(r)' = Others(r)
      BY <2>1 DEF Others
    <3> QED BY <2>1, <3>1 DEF Loadable, Ranged
  <2> QED BY <2>1, <2>2 DEF Loadable, OneAttemptPerTask
<1>3. CASE NewAttemptStep
  BY <1>1, <1>3, NewAttemptLoadable
<1>4. CASE ChangeStep \/ Restart
  <2>1. Follows
    BY <1>1, <1>4, ChangeFollows, RestartFollows
  <2>2. \A r \in DOMAIN runs : Ranged(r)'
    BY <1>1, <2>1, FollowsRanged
  <2>3. OneAttemptPerTask'
    BY <2>1, FollowsOnce DEF Loadable
  <2> QED BY <2>1, <2>2, <2>3 DEF Loadable, Follows
<1> QED BY <1>1, <1>2, <1>3, <1>4, StepShape

\* The attempts are sound and apart in every reachable state.
LEMMA AlwaysLoadable == Spec => []Loadable
<1>1. Init => Loadable
  <2> SUFFICES ASSUME Init PROVE Loadable
    OBVIOUS
  <2>1. DOMAIN runs = {}
    BY DEF Init
  <2> QED BY <2>1 DEF Loadable, OneAttemptPerTask
<1> QED BY <1>1, NextLoadable, AlwaysHanded, AlwaysConsistent, PTL DEF Spec

\* No conversation is an owner of two attempts.
OwnersAreApart ==
  \A r, q \in DOMAIN runs :
    r # q => Elements(runs[r].sessions) \cap Elements(runs[q].sessions) = {}

\* That is the lease's promise to bind a conversation once.
LEMMA AlwaysApart == Spec => []OwnersAreApart
<1>1. Handed /\ Proved!IInv => OwnersAreApart
  <2> SUFFICES ASSUME Handed, Proved!IInv, NEW r \in DOMAIN runs, NEW q \in DOMAIN runs,
                      NEW s \in Elements(runs[r].sessions), s \in Elements(runs[q].sessions)
               PROVE  r = q
    BY DEF OwnersAreApart
  <2>1. s \in Sessions
    BY HandedKnown, Fields DEF Elements
  <2>2. Proved!Bound(r, s) /\ Proved!Bound(q, s)
    BY DEF Proved!Bound, LeaseOf, Elements
  <2> QED BY <2>1, <2>2 DEF Proved!IInv, Proved!BoundToOne
<1> QED BY <1>1, AlwaysHanded, LeaseIsProved, Proved!LeaseInvariant, PTL
-----------------------------------------------------------------------------
(* What storedPlanSchema asks follows                                          *)

\* The evidence of the completed tasks and of a completed attempt.
LEMMA EvidencedHolds == ASSUME NEW run, Evidenced(run) PROVE EvidenceHolds(run)
  BY DEF Evidenced, EvidenceHolds, Used

\* The range, with whatever last phase fits.
LEMMA RangedHolds ==
  ASSUME NEW r \in DOMAIN runs, runs[r] \in TaskRun, Sequenced(runs[r]), Ranged(r)
  PROVE  SequenceHolds(r)
<1> DEFINE range == runs[r].range
           first == PhaseOf(Plan, Head(range))
<1>1. SUFFICES ASSUME range # <<>>
               PROVE  \E last \in DOMAIN Plan.phases : range = Kept(first, last, Tasks \ Others(r))
  BY DEF SequenceHolds, Sequenced, Others, Achieved
<1>2. PICK last \in first..Len(Plan.phases) : range = Kept(first, last, Tasks \ Others(r))
  BY <1>1 DEF Ranged
<1>3. last \in DOMAIN Plan.phases
  <2>1. DOMAIN Plan.phases = 1..Len(Plan.phases) /\ Len(Plan.phases) \in Nat
    BY PlanRules
  <2>2. first \in DOMAIN Plan.phases
    BY <1>1, HeadInPhase
  <2> HIDE DEF first
  <2> QED BY <2>1, <2>2
<1> QED BY <1>2, <1>3

\* At most one transfer is prepared, and each names its place in the history.
LEMMA RecordedHolds ==
  ASSUME NEW run \in TaskRun, HandedRun(run), Recorded(run)
  PROVE  TransfersHold(run)
<1> DEFINE prepared == {i \in DOMAIN run.handoffs : run.handoffs[i].status = "prepared"}
<1>1. Cardinality(prepared) <= 1
  <2>1. CASE prepared = {}
    BY <2>1, FS_EmptySet
  <2>2. ASSUME NEW i \in prepared PROVE Cardinality(prepared) <= 1
    <3>1. prepared = {i}
      BY <2>2 DEF HandedRun
    <3> QED BY <3>1, FS_Singleton
  <2> QED BY <2>1, <2>2
<1> QED BY <1>1 DEF TransfersHold, Recorded

\* Whatever is committed can be reopened after a crash: every stored aggregate
\* passes the whole validation of storedPlanSchema, which refuses to load it else.
THEOREM StoredPlansLoad == Spec => []StoredPlanLoads
<1>1. Handed /\ Loadable /\ OwnersAreApart => StoredPlanLoads
  <2> SUFFICES ASSUME Handed, Loadable, OwnersAreApart PROVE StoredPlanLoads
    OBVIOUS
  <2>1. ASSUME NEW r \in DOMAIN runs
        PROVE  /\ IsInjective(runs[r].sessions) /\ AccountsHold(runs[r])
               /\ EvidenceHolds(runs[r]) /\ SequenceHolds(r) /\ TransfersHold(runs[r])
    <3>1. runs[r] \in TaskRun /\ HandedRun(runs[r]) /\ Sound(runs[r]) /\ Ranged(r)
      BY HandedKnown DEF Loadable
    <3>2. IsInjective(runs[r].sessions) /\ AccountsHold(runs[r])
      BY <3>1 DEF Sound, Recorded, Accounted, AccountsHold
    <3> QED BY <3>1, <3>2, EvidencedHolds, RangedHolds, RecordedHolds DEF Sound
  <2>2. OneAttemptPerSession
    BY <2>1 DEF OwnersAreApart, OneAttemptPerSession
  <2> QED BY <2>1, <2>2 DEF StoredPlanLoads, Loadable
<1> QED BY <1>1, AlwaysHanded, AlwaysLoadable, AlwaysApart, PTL
==============================================================================
