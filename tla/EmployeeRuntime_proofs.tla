------------------------- MODULE EmployeeRuntime_proofs -------------------------
(* The authority of the service, and the hosts that spend it.                   *)
(*                                                                              *)
(* The authority keeps its promises for any number of grants, runs, actions     *)
(* and requests, any budgets and any deadlines.  A command first changes the    *)
(* records, then the withdrawal does: the records are Sound in between, and     *)
(* the withdrawal makes of sound records a sound state.                         *)
(*                                                                              *)
(* Any number of hosts, under any setup, take paid actions on it: what took     *)
(* effect was charged and marked before, happened once, and is never concluded  *)
(* on as undone, whatever crashes, is lost or arrives late.                     *)
EXTENDS EmployeeRuntime, FiniteSetTheorems, TLAPS

-----------------------------------------------------------------------------
(* The authority: its records                                                  *)

\* The records are typed and no grant is overspent.
Records(G, R, P, H) ==
  /\ G \in [Grants -> GrantRecords]
  /\ \A g \in Grants : G[g].used <= Budget[g]
  /\ R \in [Runs -> RunRecords]
  /\ P \in [Actions -> PermitRecords]
  /\ H \in [Requests -> HumanRecords]

\* Runs name a grant; permits and requests name a run that was at work.
Linked(R, P, H) ==
  /\ \A r \in Runs : R[r].state # "absent" => R[r].grant \in Grants
  /\ \A a \in Actions : P[a].state # "absent" =>
       P[a].run \in Runs /\ R[P[a].run].state \notin {"absent", "prepared"}
  /\ \A h \in Requests : H[h].state # "absent" =>
       H[h].run \in Runs /\ R[H[h].run].state \notin {"absent", "prepared"}

Charged(R, P, g) == {a \in Actions : P[a].state # "absent" /\ R[P[a].run].grant = g}
Accounted(G, R, P) == \A g \in Grants : G[g].used = Cardinality(Charged(R, P, g))

Started(R) ==
  \A r \in Runs :
    /\ R[r].state = "prepared" => ~R[r].started /\ R[r].stop = None
    /\ R[r].state \in {"running", "waiting-human", "succeeded", "failed"} => (R[r].started <=> OfNative(R, r))
    /\ R[r].started \/ R[r].stop # None => OfNative(R, r)

Spent(P, H) ==
  \A a \in Actions : P[a].approval # None =>
    /\ H[P[a].approval].state = "approved"
    /\ H[P[a].approval].run = P[a].run
    /\ H[P[a].approval].request = P[a].request
    /\ \A b \in Actions : P[b].approval = P[a].approval => b = a

Explained(R, P) ==
  \A a \in Actions : P[a].state \in Unsettled => R[P[a].run].state \notin {"succeeded", "failed"}

Asked(R, H) ==
  \A h \in Requests : H[h].state \notin Decided \cup {"absent"} => R[H[h].run].state # "running"

Sound(G, R, P, H) ==
  /\ Records(G, R, P, H) /\ Linked(R, P, H)
  /\ Accounted(G, R, P) /\ Started(R) /\ Spent(P, H)
  /\ Explained(R, P) /\ Asked(R, H)

Surrounded == accepted \in BOOLEAN /\ overdue \subseteq Grants \cup Actions \cup Requests \cup Runs

IInv == Surrounded /\ Sound(grant, run, permit, human) /\ LivePermitsHaveAuthority

\* The facts of a state that later states keep.
Kept(G, R, P, H) ==
  /\ \A a \in Actions : permit[a].state \in Settled => P[a] = permit[a]
  /\ \A h \in Requests : human[h].state \in Decided => H[h] = human[h]
  /\ \A r \in Runs : run[r].state \in Ended => R[r] = run[r]
  /\ \A g \in Grants : grant[g].state \notin {"absent", "active"} => G[g] = grant[g]
  /\ \A g \in Grants : G[g].used >= grant[g].used

\* The last assignment of every run, permit and request is somebody's: what
\* type correctness says of the states.
LEMMA States ==
  /\ Open \cap Ended = {} /\ Settled \cap Unsettled = {} /\ None \notin Grants
  /\ "absent" \notin Open \cup Ended \cup Settled \cup Unsettled \cup Decided
  /\ "pending" \notin Decided
BY NoneAssumption DEF Open, Ended, Settled, Unsettled, Decided
-----------------------------------------------------------------------------
(* The withdrawal                                                              *)

\* A grant keeps its charge; one that stays active has its assignment.
LEMMA LapseEffect ==
  ASSUME NEW acc \in BOOLEAN, NEW G \in [Grants -> GrantRecords]
  PROVE  /\ Lapse(acc, G) \in [Grants -> GrantRecords]
         /\ \A g \in Grants :
              /\ Lapse(acc, G)[g].used = G[g].used
              /\ G[g].state # "active" => Lapse(acc, G)[g] = G[g]
              /\ Lapse(acc, G)[g].state = "active" => acc
BY DEF Lapse, GrantRecords

\* A run stays as it is, or an open one pauses; one that lost nothing stays.
LEMMA SuspendEffect ==
  ASSUME NEW G, NEW R \in [Runs -> RunRecords], NEW restart, NEW S, S = Suspend(G, R, restart)
  PROVE  /\ S \in [Runs -> RunRecords]
         /\ \A r \in Runs :
              /\ S[r].grant = R[r].grant
              /\ S[r].started = R[r].started
              /\ \/ S[r] = R[r]
                 \/ R[r].state \in Open /\ S[r].state = "paused" /\ (S[r].stop # None => OfNative(R, r))
              /\ ~Lost(G, R, r, restart) => S[r] = R[r]
<1>1. ASSUME NEW r \in Runs
      PROVE  /\ S[r] \in RunRecords /\ S[r].grant = R[r].grant /\ S[r].started = R[r].started
             /\ \/ S[r] = R[r]
                \/ R[r].state \in Open /\ S[r].state = "paused" /\ (S[r].stop # None => OfNative(R, r))
             /\ ~Lost(G, R, r, restart) => S[r] = R[r]
  <2> DEFINE reason == IF TimedOut(R, r) THEN "duration-limit" ELSE "authority-lost"
             stop == IF OfNative(R, r) THEN reason ELSE None
  <2>1. \/ S[r] = R[r]
        \/ /\ Lost(G, R, r, restart) /\ R[r].state \in Open
           /\ S[r] = [R[r] EXCEPT !.state = "paused", !.stop = stop]
    BY <1>1, Zenon DEF Suspend, Open
  <2>2. stop \in StopReasons \cup {None} /\ (stop # None => OfNative(R, r))
    BY DEF StopReasons
  <2>3. R[r] \in RunRecords
    OBVIOUS
  <2> HIDE DEF stop
  <2> QED BY <2>1, <2>2, <2>3 DEF RunRecords, Open
<1>2. S = [r \in Runs |-> S[r]]
  BY DEF Suspend
<1>3. S \in [Runs -> RunRecords]
  BY <1>1, <1>2
<1> QED BY <1>1, <1>3

\* A permit stays as it is, or a reserved one becomes unknown; it stays
\* reserved under an active grant only, for a run that is not over or paused.
LEMMA RetireEffect ==
  ASSUME NEW G, NEW R, NEW P \in [Actions -> PermitRecords], NEW restart,
         NEW Q, Q = Retire(G, R, P, restart)
  PROVE  /\ Q \in [Actions -> PermitRecords]
         /\ \A a \in Actions :
              /\ Q[a].run = P[a].run /\ Q[a].request = P[a].request /\ Q[a].approval = P[a].approval
              /\ Q[a] = P[a] \/ (P[a].state = "reserved" /\ Q[a].state = "unknown")
              /\ Q[a].state = "reserved" =>
                   ~Lost(G, R, P[a].run, restart) /\ R[P[a].run].state \notin Ended \cup {"paused"}
BY DEF Retire, PermitRecords, Unsettled, Settled

\* A request stays as it is, or a pending one ends without a decision.
LEMMA WithdrawEffect ==
  ASSUME NEW acc, NEW R, NEW H \in [Requests -> HumanRecords], NEW J, J = Withdraw(acc, R, H)
  PROVE  /\ J \in [Requests -> HumanRecords]
         /\ \A h \in Requests :
              /\ J[h].run = H[h].run /\ J[h].request = H[h].request
              /\ J[h] = H[h] \/ (H[h].state = "pending" /\ J[h].state \in {"expired", "cancelled"})
BY DEF Withdraw, HumanRecords

\* The withdrawal makes of sound records a sound state without dead permits.
LEMMA CommitSound ==
  ASSUME NEW acc \in BOOLEAN, NEW restart, NEW G, NEW R, NEW P, NEW H,
         Surrounded, Sound(G, R, P, H), Commit(acc, G, R, P, H, restart)
  PROVE  IInv'
<1> USE DEF Sound
<1>1. /\ G \in [Grants -> GrantRecords] /\ R \in [Runs -> RunRecords]
      /\ P \in [Actions -> PermitRecords] /\ H \in [Requests -> HumanRecords]
  BY DEF Records
<1>2. /\ grant' = Lapse(acc, G) /\ run' = Suspend(grant', R, restart)
      /\ permit' = Retire(grant', R, P, restart) /\ human' = Withdraw(acc, run', H)
      /\ accepted' = acc
      /\ overdue' = overdue
  BY DEF Commit
<1>3. /\ grant' \in [Grants -> GrantRecords]
      /\ \A g \in Grants : grant'[g].used = G[g].used /\ (grant'[g].state = "active" => acc)
  BY <1>1, <1>2, LapseEffect
<1>4. /\ run' \in [Runs -> RunRecords]
      /\ \A r \in Runs :
           /\ run'[r].grant = R[r].grant /\ run'[r].started = R[r].started
           /\ \/ run'[r] = R[r]
              \/ R[r].state \in Open /\ run'[r].state = "paused" /\ (run'[r].stop # None => OfNative(R, r))
           /\ ~Lost(grant', R, r, restart) => run'[r] = R[r]
  BY <1>1, <1>2, SuspendEffect
<1>5. /\ permit' \in [Actions -> PermitRecords]
      /\ \A a \in Actions :
           /\ permit'[a].run = P[a].run /\ permit'[a].request = P[a].request
           /\ permit'[a].approval = P[a].approval
           /\ permit'[a] = P[a] \/ (P[a].state = "reserved" /\ permit'[a].state = "unknown")
           /\ permit'[a].state = "reserved" =>
                ~Lost(grant', R, P[a].run, restart) /\ R[P[a].run].state \notin Ended \cup {"paused"}
  BY <1>1, <1>2, RetireEffect
<1>6. /\ human' \in [Requests -> HumanRecords]
      /\ \A h \in Requests :
           /\ human'[h].run = H[h].run /\ human'[h].request = H[h].request
           /\ human'[h] = H[h] \/ (H[h].state = "pending" /\ human'[h].state \in {"expired", "cancelled"})
  BY <1>1, <1>2, WithdrawEffect
<1>7. \A r \in Runs : OfNative(run', r) = OfNative(R, r)
  BY <1>4 DEF OfNative
<1> HIDE DEF Sound
<1>10. Surrounded'
  BY <1>2 DEF Surrounded
<1>11. Records(grant', run', permit', human')
  BY <1>3, <1>4, <1>5, <1>6 DEF Sound, Records
<1>12. Linked(run', permit', human')
  <2>1. Linked(R, P, H)
    BY DEF Sound
  <2>2. \A r \in Runs : R[r].state \notin {"absent", "prepared"} => run'[r].state \notin {"absent", "prepared"}
    BY <1>4
  <2>3. \A r \in Runs : run'[r].state # "absent" => R[r].state # "absent"
    BY <1>4 DEF Open
  <2> QED BY <1>4, <1>5, <1>6, <2>1, <2>2, <2>3 DEF Linked
<1>13. Accounted(grant', run', permit')
  <2>1. ASSUME NEW g \in Grants PROVE Charged(run', permit', g) = Charged(R, P, g)
    <3>1. \A a \in Actions : P[a].state # "absent" => P[a].run \in Runs
      BY DEF Sound, Linked
    <3>2. \A a \in Actions : permit'[a].state # "absent" <=> P[a].state # "absent"
      BY <1>5
    <3> QED BY <1>4, <1>5, <3>1, <3>2 DEF Charged
  <2> QED BY <1>3, <2>1 DEF Sound, Accounted
<1>14. Started(run')
  <2>1. Started(R)
    BY DEF Sound
  <2> QED BY <1>4, <1>7, <2>1 DEF Started, Open
<1>15. Spent(permit', human')
  <2>1. Spent(P, H)
    BY DEF Sound
  <2>2. \A a \in Actions : P[a].approval # None => P[a].approval \in Requests
    BY <1>1 DEF PermitRecords
  <2> QED BY <1>5, <1>6, <2>1, <2>2 DEF Spent
<1>16. Explained(run', permit')
  <2>1. Explained(R, P) /\ Linked(R, P, H)
    BY DEF Sound
  <2>2. \A a \in Actions : permit'[a].state \in Unsettled => P[a].state \in Unsettled /\ P[a].run \in Runs
    BY <1>5, <2>1 DEF Unsettled, Linked
  <2> QED BY <1>4, <1>5, <2>1, <2>2 DEF Explained
<1>17. Asked(run', human')
  <2>1. Asked(R, H) /\ Linked(R, P, H)
    BY DEF Sound
  <2>2. \A h \in Requests : human'[h].state \notin Decided \cup {"absent"} =>
          H[h].state \notin Decided \cup {"absent"} /\ H[h].run \in Runs
    BY <1>6, <2>1 DEF Decided, Linked
  <2>3. \A r \in Runs : R[r].state # "running" => run'[r].state # "running"
    BY <1>4
  <2> QED BY <1>6, <2>1, <2>2, <2>3 DEF Asked
<1>18. LivePermitsHaveAuthority'
  <2>1. SUFFICES ASSUME NEW a \in Actions, permit'[a].state = "reserved"
                 PROVE  /\ accepted' /\ grant'[run'[permit'[a].run].grant].state = "active"
                        /\ run'[permit'[a].run].state \in {"running", "waiting-human"}
    BY DEF LivePermitsHaveAuthority
  <2> DEFINE r == P[a].run
  <2>2. /\ r \in Runs /\ R[r].state \notin {"absent", "prepared"} /\ permit'[a].run = r
    BY <1>5, <2>1 DEF Sound, Linked
  <2>3. ~Lost(grant', R, r, restart) /\ R[r].state \notin Ended \cup {"paused"}
    BY <1>5, <2>1
  <2>4. run'[r] = R[r] /\ grant'[R[r].grant].state = "active"
    BY <1>4, <2>2, <2>3 DEF Lost
  <2>5. R[r].grant \in Grants
    BY <2>2 DEF Sound, Linked
  <2>6. accepted'
    BY <1>2, <1>3, <2>4, <2>5
  <2>7. R[r].state \in {"running", "waiting-human"}
    BY <1>1, <2>2, <2>3 DEF RunRecords, Open, Ended
  <2> QED BY <2>2, <2>4, <2>6, <2>7
<1> QED BY <1>10, <1>11, <1>12, <1>13, <1>14, <1>15, <1>16, <1>17, <1>18 DEF IInv, Sound

\* The withdrawal takes no fact back that the command has kept.
LEMMA CommitKeeps ==
  ASSUME NEW acc \in BOOLEAN, NEW restart, NEW G, NEW R, NEW P, NEW H,
         Records(grant, run, permit, human), Records(G, R, P, H),
         Kept(G, R, P, H), Commit(acc, G, R, P, H, restart)
  PROVE  Kept(grant', run', permit', human')
<1>1. /\ grant' = Lapse(acc, G) /\ run' = Suspend(grant', R, restart)
      /\ permit' = Retire(grant', R, P, restart) /\ human' = Withdraw(acc, run', H)
  BY DEF Commit
<1>0. /\ G \in [Grants -> GrantRecords] /\ R \in [Runs -> RunRecords]
      /\ P \in [Actions -> PermitRecords] /\ H \in [Requests -> HumanRecords]
  BY DEF Records
<1>2. \A g \in Grants : grant'[g].used = G[g].used /\ (G[g].state # "active" => grant'[g] = G[g])
  BY <1>0, <1>1, LapseEffect
<1>3. \A r \in Runs : R[r].state \in Ended => run'[r] = R[r]
  BY <1>0, <1>1, SuspendEffect, States
<1>4. \A a \in Actions : P[a].state \in Settled => permit'[a] = P[a]
  BY <1>0, <1>1, RetireEffect, States DEF Unsettled
<1>5. \A h \in Requests : H[h].state \in Decided => human'[h] = H[h]
  BY <1>0, <1>1, WithdrawEffect, States
<1> QED BY <1>2, <1>3, <1>4, <1>5 DEF Kept
-----------------------------------------------------------------------------
(* The commands                                                                *)

Good(G, R, P, H) == Sound(G, R, P, H) /\ Kept(G, R, P, H)

\* The invariant, part by part.
LEMMA Parts ==
  ASSUME IInv
  PROVE  /\ Surrounded /\ Records(grant, run, permit, human) /\ Linked(run, permit, human)
         /\ Accounted(grant, run, permit) /\ Started(run) /\ Spent(permit, human)
         /\ Explained(run, permit) /\ Asked(run, human)
BY DEF IInv, Sound

\* A command that is refused leaves the records good.
LEMMA NothingIsGood ==
  ASSUME IInv
  PROVE  Good(grant, run, permit, human)
<1>1. Kept(grant, run, permit, human)
  <2>1. \A g \in Grants : grant[g].used \in Nat
    BY Parts DEF Records, GrantRecords
  <2> QED BY <2>1 DEF Kept
<1> QED BY <1>1 DEF Good, IInv

\* A grant that is made or revoked changes its state, never its charge.
LEMMA GrantIsGood ==
  ASSUME IInv, NEW g \in Grants, NEW state,
         \/ grant[g].state = "absent" /\ state = "active"
         \/ grant[g].state = "active" /\ state = "revoked"
  PROVE  Good([grant EXCEPT ![g].state = state], run, permit, human)
<1> DEFINE G == [grant EXCEPT ![g].state = state]
<1>1. grant \in [Grants -> GrantRecords] /\ \A f \in Grants : grant[f].used <= Budget[f]
  BY Parts DEF Records
<1>2. /\ G \in [Grants -> GrantRecords]
      /\ \A f \in Grants : G[f].used = grant[f].used /\ grant[f].used \in Nat /\ (f # g => G[f] = grant[f])
  BY <1>1 DEF GrantRecords
<1> HIDE DEF G
<1>3. Records(G, run, permit, human)
  BY <1>1, <1>2, Parts DEF Records
<1>4. Accounted(G, run, permit)
  BY <1>2, Parts DEF Accounted
<1>5. Kept(G, run, permit, human)
  <2>1. \A f \in Grants : G[f].used >= grant[f].used
    BY <1>2
  <2>2. \A f \in Grants : grant[f].state \notin {"absent", "active"} => G[f] = grant[f]
    BY <1>2
  <2> QED BY <2>1, <2>2 DEF Kept
<1> QED BY <1>3, <1>4, <1>5, Parts DEF Good, Sound, G

\* What a command may make of a run: it keeps its grant, ends as succeeded or
\* failed with nothing unresolved, and works with nothing unanswered.
LEMMA RunIsGood ==
  ASSUME IInv, NEW r \in Runs, NEW new \in RunRecords,
         run[r].state \notin Ended, new.state # "absent", new.grant \in Grants,
         run[r].state # "absent" => new.grant = run[r].grant /\ new.state # "prepared",
         new.state = "prepared" => ~new.started /\ new.stop = None,
         new.state \in {"running", "waiting-human", "succeeded", "failed"} =>
           (new.started <=> new.grant \in Native),
         new.started \/ new.stop # None => new.grant \in Native,
         new.state \in {"succeeded", "failed"} => ~Unresolved(r),
         new.state = "running" => \A h \in Answers(r) : human[h].state \in Decided
  PROVE  Good(grant, [run EXCEPT ![r] = new], permit, human)
<1> DEFINE R == [run EXCEPT ![r] = new]
<1>1. run \in [Runs -> RunRecords] /\ Linked(run, permit, human)
  BY Parts DEF Records
<1>2. R \in [Runs -> RunRecords] /\ R[r] = new /\ \A q \in Runs : q # r => R[q] = run[q]
  BY <1>1
<1> HIDE DEF R
<1>3. Records(grant, R, permit, human)
  BY <1>2, Parts DEF Records
<1>4. Linked(R, permit, human)
  <2>1. \A q \in Runs : R[q].state # "absent" => R[q].grant \in Grants
    BY <1>1, <1>2 DEF Linked
  <2>2. \A q \in Runs : run[q].state \notin {"absent", "prepared"} => R[q].state \notin {"absent", "prepared"}
    BY <1>2
  <2> QED BY <1>1, <2>1, <2>2 DEF Linked
<1>5. Accounted(grant, R, permit)
  <2>1. ASSUME NEW g \in Grants PROVE Charged(R, permit, g) = Charged(run, permit, g)
    BY <1>1, <1>2 DEF Charged, Linked
  <2> QED BY <2>1, Parts DEF Accounted
<1>6. Started(R)
  BY <1>2, Parts DEF Started, OfNative
<1>7. Explained(R, permit)
  <2>1. SUFFICES ASSUME NEW a \in Actions, permit[a].state \in Unsettled
                 PROVE  R[permit[a].run].state \notin {"succeeded", "failed"}
    BY DEF Explained
  <2>2. permit[a].run \in Runs /\ permit[a].state # "absent"
    BY <1>1, <2>1 DEF Linked, Unsettled
  <2>3. CASE permit[a].run = r
    BY <1>2, <2>1, <2>2, <2>3 DEF Unresolved, PermitsOf
  <2>4. CASE permit[a].run # r
    BY <1>2, <2>1, <2>2, <2>4, Parts DEF Explained
  <2> QED BY <2>3, <2>4
<1>8. Asked(R, human)
  <2>1. SUFFICES ASSUME NEW h \in Requests, human[h].state \notin Decided \cup {"absent"}
                 PROVE  R[human[h].run].state # "running"
    BY DEF Asked
  <2>2. human[h].run \in Runs
    BY <1>1, <2>1 DEF Linked
  <2>3. CASE human[h].run = r
    BY <1>2, <2>1, <2>3 DEF Answers
  <2>4. CASE human[h].run # r
    BY <1>2, <2>1, <2>2, <2>4, Parts DEF Asked
  <2> QED BY <2>3, <2>4
<1>9. Kept(grant, R, permit, human)
  BY <1>2, NothingIsGood DEF Good, Kept
<1> QED BY <1>3, <1>4, <1>5, <1>6, <1>7, <1>8, <1>9, Parts DEF Good, Sound, R

\* A run is prepared under a grant.
LEMMA CreateRunIsGood ==
  ASSUME IInv, NEW r \in Runs, NEW g \in Grants, CreateRun(r, g)
  PROVE  Good(grant, [run EXCEPT ![r] = [NoRun EXCEPT !.state = "prepared", !.grant = g]], permit, human)
<1> DEFINE new == [NoRun EXCEPT !.state = "prepared", !.grant = g]
<1>1. /\ new \in RunRecords /\ new.state = "prepared" /\ new.grant = g
      /\ ~new.started /\ new.stop = None
  BY DEF NoRun, RunRecords, Open
<1>2. run[r].state = "absent"
  BY DEF CreateRun
<1> HIDE DEF new
<1>3. Good(grant, [run EXCEPT ![r] = new], permit, human)
  BY <1>1, <1>2, RunIsGood, States
<1> QED BY <1>3 DEF new

\* A run that starts has asked nothing yet; one that ends well left nothing open.
LEMMA TransitionIsGood ==
  ASSUME IInv, NEW r \in Runs, NEW state \in {"running", "paused"} \cup Ended, NEW stop \in StopReasons \cup {None},
         run[r].state \in Open,
         state = "running" => run[r].state = "prepared",
         state \in {"succeeded", "failed"} => run[r].state = "running" /\ ~Unresolved(r),
         stop # None => OfNative(run, r)
  PROVE  Good(grant,
              [run EXCEPT ![r] = [@ EXCEPT !.state = state,
                                           !.started = OfNative(run, r) /\ (run[r].started \/ state = "running"),
                                           !.stop = stop]],
              permit, human)
<1> DEFINE new == [run[r] EXCEPT !.state = state,
                                 !.started = OfNative(run, r) /\ (run[r].started \/ state = "running"),
                                 !.stop = stop]
<1>1. run[r] \in RunRecords /\ Linked(run, permit, human)
  BY Parts DEF Records
<1>2. /\ new \in RunRecords /\ new.state = state /\ new.grant = run[r].grant /\ new.stop = stop
      /\ new.started <=> OfNative(run, r) /\ (run[r].started \/ state = "running")
  BY <1>1 DEF RunRecords, Open, OfNative
<1>3. new.grant \in Grants
  BY <1>1, <1>2, States DEF Linked
<1>4. state \in {"running", "succeeded", "failed"} => (new.started <=> new.grant \in Native)
  <2>1. CASE state = "running"
    BY <1>2, <2>1 DEF OfNative
  <2>2. CASE state \in {"succeeded", "failed"}
    <3>1. run[r].started <=> OfNative(run, r)
      BY <2>2, Parts DEF Started
    <3> QED BY <1>2, <3>1 DEF OfNative
  <2> QED BY <2>1, <2>2
<1>5. new.started \/ new.stop # None => new.grant \in Native
  BY <1>2 DEF OfNative
<1>6. state = "running" => \A h \in Answers(r) : human[h].state \in Decided
  BY <1>1 DEF Linked, Answers
<1>7. state \notin {"absent", "prepared", "waiting-human"}
  BY DEF Ended
<1> HIDE DEF new
<1>8. Good(grant, [run EXCEPT ![r] = new], permit, human)
  BY <1>2, <1>3, <1>4, <1>5, <1>6, <1>7, RunIsGood, States
<1> QED BY <1>8 DEF new

\* A run goes back to work, under the native run it was started by.
LEMMA ResumeIsGood ==
  ASSUME IInv, NEW r \in Runs, ResumeRun(r)
  PROVE  Good(grant,
              [run EXCEPT ![r] = [@ EXCEPT !.state = "running", !.started = OfNative(run, r), !.stop = None]],
              permit, human)
<1> DEFINE new == [run[r] EXCEPT !.state = "running", !.started = OfNative(run, r), !.stop = None]
<1>1. run[r] \in RunRecords /\ Linked(run, permit, human)
  BY Parts DEF Records
<1>2. /\ new \in RunRecords /\ new.state = "running" /\ new.grant = run[r].grant
      /\ (new.started <=> OfNative(run, r)) /\ new.stop = None
  <2>1. OfNative(run, r) \in BOOLEAN
    BY DEF OfNative
  <2> QED BY <1>1, <2>1 DEF RunRecords, Open
<1>3. run[r].state \notin Ended \cup {"absent"} /\ \A h \in Answers(r) : human[h].state \in Decided
  BY DEF ResumeRun, Ended
<1>4. new.grant \in Grants
  BY <1>1, <1>2, <1>3 DEF Linked
<1>5. (new.started <=> new.grant \in Native)
  BY <1>2 DEF OfNative
<1> HIDE DEF new
<1>6. Good(grant, [run EXCEPT ![r] = new], permit, human)
  BY <1>2, <1>3, <1>4, <1>5, RunIsGood
<1> QED BY <1>6 DEF new

\* The run waits from the step on that records its question.
LEMMA RequestIsGood ==
  ASSUME IInv, NEW r \in Runs, NEW h \in Requests, NEW about \in Contents \cup {None}, RequestHuman(r, h, about)
  PROVE  Good(grant, [run EXCEPT ![r].state = "waiting-human"], permit,
              [human EXCEPT ![h] = [state |-> "pending", run |-> r, request |-> about]])
<1> DEFINE R == [run EXCEPT ![r].state = "waiting-human"]
           H == [human EXCEPT ![h] = [state |-> "pending", run |-> r, request |-> about]]
<1>1. /\ run \in [Runs -> RunRecords] /\ Linked(run, permit, human)
      /\ human \in [Requests -> HumanRecords] /\ permit \in [Actions -> PermitRecords]
  BY Parts DEF Records
<1>2. run[r].state = "running" /\ human[h].state = "absent"
  BY DEF RequestHuman
<1>3. /\ R \in [Runs -> RunRecords] /\ R[r].state = "waiting-human"
      /\ \A q \in Runs : R[q].grant = run[q].grant /\ R[q].started = run[q].started /\ R[q].stop = run[q].stop
      /\ \A q \in Runs : q # r => R[q] = run[q]
  BY <1>1 DEF RunRecords, Open
<1>4. /\ H \in [Requests -> HumanRecords] /\ H[h].state = "pending" /\ H[h].run = r
      /\ \A k \in Requests : k # h => H[k] = human[k]
  BY <1>1 DEF HumanRecords
<1> HIDE DEF R, H
<1>5. Records(grant, R, permit, H)
  BY <1>3, <1>4, Parts DEF Records
<1>6. Linked(R, permit, H)
  BY <1>1, <1>2, <1>3, <1>4 DEF Linked
<1>7. Accounted(grant, R, permit)
  <2>1. ASSUME NEW g \in Grants PROVE Charged(R, permit, g) = Charged(run, permit, g)
    BY <1>1, <1>3 DEF Charged, Linked
  <2> QED BY <2>1, Parts DEF Accounted
<1>8. Started(R)
  BY <1>2, <1>3, Parts DEF Started, OfNative
<1>9. Spent(permit, H)
  <2>1. \A a \in Actions : permit[a].approval # None =>
          permit[a].approval \in Requests /\ human[permit[a].approval].state = "approved"
    BY <1>1, Parts DEF Spent, PermitRecords
  <2>2. \A a \in Actions : permit[a].approval # None => permit[a].approval # h
    BY <1>2, <2>1
  <2> QED BY <1>4, <2>1, <2>2, Parts DEF Spent
<1>10. Explained(R, permit)
  <2>1. \A a \in Actions : permit[a].state \in Unsettled => permit[a].run \in Runs
    BY <1>1 DEF Linked, Unsettled
  <2> QED BY <1>3, <2>1, Parts DEF Explained
<1>11. Asked(R, H)
  <2>1. \A k \in Requests : human[k].state # "absent" => human[k].run \in Runs
    BY <1>1 DEF Linked
  <2>2. \A q \in Runs : run[q].state # "running" => R[q].state # "running"
    BY <1>3
  <2> QED BY <1>3, <1>4, <2>1, <2>2, Parts DEF Asked
<1>12. Kept(grant, R, permit, H)
  BY <1>2, <1>3, <1>4, NothingIsGood DEF Good, Kept, Ended, Decided
<1> QED BY <1>5, <1>6, <1>7, <1>8, <1>9, <1>10, <1>11, <1>12 DEF Good, Sound, R, H

\* A decision is on a pending request, so no permit stands on an earlier one.
LEMMA AnswerIsGood ==
  ASSUME IInv, NEW h \in Requests, NEW decision \in Decided, Answer(h, decision)
  PROVE  Good(grant, run, permit, [human EXCEPT ![h].state = decision])
<1> DEFINE H == [human EXCEPT ![h].state = decision]
<1>1. /\ human \in [Requests -> HumanRecords] /\ permit \in [Actions -> PermitRecords]
      /\ Linked(run, permit, human)
  BY Parts DEF Records
<1>2. human[h].state = "pending"
  BY DEF Answer
<1>3. /\ H \in [Requests -> HumanRecords] /\ H[h].state = decision /\ H[h].run = human[h].run
      /\ \A k \in Requests : k # h => H[k] = human[k]
  BY <1>1 DEF HumanRecords
<1> HIDE DEF H
<1>4. Records(grant, run, permit, H)
  BY <1>3, Parts DEF Records
<1>5. Linked(run, permit, H)
  BY <1>1, <1>2, <1>3 DEF Linked
<1>6. Spent(permit, H)
  <2>1. \A a \in Actions : permit[a].approval # None =>
          permit[a].approval \in Requests /\ human[permit[a].approval].state = "approved"
    BY <1>1, Parts DEF Spent, PermitRecords
  <2>2. \A a \in Actions : permit[a].approval # None => permit[a].approval # h
    BY <1>2, <2>1
  <2> QED BY <1>3, <2>1, <2>2, Parts DEF Spent
<1>7. Asked(run, H)
  BY <1>3, Parts DEF Asked
<1>8. Kept(grant, run, permit, H)
  BY <1>2, <1>3, States, NothingIsGood DEF Good, Kept
<1> QED BY <1>4, <1>5, <1>6, <1>7, <1>8, Parts DEF Good, Sound, H

\* The permit and its charge are one step; an approval it uses was not used before.
LEMMA ReserveIsGood ==
  ASSUME IInv, NEW r \in Runs, NEW a \in Actions, NEW content \in Contents, NEW approval \in Requests \cup {None},
         NEW R, R = run \/ (OfNative(run, r) /\ R = [run EXCEPT ![r].stop = "turn-limit"]),
         permit[a].state = "absent", run[r].state = "running",
         grant[run[r].grant].state = "active", grant[run[r].grant].used < Budget[run[r].grant],
         approval # None => ApprovalCovers(approval, r, content)
  PROVE  Good([grant EXCEPT ![run[r].grant].used = @ + 1], R,
              [permit EXCEPT ![a] = [state |-> "reserved", run |-> r, request |-> content, approval |-> approval]],
              human)
<1> DEFINE g == run[r].grant
           G == [grant EXCEPT ![g].used = @ + 1]
           new == [state |-> "reserved", run |-> r, request |-> content, approval |-> approval]
           P == [permit EXCEPT ![a] = new]
<1>1. /\ grant \in [Grants -> GrantRecords] /\ run \in [Runs -> RunRecords]
      /\ permit \in [Actions -> PermitRecords] /\ Linked(run, permit, human)
  BY Parts DEF Records
<1>2. g \in Grants
  BY <1>1 DEF Linked
<1>3. grant[g].used \in Nat /\ Budget[g] \in Nat /\ \A f \in Grants : grant[f].used \in Nat
  BY <1>1, <1>2, BudgetAssumption DEF GrantRecords
<1>4. /\ G \in [Grants -> GrantRecords] /\ G[g].used = grant[g].used + 1
      /\ \A f \in Grants : G[f].state = grant[f].state /\ (f # g => G[f] = grant[f])
  BY <1>1, <1>2, <1>3 DEF GrantRecords
<1>5. /\ R \in [Runs -> RunRecords]
      /\ \A q \in Runs :
           /\ R[q].state = run[q].state /\ R[q].grant = run[q].grant /\ R[q].started = run[q].started
           /\ R[q] = run[q] \/ (q = r /\ OfNative(run, q))
  BY <1>1 DEF RunRecords, StopReasons
<1>6. new \in PermitRecords
  BY DEF PermitRecords, Unsettled
<1>7. /\ P \in [Actions -> PermitRecords] /\ P[a] = new /\ new.state = "reserved" /\ new.run = r
      /\ new.request = content /\ new.approval = approval
      /\ \A b \in Actions : b # a => P[b] = permit[b]
  BY <1>1, <1>6
<1> HIDE DEF G, P, new
<1>8. Records(G, R, P, human)
  BY <1>2, <1>3, <1>4, <1>5, <1>7, Parts DEF Records
<1>9. Linked(R, P, human)
  BY <1>1, <1>5, <1>7 DEF Linked
<1>10. Accounted(G, R, P)
  <2>1. \A f \in Grants : grant[f].used = Cardinality(Charged(run, permit, f))
    BY Parts DEF Accounted
  <2>2. \A f \in Grants : IsFiniteSet(Charged(run, permit, f))
    BY ActionsAssumption, FS_Subset DEF Charged
  <2>3. Charged(R, P, g) = Charged(run, permit, g) \cup {a} /\ a \notin Charged(run, permit, g)
    BY <1>1, <1>5, <1>7 DEF Charged, Linked
  <2>4. Cardinality(Charged(R, P, g)) = Cardinality(Charged(run, permit, g)) + 1
    BY <1>2, <2>2, <2>3, FS_AddElement
  <2>5. \A f \in Grants : f # g => Charged(R, P, f) = Charged(run, permit, f)
    BY <1>1, <1>5, <1>7 DEF Charged, Linked
  <2> QED BY <1>2, <1>4, <2>1, <2>4, <2>5 DEF Accounted
<1>11. Started(R)
  BY <1>5, Parts DEF Started, OfNative
<1>12. Spent(P, human)
  <2>1. Spent(permit, human)
    BY Parts
  <2>2. approval # None => \A b \in Actions : permit[b].approval # approval
    BY DEF ApprovalCovers
  <2>3. approval # None => /\ human[approval].state = "approved" /\ human[approval].run = r
                           /\ human[approval].request = content
    BY DEF ApprovalCovers
  <2> QED BY <1>7, <2>1, <2>2, <2>3 DEF Spent
<1>13. Explained(R, P)
  <2>1. \A b \in Actions : permit[b].state \in Unsettled => permit[b].run \in Runs
    BY <1>1 DEF Linked, Unsettled
  <2> QED BY <1>5, <1>7, <2>1, Parts DEF Explained
<1>14. Asked(R, human)
  <2>1. \A h \in Requests : human[h].state # "absent" => human[h].run \in Runs
    BY <1>1 DEF Linked
  <2> QED BY <1>5, <2>1, Parts DEF Asked
<1>15. Kept(G, R, P, human)
  <2>1. \A b \in Actions : permit[b].state \in Settled => P[b] = permit[b]
    BY <1>7, States
  <2>2. \A q \in Runs : run[q].state \in Ended => R[q] = run[q]
    BY <1>5, States DEF Open
  <2>3. \A f \in Grants : grant[f].state \notin {"absent", "active"} => G[f] = grant[f]
    BY <1>4
  <2>4. \A f \in Grants : G[f].used >= grant[f].used
    BY <1>2, <1>3, <1>4
  <2> QED BY <2>1, <2>2, <2>3, <2>4 DEF Kept
<1> QED BY <1>8, <1>9, <1>10, <1>11, <1>12, <1>13, <1>14, <1>15, Parts DEF Good, Sound, G, P, new

\* A report changes the state of a permit that was not settled, or nothing.
LEMMA SettleIsGood ==
  ASSUME IInv, NEW a \in Actions, NEW outcome \in Settled \cup {"unknown"}, SettleAction(a, outcome)
  PROVE  Good(grant, run, [permit EXCEPT ![a].state = outcome], human)
<1> DEFINE P == [permit EXCEPT ![a].state = outcome]
<1>1. permit \in [Actions -> PermitRecords] /\ Linked(run, permit, human)
  BY Parts DEF Records
<1>2. permit[a].state # "absent" /\ (permit[a].state \in Unsettled \/ outcome = permit[a].state)
  BY DEF SettleAction, Unsettled, Settled
<1>3. outcome # "absent" /\ (outcome \in Unsettled => permit[a].state \in Unsettled)
  BY <1>2, States DEF Unsettled, Settled
<1>4. /\ P \in [Actions -> PermitRecords] /\ P[a].state = outcome /\ P[a].run = permit[a].run
      /\ P[a].request = permit[a].request /\ P[a].approval = permit[a].approval
      /\ outcome = permit[a].state => P[a] = permit[a]
      /\ \A b \in Actions : b # a => P[b] = permit[b]
  BY <1>1 DEF PermitRecords, Unsettled, Settled
<1> HIDE DEF P
<1>5. Records(grant, run, P, human)
  BY <1>4, Parts DEF Records
<1>6. Linked(run, P, human)
  BY <1>1, <1>2, <1>4 DEF Linked
<1>7. Accounted(grant, run, P)
  <2>1. ASSUME NEW g \in Grants PROVE Charged(run, P, g) = Charged(run, permit, g)
    BY <1>2, <1>3, <1>4 DEF Charged
  <2> QED BY <2>1, Parts DEF Accounted
<1>8. Spent(P, human)
  <2>1. \A b \in Actions : P[b].approval = permit[b].approval /\ P[b].run = permit[b].run /\ P[b].request = permit[b].request
    BY <1>4
  <2> QED BY <2>1, Parts DEF Spent
<1>9. Explained(run, P)
  BY <1>3, <1>4, Parts DEF Explained
<1>10. Kept(grant, run, P, human)
  BY <1>2, <1>4, States, NothingIsGood DEF Good, Kept
<1> QED BY <1>5, <1>6, <1>7, <1>8, <1>9, <1>10, Parts DEF Good, Sound, P
-----------------------------------------------------------------------------
(* The invariant and what follows from it                                      *)

\* What a step keeps of the facts of its first state.
Keeps == Kept(grant', run', permit', human')

\* The withdrawal after good records keeps the invariant.
LEMMA GoodSteps ==
  ASSUME IInv, NEW acc \in BOOLEAN, NEW restart, NEW G, NEW R, NEW P, NEW H,
         Good(G, R, P, H), Commit(acc, G, R, P, H, restart)
  PROVE  IInv' /\ Keeps
<1>1. Surrounded /\ Sound(G, R, P, H) /\ Kept(G, R, P, H)
  BY DEF IInv, Good
<1>2. Records(grant, run, permit, human) /\ Records(G, R, P, H)
  BY <1>1, Parts DEF Sound
<1>3. IInv'
  BY <1>1, CommitSound
<1>4. Keeps
  BY <1>1, <1>2, CommitKeeps DEF Keeps
<1> QED BY <1>3, <1>4

\* The authority starts without a record.
LEMMA InitSound == Init => IInv
<1> SUFFICES ASSUME Init PROVE IInv
  OBVIOUS
<1>1. Surrounded /\ LivePermitsHaveAuthority
  BY DEF Init, Surrounded, LivePermitsHaveAuthority, NoPermit
<1>2. Records(grant, run, permit, human)
  BY BudgetAssumption DEF Init, Records, GrantRecords, RunRecords, PermitRecords, HumanRecords,
     NoGrant, NoRun, NoPermit, NoRequest
<1>3. Linked(run, permit, human)
  BY DEF Init, Linked, NoRun, NoPermit, NoRequest
<1>4. Accounted(grant, run, permit)
  <2>1. \A g \in Grants : Charged(run, permit, g) = {} /\ grant[g].used = 0
    BY DEF Init, Charged, NoPermit, NoGrant
  <2> QED BY <2>1, FS_EmptySet DEF Accounted
<1>5. Started(run) /\ Spent(permit, human) /\ Explained(run, permit) /\ Asked(run, human)
  BY DEF Init, Started, Spent, Explained, Asked, NoRun, NoPermit, NoRequest, Unsettled
<1> QED BY <1>1, <1>2, <1>3, <1>4, <1>5 DEF IInv, Sound

\* Every command keeps the invariant and what is settled.
LEMMA CommandSound == IInv /\ Command => IInv' /\ Keeps
<1> SUFFICES ASSUME IInv, Command PROVE IInv' /\ Keeps
  OBVIOUS
<1>1. accepted \in BOOLEAN /\ run \in [Runs -> RunRecords]
  BY Parts DEF Surrounded, Records
<1>2. CASE \E g \in Grants : GrantExecution(g) \/ RevokeExecution(g)
  <2>1. PICK g \in Grants, state \in {"active", "revoked"} :
          /\ \/ grant[g].state = "absent" /\ state = "active"
             \/ grant[g].state = "active" /\ state = "revoked"
          /\ Commit(accepted, [grant EXCEPT ![g].state = state], run, permit, human, FALSE)
    BY <1>2 DEF GrantExecution, RevokeExecution
  <2>2. Good([grant EXCEPT ![g].state = state], run, permit, human)
    BY <2>1, GrantIsGood
  <2> QED BY <1>1, <2>1, <2>2, GoodSteps
<1>3. CASE \E r \in Runs, g \in Grants : CreateRun(r, g)
  <2>1. PICK r \in Runs, g \in Grants : CreateRun(r, g)
    BY <1>3
  <2>2. Good(grant, [run EXCEPT ![r] = [NoRun EXCEPT !.state = "prepared", !.grant = g]], permit, human)
    BY <2>1, CreateRunIsGood
  <2> QED BY <1>1, <2>1, <2>2, GoodSteps DEF CreateRun
<1>4. CASE \E r \in Runs, reason \in Reasons \cup {None} :
             \E state \in {"running", "paused"} \cup Ended : TransitionRun(r, state, reason)
  <2>1. PICK r \in Runs, reason \in Reasons \cup {None}, state \in {"running", "paused"} \cup Ended :
          TransitionRun(r, state, reason)
    BY <1>4
  <2>2. CASE run[r].state = "waiting-human" /\ state = "paused"
    <3>1. Commit(accepted, grant, run, permit, human, FALSE)
      BY <2>1, <2>2 DEF TransitionRun
    <3> QED BY <1>1, <3>1, NothingIsGood, GoodSteps
  <2>3. CASE ~(run[r].state = "waiting-human" /\ state = "paused")
    <3> DEFINE stop == IF ~OfNative(run, r) \/ state = "running" THEN None
                       ELSE IF reason # None THEN reason
                       ELSE IF state \in Ended THEN "native-terminal"
                       ELSE "employee-stop"
               new == [run EXCEPT ![r] =
                        [@ EXCEPT !.state = state,
                                  !.started = OfNative(run, r) /\ (run[r].started \/ state = "running"),
                                  !.stop = stop]]
    <3>1. /\ run[r].state \in Open
          /\ state = "running" => run[r].state = "prepared"
          /\ state \in {"succeeded", "failed"} => run[r].state = "running" /\ ~Unresolved(r)
          /\ Commit(accepted, grant, new, permit, human, FALSE)
      BY <2>1, <2>3 DEF TransitionRun
    <3>2. stop \in StopReasons \cup {None} /\ (stop # None => OfNative(run, r))
      BY ReasonsAssumption DEF StopReasons
    <3> HIDE DEF stop
    <3>3. Good(grant, new, permit, human)
      BY <3>1, <3>2, TransitionIsGood
    <3> HIDE DEF new
    <3> QED BY <1>1, <3>1, <3>3, GoodSteps
  <2> QED BY <2>2, <2>3
<1>5. CASE \E r \in Runs : ResumeRun(r)
  <2>1. PICK r \in Runs : ResumeRun(r)
    BY <1>5
  <2> DEFINE new == [run EXCEPT ![r] = [@ EXCEPT !.state = "running", !.started = OfNative(run, r), !.stop = None]]
  <2>2. Commit(accepted, grant, new, permit, human, FALSE)
    BY <2>1 DEF ResumeRun
  <2>3. Good(grant, new, permit, human)
    BY <2>1, ResumeIsGood
  <2> HIDE DEF new
  <2> QED BY <1>1, <2>2, <2>3, GoodSteps
<1>6. CASE \E r \in Runs, h \in Requests, about \in Contents \cup {None} : RequestHuman(r, h, about)
  <2>1. PICK r \in Runs, h \in Requests, about \in Contents \cup {None} : RequestHuman(r, h, about)
    BY <1>6
  <2> DEFINE R == [run EXCEPT ![r].state = "waiting-human"]
             H == [human EXCEPT ![h] = [state |-> "pending", run |-> r, request |-> about]]
  <2>2. Commit(accepted, grant, R, permit, H, FALSE)
    BY <2>1 DEF RequestHuman
  <2>3. Good(grant, R, permit, H)
    BY <2>1, RequestIsGood
  <2> HIDE DEF R, H
  <2> QED BY <1>1, <2>2, <2>3, GoodSteps
<1>7. CASE \E h \in Requests, decision \in Decided : Answer(h, decision)
  <2>1. PICK h \in Requests, decision \in Decided : Answer(h, decision)
    BY <1>7
  <2> DEFINE H == [human EXCEPT ![h].state = decision]
  <2>2. Commit(accepted, grant, run, permit, H, FALSE)
    BY <2>1 DEF Answer
  <2>3. Good(grant, run, permit, H)
    BY <2>1, AnswerIsGood
  <2> HIDE DEF H
  <2> QED BY <1>1, <2>2, <2>3, GoodSteps
<1>8. CASE \E r \in Runs, a \in Actions, content \in Contents, approval \in Requests \cup {None} :
             ReserveAction(r, a, content, approval)
  <2>1. PICK r \in Runs, a \in Actions, content \in Contents, approval \in Requests \cup {None} :
          ReserveAction(r, a, content, approval)
    BY <1>8
  <2> DEFINE g == run[r].grant
             last == \/ grant[g].used + 1 >= Budget[g]
                     \/ Cardinality(PermitsOf(r)) + 1 >= MaxTurns
             G == [grant EXCEPT ![g].used = @ + 1]
             R == IF OfNative(run, r) /\ last THEN [run EXCEPT ![r].stop = "turn-limit"] ELSE run
             P == [permit EXCEPT ![a] = [state |-> "reserved", run |-> r, request |-> content, approval |-> approval]]
  <2>2. /\ permit[a].state = "absent" /\ run[r].state = "running"
        /\ grant[g].state = "active" /\ grant[g].used < Budget[g]
        /\ approval # None => ApprovalCovers(approval, r, content)
        /\ Commit(accepted, G, R, P, human, FALSE)
    BY <2>1 DEF ReserveAction, Qualified
  <2>3. R = run \/ (OfNative(run, r) /\ R = [run EXCEPT ![r].stop = "turn-limit"])
    OBVIOUS
  <2> HIDE DEF R
  <2>4. Good(G, R, P, human)
    BY <2>2, <2>3, ReserveIsGood
  <2> HIDE DEF G, P
  <2> QED BY <1>1, <2>2, <2>4, GoodSteps
<1>9. CASE \E a \in Actions, outcome \in Settled \cup {"unknown"} : SettleAction(a, outcome)
  <2>1. PICK a \in Actions, outcome \in Settled \cup {"unknown"} : SettleAction(a, outcome)
    BY <1>9
  <2> DEFINE P == [permit EXCEPT ![a].state = outcome]
  <2>2. Commit(accepted, grant, run, P, human, FALSE)
    BY <2>1 DEF SettleAction
  <2>3. Good(grant, run, P, human)
    BY <2>1, SettleIsGood
  <2> HIDE DEF P
  <2> QED BY <1>1, <2>2, <2>3, GoodSteps
<1> QED BY <1>2, <1>3, <1>4, <1>5, <1>6, <1>7, <1>8, <1>9 DEF Command

\* So does what happens around the authority: assignments, deadlines, restarts.
LEMMA EnvironmentSound == IInv /\ Environment => IInv' /\ Keeps
<1> SUFFICES ASSUME IInv, Environment PROVE IInv' /\ Keeps
  OBVIOUS
<1>1. accepted \in BOOLEAN /\ Good(grant, run, permit, human)
  BY Parts, NothingIsGood DEF Surrounded
<1>2. CASE LoseAssignment
  BY <1>1, <1>2, GoodSteps DEF LoseAssignment
<1>3. CASE Restore
  BY <1>1, <1>3, GoodSteps DEF Restore
<1>4. CASE Restart
  BY <1>1, <1>4, GoodSteps DEF Restart
<1>5. CASE ExpireQualifications
  BY <1>1, <1>5, GoodSteps DEF ExpireQualifications
<1>6. CASE PassDeadline
  <2>1. Surrounded'
    BY <1>6, Parts DEF PassDeadline, Deadlines, Surrounded
  <2>2. UNCHANGED <<accepted, grant, run, permit, human>>
    BY <1>6 DEF PassDeadline
  <2>3. Sound(grant', run', permit', human') /\ LivePermitsHaveAuthority'
    BY <2>2 DEF IInv, LivePermitsHaveAuthority
  <2>4. Keeps
    BY <1>1, <2>2 DEF Good, Keeps
  <2> QED BY <2>1, <2>3, <2>4 DEF IInv
<1> QED BY <1>2, <1>3, <1>4, <1>5, <1>6 DEF Environment

\* The invariant is inductive and every step keeps the facts.
LEMMA Invariance == Spec => [](IInv) /\ [][Keeps]_authorityVars
<1>1. IInv /\ [Next]_authorityVars => IInv' /\ [Keeps]_authorityVars
  <2> SUFFICES ASSUME IInv, [Next]_authorityVars PROVE IInv' /\ [Keeps]_authorityVars
    OBVIOUS
  <2>1. CASE Next
    BY <2>1, CommandSound, EnvironmentSound DEF Next
  <2>2. CASE UNCHANGED authorityVars
    BY <2>2 DEF authorityVars, IInv, Surrounded, LivePermitsHaveAuthority
  <2> QED BY <2>1, <2>2
<1> QED BY <1>1, InitSound, PTL DEF Spec

\* The records stay within execution-schema.ts and no grant is charged beyond
\* its budget, for any budgets and any number of runs.
THEOREM AuthorityTypes == Spec => []TypeOK
<1>1. IInv => TypeOK
  BY Parts DEF TypeOK, Surrounded, Records
<1> QED BY <1>1, Invariance, PTL

\* Whatever the commands, restarts and restores, the service can open the
\* store again: what validateExecutionDatabase demands holds in every state.
THEOREM StoreAlwaysReopens == Spec => []StoreReopens
<1>1. ASSUME IInv PROVE StoreReopens
  <2>1. ChargesAddUp
    BY <1>1, Parts DEF ChargesAddUp, ChargedFor, Accounted, Charged
  <2>2. NativeRunsStarted
    <3>1. \A r \in Runs : run[r].started \in BOOLEAN /\ OfNative(run, r) \in BOOLEAN
      BY <1>1, Parts DEF Records, RunRecords, OfNative
    <3> QED BY <1>1, <3>1, Parts DEF NativeRunsStarted, Started
  <2>3. ApprovalsSpentOnce
    BY <1>1, Parts DEF ApprovalsSpentOnce, Spent
  <2> QED BY <2>1, <2>2, <2>3 DEF StoreReopens
<1> QED BY <1>1, Invariance, PTL

\* No permit is usable after its authority is gone: the withdrawal at the end of
\* every transaction misses none.
THEOREM PermitsHaveAuthority == Spec => []LivePermitsHaveAuthority
<1>1. IInv => LivePermitsHaveAuthority
  BY DEF IInv
<1> QED BY <1>1, Invariance, PTL

\* A run that succeeded or failed left no action unexplained.
THEOREM EndedRunsSettled == Spec => []EndedRunsAreSettled
<1>1. IInv => EndedRunsAreSettled
  BY Parts DEF EndedRunsAreSettled, Explained
<1> QED BY <1>1, Invariance, PTL

\* A run works only while everything it asked was decided.
THEOREM QuestionsStopRuns == Spec => []NothingRunsPastAQuestion
<1>1. IInv => NothingRunsPastAQuestion
  BY Parts DEF NothingRunsPastAQuestion, Asked
<1> QED BY <1>1, Invariance, PTL

\* No step of any kind takes back a settlement, a decision, an end or a charge.
THEOREM FactsStayFinal == Spec => FactsAreFinal
<1>1. [Keeps]_authorityVars =>
        [ /\ \A a \in Actions : permit[a].state \in Settled => permit'[a] = permit[a]
          /\ \A h \in Requests : human[h].state \in Decided => human'[h] = human[h]
          /\ \A r \in Runs : run[r].state \in Ended => run'[r] = run[r]
          /\ \A g \in Grants : grant[g].state \notin {"absent", "active"} => grant'[g] = grant[g]
          /\ \A g \in Grants : grant'[g].used >= grant[g].used ]_authorityVars
  BY DEF Keeps, Kept
<1> QED BY <1>1, Invariance, PTL DEF FactsAreFinal

-----------------------------------------------------------------------------
(* The hosts: their records                                                    *)

Stages == {"idle", "starting", "recovering", "inspecting", "settling", "working", "halted",
           "finishing", "stopping", "closing"} \cup Guarded
HostRecord == [at : Stages, run : Runs \cup {None}, act : Actions \cup {None}, resumed : BOOLEAN,
               todo : SUBSET (Actions \X Settled)]

\* a host outside its guard, and one that holds an action
Resting(x) == x \in HostRecord /\ x.at \notin Guarded /\ x.act = None /\ (x.at = "idle" <=> x.run = None)
Holding(x) == x \in HostRecord /\ x.at \in Guarded /\ x.act \in Actions /\ x.run \in Runs

\* a command that a host sends
Sane(c) ==
  /\ c \in Commands
  /\ c.kind = "ask" => c.id \in Requests /\ c.about \in Contents \cup {None}
  /\ c.kind = "reserve" => c.id \in Actions /\ c.about \in Contents
  /\ c.kind = "settle" => c.id \in Actions /\ c.about \in Settled \cup {"unknown"}

RuntimeTyped ==
  /\ setup \in Setups
  /\ host \in [Hosts -> HostRecord] /\ \A h \in Hosts : Resting(host[h]) \/ Holding(host[h])
  /\ binding \in [Hosts -> [Runs -> {"ready", "executing", "stopped"}]]
  /\ journal \in [Hosts -> [Actions -> Evidence]]
  /\ directory \in [Hosts -> Writes \cup {None}]
  /\ times \in [Actions -> Nat]
  /\ \A c \in late : Sane(c)
-----------------------------------------------------------------------------
(* The inductive invariant                                                     *)

Marks == {"issued", "unknown", "succeeded", "failed"}

\* the host h has the action a in hand, or evidence of it
Touches(h, a) == journal[h][a] # "none" \/ host[h].act = a

\* An action is the business of the one host that was granted its permit.
OneHost ==
  \A a \in Actions : \A h \in Hosts : Touches(h, a) =>
    permit[a].state # "absent" /\ \A k \in Hosts : Touches(k, a) => k = h

\* Effects are single and marked, and what was seen to happen did.
EffectsAreSingle ==
  \A a \in Actions :
    /\ times[a] \in {0, 1}
    /\ times[a] = 1 => \E h \in Hosts : journal[h][a] \in Marks
    /\ \A h \in Hosts : journal[h][a] \in {"succeeded", "failed"} => times[a] = 1

\* The evidence of the action in hand is where its stage says, and nobody has
\* concluded on it.
InHand(h) ==
  LET a == host[h].act IN
  /\ permit[a].state \notin Settled
  /\ host[h].at \in {"charged", "noted", "cleared"} => journal[h][a] \in {"none", "reserved"}
  /\ host[h].at = "issued" => journal[h][a] = "issued" /\ times[a] = 0
  /\ host[h].at = "acted" => journal[h][a] = "issued" /\ times[a] = 1
  /\ host[h].at = "reporting" => journal[h][a] \in Settled \cup {"unknown"}

\* the outcome agrees with what happened, or with what the directory shows
Right(a, outcome) ==
  /\ outcome = "not-issued" => times[a] = 0
  /\ outcome = "failed" => times[a] = 1
  /\ outcome = "succeeded" => times[a] = 1 \/ permit[a].request \in Writes

\* the outcome may be reported by somebody who does not have the action in hand
Claimed(a, outcome) ==
  permit[a].state # "absent" /\ Right(a, outcome) /\ \A h \in Hosts : host[h].act # a

ClaimsHold ==
  /\ \A c \in late : c.kind = "settle" => Claimed(c.id, c.about)
  /\ \A h \in Hosts : \A t \in host[h].todo : Claimed(t[1], t[2])

ConclusionsHold == \A a \in Actions : permit[a].state \in Settled => Right(a, permit[a].state)

RuntimeIInv ==
  /\ IInv /\ RuntimeTyped
  /\ OneHost /\ EffectsAreSingle /\ \A h \in Hosts : host[h].at \in Guarded => InHand(h)
  /\ ClaimsHold /\ ConclusionsHold
-----------------------------------------------------------------------------
(* What the service makes of a permit                                          *)

\* it stays as it is, or is withdrawn
Same(a) ==
  permit'[a] = permit[a] \/ (permit[a].state = "reserved" /\ permit'[a] = [permit[a] EXCEPT !.state = "unknown"])

Charges(a) == permit[a].state = "absent" /\ permit'[a].state \in Unsettled
Concludes(a, outcome) ==
  permit[a].state \in Unsettled /\ outcome \in Settled /\ permit'[a] = [permit[a] EXCEPT !.state = outcome]

\* The command c is executed: it charges an action, concludes on one, or neither.
Serves(c) ==
  /\ [Next]_authorityVars
  /\ \A a \in Actions : Same(a) \/ (c.id = a /\ (c.kind = "reserve" \/ c.kind = "settle"))
  /\ c.kind = "reserve" => Charges(c.id)
  /\ c.kind = "settle" => Same(c.id) \/ Concludes(c.id, c.about)

\* the permits are P, some of them withdrawn
Withdrawn(P) ==
  \A a \in Actions :
    permit'[a] = P[a] \/ (P[a].state = "reserved" /\ permit'[a] = [P[a] EXCEPT !.state = "unknown"])

\* The withdrawal only turns permits that are reserved into unknown ones.
LEMMA CommitPermits ==
  ASSUME NEW acc, NEW G, NEW R, NEW P, NEW H, NEW restart, Commit(acc, G, R, P, H, restart)
  PROVE  Withdrawn(P)
<1> DEFINE lapsed == Lapse(acc, G)
<1>1. permit' = Retire(lapsed, R, P, restart)
  BY DEF Commit
<1> HIDE DEF lapsed
<1> QED BY <1>1 DEF Retire, Withdrawn

\* Permits are records.
LEMMA PermitsTyped == ASSUME IInv PROVE permit \in [Actions -> PermitRecords]
  BY Parts DEF Records

\* A report changes the state of its permit alone.
LEMMA SettlePermits ==
  ASSUME IInv, NEW a \in Actions, NEW outcome \in Settled \cup {"unknown"}, SettleAction(a, outcome)
  PROVE  /\ \A b \in Actions : b # a => Same(b)
         /\ Same(a) \/ Concludes(a, outcome)
<1> DEFINE P == [permit EXCEPT ![a].state = outcome]
<1>1. permit \in [Actions -> PermitRecords]
  BY PermitsTyped
<1>2. Commit(accepted, grant, run, P, human, FALSE)
  BY DEF SettleAction
<1>3. Withdrawn(P)
  <2> HIDE DEF P
  <2> QED BY <1>2, CommitPermits
<1>4. P[a] = [permit[a] EXCEPT !.state = outcome] /\ P[a].state = outcome
        /\ \A b \in Actions : b # a => P[b] = permit[b]
  BY <1>1 DEF PermitRecords
<1>5. permit[a].state = outcome => [permit[a] EXCEPT !.state = outcome] = permit[a]
  BY <1>1 DEF PermitRecords
<1>6. outcome # "reserved" /\ (outcome \in Settled \/ outcome = "unknown") /\ "unknown" \notin Settled
  BY DEF Settled
<1>7. permit'[a] = [permit[a] EXCEPT !.state = outcome]
  BY <1>3, <1>4, <1>6 DEF Withdrawn
<1>8. \/ permit[a].state = "reserved" /\ outcome \in Settled \cup {"unknown"}
      \/ permit[a].state = "unknown" /\ outcome \in Settled
      \/ permit[a].state = outcome
  BY DEF SettleAction
<1> HIDE DEF P
<1>9. Same(a) \/ Concludes(a, outcome)
  BY <1>5, <1>6, <1>7, <1>8 DEF Same, Concludes, Unsettled
<1>10. ASSUME NEW b \in Actions, b # a PROVE Same(b)
  BY <1>3, <1>4, <1>10 DEF Same, Withdrawn
<1> QED BY <1>9, <1>10

\* A reservation charges its action alone.
LEMMA ReservePermits ==
  ASSUME IInv, NEW r, NEW a \in Actions, NEW content \in Contents, NEW approval,
         ReserveAction(r, a, content, approval)
  PROVE  Charges(a) /\ \A b \in Actions : b # a => Same(b)
<1> DEFINE new == [state |-> "reserved", run |-> r, request |-> content, approval |-> approval]
           P   == [permit EXCEPT ![a] = new]
<1>1. permit \in [Actions -> PermitRecords]
  BY PermitsTyped
<1>2. PICK G, R : Commit(accepted, G, R, P, human, FALSE)
  BY DEF ReserveAction
<1>3. Withdrawn(P)
  <2> HIDE DEF P
  <2> QED BY <1>2, CommitPermits
<1>4. P[a] = new /\ new.state = "reserved" /\ \A b \in Actions : b # a => P[b] = permit[b]
  BY <1>1
<1>5. [new EXCEPT !.state = "unknown"].state = "unknown"
  OBVIOUS
<1>6. permit[a].state = "absent"
  BY DEF ReserveAction
<1> HIDE DEF P, new
<1>7. Charges(a)
  BY <1>3, <1>4, <1>5, <1>6 DEF Charges, Unsettled, Withdrawn
<1>8. ASSUME NEW b \in Actions, b # a PROVE Same(b)
  BY <1>3, <1>4, <1>8 DEF Same, Withdrawn
<1> QED BY <1>7, <1>8

\* Every command that a host sends is executed as one the service has.
LEMMA ExecuteServes ==
  ASSUME IInv, NEW c, Sane(c), Execute(c)
  PROVE  Serves(c)
<1>1. /\ c.run \in Runs /\ c.approval \in Requests \cup {None} /\ c.id \in Actions \cup Requests \cup {None}
      /\ c.kind \in {"start", "resume", "pause", "succeed", "ask", "reserve", "settle"}
  BY DEF Sane, Commands
<1>2. CASE c.kind = "settle"
  <2>1. c.id \in Actions /\ c.about \in Settled \cup {"unknown"} /\ SettleAction(c.id, c.about)
    BY <1>2 DEF Sane, Execute
  <2>2. Next
    BY <2>1 DEF Next, Command
  <2> QED BY <1>2, <2>1, <2>2, SettlePermits DEF Serves
<1>3. CASE c.kind = "reserve"
  <2>1. c.id \in Actions /\ c.about \in Contents /\ ReserveAction(c.run, c.id, c.about, c.approval)
    BY <1>3 DEF Sane, Execute
  <2>2. Next
    BY <1>1, <2>1 DEF Next, Command
  <2> QED BY <1>3, <2>1, <2>2, ReservePermits DEF Serves
<1>4. CASE c.kind \in {"start", "resume", "pause", "succeed", "ask"}
  <2>1. Next
    <3>1. CASE c.kind = "start"
      BY <1>1, <3>1 DEF Execute, Next, Command
    <3>2. CASE c.kind = "resume"
      BY <1>1, <3>2 DEF Execute, Next, Command
    <3>3. CASE c.kind = "pause"
      BY <1>1, <3>3 DEF Execute, Next, Command
    <3>4. CASE c.kind = "succeed"
      BY <1>1, <3>4 DEF Execute, Next, Command, Ended
    <3>5. CASE c.kind = "ask"
      BY <1>1, <3>5 DEF Execute, Next, Command, Sane
    <3> QED BY <1>4, <3>1, <3>2, <3>3, <3>4, <3>5
  <2>2. \E acc, G, R, H, restart : Commit(acc, G, R, permit, H, restart)
    <3>1. CASE c.kind = "start"
      BY <3>1 DEF Execute, TransitionRun
    <3>2. CASE c.kind = "resume"
      BY <3>2 DEF Execute, ResumeRun
    <3>3. CASE c.kind = "pause"
      BY <3>3 DEF Execute, TransitionRun
    <3>4. CASE c.kind = "succeed"
      BY <3>4 DEF Execute, TransitionRun
    <3>5. CASE c.kind = "ask"
      BY <3>5 DEF Execute, RequestHuman
    <3> QED BY <1>4, <3>1, <3>2, <3>3, <3>4, <3>5
  <2>3. \A a \in Actions : Same(a)
    BY <2>2, CommitPermits DEF Same, Withdrawn
  <2> QED BY <1>4, <2>1, <2>3 DEF Serves
<1> QED BY <1>1, <1>2, <1>3, <1>4

\* A commit of the permits as they are withdraws at most.
LEMMA CommitsKeepPermits ==
  ASSUME NEW acc, NEW G, NEW R, NEW H, NEW restart, Commit(acc, G, R, permit, H, restart)
  PROVE  \A a \in Actions : Same(a)
<1>1. Withdrawn(permit)
  BY CommitPermits
<1> QED BY <1>1 DEF Same, Withdrawn

\* What the employee and the surroundings do withdraws permits at most.
LEMMA OthersServe ==
  ASSUME IInv, Decide \/ Surroundings
  PROVE  [Next]_authorityVars /\ \A a \in Actions : Same(a)
<1>1. Next
  <2>1. CASE Decide
    BY <2>1 DEF Decide, Next, Command, Ended
  <2>2. CASE Surroundings
    BY <2>2 DEF Surroundings, Next, Environment
  <2> QED BY <2>1, <2>2
<1>2. (\E acc, G, R, H, restart : Commit(acc, G, R, permit, H, restart)) \/ PassDeadline
  <2>1. CASE Decide
    BY <2>1 DEF Decide, GrantExecution, RevokeExecution, CreateRun, TransitionRun, Answer
  <2>2. CASE LoseAssignment \/ Restart \/ ExpireQualifications
    BY <2>2 DEF LoseAssignment, Restart, ExpireQualifications
  <2> QED BY <2>1, <2>2 DEF Surroundings
<1>3. \A a \in Actions : Same(a)
  <2>1. CASE \E acc, G, R, H, restart : Commit(acc, G, R, permit, H, restart)
    <3>1. PICK acc, G, R, H, restart : Commit(acc, G, R, permit, H, restart)
      BY <2>1
    <3> QED BY <3>1, CommitsKeepPermits
  <2>2. CASE PassDeadline
    <3>1. permit' = permit
      BY <2>2 DEF PassDeadline
    <3> QED BY <3>1 DEF Same
  <2> QED BY <1>2, <2>1, <2>2
<1> QED BY <1>1, <1>3

-----------------------------------------------------------------------------
(* Steps that leave the journal and the world alone                            *)

\* after the step, somebody may report the outcome who does not have the action in hand
Claimable(a, outcome) ==
  permit[a].state # "absent" /\ Right(a, outcome) /\ \A h \in Hosts : host'[h].act # a

\* A host stays as it is or has nothing in hand; what it or a late command is about
\* to report is right; so is what the service concluded on.
Rests(h) ==
  /\ Resting(host'[h])
  /\ \A t \in host'[h].todo : t \in host[h].todo \/ Claimable(t[1], t[2])
Permitted(a) == Same(a) \/ Charges(a) \/ \E outcome \in Settled : Concludes(a, outcome) /\ Claimable(a, outcome)
LateClaim(c) == Sane(c) /\ (c.kind = "settle" => Claimable(c.id, c.about))
PermitsMove ==
  /\ \A a \in Actions : Permitted(a)
  /\ \A a, b \in Actions : Same(a) \/ Same(b) \/ a = b
Releases ==
  /\ [Next]_authorityVars /\ PermitsMove
  /\ UNCHANGED <<setup, journal, times>>
  /\ host' \in [Hosts -> HostRecord] /\ \A h \in Hosts : host'[h] = host[h] \/ Rests(h)
  /\ binding' \in [Hosts -> [Runs -> {"ready", "executing", "stopped"}]]
  /\ directory' \in [Hosts -> Writes \cup {None}]
  /\ \A c \in late' : c \in late \/ LateClaim(c)

\* Every step of the authority keeps its invariant and its facts.
LEMMA AuthorityGoesOn == IInv /\ [Next]_authorityVars => IInv' /\ Keeps
<1> SUFFICES ASSUME IInv, [Next]_authorityVars PROVE IInv' /\ Keeps
  OBVIOUS
<1>1. CASE Next
  BY <1>1, CommandSound, EnvironmentSound DEF Next
<1>2. CASE UNCHANGED authorityVars
  <2>1. IInv'
    BY <1>2 DEF authorityVars, IInv, Surrounded, Sound, Records, Linked, Accounted, Charged, Started, Spent, Explained, Asked, OfNative, LivePermitsHaveAuthority
  <2>2. Keeps
    BY <1>2, NothingIsGood DEF authorityVars, Keeps, Good
  <2> QED BY <2>1, <2>2
<1> QED BY <1>1, <1>2

\* What a step does to a permit: it is charged once, keeps its content, and is
\* settled by a conclusion only.
LEMMA PermitsGoOn ==
  ASSUME IInv, NEW a \in Actions, Permitted(a)
  PROVE  /\ permit[a].state # "absent" => permit'[a].state # "absent" /\ permit'[a].request = permit[a].request
         /\ permit'[a].state \in Settled =>
              permit'[a].state = permit[a].state \/ Claimable(a, permit'[a].state)
         /\ permit[a].state \notin Settled /\ (\E h \in Hosts : host'[h].act = a) => permit'[a].state \notin Settled
<1>1. permit[a] \in PermitRecords
  BY PermitsTyped
<1>2. Settled \cap Unsettled = {} /\ "absent" \notin Settled \cup Unsettled /\ "unknown" \in Unsettled
  BY DEF Settled, Unsettled
<1>3. CASE Same(a)
  <2>1. CASE permit'[a] = permit[a]
    BY <2>1
  <2>2. CASE permit[a].state = "reserved" /\ permit'[a] = [permit[a] EXCEPT !.state = "unknown"]
    <3>1. permit'[a].state = "unknown" /\ permit'[a].request = permit[a].request
      BY <1>1, <2>2 DEF PermitRecords
    <3> QED BY <1>2, <3>1
  <2> QED BY <1>3, <2>1, <2>2 DEF Same
<1>4. CASE Charges(a)
  BY <1>2, <1>4 DEF Charges
<1>5. CASE \E outcome \in Settled : Concludes(a, outcome) /\ Claimable(a, outcome)
  <2>1. PICK outcome \in Settled : Concludes(a, outcome) /\ Claimable(a, outcome)
    BY <1>5
  <2>2. permit'[a].state = outcome /\ permit'[a].request = permit[a].request
    BY <1>1, <2>1 DEF PermitRecords, Concludes
  <2> QED BY <1>2, <2>1, <2>2 DEF Claimable
<1> QED BY <1>3, <1>4, <1>5 DEF Permitted

\* No action is None.
LEMMA Nobody == None \notin Runs /\ None \notin Actions
BY NoRunAssumption

\* The invariant holds after such a step.
LEMMA ReleasesKeep == RuntimeIInv /\ Releases => RuntimeIInv'
<1> SUFFICES ASSUME RuntimeIInv, Releases PROVE RuntimeIInv'
  OBVIOUS
<1>1. IInv'
  BY AuthorityGoesOn DEF RuntimeIInv, Releases
<1>2. /\ journal' = journal /\ times' = times /\ setup' = setup
      /\ IInv /\ RuntimeTyped
  BY DEF Releases, RuntimeIInv
<1>3. \A h \in Hosts : host'[h] = host[h] \/ (Resting(host'[h]) /\ host'[h].act = None /\ host'[h].at \notin Guarded)
  BY DEF Releases, Rests, Resting
<1>4. \A a \in Actions, h \in Hosts : host'[h].act = a => host[h].act = a
  BY <1>3, Nobody
<1>5. \A a \in Actions : Permitted(a)
  BY DEF Releases, PermitsMove
<1>6. RuntimeTyped'
  <2>1. \A h \in Hosts : Resting(host'[h]) \/ Holding(host'[h])
    BY <1>2, <1>3 DEF RuntimeTyped
  <2>2. \A c \in late' : Sane(c)
    BY <1>2 DEF RuntimeTyped, Releases, LateClaim
  <2> QED BY <1>2, <2>1, <2>2 DEF RuntimeTyped, Releases
<1>7. OneHost'
  <2> SUFFICES ASSUME NEW a \in Actions, NEW h \in Hosts, Touches(h, a)'
               PROVE  permit'[a].state # "absent" /\ \A k \in Hosts : Touches(k, a)' => k = h
    BY DEF OneHost
  <2>1. \A k \in Hosts : Touches(k, a)' => Touches(k, a)
    BY <1>2, <1>4 DEF Touches
  <2>2. permit[a].state # "absent" /\ \A k \in Hosts : Touches(k, a) => k = h
    BY <2>1 DEF RuntimeIInv, OneHost
  <2>3. permit'[a].state # "absent"
    BY <1>2, <1>5, <2>2, PermitsGoOn
  <2> QED BY <2>1, <2>2, <2>3
<1>8. EffectsAreSingle'
  BY <1>2 DEF EffectsAreSingle, RuntimeIInv
<1>9. \A h \in Hosts : host'[h].at \in Guarded => InHand(h)'
  <2> SUFFICES ASSUME NEW h \in Hosts, host'[h].at \in Guarded PROVE InHand(h)'
    OBVIOUS
  <2>1. host'[h] = host[h]
    BY <1>3
  <2>2. host[h].act \in Actions /\ InHand(h)
    BY <1>2, <2>1 DEF RuntimeIInv, RuntimeTyped, Resting, Holding
  <2>3. permit'[host[h].act].state \notin Settled
    BY <1>2, <1>5, <2>1, <2>2, PermitsGoOn DEF InHand
  <2> QED BY <1>2, <2>1, <2>2, <2>3 DEF InHand
<1>10. ASSUME NEW a \in Actions, NEW outcome, Claimed(a, outcome) \/ Claimable(a, outcome)
       PROVE  Claimed(a, outcome)'
  <2>1. permit'[a].state # "absent" /\ permit'[a].request = permit[a].request /\ Right(a, outcome)
    BY <1>2, <1>5, <1>10, PermitsGoOn DEF Claimed, Claimable
  <2>2. \A h \in Hosts : host'[h].act # a
    BY <1>4, <1>10 DEF Claimed, Claimable
  <2> QED BY <1>2, <2>1, <2>2 DEF Claimed, Right
<1>11. ClaimsHold'
  <2>1. ASSUME NEW c \in late', c.kind = "settle" PROVE Claimed(c.id, c.about)'
    <3>1. (c \in late \/ LateClaim(c)) /\ Sane(c)
      BY <1>2 DEF Releases, LateClaim, RuntimeTyped
    <3>2. c.id \in Actions
      BY <2>1, <3>1 DEF Sane
    <3>3. Claimed(c.id, c.about) \/ Claimable(c.id, c.about)
      BY <2>1, <3>1 DEF RuntimeIInv, ClaimsHold, LateClaim
    <3> QED BY <1>10, <3>2, <3>3
  <2>2. ASSUME NEW h \in Hosts, NEW t \in host'[h].todo PROVE Claimed(t[1], t[2])'
    <3>1. host'[h] \in HostRecord
      BY DEF Releases
    <3>2. t[1] \in Actions
      BY <3>1 DEF HostRecord
    <3>3. t \in host[h].todo \/ Claimable(t[1], t[2])
      BY DEF Releases, Rests
    <3>4. Claimed(t[1], t[2]) \/ Claimable(t[1], t[2])
      BY <3>3 DEF RuntimeIInv, ClaimsHold
    <3> QED BY <1>10, <3>2, <3>4
  <2> QED BY <2>1, <2>2 DEF ClaimsHold
<1>12. ConclusionsHold'
  <2> SUFFICES ASSUME NEW a \in Actions, permit'[a].state \in Settled PROVE Right(a, permit[a].state)'
    BY DEF ConclusionsHold
  <2>1. permit'[a].state = permit[a].state \/ Claimable(a, permit'[a].state)
    BY <1>2, <1>5, PermitsGoOn
  <2>2. permit[a].state \in Settled => Right(a, permit[a].state)
    BY DEF RuntimeIInv, ConclusionsHold
  <2>3. Right(a, permit'[a].state) /\ permit[a].state # "absent"
    BY <2>1, <2>2 DEF Claimable, Settled
  <2>4. permit'[a].request = permit[a].request
    BY <1>2, <1>5, <2>3, PermitsGoOn
  <2> QED BY <1>2, <2>3, <2>4 DEF Right
<1> QED BY <1>1, <1>6, <1>7, <1>8, <1>9, <1>11, <1>12 DEF RuntimeIInv

-----------------------------------------------------------------------------
(* Which steps do so: commands, crashes, recoveries                             *)

\* The authority stands still.
Still == UNCHANGED authorityVars
\* No permit moves while the authority stands still.
LEMMA StillPermits == Still => [Next]_authorityVars /\ PermitsMove
BY DEF Still, authorityVars, PermitsMove, Permitted, Same

\* The host h goes on as x, without an action in hand.
LEMMA HostRests ==
  ASSUME RuntimeTyped, NEW h \in Hosts, NEW x, Resting(x), host' = [host EXCEPT ![h] = x],
         \A t \in x.todo : t \in host[h].todo \/ Claimable(t[1], t[2])
  PROVE  host' \in [Hosts -> HostRecord] /\ \A k \in Hosts : host'[k] = host[k] \/ Rests(k)
<1>1. host \in [Hosts -> HostRecord] /\ x \in HostRecord
  BY DEF RuntimeTyped, Resting
<1>2. host'[h] = x /\ \A k \in Hosts : k # h => host'[k] = host[k]
  BY <1>1
<1>3. Rests(h)
  BY <1>2 DEF Rests
<1> QED BY <1>1, <1>2, <1>3

\* The command c says nothing wrong, and only the host h has its action in hand.
Honest(h, c) ==
  /\ Sane(c)
  /\ c.kind = "settle" =>
       /\ permit[c.id].state # "absent" /\ Right(c.id, c.about)
       /\ \A k \in Hosts : k # h => host[k].act # c.id
Beside == UNCHANGED <<setup, binding, journal, directory, times>>

\* The report of a host that gives its action up is one somebody may make.
LEMMA HonestIsClaimable ==
  ASSUME RuntimeTyped, NEW h \in Hosts, NEW c, Honest(h, c), c.kind = "settle",
         NEW x, Resting(x), host' = [host EXCEPT ![h] = x]
  PROVE  Claimable(c.id, c.about)
<1>1. host'[h] = x /\ \A k \in Hosts : k # h => host'[k] = host[k]
  BY DEF RuntimeTyped
<1>2. x.act = None /\ c.id \in Actions
  BY DEF Resting, Honest, Sane
<1> QED BY <1>1, <1>2, Nobody DEF Honest, Claimable

\* A host without an answer goes on, and its command may be under way.
LEMMA Unanswered ==
  ASSUME RuntimeIInv, NEW h \in Hosts, NEW c, Honest(h, c), NEW x, Resting(x), x.todo \subseteq host[h].todo,
         host' = [host EXCEPT ![h] = x], Still, late' \subseteq late \cup {c}, Beside
  PROVE  Releases
<1>1. host' \in [Hosts -> HostRecord] /\ \A k \in Hosts : host'[k] = host[k] \/ Rests(k)
  BY HostRests DEF RuntimeIInv
<1>2. LateClaim(c)
  BY HonestIsClaimable DEF LateClaim, Honest, RuntimeIInv
<1> QED BY <1>1, <1>2, StillPermits DEF Releases, Beside, RuntimeIInv, RuntimeTyped

\* What the service makes of an honest command is permitted.
LEMMA ServedIsPermitted ==
  ASSUME NEW c, Serves(c), Sane(c), c.kind = "settle" => Claimable(c.id, c.about)
  PROVE  [Next]_authorityVars /\ PermitsMove
<1>1. ASSUME NEW a \in Actions PROVE Permitted(a)
  <2>1. CASE Same(a)
    BY <2>1 DEF Permitted
  <2>2. CASE c.id = a /\ c.kind = "reserve"
    BY <2>2 DEF Serves, Permitted
  <2>3. CASE c.id = a /\ c.kind = "settle"
    BY <2>3 DEF Serves, Permitted, Concludes
  <2> QED BY <2>1, <2>2, <2>3 DEF Serves
<1> QED BY <1>1 DEF Serves, PermitsMove

\* A host with an answer goes on.
LEMMA Answered ==
  ASSUME RuntimeIInv, NEW h \in Hosts, NEW c, Honest(h, c), NEW x, Resting(x), x.todo \subseteq host[h].todo,
         host' = [host EXCEPT ![h] = x], Execute(c), UNCHANGED late, Beside
  PROVE  Releases
<1>1. host' \in [Hosts -> HostRecord] /\ \A k \in Hosts : host'[k] = host[k] \/ Rests(k)
  BY HostRests DEF RuntimeIInv
<1>2. Serves(c) /\ Sane(c)
  BY ExecuteServes DEF RuntimeIInv, Honest
<1>3. c.kind = "settle" => Claimable(c.id, c.about)
  BY HonestIsClaimable DEF RuntimeIInv
<1>4. [Next]_authorityVars /\ PermitsMove
  BY <1>2, <1>3, ServedIsPermitted
<1> QED BY <1>1, <1>4 DEF Releases, Beside, RuntimeIInv, RuntimeTyped

\* So sending a command is such a step, whatever becomes of the command.
LEMMA SendReleases ==
  ASSUME RuntimeIInv, NEW h \in Hosts, NEW c, Honest(h, c), NEW answered, NEW failed,
         Resting(answered), Resting(failed),
         answered.todo \subseteq host[h].todo, failed.todo \subseteq host[h].todo,
         Send(h, c, answered, failed), Beside
  PROVE  Releases
<1>1. CASE Execute(c) /\ host' = [host EXCEPT ![h] = answered] /\ UNCHANGED late
  BY <1>1, Answered
<1>2. CASE host' = [host EXCEPT ![h] = failed] /\ UNCHANGED authorityVars /\ late' \subseteq late \cup {c}
  BY <1>2, Unanswered DEF Still
<1> QED BY <1>1, <1>2 DEF Send

\* A step of a host without a command.
LEMMA QuietReleases ==
  ASSUME RuntimeIInv, NEW h \in Hosts, NEW x, Resting(x), host' = [host EXCEPT ![h] = x],
         \A t \in x.todo : t \in host[h].todo \/ Claimable(t[1], t[2]),
         Still, UNCHANGED <<setup, journal, directory, late, times>>,
         binding' \in [Hosts -> [Runs -> {"ready", "executing", "stopped"}]]
  PROVE  Releases
<1>1. host' \in [Hosts -> HostRecord] /\ \A k \in Hosts : host'[k] = host[k] \/ Rests(k)
  BY HostRests DEF RuntimeIInv
<1> QED BY <1>1, StillPermits DEF Releases, RuntimeIInv, RuntimeTyped

\* What the employee, the surroundings and late commands do.
LEMMA DecideReleases == RuntimeIInv /\ (Decide \/ Surroundings) => Releases
<1> SUFFICES ASSUME RuntimeIInv, Decide \/ Surroundings PROVE Releases
  OBVIOUS
<1>1. [Next]_authorityVars /\ PermitsMove
  BY OthersServe DEF RuntimeIInv, PermitsMove, Permitted
<1>2. UNCHANGED <<hostVars, late>>
  BY DEF Decide, Surroundings
<1> QED BY <1>1, <1>2 DEF Releases, hostVars, RuntimeIInv, RuntimeTyped

\* A late command was claimed when it was sent, and nobody took its action since.
LEMMA ArriveReleases == RuntimeIInv /\ (Arrive \/ Drop) => Releases
<1> SUFFICES ASSUME RuntimeIInv, Arrive \/ Drop PROVE Releases
  OBVIOUS
<1>1. UNCHANGED hostVars /\ late' \subseteq late
  BY DEF Arrive, Drop
<1>2. CASE Arrive
  <2>1. PICK c \in late : Execute(c)
    BY <1>2 DEF Arrive
  <2>2. Sane(c) /\ Serves(c)
    BY <2>1, ExecuteServes DEF RuntimeIInv, RuntimeTyped
  <2>3. c.kind = "settle" => Claimable(c.id, c.about)
    BY <1>1, <2>1 DEF RuntimeIInv, ClaimsHold, Claimed, Claimable, hostVars
  <2>4. [Next]_authorityVars /\ PermitsMove
    BY <2>2, <2>3, ServedIsPermitted
  <2> QED BY <1>1, <2>4 DEF Releases, hostVars, RuntimeIInv, RuntimeTyped
<1>3. CASE Drop
  <2>1. Still
    BY <1>3 DEF Drop, Still
  <2> QED BY <1>1, <2>1, StillPermits DEF Releases, hostVars, RuntimeIInv, RuntimeTyped
<1> QED BY <1>2, <1>3

-----------------------------------------------------------------------------
(* The steps of a host                                                         *)

\* A host that is at a stage outside its guard has nothing in hand.
LEMMA AtRest ==
  ASSUME RuntimeTyped, NEW h \in Hosts, host[h].at \notin Guarded
  PROVE  Resting(host[h]) /\ host[h] \in HostRecord /\ host[h].act = None
           /\ (host[h].at # "idle" => host[h].run \in Runs)
BY Nobody DEF RuntimeTyped, Resting, Holding, HostRecord

\* A host that is in its guard has a run and an action.
LEMMA AtHand ==
  ASSUME RuntimeTyped, NEW h \in Hosts, host[h].at \in Guarded
  PROVE  host[h] \in HostRecord /\ host[h].run \in Runs /\ host[h].act \in Actions
BY DEF RuntimeTyped, Resting, Holding

Quiet == Stages \ Guarded
\* A host that goes to another stage of its interval rests there.
LEMMA RestsAt ==
  ASSUME NEW x \in HostRecord, x.run \in Runs, NEW at \in Quiet \ {"idle"}
  PROVE  /\ Resting([x EXCEPT !.at = at, !.act = None])
         /\ x.act = None => Resting([x EXCEPT !.at = at])
BY Nobody DEF Resting, HostRecord, Quiet, Stages

\* A host rests when it has no interval.
LEMMA IdleRests == Resting(Idle) /\ Idle.todo = {}
BY DEF Idle, Resting, HostRecord, Stages, Guarded

\* The commands about a run are honest.
LEMMA SimpleIsHonest ==
  ASSUME NEW h \in Hosts, NEW r \in Runs, NEW kind \in {"start", "resume", "pause", "succeed"}
  PROVE  Honest(h, Simple(kind, r))
BY DEF Honest, Sane, Simple, Commands

\* Questions and requests for approval say nothing of an outcome.
LEMMA AskIsHonest ==
  ASSUME NEW h \in Hosts, NEW r \in Runs, NEW q \in Requests, NEW about \in Contents \cup {None}
  PROVE  /\ Honest(h, [Simple("ask", r) EXCEPT !.id = q, !.about = about])
         /\ Honest(h, [Simple("ask", r) EXCEPT !.id = q])
BY DEF Honest, Sane, Simple, Commands

\* Neither do reservations.
LEMMA ReserveIsHonest ==
  ASSUME NEW h \in Hosts, NEW r \in Runs, NEW a \in Actions, NEW content \in Contents, NEW approval \in Requests \cup {None}
  PROVE  Honest(h, [Simple("reserve", r) EXCEPT !.id = a, !.about = content, !.approval = approval])
BY DEF Honest, Sane, Simple, Commands

\* A report is honest when its outcome is right and no other host has the action.
LEMMA SettleIsHonest ==
  ASSUME NEW h \in Hosts, NEW r \in Runs, NEW a \in Actions, NEW outcome \in Settled \cup {"unknown"},
         permit[a].state # "absent", Right(a, outcome), \A k \in Hosts : k # h => host[k].act # a
  PROVE  Honest(h, Settle(r, a, outcome)) /\ Settle(r, a, outcome).kind = "settle"
<1> DEFINE c == Settle(r, a, outcome)
<1>1. c.kind = "settle" /\ c.id = a /\ c.about = outcome /\ c.run = r /\ c.approval = None
  BY DEF Settle, Simple
<1>2. c \in Commands
  BY DEF Settle, Simple, Commands
<1> HIDE DEF c
<1>3. Honest(h, c)
  BY <1>1, <1>2 DEF Honest, Sane
<1> QED BY <1>1, <1>3 DEF c

\* A stage of an interval without a command.
LEMMA GoReleases ==
  ASSUME RuntimeIInv, NEW h \in Hosts, host[h].at \in Quiet \ {"idle"}, NEW at \in Quiet \ {"idle"},
         Go(h, at), Still, UNCHANGED <<setup, journal, directory, late, times>>,
         binding' \in [Hosts -> [Runs -> {"ready", "executing", "stopped"}]]
  PROVE  Releases
<1> DEFINE x == [host[h] EXCEPT !.at = at]
<1>1. host[h] \in HostRecord /\ host[h].act = None /\ host[h].run \in Runs
  BY AtRest DEF RuntimeIInv, Quiet
<1>2. Resting(x) /\ x.todo = host[h].todo
  BY <1>1, RestsAt DEF HostRecord
<1>3. host' = [host EXCEPT ![h] = x]
  BY DEF Go, RuntimeIInv, RuntimeTyped
<1> HIDE DEF x
<1> QED BY <1>2, <1>3, QuietReleases

\* A stage of an interval that ends with a command.
LEMMA CommandReleases ==
  ASSUME RuntimeIInv, NEW h \in Hosts, host[h].at \in Quiet \ {"idle"}, NEW c, Honest(h, c),
         NEW answered \in Quiet \ {"idle"}, NEW x, x = Idle \/ \E at \in Quiet \ {"idle"} : x = [host[h] EXCEPT !.at = at],
         Send(h, c, [host[h] EXCEPT !.at = answered], x), Beside
  PROVE  Releases
<1>1. host[h] \in HostRecord /\ host[h].act = None /\ host[h].run \in Runs
  BY AtRest DEF RuntimeIInv, Quiet
<1>2. \A at \in Quiet \ {"idle"} : Resting([host[h] EXCEPT !.at = at]) /\ [host[h] EXCEPT !.at = at].todo = host[h].todo
  BY <1>1, RestsAt DEF HostRecord
<1>3. Resting(x) /\ x.todo \subseteq host[h].todo
  BY <1>2, IdleRests
<1> DEFINE y == [host[h] EXCEPT !.at = answered]
<1>4. Resting(y) /\ y.todo \subseteq host[h].todo /\ Send(h, c, y, x)
  BY <1>2
<1> HIDE DEF y
<1> QED BY <1>3, <1>4, SendReleases

-----------------------------------------------------------------------------
\* the stages outside a guard
LEMMA QuietStages ==
  /\ Quiet = {"idle", "starting", "recovering", "inspecting", "settling", "working", "halted",
              "finishing", "stopping", "closing"}
  /\ Stages = Quiet \cup Guarded
BY DEF Quiet, Stages, Guarded

\* An interval starts, or recovers what an earlier one left.
LEMMA StartReleases ==
  ASSUME RuntimeIInv, NEW h \in Hosts, NEW r \in Runs,
         Start(h, r) \/ \E continue \in BOOLEAN : Recover(h, r, continue)
  PROVE  Releases
<1>1. CASE Start(h, r)
  <2> DEFINE x == [Idle EXCEPT !.at = "starting", !.run = r]
  <2>1. Resting(x) /\ x.todo = {}
    BY Nobody DEF Idle, Resting, HostRecord, Stages, Guarded
  <2>2. binding' \in [Hosts -> [Runs -> {"ready", "executing", "stopped"}]]
    BY <1>1 DEF Start, RuntimeIInv, RuntimeTyped
  <2>3. host' = [host EXCEPT ![h] = x] /\ Still /\ UNCHANGED <<setup, journal, directory, late, times>>
    BY <1>1 DEF Start, Still
  <2> HIDE DEF x
  <2> QED BY <2>1, <2>2, <2>3, QuietReleases
<1>2. ASSUME NEW continue \in BOOLEAN, Recover(h, r, continue) PROVE Releases
  <2> DEFINE x == [Idle EXCEPT !.at = "recovering", !.run = r, !.resumed = continue]
  <2>1. Resting(x) /\ x.todo = {}
    BY Nobody DEF Idle, Resting, HostRecord, Stages, Guarded
  <2>2. /\ host' = [host EXCEPT ![h] = x] /\ Still
        /\ UNCHANGED <<setup, binding, journal, directory, late, times>>
    BY <1>2 DEF Recover, Still
  <2> HIDE DEF x
  <2> QED BY <2>1, <2>2, QuietReleases DEF RuntimeIInv, RuntimeTyped
<1> QED BY <1>1, <1>2

\* The pause before the recovery, sent only for a run that runs.
LEMMA PauseReleases == ASSUME RuntimeIInv, NEW h \in Hosts, PauseBeforeRecovery(h) PROVE Releases
<1>1. host[h].at \in Quiet \ {"idle"} /\ host[h].run \in Runs
  BY AtRest, QuietStages DEF PauseBeforeRecovery, At, RuntimeIInv, Guarded
<1>2. Beside /\ "inspecting" \in Quiet \ {"idle"}
  BY QuietStages DEF PauseBeforeRecovery, Beside
<1>3. CASE Send(h, Simple("pause", host[h].run), [host[h] EXCEPT !.at = "inspecting"], Idle)
  <2>1. Honest(h, Simple("pause", host[h].run))
    BY <1>1, SimpleIsHonest
  <2> QED BY <1>1, <1>2, <1>3, <2>1, CommandReleases
<1>4. CASE Go(h, "inspecting") /\ UNCHANGED <<authorityVars, late>>
  BY <1>1, <1>2, <1>4, GoReleases DEF Still, Beside, RuntimeIInv, RuntimeTyped
<1> QED BY <1>3, <1>4 DEF PauseBeforeRecovery

\* What is done twice was seen, so evidence of another kind says nothing was done.
LEMMA NothingWasDone ==
  ASSUME RuntimeIInv, NEW h \in Hosts, NEW a \in Actions, Touches(h, a), journal[h][a] \notin Marks
  PROVE  times[a] = 0
<1>1. times[a] \in {0, 1} /\ (times[a] = 1 => \E k \in Hosts : journal[k][a] \in Marks)
  BY DEF RuntimeIInv, EffectsAreSingle
<1>2. \A k \in Hosts : journal[k][a] \in Marks => k = h
  BY DEF RuntimeIInv, OneHost, Touches, Marks
<1> QED BY <1>1, <1>2

\* What a host finds about an action of its journal is right, and nobody has it in hand.
LEMMA FindingIsRight ==
  ASSUME RuntimeIInv, NEW h \in Hosts, NEW a \in Actions, Finding(h, a) # "unknown"
  PROVE  /\ Finding(h, a) \in Settled /\ Right(a, Finding(h, a)) /\ Touches(h, a)
<1>1. journal[h][a] \in Evidence
  BY DEF RuntimeIInv, RuntimeTyped
<1>2. journal[h][a] # "none"
  BY DEF Finding
<1>3. CASE journal[h][a] \in {"reserved", "not-issued"}
  <2>1. Finding(h, a) = "not-issued"
    BY <1>3 DEF Finding
  <2>2. times[a] = 0
    BY <1>2, <1>3, NothingWasDone DEF Touches, Marks
  <2> QED BY <1>2, <2>1, <2>2 DEF Right, Settled, Touches
<1>4. CASE journal[h][a] \in {"issued", "unknown", "succeeded", "failed"}
  <2>1. Finding(h, a) = IF permit[a].request \in Writes
                        THEN IF directory[h] = permit[a].request THEN "succeeded" ELSE "unknown"
                        ELSE IF journal[h][a] \in Settled THEN journal[h][a] ELSE "unknown"
    BY <1>4 DEF Finding
  <2>2. journal[h][a] \in {"succeeded", "failed"} => times[a] = 1
    BY DEF RuntimeIInv, EffectsAreSingle
  <2>3. CASE permit[a].request \in Writes
    BY <1>2, <2>1, <2>3 DEF Right, Settled, Touches
  <2>4. CASE permit[a].request \notin Writes
    <3>1. Finding(h, a) = journal[h][a] /\ journal[h][a] \in {"succeeded", "failed"}
      BY <1>4, <2>1, <2>4 DEF Settled
    <3> QED BY <1>2, <2>2, <3>1 DEF Right, Settled, Touches
  <2> QED BY <2>3, <2>4
<1> QED BY <1>1, <1>2, <1>3, <1>4 DEF Evidence, Settled

\* What a recovery is about to report it found in its own journal.
LEMMA InspectReleases == ASSUME RuntimeIInv, NEW h \in Hosts, Inspect(h) PROVE Releases
<1> DEFINE r == host[h].run
           known == {a \in OpenActions(r) : Finding(h, a) # "unknown"}
           resumed == host[h].resumed /\ known = OpenActions(r)
           todo == {<<a, Finding(h, a)>> : a \in known}
           x == [host[h] EXCEPT !.at = "settling", !.todo = todo, !.resumed = resumed]
<1>1. host[h] \in HostRecord /\ host[h].act = None /\ r \in Runs
  BY AtRest DEF Inspect, At, RuntimeIInv, Guarded
<1>2. \A a \in known : a \in Actions /\ permit[a].state # "absent" /\ Finding(h, a) \in Settled
                       /\ Right(a, Finding(h, a)) /\ Touches(h, a)
  BY FindingIsRight DEF OpenActions, PermitsOf
<1>3. host' = [host EXCEPT ![h] = x]
  BY Zenon DEF Inspect
<1>4. todo \subseteq Actions \X Settled
  BY <1>2
<1>5. resumed \in BOOLEAN
  BY <1>1 DEF HostRecord
<1> HIDE DEF todo, resumed
<1>6. Resting(x) /\ x.todo = todo /\ x.act = None
  BY <1>1, <1>4, <1>5, Nobody DEF Resting, HostRecord, Stages, Guarded
<1> HIDE DEF x
<1>7. \A a \in known : Claimable(a, Finding(h, a))
  <2> SUFFICES ASSUME NEW a \in known, NEW k \in Hosts, host'[k].act = a PROVE FALSE
    BY <1>2 DEF Claimable
  <2>1. k # h
    BY <1>2, <1>3, <1>6, Nobody DEF RuntimeIInv, RuntimeTyped
  <2>2. Touches(k, a)
    BY <1>3, <2>1 DEF Touches
  <2> QED BY <1>2, <2>1, <2>2 DEF RuntimeIInv, OneHost
<1>8. \A t \in x.todo : Claimable(t[1], t[2])
  BY <1>6, <1>7 DEF todo
<1> QED BY <1>3, <1>6, <1>8, QuietReleases DEF Inspect, Still, RuntimeIInv, RuntimeTyped

\* The reports of a recovery, one at a time.
LEMMA ReportFindingReleases == ASSUME RuntimeIInv, NEW h \in Hosts, ReportFinding(h) PROVE Releases
<1>1. host[h] \in HostRecord /\ host[h].at = "settling" /\ host[h].run \in Runs /\ Resting(host[h])
  BY AtRest DEF ReportFinding, At, RuntimeIInv, Guarded
<1>2. PICK t \in host[h].todo :
        Send(h, Settle(host[h].run, t[1], t[2]), [host[h] EXCEPT !.todo = @ \ {t}], Idle)
  BY DEF ReportFinding
<1>3. Claimed(t[1], t[2]) /\ t[1] \in Actions /\ t[2] \in Settled
  BY <1>1 DEF RuntimeIInv, ClaimsHold, HostRecord
<1>4. Honest(h, Settle(host[h].run, t[1], t[2]))
  BY <1>1, <1>3, SettleIsHonest DEF Claimed
<1> DEFINE x == [host[h] EXCEPT !.todo = @ \ {t}]
<1>5. Resting(x) /\ x.todo \subseteq host[h].todo
  BY <1>1 DEF Resting, HostRecord
<1>6. Send(h, Settle(host[h].run, t[1], t[2]), x, Idle)
  BY <1>2
<1> HIDE DEF x
<1> QED BY <1>4, <1>5, <1>6, IdleRests, SendReleases DEF ReportFinding, Beside

\* The end of a recovery, with or without going on.
LEMMA EndRecoveryReleases == ASSUME RuntimeIInv, NEW h \in Hosts, EndRecovery(h) PROVE Releases
<1>1. host[h].at \in Quiet \ {"idle"} /\ "starting" \in Quiet \ {"idle"}
  BY QuietStages DEF EndRecovery, At
<1>2. Still /\ UNCHANGED <<setup, journal, directory, late, times>>
  BY DEF EndRecovery, Still
<1>3. binding' \in [Hosts -> [Runs -> {"ready", "executing", "stopped"}]]
  <2>1. host[h].run \in Runs
    BY AtRest DEF EndRecovery, At, RuntimeIInv, Guarded
  <2>2. binding \in [Hosts -> [Runs -> {"ready", "executing", "stopped"}]]
    BY DEF RuntimeIInv, RuntimeTyped
  <2>3. binding' = binding \/ binding' = [binding EXCEPT ![h][host[h].run] = "executing"]
    BY DEF EndRecovery
  <2> QED BY <2>1, <2>2, <2>3
<1>4. CASE Go(h, "starting")
  BY <1>1, <1>2, <1>3, <1>4, GoReleases
<1>5. CASE host' = [host EXCEPT ![h] = Idle]
  BY <1>2, <1>3, <1>5, IdleRests, QuietReleases
<1> QED BY <1>4, <1>5 DEF EndRecovery

-----------------------------------------------------------------------------
\* The steps of an interval.
LEMMA IntervalReleases ==
  ASSUME RuntimeIInv, NEW h \in Hosts,
         BeginWork(h) \/ EndTurn(h) \/ FailTurn(h) \/ Succeed(h) \/ StopRun(h) \/ Close(h)
  PROVE  Releases
<1>1. host[h].at \in Quiet \ {"idle"} /\ host[h].run \in Runs
  BY AtRest, QuietStages
     DEF BeginWork, EndTurn, FailTurn, Succeed, StopRun, Close, At, RuntimeIInv, Guarded
<1>2. {"working", "halted", "finishing", "stopping", "closing"} \subseteq Quiet \ {"idle"}
  BY QuietStages
<1>3. \A kind \in {"start", "resume", "pause", "succeed"} : Honest(h, Simple(kind, host[h].run))
  BY <1>1, SimpleIsHonest
<1>4. CASE BeginWork(h)
  <2> DEFINE kind == IF host[h].resumed THEN "resume" ELSE "start"
  <2>1. Send(h, Simple(kind, host[h].run), [host[h] EXCEPT !.at = "working"], [host[h] EXCEPT !.at = "stopping"])
    BY <1>4 DEF BeginWork
  <2>2. Honest(h, Simple(kind, host[h].run)) /\ Beside
    BY <1>3, <1>4 DEF BeginWork, Beside
  <2> HIDE DEF kind
  <2> QED BY <1>1, <1>2, <2>1, <2>2, CommandReleases
<1>5. CASE EndTurn(h) \/ FailTurn(h)
  <2>1. PICK at \in {"working", "halted", "finishing", "stopping", "closing"} : Go(h, at)
    BY <1>5 DEF EndTurn, FailTurn
  <2>2. Still /\ UNCHANGED <<setup, binding, journal, directory, late, times>>
    BY <1>5 DEF EndTurn, FailTurn, Still
  <2> QED BY <1>1, <1>2, <2>1, <2>2, GoReleases DEF RuntimeIInv, RuntimeTyped
<1>6. CASE Succeed(h)
  BY <1>1, <1>2, <1>3, <1>6, CommandReleases DEF Succeed, Beside
<1>7. CASE StopRun(h)
  BY <1>1, <1>2, <1>3, <1>7, CommandReleases DEF StopRun, Beside
<1>8. CASE Close(h)
  <2>1. binding \in [Hosts -> [Runs -> {"ready", "executing", "stopped"}]]
    BY DEF RuntimeIInv, RuntimeTyped
  <2>2. binding' \in [Hosts -> [Runs -> {"ready", "executing", "stopped"}]]
    BY <1>1, <1>8, <2>1 DEF Close
  <2> QED BY <1>8, <2>2, IdleRests, QuietReleases DEF Close, Still
<1> QED BY <1>4, <1>5, <1>6, <1>7, <1>8

\* A question of the model, or for the approval of a write.
LEMMA AskReleases ==
  ASSUME RuntimeIInv, NEW h \in Hosts, NEW q \in Requests,
         Ask(h, q) \/ \E content \in Contents : AskApproval(h, q, content)
  PROVE  Releases
<1>1. host[h].at = "working" /\ host[h].at \in Quiet \ {"idle"}
  BY QuietStages DEF Ask, AskApproval, At
<1>2. Resting(host[h]) /\ host[h] \in HostRecord /\ host[h].run \in Runs
  BY <1>1, AtRest, QuietStages DEF RuntimeIInv, Guarded
<1>3. CASE Ask(h, q)
  <2> DEFINE c == [Simple("ask", host[h].run) EXCEPT !.id = q]
  <2>1. Honest(h, c)
    BY <1>2, AskIsHonest
  <2>2. Send(h, c, host[h], host[h]) /\ Beside
    BY <1>3 DEF Ask, Beside
  <2> HIDE DEF c
  <2> QED BY <1>2, <2>1, <2>2, SendReleases
<1>4. ASSUME NEW content \in Contents, AskApproval(h, q, content) PROVE Releases
  <2> DEFINE c == [Simple("ask", host[h].run) EXCEPT !.id = q, !.about = content]
             x == [host[h] EXCEPT !.at = "halted"]
  <2>1. Honest(h, c)
    BY <1>2, AskIsHonest
  <2>2. Send(h, c, x, x) /\ Beside
    BY <1>4 DEF AskApproval, Beside
  <2> HIDE DEF c
  <2>3. "halted" \in Quiet \ {"idle"}
    BY QuietStages
  <2> QED BY <1>1, <2>1, <2>2, <2>3, CommandReleases
<1> QED BY <1>3, <1>4

\* The process ends, or the employee edits the file.
LEMMA CrashReleases == ASSUME RuntimeIInv, NEW h \in Hosts, Crash(h) PROVE Releases
BY IdleRests, QuietReleases DEF Crash, Still, RuntimeIInv, RuntimeTyped

\* The employee edits the file beside all this.
LEMMA EditReleases == ASSUME RuntimeIInv, NEW h \in Hosts, EmployeeEdits(h) PROVE Releases
<1>1. directory \in [Hosts -> Writes \cup {None}]
  BY DEF RuntimeIInv, RuntimeTyped
<1>2. directory' \in [Hosts -> Writes \cup {None}]
  BY <1>1 DEF EmployeeEdits
<1>3. Still /\ UNCHANGED <<setup, host, binding, journal, late, times>>
  BY DEF EmployeeEdits, Still
<1> QED BY <1>2, <1>3, StillPermits DEF Releases, RuntimeIInv, RuntimeTyped

\* A guard that gives up its action.
LEMMA HaltedRests ==
  ASSUME RuntimeTyped, NEW h \in Hosts, host[h].at \in Guarded
  PROVE  /\ Resting(Halted(h)) /\ Halted(h).todo = host[h].todo
         /\ Resting([Halted(h) EXCEPT !.at = "working"])
         /\ [Halted(h) EXCEPT !.at = "working"].todo = host[h].todo
<1>1. host[h] \in HostRecord /\ host[h].run \in Runs
  BY AtHand
<1> QED BY <1>1, Nobody DEF Halted, Resting, HostRecord, Stages, Guarded

\* The guard gives its action up without a report.
LEMMA LoseReleases ==
  ASSUME RuntimeIInv, NEW h \in Hosts, host[h].at \in Guarded, host' = [host EXCEPT ![h] = Halted(h)],
         Still, UNCHANGED <<setup, binding, journal, directory, late, times>>
  PROVE  Releases
<1> DEFINE x == Halted(h)
<1>1. Resting(x) /\ x.todo = host[h].todo
  BY HaltedRests DEF RuntimeIInv
<1>2. host' = [host EXCEPT ![h] = x]
  OBVIOUS
<1> HIDE DEF x
<1> QED BY <1>1, <1>2, QuietReleases DEF RuntimeIInv, RuntimeTyped

\* The report of the guard itself.
LEMMA ReportReleases == ASSUME RuntimeIInv, NEW h \in Hosts, Report(h) PROVE Releases
<1> DEFINE a == host[h].act
           x == IF journal[h][a] \in {"succeeded", "failed"} THEN [Halted(h) EXCEPT !.at = "working"] ELSE Halted(h)
           y == Halted(h)
<1>1. host[h].at = "reporting" /\ host[h].at \in Guarded
  BY DEF Report, At, Guarded
<1>2. host[h].run \in Runs /\ a \in Actions
  BY <1>1, AtHand DEF RuntimeIInv
<1>3. journal[h][a] \in Settled \cup {"unknown"}
  BY <1>1 DEF RuntimeIInv, InHand
<1>4. permit[a].state # "absent" /\ \A k \in Hosts : k # h => host[k].act # a
  BY <1>2 DEF RuntimeIInv, OneHost, Touches
<1>5. Right(a, journal[h][a])
  <2>1. journal[h][a] = "not-issued" => times[a] = 0
    BY <1>2, NothingWasDone DEF Touches, Marks
  <2>2. journal[h][a] \in {"succeeded", "failed"} => times[a] = 1
    BY <1>2 DEF RuntimeIInv, EffectsAreSingle
  <2> QED BY <2>1, <2>2 DEF Right
<1>6. Honest(h, Settle(host[h].run, a, journal[h][a]))
  BY <1>2, <1>3, <1>4, <1>5, SettleIsHonest
<1>7. Resting(x) /\ x.todo \subseteq host[h].todo /\ Resting(y) /\ y.todo \subseteq host[h].todo
  BY <1>1, HaltedRests DEF RuntimeIInv
<1>8. Send(h, Settle(host[h].run, a, journal[h][a]), x, y) /\ Beside
  BY DEF Report, Beside
<1> HIDE DEF x, y, a
<1> QED BY <1>6, <1>7, <1>8, SendReleases

-----------------------------------------------------------------------------
(* A host takes an action in hand                                              *)

Takes(h, a) ==
  /\ [Next]_authorityVars /\ Charges(a) /\ \A b \in Actions : b # a => Same(b)
  /\ host[h].act = None /\ host'[h].at = "charged" /\ host'[h].act = a
  /\ Holding(host'[h]) /\ host'[h].todo = host[h].todo
  /\ host' \in [Hosts -> HostRecord] /\ \A k \in Hosts : k # h => host'[k] = host[k]
  /\ Beside /\ UNCHANGED late

\* An action that is charged was nobody's before.
LEMMA TakesKeep == ASSUME RuntimeIInv, NEW h \in Hosts, NEW a \in Actions, Takes(h, a) PROVE RuntimeIInv'
<1>1. IInv'
  BY AuthorityGoesOn DEF RuntimeIInv, Takes
<1>2. /\ setup' = setup /\ binding' = binding /\ journal' = journal /\ directory' = directory /\ times' = times
      /\ late' = late /\ IInv /\ RuntimeTyped
  BY DEF Takes, Beside, RuntimeIInv
<1>3. \A k \in Hosts : k # h => host'[k] = host[k]
  BY DEF Takes
<1>4. /\ permit[a].state = "absent" /\ permit'[a].state \in Unsettled
      /\ \A b \in Actions : b # a => Permitted(b)
  BY DEF Takes, Charges, Permitted
<1>5. \A k \in Hosts : ~ Touches(k, a)
  BY <1>4 DEF RuntimeIInv, OneHost
<1>6. Settled \cap Unsettled = {} /\ "absent" \notin Unsettled
  BY DEF Settled, Unsettled
<1>7. RuntimeTyped'
  <2>1. \A k \in Hosts : Resting(host'[k]) \/ Holding(host'[k])
    BY <1>2, <1>3 DEF RuntimeTyped, Takes
  <2> QED BY <1>2, <2>1 DEF RuntimeTyped, Takes
<1>8. \A b \in Actions, k \in Hosts : b # a => (Touches(k, b)' => Touches(k, b))
  BY <1>2, <1>3 DEF Touches, Takes
<1>9. OneHost'
  <2> SUFFICES ASSUME NEW b \in Actions, NEW k \in Hosts, Touches(k, b)'
               PROVE  permit'[b].state # "absent" /\ \A l \in Hosts : Touches(l, b)' => l = k
    BY DEF OneHost
  <2>1. CASE b = a
    <3>1. \A l \in Hosts : Touches(l, a)' => l = h
      BY <1>2, <1>3, <1>5 DEF Touches
    <3> QED BY <1>4, <1>6, <2>1, <3>1
  <2>2. CASE b # a
    <3>1. permit[b].state # "absent" /\ \A l \in Hosts : Touches(l, b) => l = k
      BY <1>8, <2>2 DEF RuntimeIInv, OneHost
    <3>2. permit'[b].state # "absent"
      BY <1>2, <1>4, <2>2, <3>1, PermitsGoOn
    <3> QED BY <1>8, <2>2, <3>1, <3>2
  <2> QED BY <2>1, <2>2
<1>10. EffectsAreSingle'
  BY <1>2 DEF EffectsAreSingle, RuntimeIInv
<1>11. \A k \in Hosts : host'[k].at \in Guarded => InHand(k)'
  <2> SUFFICES ASSUME NEW k \in Hosts, host'[k].at \in Guarded PROVE InHand(k)'
    OBVIOUS
  <2>1. CASE k = h
    <3>1. host'[h].at = "charged" /\ host'[h].act = a
      BY DEF Takes
    <3>2. journal'[h][a] = "none"
      BY <1>2, <1>5 DEF Touches
    <3> QED BY <1>4, <1>6, <2>1, <3>1, <3>2 DEF InHand
  <2>2. CASE k # h
    <3>1. host'[k] = host[k]
      BY <1>3, <2>2
    <3>2. host[k].act \in Actions /\ InHand(k)
      BY <1>2, <3>1, AtHand DEF RuntimeIInv
    <3>3. host[k].act # a
      BY <1>5 DEF Touches
    <3>4. permit'[host[k].act].state \notin Settled
      <4>1. \E l \in Hosts : host'[l].act = host[k].act
        BY <3>1
      <4>2. permit[host[k].act].state \notin Settled
        BY <3>2 DEF InHand
      <4> QED BY <1>2, <1>4, <3>2, <3>3, <4>1, <4>2, PermitsGoOn
    <3> QED BY <1>2, <3>1, <3>2, <3>4 DEF InHand
  <2> QED BY <2>1, <2>2
<1>12. ASSUME NEW b \in Actions, NEW outcome, Claimed(b, outcome)
       PROVE  Claimed(b, outcome)'
  <2>1. b # a
    BY <1>4, <1>12 DEF Claimed
  <2>2. permit'[b].state # "absent" /\ permit'[b].request = permit[b].request
    BY <1>2, <1>4, <1>12, <2>1, PermitsGoOn DEF Claimed
  <2>3. \A k \in Hosts : host'[k].act # b
    BY <1>3, <1>12, <2>1 DEF Claimed, Takes
  <2> QED BY <1>2, <1>12, <2>2, <2>3 DEF Claimed, Right
<1>13. ClaimsHold'
  <2>1. ASSUME NEW c \in late', c.kind = "settle" PROVE Claimed(c.id, c.about)'
    <3>1. c.id \in Actions /\ Claimed(c.id, c.about)
      BY <1>2, <2>1 DEF RuntimeIInv, RuntimeTyped, Sane, ClaimsHold
    <3> QED BY <1>12, <3>1
  <2>2. ASSUME NEW k \in Hosts, NEW t \in host'[k].todo PROVE Claimed(t[1], t[2])'
    <3>1. t \in host[k].todo /\ host[k] \in HostRecord
      BY <1>2, <1>3 DEF Takes, RuntimeTyped
    <3>2. t[1] \in Actions /\ Claimed(t[1], t[2])
      BY <3>1 DEF RuntimeIInv, ClaimsHold, HostRecord
    <3> QED BY <1>12, <3>2
  <2> QED BY <2>1, <2>2 DEF ClaimsHold
<1>14. ConclusionsHold'
  <2> SUFFICES ASSUME NEW b \in Actions, permit'[b].state \in Settled PROVE Right(b, permit[b].state)'
    BY DEF ConclusionsHold
  <2>1. b # a
    BY <1>4, <1>6
  <2>2. permit'[b].state = permit[b].state \/ Claimable(b, permit'[b].state)
    BY <1>2, <1>4, <2>1, PermitsGoOn
  <2>3. Right(b, permit'[b].state) /\ permit[b].state # "absent"
    BY <2>2 DEF Claimable, Settled, RuntimeIInv, ConclusionsHold
  <2>4. permit'[b].request = permit[b].request
    BY <1>2, <1>4, <2>1, <2>3, PermitsGoOn
  <2> QED BY <1>2, <2>3, <2>4 DEF Right
<1> QED BY <1>1, <1>7, <1>9, <1>10, <1>11, <1>13, <1>14 DEF RuntimeIInv

\* A reservation: the host takes the action, or goes on without it.
LEMMA ReserveKeeps ==
  ASSUME RuntimeIInv, NEW h \in Hosts, NEW a \in Actions, NEW content \in Contents,
         NEW approval \in Requests \cup {None}, Reserve(h, a, content, approval)
  PROVE  Releases \/ Takes(h, a)
<1> DEFINE c == [Simple("reserve", host[h].run) EXCEPT !.id = a, !.about = content, !.approval = approval]
           x == [host[h] EXCEPT !.at = "charged", !.act = a]
           y == [host[h] EXCEPT !.at = "halted"]
<1>1. host[h].at = "working" /\ host[h].at \notin Guarded
  BY DEF Reserve, At, Guarded
<1>2. host[h] \in HostRecord /\ host[h].act = None /\ host[h].run \in Runs
  BY <1>1, AtRest DEF RuntimeIInv
<1>3. Honest(h, c) /\ c.kind = "reserve" /\ c.id = a
  BY <1>2, ReserveIsHonest DEF Simple
<1>4. Resting(y) /\ y.todo = host[h].todo
  BY <1>2, RestsAt, QuietStages DEF HostRecord
<1>5. Holding(x) /\ x.todo = host[h].todo /\ x.at = "charged" /\ x.act = a
  BY <1>2 DEF Holding, HostRecord, Stages, Guarded
<1>6. Send(h, c, x, y) /\ Beside
  BY DEF Reserve, Beside
<1> HIDE DEF c, x, y
<1>7. CASE Execute(c) /\ host' = [host EXCEPT ![h] = x] /\ UNCHANGED late
  <2>1. Serves(c)
    BY <1>3, <1>7, ExecuteServes DEF Honest, RuntimeIInv
  <2>2. [Next]_authorityVars /\ Charges(a) /\ \A b \in Actions : b # a => Same(b)
    BY <1>3, <2>1 DEF Serves
  <2>3. host'[h] = x /\ (\A k \in Hosts : k # h => host'[k] = host[k]) /\ host' \in [Hosts -> HostRecord]
    BY <1>5, <1>7 DEF RuntimeIInv, RuntimeTyped, Holding
  <2> QED BY <1>2, <1>5, <1>6, <1>7, <2>2, <2>3 DEF Takes
<1>8. CASE host' = [host EXCEPT ![h] = y] /\ UNCHANGED authorityVars /\ late' \subseteq late \cup {c}
  <2>1. y.todo \subseteq host[h].todo
    BY <1>4
  <2> QED BY <1>3, <1>4, <1>6, <1>8, <2>1, Unanswered DEF Still
<1> QED BY <1>6, <1>7, <1>8 DEF Send

-----------------------------------------------------------------------------
(* A guard works on the action in hand                                         *)

\* It goes to the stage at, with the evidence ev, n effects so far.
Works(h, at, ev, n) ==
  LET a == host[h].act IN
  /\ Still /\ UNCHANGED <<setup, binding, late>>
  /\ host[h].at \in Guarded /\ at \in Guarded
  /\ host' = [host EXCEPT ![h].at = at]
  /\ journal' = [journal EXCEPT ![h][a] = ev]
  /\ times[a] \in {0, n} /\ times' = [times EXCEPT ![a] = n]
  /\ directory' \in [Hosts -> Writes \cup {None}]

\* The evidence fits the stage and the effects.
Fits(at, ev, n) ==
  /\ ev \in Evidence /\ n \in {0, 1}
  /\ n = 1 => ev \in Marks
  /\ ev \in {"succeeded", "failed"} => n = 1
  /\ at \in {"charged", "noted", "cleared"} => ev \in {"none", "reserved"}
  /\ at = "issued" => ev = "issued" /\ n = 0
  /\ at = "acted" => ev = "issued" /\ n = 1
  /\ at = "reporting" => ev \in Settled \cup {"unknown"}

\* Nobody else knows the action, so evidence that fits is all that is needed.
LEMMA WorksKeep ==
  ASSUME RuntimeIInv, NEW h \in Hosts, NEW at, NEW ev, NEW n, Works(h, at, ev, n), Fits(at, ev, n)
  PROVE  RuntimeIInv'
<1> DEFINE a == host[h].act
<1>1. IInv' /\ permit' = permit
  <2>1. [Next]_authorityVars
    BY StillPermits DEF Works
  <2> QED BY <2>1, AuthorityGoesOn DEF RuntimeIInv, Works, Still, authorityVars
<1>2. /\ setup' = setup /\ binding' = binding /\ late' = late /\ RuntimeTyped
      /\ host[h].at \in Guarded /\ at \in Guarded
  BY DEF Works, RuntimeIInv
<1>3. host[h] \in HostRecord /\ host[h].run \in Runs /\ a \in Actions
  BY <1>2, AtHand
<1>4. /\ host'[h] = [host[h] EXCEPT !.at = at] /\ \A k \in Hosts : k # h => host'[k] = host[k]
      /\ host' \in [Hosts -> HostRecord]
  <2>1. host \in [Hosts -> HostRecord]
    BY <1>2 DEF RuntimeTyped
  <2>2. [host[h] EXCEPT !.at = at] \in HostRecord
    BY <1>2, <1>3 DEF HostRecord, Stages
  <2> QED BY <2>1, <2>2 DEF Works
<1>5. /\ host'[h].at = at /\ host'[h].act = a /\ host'[h].run = host[h].run /\ host'[h].todo = host[h].todo
  BY <1>3, <1>4 DEF HostRecord
<1>6. /\ journal' \in [Hosts -> [Actions -> Evidence]]
      /\ journal'[h][a] = ev
      /\ \A k \in Hosts, b \in Actions : k # h \/ b # a => journal'[k][b] = journal[k][b]
  <2>1. journal \in [Hosts -> [Actions -> Evidence]] /\ ev \in Evidence
    BY <1>2 DEF RuntimeTyped, Fits
  <2>2. journal' = [journal EXCEPT ![h][a] = ev]
    BY DEF Works
  <2> HIDE DEF a
  <2> QED BY <1>3, <2>1, <2>2
<1>7. /\ times' \in [Actions -> Nat] /\ times'[a] = n /\ \A b \in Actions : b # a => times'[b] = times[b]
  <2>1. times \in [Actions -> Nat] /\ n \in Nat
    BY <1>2 DEF RuntimeTyped, Fits
  <2>2. times' = [times EXCEPT ![a] = n]
    BY DEF Works
  <2> HIDE DEF a
  <2> QED BY <1>3, <2>1, <2>2
<1>8. RuntimeTyped'
  <2>1. Holding(host'[h])
    BY <1>2, <1>3, <1>4, <1>5 DEF Holding
  <2>2. \A k \in Hosts : Resting(host'[k]) \/ Holding(host'[k])
    BY <1>2, <1>4, <2>1 DEF RuntimeTyped
  <2>3. directory' \in [Hosts -> Writes \cup {None}]
    BY DEF Works
  <2> QED BY <1>2, <1>4, <1>6, <1>7, <2>2, <2>3 DEF RuntimeTyped
<1>9. permit[a].state # "absent" /\ permit[a].state \notin Settled /\ \A k \in Hosts : Touches(k, a) => k = h
  BY <1>2, <1>3 DEF RuntimeIInv, OneHost, Touches, InHand
<1>10. \A k \in Hosts, b \in Actions : Touches(k, b)' => Touches(k, b)
  BY <1>4, <1>5, <1>6 DEF Touches
<1>11. OneHost'
  BY <1>1, <1>10 DEF RuntimeIInv, OneHost
<1>12. \A k \in Hosts : k # h => journal[k][a] = "none"
  BY <1>9 DEF Touches
<1>13. EffectsAreSingle'
  <2> SUFFICES ASSUME NEW b \in Actions
               PROVE  /\ times'[b] \in {0, 1}
                      /\ times'[b] = 1 => \E k \in Hosts : journal'[k][b] \in Marks
                      /\ \A k \in Hosts : journal'[k][b] \in {"succeeded", "failed"} => times'[b] = 1
    BY DEF EffectsAreSingle
  <2>1. CASE b = a
    <3>1. \A k \in Hosts : journal'[k][a] \in {"succeeded", "failed"} => k = h
      BY <1>3, <1>6, <1>12
    <3> QED BY <1>6, <1>7, <2>1, <3>1 DEF Fits
  <2>2. CASE b # a
    BY <1>6, <1>7, <2>2 DEF RuntimeIInv, EffectsAreSingle
  <2> QED BY <2>1, <2>2
<1>14. \A k \in Hosts : host'[k].at \in Guarded => InHand(k)'
  <2> SUFFICES ASSUME NEW k \in Hosts, host'[k].at \in Guarded PROVE InHand(k)'
    OBVIOUS
  <2>1. CASE k = h
    BY <1>1, <1>5, <1>6, <1>7, <1>9, <2>1 DEF InHand, Fits
  <2>2. CASE k # h
    <3>1. host'[k] = host[k]
      BY <1>4, <2>2
    <3>2. host[k].act \in Actions /\ InHand(k)
      BY <1>2, <3>1, AtHand DEF RuntimeIInv
    <3>3. host[k].act # a
      BY <1>9, <2>2 DEF Touches
    <3> QED BY <1>1, <1>6, <1>7, <3>1, <3>2, <3>3 DEF InHand
  <2> QED BY <2>1, <2>2
<1>15. ASSUME NEW b \in Actions, NEW outcome, Claimed(b, outcome) PROVE Claimed(b, outcome)'
  <2>1. b # a
    BY <1>15 DEF Claimed
  <2>2. \A k \in Hosts : host'[k].act # b
    BY <1>4, <1>5, <1>15 DEF Claimed
  <2> QED BY <1>1, <1>7, <1>15, <2>1, <2>2 DEF Claimed, Right
<1>16. ClaimsHold'
  <2>1. ASSUME NEW c \in late', c.kind = "settle" PROVE Claimed(c.id, c.about)'
    <3>1. c.id \in Actions /\ Claimed(c.id, c.about)
      BY <1>2, <2>1 DEF RuntimeIInv, RuntimeTyped, Sane, ClaimsHold
    <3> QED BY <1>15, <3>1
  <2>2. ASSUME NEW k \in Hosts, NEW t \in host'[k].todo PROVE Claimed(t[1], t[2])'
    <3>1. t \in host[k].todo /\ host[k] \in HostRecord
      BY <1>2, <1>4, <1>5 DEF RuntimeTyped
    <3>2. t[1] \in Actions /\ Claimed(t[1], t[2])
      BY <3>1 DEF RuntimeIInv, ClaimsHold, HostRecord
    <3> QED BY <1>15, <3>2
  <2> QED BY <2>1, <2>2 DEF ClaimsHold
<1>17. ConclusionsHold'
  <2> SUFFICES ASSUME NEW b \in Actions, permit[b].state \in Settled PROVE Right(b, permit[b].state)'
    BY <1>1 DEF ConclusionsHold
  <2>1. b # a /\ Right(b, permit[b].state)
    BY <1>9 DEF RuntimeIInv, ConclusionsHold
  <2> QED BY <1>1, <1>7, <2>1 DEF Right
<1> QED BY <1>1, <1>8, <1>11, <1>13, <1>14, <1>16, <1>17 DEF RuntimeIInv

\* What stays as it is was written or counted again.
LEMMA WritesNothing ==
  ASSUME RuntimeTyped, NEW h \in Hosts, NEW a \in Actions
  PROVE  /\ journal = [journal EXCEPT ![h][a] = journal[h][a]]
         /\ times = [times EXCEPT ![a] = times[a]]
<1>1. journal \in [Hosts -> [Actions -> Evidence]] /\ times \in [Actions -> Nat]
  BY DEF RuntimeTyped
<1>2. journal[h] = [journal[h] EXCEPT ![a] = journal[h][a]]
  BY <1>1
<1> QED BY <1>1, <1>2

\* What the guard does between the charge and the report.
LEMMA GuardWorks ==
  ASSUME RuntimeIInv, NEW h \in Hosts,
         \/ Note(h) \/ Clear(h) \/ Issue(h) \/ Abandon(h) \/ Dispatch(h)
         \/ \E outcome \in {"succeeded", "failed", "unknown"} : Observe(h, outcome)
  PROVE  Releases \/ \E at, ev, n : Works(h, at, ev, n) /\ Fits(at, ev, n)
<1> DEFINE a == host[h].act
<1>1. host[h].at \in Guarded
  BY DEF Note, Clear, Issue, Abandon, Dispatch, Observe, At, Guarded
<1>2. a \in Actions /\ host[h].run \in Runs /\ RuntimeTyped
  BY <1>1, AtHand DEF RuntimeIInv
<1>3. /\ journal = [journal EXCEPT ![h][a] = journal[h][a]] /\ times = [times EXCEPT ![a] = times[a]]
      /\ directory \in [Hosts -> Writes \cup {None}]
  BY <1>2, WritesNothing DEF RuntimeTyped
<1>4. times[a] \in {0, 1} /\ Touches(h, a) /\ InHand(h)
  BY <1>1, <1>2 DEF RuntimeIInv, EffectsAreSingle, Touches
<1>5. host[h].at \in {"charged", "noted", "cleared"} => journal[h][a] \in {"none", "reserved"} /\ times[a] = 0
  BY <1>2, <1>4, NothingWasDone DEF InHand, Marks
<1>6. host[h].at = "issued" => journal[h][a] = "issued" /\ times[a] = 0
  BY <1>4 DEF InHand
<1>7. host[h].at = "acted" => journal[h][a] = "issued" /\ times[a] = 1
  BY <1>4 DEF InHand
<1>8. CASE Note(h)
  <2>1. CASE permit[a].state = "reserved"
    <3>1. Works(h, "noted", "reserved", times[a])
      BY <1>1, <1>3, <1>8, <2>1 DEF Note, Works, Still, Record, Go, Guarded
    <3>2. Fits("noted", "reserved", times[a])
      BY <1>5, <1>8 DEF Note, At, Fits, Evidence, Marks, Settled
    <3> QED BY <3>1, <3>2
  <2>2. CASE permit[a].state # "reserved"
    BY <1>1, <1>8, <2>2, LoseReleases DEF Note, Still
  <2> QED BY <2>1, <2>2
<1>9. CASE Clear(h)
  <2>1. Works(h, "cleared", journal[h][a], times[a])
    BY <1>1, <1>3, <1>9 DEF Clear, Works, Still, Go, Guarded
  <2>2. Fits("cleared", journal[h][a], times[a])
    BY <1>5, <1>9 DEF Clear, At, Fits, Evidence, Marks, Settled
  <2> QED BY <2>1, <2>2
<1>10. CASE Issue(h)
  <2>1. Works(h, "issued", "issued", times[a])
    BY <1>1, <1>3, <1>10 DEF Issue, Works, Still, Record, Go, Guarded
  <2>2. Fits("issued", "issued", times[a])
    BY <1>5, <1>10 DEF Issue, At, Fits, Evidence, Marks, Settled
  <2> QED BY <2>1, <2>2
<1>11. CASE Abandon(h)
  <2>1. Works(h, "reporting", "not-issued", times[a])
    BY <1>1, <1>3, <1>11 DEF Abandon, Works, Still, Record, Go, Guarded
  <2>2. Fits("reporting", "not-issued", times[a])
    BY <1>5, <1>6, <1>11 DEF Abandon, Fits, Evidence, Marks, Settled
  <2> QED BY <2>1, <2>2
<1>12. CASE Dispatch(h)
  <2>1. times' = [times EXCEPT ![a] = 1]
    <3>1. times' = [times EXCEPT ![a] = times[a] + 1]
      BY <1>12 DEF Dispatch
    <3>2. times[a] + 1 = 1
      BY <1>6, <1>12 DEF Dispatch, At
    <3> QED BY <3>1, <3>2
  <2>2. directory' \in [Hosts -> Writes \cup {None}]
    BY <1>3, <1>12 DEF Dispatch
  <2>3. Works(h, "acted", journal[h][a], 1)
    BY <1>1, <1>3, <1>6, <1>12, <2>1, <2>2 DEF Dispatch, At, Works, Still, Go, Guarded
  <2>4. Fits("acted", journal[h][a], 1)
    BY <1>6, <1>12 DEF Dispatch, At, Fits, Evidence, Marks, Settled
  <2> QED BY <2>3, <2>4
<1>13. ASSUME NEW outcome \in {"succeeded", "failed", "unknown"}, Observe(h, outcome)
       PROVE  \E at, ev, n : Works(h, at, ev, n) /\ Fits(at, ev, n)
  <2>1. Works(h, "reporting", outcome, times[a])
    BY <1>1, <1>3, <1>13 DEF Observe, Works, Still, Record, Go, Guarded
  <2>2. Fits("reporting", outcome, times[a])
    BY <1>6, <1>7, <1>13 DEF Observe, At, Fits, Evidence, Marks, Settled
  <2> QED BY <2>1, <2>2
<1> QED BY <1>8, <1>9, <1>10, <1>11, <1>12, <1>13

-----------------------------------------------------------------------------
(* The invariant of hosts and service, and what follows from it                *)

\* Nothing has happened at first.
LEMMA RuntimeInitSound == RuntimeInit => RuntimeIInv
<1> SUFFICES ASSUME RuntimeInit PROVE RuntimeIInv
  OBVIOUS
<1>1. IInv /\ \A a \in Actions : permit[a].state = "absent"
  BY InitSound DEF RuntimeInit, Init, NoPermit
<1>2. \A h \in Hosts : host[h] = Idle
  BY DEF RuntimeInit
<1>3. /\ Idle \in HostRecord /\ Idle.act = None /\ Idle.at = "idle" /\ Idle.todo = {} /\ Resting(Idle)
  BY IdleRests DEF Idle, HostRecord, Stages
<1>4. RuntimeTyped
  BY <1>2, <1>3 DEF RuntimeInit, RuntimeTyped, Evidence
<1>5. \A h \in Hosts, a \in Actions : ~ Touches(h, a) /\ journal[h][a] = "none" /\ times[a] = 0
  BY <1>2, <1>3, Nobody DEF RuntimeInit, Touches
<1>6. OneHost
  BY <1>5 DEF OneHost
<1>7. EffectsAreSingle
  BY <1>5 DEF EffectsAreSingle, RuntimeInit
<1>8. \A h \in Hosts : host[h].at \notin Guarded
  BY <1>2, <1>3 DEF Guarded
<1>9. ClaimsHold
  BY <1>2, <1>3 DEF ClaimsHold, RuntimeInit
<1>10. ConclusionsHold
  BY <1>1 DEF ConclusionsHold, Settled
<1> QED BY <1>1, <1>4, <1>6, <1>7, <1>8, <1>9, <1>10 DEF RuntimeIInv

\* A step leaves the evidence alone, takes an action, or works on one.
LEMMA StepsAreOfThreeKinds ==
  RuntimeIInv /\ RuntimeNext =>
    \/ Releases
    \/ \E h \in Hosts, a \in Actions : Takes(h, a)
    \/ \E h \in Hosts : \E at, ev, n : Works(h, at, ev, n) /\ Fits(at, ev, n)
<1> SUFFICES ASSUME RuntimeIInv, RuntimeNext
             PROVE  \/ Releases
                    \/ \E h \in Hosts, a \in Actions : Takes(h, a)
                    \/ \E h \in Hosts : \E at, ev, n : Works(h, at, ev, n) /\ Fits(at, ev, n)
  OBVIOUS
<1>1. setup.requests \subseteq Requests /\ setup.contents \subseteq Contents /\ setup.actions \subseteq Actions
  BY SetupsAssumption DEF RuntimeIInv, RuntimeTyped
<1>2. CASE Decide \/ Surroundings \/ Arrive \/ Drop
  BY <1>2, DecideReleases, ArriveReleases
<1>3. ASSUME NEW h \in Hosts, HostStep(h)
      PROVE  \/ Releases
             \/ \E a \in Actions : Takes(h, a)
             \/ \E at, ev, n : Works(h, at, ev, n) /\ Fits(at, ev, n)
  <2>1. CASE PauseBeforeRecovery(h) \/ Inspect(h) \/ ReportFinding(h) \/ EndRecovery(h)
    BY <2>1, PauseReleases, InspectReleases, ReportFindingReleases, EndRecoveryReleases
  <2>2. CASE BeginWork(h) \/ EndTurn(h) \/ Succeed(h) \/ StopRun(h) \/ Close(h)
    BY <2>2, IntervalReleases
  <2>3. CASE \E q \in setup.requests : Ask(h, q) \/ \E content \in setup.contents : AskApproval(h, q, content)
    BY <1>1, <2>3, AskReleases
  <2>4. CASE \E a \in setup.actions, content \in setup.contents, approval \in Requests \cup {None} :
               Reserve(h, a, content, approval)
    BY <1>1, <2>4, ReserveKeeps
  <2>5. CASE \/ Note(h) \/ Clear(h) \/ Issue(h) \/ Abandon(h) \/ Dispatch(h)
             \/ \E outcome \in {"succeeded", "failed", "unknown"} : Observe(h, outcome)
    BY <2>5, GuardWorks
  <2>6. CASE Report(h)
    BY <2>6, ReportReleases
  <2>7. CASE LoseEvidence(h)
    BY <2>7, LoseReleases DEF LoseEvidence, Still
  <2> QED BY <1>3, <2>1, <2>2, <2>3, <2>4, <2>5, <2>6, <2>7 DEF HostStep
<1>4. ASSUME NEW h \in Hosts,
             \/ \E r \in Runs : Start(h, r) \/ \E continue \in BOOLEAN : Recover(h, r, continue)
             \/ FailTurn(h) \/ Crash(h) \/ EmployeeEdits(h)
      PROVE  Releases
  BY <1>4, StartReleases, IntervalReleases, CrashReleases, EditReleases
<1> QED BY <1>2, <1>3, <1>4 DEF RuntimeNext

\* Every step of hosts, service, employee and lost answers keeps the invariant.
LEMMA RuntimeStepsSound == RuntimeIInv /\ [RuntimeNext]_vars => RuntimeIInv'
<1> SUFFICES ASSUME RuntimeIInv, [RuntimeNext]_vars PROVE RuntimeIInv'
  OBVIOUS
<1>1. CASE RuntimeNext
  BY <1>1, StepsAreOfThreeKinds, ReleasesKeep, TakesKeep, WorksKeep
<1>2. CASE UNCHANGED vars
  <2>1. Releases
    BY <1>2, StillPermits DEF vars, hostVars, Still, Releases, RuntimeIInv, RuntimeTyped
  <2> QED BY <2>1, ReleasesKeep
<1> QED BY <1>1, <1>2

\* So it holds in every reachable state.
LEMMA RuntimeInvariance == RuntimeSpec => []RuntimeIInv
BY RuntimeInitSound, RuntimeStepsSound, PTL DEF RuntimeSpec

\* For any hosts, runs, actions and budgets the records of hosts, service and
\* directory keep their form, whatever crashes, is lost or arrives late.
THEOREM RuntimeTypes == RuntimeSpec => []RuntimeTypeOK
<1>1. RuntimeIInv => RuntimeTypeOK
  <2> SUFFICES ASSUME RuntimeIInv PROVE RuntimeTypeOK
    OBVIOUS
  <2>1. TypeOK
    BY Parts DEF RuntimeIInv, TypeOK, Surrounded, Records
  <2>2. \A h \in Hosts : host[h] \in HostRecord /\ (Resting(host[h]) \/ Holding(host[h]))
    BY DEF RuntimeIInv, RuntimeTyped
  <2>3. ASSUME NEW h \in Hosts
        PROVE  /\ host[h].at \in {"idle", "starting", "recovering", "inspecting", "settling", "working", "halted",
                                  "finishing", "stopping", "closing"} \cup Guarded
               /\ host[h].run \in Runs \cup {None} /\ (host[h].at = "idle" <=> host[h].run = None)
               /\ host[h].act \in Actions \cup {None} /\ (host[h].at \in Guarded <=> host[h].act # None)
               /\ host[h].resumed \in BOOLEAN /\ host[h].todo \subseteq Actions \X Settled
    <3>1. host[h] \in HostRecord
      BY <2>2
    <3>2. (host[h].at = "idle" <=> host[h].run = None) /\ (host[h].at \in Guarded <=> host[h].act # None)
      BY <2>2, Nobody DEF Resting, Holding, Guarded
    <3> QED BY <3>1, <3>2 DEF HostRecord, Stages
  <2>4. late \subseteq Commands
    BY DEF RuntimeIInv, RuntimeTyped, Sane
  <2>5. /\ \A h \in Hosts : directory[h] \in Writes \cup {None}
        /\ binding \in [Hosts -> [Runs -> {"ready", "executing", "stopped"}]]
        /\ journal \in [Hosts -> [Actions -> Evidence]]
        /\ times \in [Actions -> Nat]
    BY DEF RuntimeIInv, RuntimeTyped
  <2> QED BY <2>1, <2>3, <2>4, <2>5 DEF RuntimeTypeOK
<1> QED BY <1>1, RuntimeInvariance, PTL

\* Every effect on the world, of any host, has its durable mark on that host.
THEOREM EffectsLeaveMarks == RuntimeSpec => []EffectsAreMarked
<1>1. RuntimeIInv => EffectsAreMarked
  BY DEF RuntimeIInv, EffectsAreSingle, EffectsAreMarked, Marks
<1> QED BY <1>1, RuntimeInvariance, PTL

\* A run that ended as succeeded holds no effect for undone or unknown.
THEOREM EndedRunsExplain == RuntimeSpec => []EndedRunsExplainEffects
<1>1. RuntimeIInv => EndedRunsExplainEffects
  <2> SUFFICES ASSUME RuntimeIInv, NEW a \in Actions, times[a] > 0, run[permit[a].run].state = "succeeded"
               PROVE  permit[a].state \in {"succeeded", "failed"}
    BY DEF EndedRunsExplainEffects
  <2>1. times[a] = 1 /\ \E h \in Hosts : Touches(h, a)
    BY DEF RuntimeIInv, EffectsAreSingle, Marks, Touches
  <2>2. permit[a].state # "absent"
    BY <2>1 DEF RuntimeIInv, OneHost
  <2>3. permit[a].state \notin Unsettled
    BY Parts DEF RuntimeIInv, Explained
  <2>4. permit[a].state \in Settled
    BY <2>2, <2>3, PermitsTyped DEF RuntimeIInv, PermitRecords
  <2>5. permit[a].state # "not-issued"
    BY <2>1, <2>4 DEF RuntimeIInv, ConclusionsHold, Right
  <2> QED BY <2>4, <2>5 DEF Settled
<1> QED BY <1>1, RuntimeInvariance, PTL

-----------------------------------------------------------------------------
(* The ledger of paid actions                                                  *)

\* what the records of the action a are to the ledger
Charge(a) == permit[a].state # "absent"
Seen(a) == permit[a].state # "absent" /\ permit[a].request \in Writes
Conclusion(a) == IF permit[a].state \in Settled THEN permit[a].state ELSE "open"

\* A permit that is withdrawn is the same to the ledger.
LEMMA SameToLedger ==
  ASSUME IInv, NEW a \in Actions, Same(a)
  PROVE  Charge(a)' = Charge(a) /\ Seen(a)' = Seen(a) /\ Conclusion(a)' = Conclusion(a)
<1>1. permit[a] \in PermitRecords
  BY PermitsTyped
<1>2. CASE permit'[a] = permit[a]
  BY <1>2 DEF Charge, Seen, Conclusion
<1>3. CASE permit[a].state = "reserved" /\ permit'[a] = [permit[a] EXCEPT !.state = "unknown"]
  <2>1. permit'[a].state = "unknown" /\ permit'[a].request = permit[a].request
    BY <1>1, <1>3 DEF PermitRecords
  <2>2. {"reserved", "unknown", "absent"} \cap Settled = {}
    BY DEF Settled
  <2> QED BY <1>3, <2>1, <2>2 DEF Charge, Seen, Conclusion
<1> QED BY <1>2, <1>3 DEF Same

\* So withdrawals leave the ledger as it is.
LEMMA LedgerStutters ==
  ASSUME IInv, \A a \in Actions : Same(a), times' = times
  PROVE  UNCHANGED Ledger!ledgerVars
<1>1. \A a \in Actions : Charge(a)' = Charge(a) /\ Seen(a)' = Seen(a) /\ Conclusion(a)' = Conclusion(a)
  BY SameToLedger
<1>2. {a \in Actions : permit[a].state # "absent"}' = {a \in Actions : permit[a].state # "absent"}
  BY <1>1 DEF Charge
<1>3. {a \in Actions : permit[a].state # "absent" /\ permit[a].request \in Writes}'
        = {a \in Actions : permit[a].state # "absent" /\ permit[a].request \in Writes}
  BY <1>1 DEF Seen
<1>4. [a \in Actions |-> IF permit[a].state \in Settled THEN permit[a].state ELSE "open"]'
        = [a \in Actions |-> IF permit[a].state \in Settled THEN permit[a].state ELSE "open"]
  BY <1>1 DEF Conclusion
<1> QED BY <1>2, <1>3, <1>4 DEF Ledger!ledgerVars

\* A reservation is a charge of the ledger.
LEMMA LedgerCharges ==
  ASSUME IInv, NEW a \in Actions, Charges(a), \A b \in Actions : b # a => Same(b), times' = times
  PROVE  Ledger!Next
<1>1. \A b \in Actions : b # a => Charge(b)' = Charge(b) /\ Seen(b)' = Seen(b) /\ Conclusion(b)' = Conclusion(b)
  BY SameToLedger
<1>2. permit[a].state = "absent" /\ permit'[a].state \in Unsettled /\ "absent" \notin Settled \cup Unsettled
      /\ Settled \cap Unsettled = {}
  BY DEF Charges, Settled, Unsettled
<1>3. ~ Charge(a) /\ Charge(a)' /\ ~ Seen(a) /\ Conclusion(a)' = Conclusion(a)
  BY <1>2 DEF Charge, Seen, Conclusion
<1>4. {b \in Actions : permit[b].state # "absent"}' = {b \in Actions : permit[b].state # "absent"} \cup {a}
      /\ a \notin {b \in Actions : permit[b].state # "absent"}
  BY <1>1, <1>3 DEF Charge
<1> DEFINE seen == permit'[a].request \in Writes
<1>5. {b \in Actions : permit[b].state # "absent" /\ permit[b].request \in Writes}'
        = IF seen THEN {b \in Actions : permit[b].state # "absent" /\ permit[b].request \in Writes} \cup {a}
          ELSE {b \in Actions : permit[b].state # "absent" /\ permit[b].request \in Writes}
  <2>1. Seen(a)' <=> seen
    BY <1>3 DEF Charge, Seen
  <2> QED BY <1>1, <1>3, <2>1 DEF Seen
<1>6. [b \in Actions |-> IF permit[b].state \in Settled THEN permit[b].state ELSE "open"]'
        = [b \in Actions |-> IF permit[b].state \in Settled THEN permit[b].state ELSE "open"]
  <2>1. \A b \in Actions : Conclusion(b)' = Conclusion(b)
    BY <1>1, <1>3
  <2> QED BY <2>1 DEF Conclusion
<1> HIDE DEF seen
<1>7. CASE seen
  <2>1. Ledger!Charge(a, TRUE)
    BY <1>4, <1>5, <1>6, <1>7 DEF Ledger!Charge
  <2> QED BY <2>1 DEF Ledger!Next
<1>8. CASE ~ seen
  <2>1. Ledger!Charge(a, FALSE)
    BY <1>4, <1>5, <1>6, <1>8 DEF Ledger!Charge
  <2> QED BY <2>1 DEF Ledger!Next
<1> QED BY <1>7, <1>8

\* A report is a conclusion of the ledger, which has the evidence for it.
LEMMA LedgerConcludes ==
  ASSUME IInv, NEW a \in Actions, NEW outcome \in Settled, Concludes(a, outcome), Claimable(a, outcome),
         \A b \in Actions : b # a => Same(b), times' = times
  PROVE  Ledger!Next
<1>1. \A b \in Actions : b # a => Charge(b)' = Charge(b) /\ Seen(b)' = Seen(b) /\ Conclusion(b)' = Conclusion(b)
  BY SameToLedger
<1>2. permit[a] \in PermitRecords
  BY PermitsTyped
<1>3. permit'[a].state = outcome /\ permit'[a].request = permit[a].request /\ permit[a].state \in Unsettled
  BY <1>2 DEF Concludes, PermitRecords
<1>4. Settled \cap Unsettled = {} /\ "absent" \notin Settled \cup Unsettled
  BY DEF Settled, Unsettled
<1>5. Charge(a) /\ Charge(a)' /\ Seen(a)' = Seen(a) /\ Conclusion(a) = "open" /\ Conclusion(a)' = outcome
  BY <1>3, <1>4 DEF Charge, Seen, Conclusion
<1>6. {b \in Actions : permit[b].state # "absent"}' = {b \in Actions : permit[b].state # "absent"}
      /\ a \in {b \in Actions : permit[b].state # "absent"}
  BY <1>1, <1>5 DEF Charge
<1>7. {b \in Actions : permit[b].state # "absent" /\ permit[b].request \in Writes}'
        = {b \in Actions : permit[b].state # "absent" /\ permit[b].request \in Writes}
  BY <1>1, <1>5 DEF Seen
<1> DEFINE C == [b \in Actions |-> IF permit[b].state \in Settled THEN permit[b].state ELSE "open"]
<1>8. C[a] = "open" /\ C' = [C EXCEPT ![a] = outcome]
  BY <1>1, <1>5 DEF Conclusion
<1>9. /\ outcome = "not-issued" => times[a] = 0
      /\ outcome = "failed" => times[a] = 1
      /\ outcome = "succeeded" =>
           times[a] = 1 \/ a \in {b \in Actions : permit[b].state # "absent" /\ permit[b].request \in Writes}
  BY <1>6 DEF Claimable, Right
<1>10. Ledger!Conclude(a, outcome)
  BY <1>6, <1>7, <1>8, <1>9 DEF Ledger!Conclude
<1>11. outcome \in {"succeeded", "failed", "not-issued"}
  BY DEF Settled
<1> QED BY <1>10, <1>11 DEF Ledger!Next

\* The work of a guard performs the action once or leaves the ledger as it is.
LEMMA LedgerPerforms ==
  ASSUME RuntimeIInv, NEW h \in Hosts, NEW at, NEW ev, NEW n, Works(h, at, ev, n), Fits(at, ev, n)
  PROVE  [Ledger!Next]_Ledger!ledgerVars
<1> DEFINE a == host[h].act
<1>1. permit' = permit
  BY DEF Works, Still, authorityVars
<1>2. a \in Actions /\ times \in [Actions -> Nat]
  BY AtHand DEF RuntimeIInv, RuntimeTyped, Works
<1>3. times' = [times EXCEPT ![a] = n] /\ times[a] \in {0, n} /\ n \in {0, 1}
  BY DEF Works, Fits
<1>4. CASE n = times[a]
  <2>1. times' = times
    BY <1>2, <1>3, <1>4
  <2> QED BY <1>1, <2>1 DEF Ledger!ledgerVars
<1>5. CASE n # times[a]
  <2>1. times[a] = 0 /\ n = 1
    BY <1>3, <1>5
  <2>2. permit[a].state # "absent" /\ permit[a].state \notin Settled
    BY <1>2 DEF RuntimeIInv, OneHost, Touches, InHand, Works
  <2>3. Ledger!Perform(a)
    BY <1>1, <1>2, <1>3, <2>1, <2>2 DEF Ledger!Perform
  <2> QED BY <1>2, <2>3 DEF Ledger!Next
<1> QED BY <1>4, <1>5

\* Every step is a step of the ledger or leaves it as it is.
LEMMA StepsKeepLedger == RuntimeIInv /\ [RuntimeNext]_vars => [Ledger!Next]_Ledger!ledgerVars
<1> SUFFICES ASSUME RuntimeIInv, [RuntimeNext]_vars PROVE [Ledger!Next]_Ledger!ledgerVars
  OBVIOUS
<1> USE DEF RuntimeIInv
<1>1. CASE UNCHANGED vars
  BY <1>1 DEF vars, hostVars, authorityVars, Ledger!ledgerVars
<1>2. CASE Releases
  <2>1. times' = times /\ (\A a \in Actions : Permitted(a)) /\ \A a, b \in Actions : Same(a) \/ Same(b) \/ a = b
    BY <1>2 DEF Releases, PermitsMove
  <2>2. CASE \A a \in Actions : Same(a)
    BY <2>1, <2>2, LedgerStutters
  <2>3. CASE \E a \in Actions : ~ Same(a)
    <3>1. PICK a \in Actions : ~ Same(a)
      BY <2>3
    <3>2. \A b \in Actions : b # a => Same(b)
      BY <2>1, <3>1
    <3>3. CASE Charges(a)
      BY <2>1, <3>2, <3>3, LedgerCharges
    <3>4. CASE \E outcome \in Settled : Concludes(a, outcome) /\ Claimable(a, outcome)
      BY <2>1, <3>2, <3>4, LedgerConcludes
    <3> QED BY <2>1, <3>1, <3>3, <3>4 DEF Permitted
  <2> QED BY <2>2, <2>3
<1>3. ASSUME NEW h \in Hosts, NEW a \in Actions, Takes(h, a) PROVE Ledger!Next
  BY <1>3, LedgerCharges DEF Takes, Beside
<1>4. ASSUME NEW h \in Hosts, \E at, ev, n : Works(h, at, ev, n) /\ Fits(at, ev, n)
      PROVE  [Ledger!Next]_Ledger!ledgerVars
  BY <1>4, LedgerPerforms
<1> QED BY <1>1, <1>2, <1>3, <1>4, StepsAreOfThreeKinds

\* The hosts, the service and the lost answers together keep the ledger: an
\* action takes effect once, after it was charged and before anything final is
\* said of it, and what is said agrees with what happened.
THEOREM RuntimeKeepsLedger == RuntimeSpec => KeepsLedger
<1>1. RuntimeInit => Ledger!Init
  <2> SUFFICES ASSUME RuntimeInit PROVE Ledger!Init
    OBVIOUS
  <2>1. \A a \in Actions : permit[a].state = "absent"
    BY DEF RuntimeInit, Init, NoPermit
  <2>2. times = [a \in Actions |-> 0] /\ "absent" \notin Settled
    BY DEF RuntimeInit, Settled
  <2> QED BY <2>1, <2>2 DEF Ledger!Init
<1> QED BY <1>1, StepsKeepLedger, RuntimeInvariance, PTL DEF RuntimeSpec, KeepsLedger, Ledger!Spec
==============================================================================
