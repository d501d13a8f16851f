------------------------------ MODULE MCPlans ------------------------------
(* Small instances of PlanAdmission, whose definitions are enumerated, and of *)
(* PlanRevisions, side by side: a behaviour is one of either.                 *)
EXTENDS PlanAdmission, PlanRevisions, TLC

CONSTANTS t1, t2, t3, t4, p1, p2, p3, ghost, g1, g2, o1, o2, o3

Task(ids, parents, phases, deps) ==
  [id : ids, parent : parents, phase : phases, required : BOOLEAN, deps : SUBSET deps]

\* a root and two descendants over two phases, every edge but a self-edge
Trees ==
  {[taskId |-> t1, phased |-> FALSE, phases |-> <<p1, p2>>, tasks |-> <<a, b, c>>] :
     a \in {t \in Task({t1}, {NoParent}, {p1, p2}, {t2, t3}) : t.required},
     b \in Task({t2}, {t1, t3}, {p1, p2}, {t1, t3}),
     c \in Task({t3}, {t1, t2}, {p1, p2}, {t1, t2})}

\* two entries, with repeated or unknown identities, parents and phases
Odd ==
  {[taskId |-> t1, phased |-> FALSE, phases |-> phases, tasks |-> <<a, b>>] :
     phases \in {<<p1>>, <<p1, p1>>},
     a \in Task({t1}, {NoParent, t2}, {p1}, {t1, t2}),
     b \in Task({t1, t2}, {NoParent, t1, t2, ghost}, {p1, p2}, {t1, t2, ghost})}

\* a root and three leaves over three phases, offered as a phase plan
Phased ==
  {[taskId |-> t1, phased |-> TRUE, phases |-> <<p1, p2, p3>>, tasks |-> <<a, b, c, d>>] :
     a \in {t \in Task({t1}, {NoParent}, {p2, p3}, {}) : t.required},
     b \in {t \in Task({t2}, {t1}, {p1, p2}, {t3}) : t.required},
     c \in {t \in Task({t3}, {t1}, {p1, p2, p3}, {t2, t4}) : t.required},
     d \in Task({t4}, {t1, t2}, {p2, p3}, {t2, t3})}

MCPlans == Trees \cup Odd \cup Phased

\* two versions of one plan, and a plan that claims a task of one of them
Entry(id, parent) == [id |-> id, parent |-> parent, phase |-> p1, required |-> TRUE, deps |-> {}]
MCDrafts ==
  {[taskId |-> t1, phased |-> TRUE, phases |-> <<p1>>, tasks |-> <<Entry(t1, NoParent), Entry(child, t1)>>] :
     child \in {t2, t3}}
  \cup {[taskId |-> t4, phased |-> FALSE, phases |-> <<p1>>,
         tasks |-> <<Entry(t4, NoParent), Entry(t3, t4), Entry(ghost, t4)>>]}

NoStage == "none"
MCInit ==
  /\ RevisionInit
  /\ \/ Init
     \/ plan = NoParent /\ stage = NoStage /\ facts = <<>>

MCNext ==
  \/ stage # NoStage /\ Next /\ UNCHANGED revisionVars
  \/ stage = NoStage /\ RevisionNext /\ UNCHANGED vars

MCSpec == MCInit /\ [][MCNext]_<<vars, revisionVars>>

\* bound: how many events of each kind and how much of the rest go together
Count(kind) == Cardinality(UNION {{s} \X Of(log[s], kind) : s \in Sessions})
Written == Cardinality(UNION {plans[x].receipts : x \in DOMAIN plans})
Within(messages, moves, modes, assessments, snapshots, receipts, changes) ==
  /\ Count("message") <= messages /\ Count("moved") <= moves /\ Count("mode") <= modes
  /\ Count("assessment") <= assessments /\ Count("snapshot") <= snapshots
  /\ Written <= receipts /\ settings.revision <= changes

\* choices of mode, two goals, changed settings, who saw a version, or versions
MCParts ==
  \/ Within(1, 0, 2, 1, 0, 1, 0)
  \/ Within(2, 0, 0, 2, 0, 2, 0)
  \/ Within(1, 1, 0, 1, 0, 1, 1)
  \/ Within(1, 0, 0, 1, 2, 1, 0)
  \/ Within(0, 0, 0, 0, 1, 3, 0)

Symmetric == Permutations({g1, g2}) \cup Permutations({o1, o2, o3})
=============================================================================
