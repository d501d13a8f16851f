-------------------------- MODULE MCEmployeeRuntime --------------------------
(* Small instances of EmployeeRuntime.                                       *)
EXTENDS EmployeeRuntime, TLC

CONSTANTS e1, e2, g1, r1, a1, a2, q1, w1, m1

MCBudget == g1 :> 2

Setup(hosts, actions, requests, contents, approval, deadlines, lost) ==
  [hosts |-> hosts, actions |-> actions, requests |-> requests, contents |-> contents,
   approval |-> approval, deadlines |-> deadlines, late |-> lost]

MCSetups == {
  Setup({e1}, {a1, a2}, {}, {m1}, FALSE, FALSE, 0),
  Setup({e1}, {a1}, {q1}, {w1}, TRUE, FALSE, 1),
  Setup({e1}, {a1}, {}, {w1}, FALSE, TRUE, 0),
  Setup({e1}, {a1}, {}, {m1}, FALSE, FALSE, 1),
  Setup({e1, e2}, {a1}, {}, {m1}, FALSE, FALSE, 0)}
=============================================================================
