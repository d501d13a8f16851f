---------------------------- MODULE ActionLedger ----------------------------
(* What paid actions promise: an action is charged before it takes effect,    *)
(* takes effect at most once and never after the authority concluded on it,   *)
(* and no conclusion contradicts what happened.                               *)
EXTENDS Naturals

CONSTANTS Actions

VARIABLES
  charged,     \* the actions somebody paid for
  visible,     \* those of them whose effect can be seen afterwards
  times,       \* how often each took effect
  conclusion   \* what the authority holds for final

ledgerVars == <<charged, visible, times, conclusion>>

Init ==
  /\ charged = {} /\ visible = {}
  /\ times = [a \in Actions |-> 0]
  /\ conclusion = [a \in Actions |-> "open"]

Charge(a, seen) ==
  /\ a \notin charged
  /\ charged' = charged \cup {a}
  /\ visible' = IF seen THEN visible \cup {a} ELSE visible
  /\ UNCHANGED <<times, conclusion>>

Perform(a) ==
  /\ a \in charged
  /\ times[a] = 0
  /\ conclusion[a] = "open"
  /\ times' = [times EXCEPT ![a] = 1]
  /\ UNCHANGED <<charged, visible, conclusion>>

Conclude(a, outcome) ==
  /\ a \in charged
  /\ conclusion[a] = "open"
  /\ outcome = "not-issued" => times[a] = 0
  /\ outcome = "failed" => times[a] = 1
  /\ outcome = "succeeded" => times[a] = 1 \/ a \in visible
  /\ conclusion' = [conclusion EXCEPT ![a] = outcome]
  /\ UNCHANGED <<charged, visible, times>>

Next ==
  \E a \in Actions :
    \/ \E seen \in BOOLEAN : Charge(a, seen)
    \/ Perform(a)
    \/ \E outcome \in {"succeeded", "failed", "not-issued"} : Conclude(a, outcome)

Spec == Init /\ [][Next]_ledgerVars
=============================================================================
