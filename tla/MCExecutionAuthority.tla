------------------------ MODULE MCExecutionAuthority ------------------------
(* Small instances of ExecutionAuthority.                                    *)
EXTENDS ExecutionAuthority, TLC

CONSTANTS g1, g2, r1, r2, a1, a2, h1, w1

\* the API grant pays for two actions, the native one for a single turn
MCBudget == g1 :> 2 @@ g2 :> 1

Symmetric == Permutations({a1, a2}) \cup Permutations({r1, r2})
=============================================================================
