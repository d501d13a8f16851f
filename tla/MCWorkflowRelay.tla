--------------------------- MODULE MCWorkflowRelay ---------------------------
(* Small instances of WorkflowRelay: automatic sequences over two phases.     *)
EXTENDS WorkflowRelay, TLC

CONSTANTS t1, t2, t3, p1, p2, s1, s2, r1, r2, c1, c2

Entry(id, parent, phase, required, deps) ==
  [id |-> id, parent |-> parent, phase |-> phase, required |-> required, deps |-> deps]

\* two phases, the root verified in the second
MCPhases == [taskId |-> t1, phased |-> TRUE, phases |-> <<p1, p2>>,
             tasks |-> <<Entry(t1, NoParent, p2, TRUE, {}),
                         Entry(t2, t1, p1, TRUE, {}), Entry(t3, t1, p2, TRUE, {t2})>>]

MCRelay == {0, 1}
MCAlways == {1}

\* The bound of the instance (CONSTRAINT): a lone attempt with or without relays, of
\* the API backend with calls it cites or native with time that may pass, or two
\* native ones without relays.
InScope ==
  LET lone  == Cardinality(DOMAIN runs) <= 1
      api   == expired = {} /\ \A r \in DOMAIN runs : ~ runs[r].native
      quiet == calls = {} /\ \A r \in DOMAIN runs : runs[r].native /\ runs[r].actions = <<>>
      stays == expired = {} /\ \A r \in DOMAIN runs : runs[r].relay = 0
  IN  \/ lone /\ (api \/ quiet)
      \/ quiet /\ stays

Symmetric == Permutations({s1, s2}) \cup Permutations({r1, r2}) \cup Permutations({c1, c2})
=============================================================================
