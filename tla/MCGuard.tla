------------------------------ MODULE MCGuard -------------------------------
(* Small instances of Guard for TLC. *)
EXTENDS Guard, TLC

\* Threads other than Main are interchangeable when all or none are on a loop.
Workers == Permutations(Thread \ {Main})

Raw(shape, verdict, usable) ==
  [raised |-> FALSE, raw |-> [shape |-> shape, verdict |-> verdict, usable |-> usable]]

\* A decision function that raises, returns no pair, a lookalike of ALLOW, a
\* verdict that is not a string, or an ALLOW nobody can audit.
MCFaultyOutcome ==
  { [raised |-> TRUE, raw |-> [shape |-> "pair", verdict |-> "ALLOW", usable |-> TRUE]],
    Raw("malformed_decision:not_a_pair", "ALLOW", TRUE), Raw("pair", " allow ", TRUE),
    Raw("pair", Bad, TRUE), Raw("pair", "ALLOW", FALSE), Raw("pair", "HITL", FALSE) }
=============================================================================
