--------------------------- MODULE MCGovernedCall ---------------------------
(* A small instance of GovernedCall for TLC. *)
EXTENDS GovernedCall

CONSTANTS r1, r2

\* No call, one or both of them are held for a person; which one makes no difference.
SomeOpaque == {{}, {r1}, {r1, r2}}
=============================================================================
