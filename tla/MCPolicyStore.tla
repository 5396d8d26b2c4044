--------------------------- MODULE MCPolicyStore ----------------------------
(* Small instances of PolicyStore for TLC. *)
EXTENDS PolicyStoreRefinement, TLC

\* Request ids are interchangeable.
Symmetric == Permutations(Request)
=============================================================================
