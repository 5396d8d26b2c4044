----------------------------- MODULE Capability -----------------------------
(***************************************************************************)
(* What the daemon's store promises about one session's requests: each is  *)
(* refused, or admitted; only an admitted request is given an execution    *)
(* capability, and a capability is settled once.  What the store remembers *)
(* of a request ends with its keys.  The money is not of one request: all  *)
(* that is reserved is in one counter of the session, in PolicyStore.      *)
(*                                                                         *)
(* PolicyStoreRefinement shows that PolicyStore implements this module;    *)
(* GovernedCall is built on it.                                            *)
(***************************************************************************)
CONSTANT Request

VARIABLE stage

\* "lapsed": the capability is left and the reservation it needs is not.
Stage == {"new", "refused", "held", "allowed", "settled", "lapsed"}

Init == stage = [r \in Request |-> "new"]

Moves(r, from, to) == stage[r] = from /\ stage' = [stage EXCEPT ![r] = to]

Refuse(r) == Moves(r, "new", "refused")
Admit(r)  == Moves(r, "new", "held")
Issue(r)  == Moves(r, "held", "allowed")
Settle(r) == Moves(r, "allowed", "settled")

\* Keys expire, those of several requests at once.
After(s) ==
  CASE s = "allowed" -> {"allowed", "lapsed", "new"}
    [] OTHER         -> {s, "new"}

Expire == stage' \in {f \in [Request -> Stage] : \A r \in Request : f[r] \in After(stage[r])}

Next ==
  \/ \E r \in Request : Refuse(r) \/ Admit(r) \/ Issue(r) \/ Settle(r)
  \/ Expire

Spec == Init /\ [][Next]_stage
=============================================================================
