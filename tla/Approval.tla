------------------------------ MODULE Approval ------------------------------
(***************************************************************************)
(* What the daemon's broker promises about human approvals: a request is   *)
(* asked about at most once, answered at most once while it is open, and   *)
(* granted only by whoever took an answer that allowed it.  Open and       *)
(* answered approvals may be closed at any time (they expire, are          *)
(* discarded, or their waiter times out), also while another one moves.    *)
(*                                                                         *)
(* HitlBrokerRefinement shows that HitlBroker implements this module;      *)
(* GovernedCall is built on it.                                            *)
(***************************************************************************)
CONSTANT Request

VARIABLES approval, granted

vars == <<approval, granted>>

Pending == {"open", "ALLOW", "DENY"}
State   == {"none", "granting", "closed"} \cup Pending

Init == approval = [r \in Request |-> "none"] /\ granted = {}

Closed(S) == [r \in Request |-> IF r \in S /\ approval[r] \in Pending THEN "closed" ELSE approval[r]]

Moves(r, from, to) ==
  /\ approval[r] = from
  /\ \E S \in SUBSET (Request \ {r}) : approval' = [Closed(S) EXCEPT ![r] = to]

Open(r)             == Moves(r, "none", "open") /\ UNCHANGED granted
Answer(r, decision) == Moves(r, "open", decision) /\ UNCHANGED granted
Take(r)             == Moves(r, "ALLOW", "granting") /\ UNCHANGED granted

\* The grant may fail, or its effect be unknown to whoever asked for it.
Grant(r) == Moves(r, "granting", "closed") /\ granted' \in {granted, granted \cup {r}}

Close == UNCHANGED granted /\ \E S \in SUBSET Request : approval' = Closed(S)

Next ==
  \/ \E r \in Request :
       \/ Open(r) \/ Take(r) \/ Grant(r)
       \/ \E decision \in {"ALLOW", "DENY"} : Answer(r, decision)
  \/ Close

Spec == Init /\ [][Next]_vars
=============================================================================
