------------------------- MODULE HitlBrokerRefinement -----------------------
(* HitlBroker implements Approval. *)
EXTENDS HitlBroker

\* The approval of a request, read from its token.
ApprovalOf(r) ==
  IF \E w \in Waiter : token[w] = r /\ at[w] = "granting" THEN "granting"
  ELSE IF future[r] = "none" THEN "none"
  ELSE IF r \notin hitl.pending THEN "closed"
  ELSE IF future[r] = "answered" THEN response[r].decision
  ELSE "open"

Approvals == INSTANCE Approval WITH approval <- [r \in Request |-> ApprovalOf(r)]

\* Through sweeps, timeouts, cancelled futures and several waiters, the approval of
\* a request goes through the life Approval promises: a closed one is not answered,
\* taken or granted any more, and a grant needs an answer taken before.
ImplementsApproval == Approvals!Spec
=============================================================================
