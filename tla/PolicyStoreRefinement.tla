------------------------ MODULE PolicyStoreRefinement -----------------------
(* PolicyStore implements Capability. *)
EXTENDS PolicyStore

\* The stage of a request, read from its keys.
StageOf(r) ==
  IF Live(consumed[r]) THEN "settled"
  ELSE IF Live(exec[r]) THEN (IF Live(est[r]) THEN "allowed" ELSE "lapsed")
  ELSE IF Live(est[r]) THEN "held"
  ELSE IF Live(request[r]) THEN "refused"
  ELSE "new"

Capabilities == INSTANCE Capability WITH stage <- [r \in Request |-> StageOf(r)]

\* Through duplicated deliveries, lost replies, late grants, clear_session and the
\* expiry of each key on its own, a request goes through the life Capability
\* promises: in particular nothing but admission leads to a capability, and a
\* capability that was settled does not come back while a key remembers it.
ImplementsCapability == Capabilities!Spec
=============================================================================
