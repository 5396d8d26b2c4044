----------------------------- MODULE Guardrail ------------------------------
(***************************************************************************)
(* ShackleGuardrail (Option A of shackle/litellm_shackle_guardrail.py): a  *)
(* LiteLLM proxy hook that keeps the state decide() reads.  Every dispatch *)
(* of a request is evaluated before the LLM call, with a nonce minted for  *)
(* it, and its cost recorded after the call succeeds; many are in flight   *)
(* at once.  A hook body has no await, so each is one atomic step.         *)
(*                                                                         *)
(* The deployment writes pending_transition, no code of src/ does: Resolve *)
(* is external.  The last two variables are history: how many dispatches,  *)
(* and of which contents, the transition now pending has released.         *)
(***************************************************************************)
EXTENDS Decide

CONSTANTS
  Config,          \* the configurations considered
  Dispatch,        \* dispatches; each is also the nonce minted for it
  Model,
  Content,         \* digests of a request's model, messages and tools
  OpaqueContent,
  MalformedContent,  \* contents canonical_hash raises on
  RejectedContent,   \* contents it accepts and decide() rejects: over 250 000
                     \* characters, or with keys that are not strings
  Cost,            \* what a completed call costs
  Transition,      \* what people may decide
  FaultyOutcome    \* out-of-contract results of a broken decision function

ASSUME ConfigAssumption ==
  \A c \in Config :
    /\ c.budget_usd \in Nat
    /\ c.max_repeat_calls \in Nat
    /\ c.hitl_budget_threshold \in {Nil} \cup 0..100

ASSUME GuardrailAssumption ==
  /\ Cost \subseteq Nat
  /\ IsFiniteSet(Dispatch) /\ Nil \notin Dispatch /\ Nil \notin Model
  /\ Bad \notin Model \cup Content \cup Transition
  /\ Nil \notin Transition

ASSUME FaultyAssumption == \A o \in FaultyOutcome : NoAllow(o)

VARIABLES
  config,
  circuit_tripped, seen_nonces, budget_remaining_usd, repeat_counts,
  last_tool_name, pending_transition,   \* self.state
  phase,                                \* of each dispatch
  executions, released

hookState == <<circuit_tripped, seen_nonces, budget_remaining_usd, repeat_counts, last_tool_name>>
vars == <<config, hookState, pending_transition, phase, executions, released>>

-----------------------------------------------------------------------------
StateFor(model) ==
  [budget_initial_usd   |-> config.budget_usd,
   budget_remaining_usd |-> budget_remaining_usd,
   circuit_tripped      |-> circuit_tripped,
   seen_nonces          |-> seen_nonces,
   repeat_count         |-> IF repeat_counts[model] = 0 THEN Nil ELSE repeat_counts[model],
   last_tool_name       |-> last_tool_name,
   pending_transition   |-> pending_transition]

\* A slip: the nonce is derived from the content (as the comment in the code
\* says it once was).
build_call_content(d, model, content) ==
  [tool_name |-> model, nonce |-> content,
   digest |-> IF content \in RejectedContent THEN Bad ELSE content,
   opaque |-> content \in OpaqueContent, estimated_cost_usd |-> Nil]

\* _build_call: no estimate is given.
build_call(d, model, content) ==
  [tool_name |-> model, nonce |-> d,
   digest |-> IF content \in RejectedContent THEN Bad ELSE content,
   opaque |-> content \in OpaqueContent, estimated_cost_usd |-> Nil]

Init ==
  /\ config \in Config
  /\ circuit_tripped = FALSE /\ seen_nonces = {}
  /\ budget_remaining_usd = config.budget_usd
  /\ repeat_counts = [m \in Model |-> 0] /\ last_tool_name = Nil
  /\ pending_transition = Nil
  /\ phase = [d \in Dispatch |-> "new"]
  /\ executions = 0 /\ released = {}

Phase(d, p) == phase' = [phase EXCEPT ![d] = p]

\* The branches of _evaluate.
Admit(d, model, content) ==
  /\ last_tool_name' = model
  /\ repeat_counts' = [repeat_counts EXCEPT ![model] = @ + 1]
  /\ seen_nonces' = seen_nonces \cup {build_call(d, model, content).nonce}
  /\ Phase(d, "sent")
  /\ IF pending_transition = Nil
     THEN UNCHANGED <<executions, released>>
     ELSE executions' = executions + 1 /\ released' = released \cup {content}
  /\ UNCHANGED <<circuit_tripped, budget_remaining_usd>>

Outcome(verdict) ==
  CASE verdict = "DENY" -> "denied" [] verdict = "HITL" -> "held" [] OTHER -> "raised"

\* A slip: a denial blocks the call and leaves the circuit closed.
Block_untripped(d, verdict) ==
  /\ Phase(d, Outcome(verdict))
  /\ UNCHANGED <<hookState, executions, released>>

Block(d, verdict) ==
  /\ circuit_tripped' = (circuit_tripped \/ verdict = "DENY")
  /\ Phase(d, Outcome(verdict))
  /\ UNCHANGED <<seen_nonces, budget_remaining_usd, repeat_counts, last_tool_name,
                 executions, released>>

\* async_pre_call_hook.  A content canonical_hash cannot serialize raises before
\* anything is decided.
evaluate(d, model, content) ==
  /\ phase[d] = "new"
  /\ \/ content \in MalformedContent /\ Block(d, "raised")
     \/ /\ content \notin MalformedContent
        /\ \E v \in Consulted(FaultyOutcome,
                            decide(config, StateFor(model), build_call(d, model, content))) :
             IF v[1] = "ALLOW" THEN Admit(d, model, content) ELSE Block(d, v[1])
  /\ UNCHANGED <<config, pending_transition>>

\* async_post_call_success_hook.
record(d, cost) ==
  /\ phase[d] = "sent"
  /\ Phase(d, "done")
  /\ budget_remaining_usd' = budget_remaining_usd - cost
  /\ UNCHANGED <<config, circuit_tripped, seen_nonces, repeat_counts, last_tool_name,
                 pending_transition, executions, released>>

\* The LLM call fails: no hook runs.
Fail(d) ==
  /\ phase[d] = "sent"
  /\ Phase(d, "failed")
  /\ UNCHANGED <<config, hookState, pending_transition, executions, released>>

\* A person decides about a dispatch that was made, or the decision is withdrawn.
Resolve(t) ==
  /\ t # pending_transition
  /\ t # Nil => \A d \in Dispatch : d \in {t.original_nonce, t.successor_nonce} => phase[d] # "new"
  /\ pending_transition' = t
  /\ executions' = 0 /\ released' = {}
  /\ UNCHANGED <<config, hookState, phase>>

Next ==
  \/ \E d \in Dispatch :
       \/ \E model \in Model, content \in Content : evaluate(d, model, content)
       \/ \E cost \in Cost : record(d, cost)
       \/ Fail(d)
  \/ \E t \in Transition \cup {Nil} : Resolve(t)

Spec == Init /\ [][Next]_vars

-----------------------------------------------------------------------------
(***************************************************************************)
(* Properties.                                                             *)
(***************************************************************************)
TypeOK ==
  /\ config \in Config
  /\ circuit_tripped \in BOOLEAN
  /\ seen_nonces \subseteq Dispatch
  /\ budget_remaining_usd \in Int
  /\ repeat_counts \in [Model -> Nat]
  /\ last_tool_name \in Model \cup {Nil}
  /\ pending_transition \in Transition \cup {Nil}
  /\ phase \in [Dispatch -> {"new", "sent", "done", "failed", "denied", "held", "raised"}]
  /\ executions \in Nat
  /\ released \subseteq Content

\* An approval or a modification releases the arguments it was given for and no
\* others, whatever is dispatched while it is pending, a broken decision function
\* included (evaluate_transition; P9 of the specification).
ReleasesItsArguments ==
  pending_transition # Nil /\ authorized(pending_transition).digest # Nil
    => released \subseteq {authorized(pending_transition).digest}

\* A nonce is minted for every dispatch, so an approval bound to the nonce of a
\* call that was held, or of any earlier one, releases nothing: no retry, no
\* repetition of the same content and no call in flight can redeem it.
NonceBoundReleasesNothing ==
  pending_transition # Nil /\ authorized(pending_transition).nonce \in Dispatch
    => executions = 0

\* Once the guardrail has denied a call, or has recorded that the budget is used
\* up and no person intervenes, it admits no call, however many are in flight
\* and whatever a person decides about those it held.
ClosedStaysClosed ==
  [][ \/ \E d \in Dispatch : phase[d] = "denied"
      \/ config.budget_usd > 0 /\ budget_remaining_usd <= 0 /\ pending_transition = Nil
     => seen_nonces' = seen_nonces ]_vars
=============================================================================
