------------------------------ MODULE SpecDecide ------------------------------
(***************************************************************************)
(* The second decision function, v2/spec/decide.py: decide() and the       *)
(* functions that update a session after its verdict.  Money is an integer *)
(* number of the smallest amount told apart; thresholds, the jitter and    *)
(* the random number are in per cent.                                      *)
(***************************************************************************)
EXTENDS Integers, FiniteSets

CONSTANTS
  Nil,
  Tool,
  Params  \* what the rules read of parameters: a subset of Parameters

\* tool_params_raw, tool_params and their hash, reduced to has_error_signal,
\* is_canonicalizable, has_opaque_context and hash_params, and the answers of the two
\* tests of the same names in the certified core.  Those differ: the core bounds depth,
\* nodes and size and takes exact types only, so what it canonicalizes this module does
\* too; it looks at any depth for a context key WITH an opaque value, this module at
\* the top level for a key OR a value, and neither answer implies the other.
Parameters ==
  {p \in [digest : Nat, error_signal : BOOLEAN, canonical : BOOLEAN, opaque : BOOLEAN,
          core_canonical : BOOLEAN, core_opaque : BOOLEAN] :
     p.core_canonical => p.canonical}

ToolCall(Cost, Nonce) ==
  [tool_name : Tool, params : Params, estimated_cost_usd : Cost, nonce : Nonce]

\* pending_transition; any other decision falls through to the layers below it.
Transition == [decision : {"reject", "defer", "approve", "modify", "escalate"},
               resume_attempt : BOOLEAN]

\* Money, counts and per cents as GuardConfig checks them; a window or a total of 0
\* or less is no limit.
GuardConfig ==
  [budget_usd : Nat, max_repeat_calls : Nat, error_amplification : BOOLEAN,
   window_max_calls : Int, max_total_calls : Int, probabilistic_deny : BOOLEAN,
   deny_jitter_ratio : 0..100, hitl_mode : {"never", "on_deny", "on_threshold", "always"},
   hitl_budget_threshold : 0..100]

LastCall == [tool : Tool, digest : Nat]

Session(Nonce, Transitions) ==
  [circuit_tripped : BOOLEAN, budget_initial_usd : Nat, budget_remaining_usd : Nat,
   budget_spent_usd : Nat, total_calls : Nat, repeat_counts : [Tool -> Nat],
   window_counts : [Tool -> Nat], last : {Nil} \cup LastCall,
   seen_nonces : SUBSET Nonce, pending_transition : {Nil} \cup Transitions]

SessionState(config) ==
  [circuit_tripped |-> FALSE, budget_initial_usd |-> config.budget_usd,
   budget_remaining_usd |-> config.budget_usd, budget_spent_usd |-> 0, total_calls |-> 0,
   repeat_counts |-> [t \in Tool |-> 0], window_counts |-> [t \in Tool |-> 0],
   last |-> Nil, seen_nonces |-> {}, pending_transition |-> Nil]

-----------------------------------------------------------------------------
\* last_tool_name and last_tool_params_hash.
SameAsLast(state, call) ==
  state.last = [tool |-> call.tool_name, digest |-> call.params.digest]

\* Layer 1b.
Resolves(pending) ==
  pending # Nil /\ (pending.resume_attempt \/ pending.decision # "escalate")

Resolution(pending) ==
  IF pending.resume_attempt \/ pending.decision = "reject" THEN "DENY"
  ELSE IF pending.decision = "defer" THEN "HITL" ELSE "ALLOW"

\* Layer 3: what denies outright, and the two that may ask a human.
\* A slip: the budget may be used up to the last cent and once more.
Exhausted_late(config, state) == config.budget_usd > 0 /\ state.budget_remaining_usd < 0
Exhausted(config, state) == config.budget_usd > 0 /\ state.budget_remaining_usd <= 0

Threshold(config, state) ==
  /\ config.budget_usd > 0 /\ config.hitl_mode = "on_threshold"
  /\ 100 * state.budget_remaining_usd
       <= config.hitl_budget_threshold * state.budget_initial_usd

\* A slip: the estimate is compared with the whole budget.
Overrun_lax(config, state, call) ==
  config.budget_usd > 0 /\ call.estimated_cost_usd > state.budget_initial_usd

Overrun(config, state, call) ==
  config.budget_usd > 0 /\ call.estimated_cost_usd > state.budget_remaining_usd

\* Layer 4: a call that shows an error gets one repeat less, but never none.
RepeatLimit(config, call) ==
  IF config.error_amplification /\ call.params.error_signal /\ config.max_repeat_calls > 1
  THEN config.max_repeat_calls - 1 ELSE config.max_repeat_calls

Repeated(config, state, call) ==
  /\ config.max_repeat_calls > 0 /\ SameAsLast(state, call)
  /\ state.repeat_counts[call.tool_name] >= RepeatLimit(config, call)

\* Layers 5 and 6.
OverLimits(config, state, call) ==
  \/ config.window_max_calls > 0
       /\ state.window_counts[call.tool_name] >= config.window_max_calls
  \/ config.max_total_calls > 0 /\ state.total_calls >= config.max_total_calls

\* Layer 7: rng_float < deny_jitter_ratio * (1 - ratio), under a fifth of the budget.
Jittered(config, state, rng) ==
  /\ config.probabilistic_deny /\ config.budget_usd > 0 /\ state.budget_initial_usd > 0
  /\ 5 * state.budget_remaining_usd < state.budget_initial_usd
  /\ rng * state.budget_initial_usd
       < config.deny_jitter_ratio * (state.budget_initial_usd - state.budget_remaining_usd)

Replayed(state, call) == call.nonce \in state.seen_nonces

decide(state, call, config, rng) ==
  IF state.circuit_tripped THEN "DENY"
  ELSE IF Resolves(state.pending_transition) THEN Resolution(state.pending_transition)
  ELSE IF Replayed(state, call) \/ ~call.params.canonical \/ Exhausted(config, state) THEN "DENY"
  ELSE IF Threshold(config, state) THEN "HITL"
  ELSE IF Overrun(config, state, call)
       THEN IF config.hitl_mode \in {"on_deny", "always"} THEN "HITL" ELSE "DENY"
  ELSE IF \/ Repeated(config, state, call) \/ OverLimits(config, state, call)
          \/ Jittered(config, state, rng) THEN "DENY"
  ELSE IF call.params.opaque \/ config.hitl_mode = "always" THEN "HITL"
  ELSE "ALLOW"

-----------------------------------------------------------------------------
apply_allow(state, call) ==
  LET t == call.tool_name IN
  [state EXCEPT
     !.total_calls      = @ + 1,
     !.seen_nonces      = @ \cup {call.nonce},
     !.repeat_counts[t] = IF SameAsLast(state, call) THEN @ + 1 ELSE 1,
     !.window_counts[t] = @ + 1,
     !.last             = [tool |-> t, digest |-> call.params.digest]]

apply_deny(state) == [state EXCEPT !.circuit_tripped = TRUE]

apply_post_exec(state, cost) ==
  LET left == state.budget_initial_usd - state.budget_spent_usd - cost IN
  IF cost <= 0 THEN state
  ELSE [state EXCEPT !.budget_spent_usd     = @ + cost,
                     !.budget_remaining_usd = IF left > 0 THEN left ELSE 0]
=============================================================================
