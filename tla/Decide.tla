------------------------------- MODULE Decide -------------------------------
(***************************************************************************)
(* The SP/1.0 decision core, shackle/conformance.py: one pure function     *)
(* from (config, state, call) to a verdict, the resolution of a pending    *)
(* human transition it delegates to, and the validation every enforcement  *)
(* site puts around it.                                                    *)
(*                                                                         *)
(* Money is an integer number of the smallest amount the model tells       *)
(* apart.  Parameters are reduced to the two things the rules read: their  *)
(* canonical digest and whether some context binding in them is opaque.    *)
(***************************************************************************)
EXTENDS Integers, FiniteSets

CONSTANTS
  Nil,      \* a field that is missing from its object, or None where that is
            \* the same
  Bad,      \* a value of the wrong type, not finite, or otherwise not usable
  NonceCap  \* nonces a state may carry before it is over 250 000 characters

ASSUME NilAssumption == Nil \notin Int /\ Nil # Bad
ASSUME BadAssumption == Bad \notin Int /\ Bad # {}
ASSUME NonceCapAssumption == NonceCap \in Nat

Allow(reason) == <<"ALLOW", reason>>
Deny(reason)  == <<"DENY", reason>>
Hitl(reason)  == <<"HITL", reason>>

(***************************************************************************)
(* decision_input_error: the boundary check.  An absent optional field is *)
(* fine (Nil); a present one must have the exact type and range.  A `Bad'  *)
(* digest stands for parameters canonicalization_error rejects.  The size  *)
(* bound of _walk_canonicalizable covers the state too, with every nonce   *)
(* the session has consumed.                                               *)
(***************************************************************************)
decision_input_error(config, state, call) ==
  \/ config.budget_usd \in {Nil, Bad} \/ config.budget_usd < 0
  \/ config.max_repeat_calls # Nil
       /\ (config.max_repeat_calls = Bad \/ config.max_repeat_calls < 0)
  \/ config.hitl_mode \notin {Nil, "never", "always", "on_threshold"}
  \/ config.hitl_budget_threshold # Nil
       /\ config.hitl_budget_threshold \notin 0..100
  \/ state.budget_initial_usd # Nil
       /\ (state.budget_initial_usd = Bad \/ state.budget_initial_usd < 0)
  \/ state.budget_remaining_usd = Bad
  \/ state.circuit_tripped \notin {Nil, TRUE, FALSE}
  \/ Bad \in {state.seen_nonces, state.pending_transition, state.last_tool_name}
  \/ Cardinality(state.seen_nonces) > NonceCap
  \/ state.repeat_count # Nil
       /\ (state.repeat_count = Bad \/ state.repeat_count < 0)
  \/ call.tool_name = Bad
  \/ call.digest = Bad
  \/ call.estimated_cost_usd # Nil
       /\ (call.estimated_cost_usd = Bad \/ call.estimated_cost_usd < 0)

(***************************************************************************)
(* evaluate_transition: an approval releases the (nonce, digest) pair it   *)
(* is bound to and nothing else.                                           *)
(***************************************************************************)
Known == {"approve", "reject", "modify", "defer", "escalate"}

\* What the human authorised: the original pair, or its replacement.
authorized(pending) ==
  IF pending.decision = "modify"
  THEN [nonce |-> pending.successor_nonce, digest |-> pending.successor_args_digest]
  ELSE [nonce |-> pending.original_nonce,  digest |-> pending.original_args_digest]

\* A slip: the digest of what was approved is not compared.
Released_anyArguments(pending, call) ==
  LET a == authorized(pending) IN
  IF a.nonce # Nil /\ call.nonce # a.nonce THEN Deny("hitl_transition:nonce_mismatch")
  ELSE Allow("hitl_transition:released")

\* Another: its nonce is not.
Released_anyNonce(pending, call) ==
  LET a == authorized(pending) IN
  IF a.digest # Nil /\ call.digest # a.digest THEN Deny("hitl_transition:digest_mismatch")
  ELSE Allow("hitl_transition:released")

Released(pending, call) ==
  LET a == authorized(pending) IN
  IF a.nonce = Nil /\ a.digest = Nil THEN Deny("hitl_transition:unbound_authorization")
  ELSE IF a.nonce # Nil /\ call.nonce # a.nonce THEN Deny("hitl_transition:nonce_mismatch")
  ELSE IF a.digest # Nil /\ call.digest # a.digest THEN Deny("hitl_transition:digest_mismatch")
  ELSE Allow("hitl_transition:released")

evaluate_transition(pending, call) ==
  CASE pending.decision \notin Known -> Deny("hitl_transition:unknown_decision")
    [] pending.decision \in Known /\ pending.terminal /\ pending.resume_attempt ->
         Deny("policy_violation:duplicate_resume_no_effect")
    [] OTHER ->
         CASE pending.decision = "reject" -> Deny("hitl_transition:reject")
           [] pending.decision \in {"defer", "escalate"} ->
                Hitl("hitl_transition:defer_escalate")
           [] pending.decision = "modify" ->
                IF pending.original_nonce # Nil /\ call.nonce = pending.original_nonce
                THEN Deny("hitl_transition:superseded_original")
                ELSE Released(pending, call)
           [] pending.decision = "approve" ->
                IF pending.terminal THEN Deny("hitl_transition:terminal_no_effect")
                ELSE Released(pending, call)

(***************************************************************************)
(* The automatic rules 5 to 9, each a predicate of its own.                *)
(***************************************************************************)
estimated(call) == IF call.estimated_cost_usd = Nil THEN 0 ELSE call.estimated_cost_usd

Exhausted(config, state) ==
  /\ state.budget_remaining_usd # Nil
  /\ state.budget_remaining_usd <= 0
  /\ config.budget_usd > 0

\* A slip: this call's own cost is left out.
Overrun_unestimated(config, state, call) ==
  /\ state.budget_remaining_usd # Nil
  /\ config.budget_usd > 0
  /\ state.budget_remaining_usd < 0

Overrun(config, state, call) ==
  /\ state.budget_remaining_usd # Nil
  /\ config.budget_usd > 0
  /\ estimated(call) > 0
  /\ state.budget_remaining_usd - estimated(call) < 0

\* A slip: the rule fires at the ceiling and not above it.
Repeated_once(config, state, call) ==
  /\ config.max_repeat_calls # Nil
  /\ state.repeat_count = config.max_repeat_calls
  /\ state.last_tool_name = call.tool_name

\* repeat_count is the entry of repeat_counts for the tool being called; the
\* dictionary is empty, or has no such entry, when it is Nil.
Repeated(config, state, call) ==
  /\ config.max_repeat_calls # Nil
  /\ state.repeat_count # Nil
  /\ state.repeat_count >= config.max_repeat_calls
  /\ state.last_tool_name = call.tool_name

\* remaining / initial <= threshold, the threshold in per cent.
BelowThreshold(config, state) ==
  /\ config.hitl_mode = "on_threshold"
  /\ config.hitl_budget_threshold # Nil
  /\ state.budget_initial_usd \notin {Nil, 0}
  /\ LET left == IF state.budget_remaining_usd = Nil THEN 0 ELSE state.budget_remaining_usd
     IN  left * 100 <= config.hitl_budget_threshold * state.budget_initial_usd

AutomaticRules(config, state, call) ==
  IF Exhausted(config, state) THEN Deny("budget_exhausted")
  ELSE IF Overrun(config, state, call) THEN Deny("budget_overrun")
  ELSE IF Repeated(config, state, call) THEN Deny("max_repeat_exceeded")
  ELSE IF config.hitl_mode = "always" THEN Hitl("hitl_all_calls")
  ELSE IF BelowThreshold(config, state) THEN Hitl("budget_threshold")
  ELSE IF call.opaque THEN Hitl("fail_closed:opaque_context")
  ELSE Allow("within_thresholds")

decide(config, state, call) ==
  IF decision_input_error(config, state, call) THEN Deny("policy_violation:malformed_input")
  ELSE IF state.circuit_tripped = TRUE THEN Deny("circuit_open")
  ELSE IF call.nonce # Nil /\ call.nonce \in state.seen_nonces THEN
         IF state.pending_transition # Nil /\ state.pending_transition.terminal
         THEN Deny("policy_violation:duplicate_resume_no_effect")
         ELSE Deny("policy_violation:duplicate_nonce")
  ELSE IF state.pending_transition # Nil
       THEN evaluate_transition(state.pending_transition, call)
  ELSE AutomaticRules(config, state, call)

(***************************************************************************)
(* normalize_decision: what an enforcement site makes of any value a       *)
(* decision function returned.  `shape' is the container, `verdict' the    *)
(* first element, `usable' whether the second is a usable reason.          *)
(* decide_checked adds the one outcome that is not a value: it raised.     *)
(***************************************************************************)
Verdicts == {"ALLOW", "DENY", "HITL"}

normalize_decision(raw) ==
  IF raw.shape # "pair" THEN Deny(raw.shape)  \* missing, not a pair, bad arity
  ELSE IF raw.verdict = Bad THEN Deny("malformed_decision:verdict_not_a_string")
  ELSE IF raw.verdict \notin Verdicts THEN Deny("malformed_decision:unknown_verdict")
  ELSE IF raw.usable THEN <<raw.verdict, "reason">>
  ELSE IF raw.verdict = "ALLOW" THEN Deny("malformed_decision:reason_not_a_string")
  ELSE <<raw.verdict, "malformed_decision:unspecified_reason">>

decide_checked(outcome) ==
  IF outcome.raised THEN Deny("decide_unavailable_fail_closed")
  ELSE normalize_decision(outcome.raw)

\* An outcome that is not an exact, auditable ALLOW.
NoAllow(o) ==
  ~(~o.raised /\ o.raw.shape = "pair" /\ o.raw.verdict = "ALLOW" /\ o.raw.usable)

\* What an enforcement site may be told when decide() says `verdict': the decision
\* function it calls is honest, or has one of the `faulty' outcomes.
Consulted(faulty, verdict) ==
  {decide_checked(o) : o \in faulty \cup
     {[raised |-> FALSE, raw |-> [shape |-> "pair", verdict |-> verdict[1], usable |-> TRUE]]}}

-----------------------------------------------------------------------------
(***************************************************************************)
(* Vocabulary of the properties.                                           *)
(***************************************************************************)
\* How restrictive a verdict is.
Rank(v) == CASE v[1] = "ALLOW" -> 0 [] v[1] = "HITL" -> 1 [] v[1] = "DENY" -> 2
=============================================================================
