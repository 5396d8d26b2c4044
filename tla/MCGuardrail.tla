---------------------------- MODULE MCGuardrail -----------------------------
(* Small instances of Guardrail for TLC. *)
EXTENDS Guardrail, TLC

CONSTANTS d1, d2, c1, c2

Config1(budget, repeat, mode, threshold) ==
  [budget_usd |-> budget, max_repeat_calls |-> repeat, hitl_mode |-> mode,
   hitl_budget_threshold |-> threshold]

\* No budget rule, a budget two calls use up, every call held, and calls held
\* when half of the budget is left.
MCConfig ==
  { Config1(0, 2, "never", Nil), Config1(2, 3, "never", Nil),
    Config1(2, 3, "always", Nil), Config1(2, 3, "on_threshold", 50) }

Decided(decision, nonce, digest, nonce2, digest2) ==
  [decision |-> decision, terminal |-> FALSE, resume_attempt |-> FALSE,
   original_nonce |-> nonce, original_args_digest |-> digest,
   successor_nonce |-> nonce2, successor_args_digest |-> digest2]

\* Every kind of decision about d1 and its content c1, bound to both, to one or
\* to none of them, and an approval that is already spent.
MCTransition ==
  { Decided("approve", d1, c1, Nil, Nil), Decided("approve", Nil, c1, Nil, Nil),
    Decided("approve", d1, Nil, Nil, Nil), Decided("approve", Nil, Nil, Nil, Nil),
    Decided("modify", d1, c1, Nil, c2), Decided("modify", d1, c1, d2, c2),
    Decided("reject", d1, c1, Nil, Nil), Decided("defer", d1, c1, Nil, Nil),
    Decided("other", Nil, c1, Nil, Nil),
    [Decided("approve", Nil, c1, Nil, Nil) EXCEPT !.terminal = TRUE] }

Raw(shape, verdict, usable) ==
  [raised |-> FALSE, raw |-> [shape |-> shape, verdict |-> verdict, usable |-> usable]]

\* A decision function that raises, returns no pair, a lookalike of ALLOW, or an
\* ALLOW nobody can audit.
MCFaultyOutcome ==
  { [raised |-> TRUE, raw |-> [shape |-> "pair", verdict |-> "ALLOW", usable |-> TRUE]],
    Raw("malformed_decision:not_a_pair", "ALLOW", TRUE), Raw("pair", " allow ", TRUE),
    Raw("pair", "ALLOW", FALSE), Raw("pair", "HITL", FALSE) }
=============================================================================
