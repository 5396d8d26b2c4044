----------------------------- MODULE MCSpecSession -----------------------------
(* Small instances of SpecSession for TLC. *)
EXTENDS SpecSession, TLC

Base == [budget_usd |-> 3, max_repeat_calls |-> 2, error_amplification |-> TRUE,
         window_max_calls |-> 0, max_total_calls |-> 0, probabilistic_deny |-> FALSE,
         deny_jitter_ratio |-> 0, hitl_mode |-> "never", hitl_budget_threshold |-> 40]

\* One repeat, money running out with a human to ask below a threshold or about every
\* call, and the limits with the jitter on the last fifth of the budget.
MCConfig ==
  { [Base EXCEPT !.max_repeat_calls = 1],
    [Base EXCEPT !.hitl_mode = "on_threshold"],
    [Base EXCEPT !.hitl_mode = "always"],
    [Base EXCEPT !.window_max_calls = 2, !.max_total_calls = 2, !.max_repeat_calls = 0,
                 !.probabilistic_deny = TRUE, !.deny_jitter_ratio = 50] }

\* Ordinary parameters, and the ways the two modules differ: {"context": "a chat"},
\* {"a": {"ctx": "opaque"}} (here beside an error signal), nested 65 deep.
Plain == [digest |-> 1, error_signal |-> FALSE, canonical |-> TRUE, opaque |-> FALSE,
          core_canonical |-> TRUE, core_opaque |-> FALSE]

MCParams ==
  { Plain,
    [Plain EXCEPT !.digest = 2, !.error_signal = TRUE, !.core_opaque = TRUE],
    [Plain EXCEPT !.digest = 3, !.opaque = TRUE],
    [Plain EXCEPT !.digest = 4, !.core_canonical = FALSE] }

MCTransitions ==
  {[decision |-> d, resume_attempt |-> FALSE] : d \in {"approve", "reject", "defer", "escalate"}}
    \cup {[decision |-> "approve", resume_attempt |-> TRUE]}

\* Nonces are compared, never ordered.
Nonces == Permutations(Nonce)
=============================================================================
