---------------------------- MODULE GuardProofs -----------------------------
(***************************************************************************)
(* Theorems about Guard, for any number of threads, tools and calls, every *)
(* budget and ceiling, every answer of the operator and every broken       *)
(* decision function.                                                      *)
(***************************************************************************)
EXTENDS Guard, FiniteSetTheorems, TLAPS

-----------------------------------------------------------------------------
(***************************************************************************)
(* The decision core, for every configuration, state and call: what its    *)
(* callers need to know of it.                                             *)
(***************************************************************************)
\* decide_checked; the promise of conformance.py:117-127).
LEMMA FaultyNeverAllows ==
  ASSUME NEW o, NoAllow(o)
  PROVE  decide_checked(o)[1] # "ALLOW"
BY DEF NoAllow, decide_checked, normalize_decision, Deny, Verdicts

\* An honest decision function is enforced as it decided.
LEMMA HonestIsEnforced ==
  ASSUME NEW verdict,
         decide_checked([raised |-> FALSE, raw |-> [shape |-> "pair", verdict |-> verdict,
                                                    usable |-> TRUE]])[1] = "ALLOW"
  PROVE  verdict = "ALLOW"
BY DEF decide_checked, normalize_decision, Deny, Verdicts

\* A broken decision function lets nothing through that decide() does not.
LEMMA ConsultedAllows ==
  ASSUME NEW faulty, \A o \in faulty : NoAllow(o),
         NEW verdict, NEW v \in Consulted(faulty, verdict), v[1] = "ALLOW"
  PROVE  verdict[1] = "ALLOW"
<1> DEFINE honest == [raised |-> FALSE, raw |-> [shape |-> "pair", verdict |-> verdict[1],
                                                 usable |-> TRUE]]
<1>1. PICK o \in faulty \cup {honest} : v = decide_checked(o)
  BY DEF Consulted
<1>2. o = honest
  BY <1>1, FaultyNeverAllows
<1>3. QED
  BY <1>1, <1>2, HonestIsEnforced

\* fits in what is left.
LEMMA AutomaticAllowFits ==
  ASSUME NEW cfg, NEW st, NEW c, NEW left \in Int,
         cfg.budget_usd > 0, st.pending_transition = Nil,
         st.budget_remaining_usd = left, estimated(c) \in Nat,
         decide(cfg, st, c)[1] = "ALLOW"
  PROVE  left > 0 /\ left - estimated(c) >= 0
<1>1. AutomaticRules(cfg, st, c)[1] = "ALLOW"
  BY DEF decide, Deny
<1>2. ~Exhausted(cfg, st) /\ ~Overrun(cfg, st, c)
  BY <1>1 DEF AutomaticRules, Deny
<1>3. left # Nil
  BY NilAssumption
<1>4. left > 0
  BY <1>2, <1>3 DEF Exhausted
<1>5. estimated(c) > 0 => left - estimated(c) >= 0
  BY <1>2, <1>3 DEF Overrun
<1>6. QED
  BY <1>4, <1>5

\* been repeated max_repeat_calls times is not allowed.
LEMMA RepeatedIsNotAllowed ==
  ASSUME NEW cfg, NEW st, NEW c, st.pending_transition = Nil,
         cfg.max_repeat_calls # Nil, st.repeat_count # Nil,
         st.last_tool_name = c.tool_name,
         decide(cfg, st, c)[1] = "ALLOW"
  PROVE  ~(st.repeat_count >= cfg.max_repeat_calls)
<1>1. AutomaticRules(cfg, st, c)[1] = "ALLOW"
  BY DEF decide, Deny
<1>2. ~Repeated(cfg, st, c)
  BY <1>1 DEF AutomaticRules, Deny
<1>3. QED
  BY <1>2 DEF Repeated

-----------------------------------------------------------------------------
(***************************************************************************)
(* Monotonicity: pressure never loosens a verdict.                         *)
(***************************************************************************)
\* later is at least as far into its session as earlier: less money left, the
\* circuit at least as open, more nonces seen, as many repeats or more.
MorePressure(earlier, later) ==
  /\ later.budget_remaining_usd <= earlier.budget_remaining_usd
  /\ earlier.circuit_tripped = TRUE => later.circuit_tripped = TRUE
  /\ earlier.seen_nonces \subseteq later.seen_nonces
  /\ \/ earlier.repeat_count = Nil /\ later.repeat_count = Nil
     \/ /\ earlier.repeat_count \in Nat /\ later.repeat_count \in Nat
        /\ earlier.repeat_count <= later.repeat_count
  /\ later.pending_transition = earlier.pending_transition
  /\ later.budget_initial_usd = earlier.budget_initial_usd
  /\ later.last_tool_name = earlier.last_tool_name

\* A state as an enforcement site builds it.
Built(st) ==
  /\ st.budget_initial_usd \in Nat
  /\ st.budget_remaining_usd \in Int
  /\ st.circuit_tripped \in BOOLEAN
  /\ IsFiniteSet(st.seen_nonces)

\* A denial is the most restrictive verdict.
LEMMA RankDeny ==
  ASSUME NEW v, v[1] = "DENY"
  PROVE  Rank(v) = 2
BY DEF Rank

\* Every verdict of decide() has a rank.
LEMMA RankRange ==
  ASSUME NEW cfg, NEW st, NEW c
  PROVE  Rank(decide(cfg, st, c)) \in {0, 1, 2}
<1>1. decide(cfg, st, c)[1] \in {"ALLOW", "HITL", "DENY"}
  <2>1. AutomaticRules(cfg, st, c)[1] \in {"ALLOW", "HITL", "DENY"}
    BY DEF AutomaticRules, Allow, Deny, Hitl
  <2>2. ASSUME NEW p PROVE evaluate_transition(p, c)[1] \in {"ALLOW", "HITL", "DENY"}
    BY DEF evaluate_transition, Released, Known, Allow, Deny, Hitl
  <2>3. QED
    BY <2>1, <2>2 DEF decide, Deny
<1>2. QED
  BY <1>1 DEF Rank

\* Each automatic rule that fires early in a session still fires later.
LEMMA RulesPersist ==
  ASSUME NEW cfg, NEW c, NEW s1, NEW s2,
         Built(s1), Built(s2), MorePressure(s1, s2),
         cfg.max_repeat_calls \in Nat \cup {Nil},
         estimated(c) \in Nat,
         ~decision_input_error(cfg, s1, c)
  PROVE  /\ Exhausted(cfg, s1) => Exhausted(cfg, s2)
         /\ Overrun(cfg, s1, c) => Overrun(cfg, s2, c)
         /\ Repeated(cfg, s1, c) => Repeated(cfg, s2, c)
         /\ BelowThreshold(cfg, s1) => BelowThreshold(cfg, s2)
<1>1. /\ s1.budget_remaining_usd \in Int /\ s2.budget_remaining_usd \in Int
      /\ s2.budget_remaining_usd <= s1.budget_remaining_usd
      /\ s1.last_tool_name = s2.last_tool_name
      /\ s1.budget_initial_usd = s2.budget_initial_usd
      /\ s1.budget_initial_usd \in Nat
      /\ Nil \notin Int
  BY NilAssumption DEF Built, MorePressure
<1>2. Exhausted(cfg, s1) => Exhausted(cfg, s2)
  BY <1>1 DEF Exhausted
<1>3. Overrun(cfg, s1, c) => Overrun(cfg, s2, c)
  BY <1>1 DEF Overrun
<1>4. Repeated(cfg, s1, c) => Repeated(cfg, s2, c)
  BY <1>1 DEF Repeated, MorePressure
<1>5. BelowThreshold(cfg, s1) => BelowThreshold(cfg, s2)
  <2>1. cfg.hitl_budget_threshold = Nil \/ cfg.hitl_budget_threshold \in 0..100
    BY Zenon DEF decision_input_error
  <2>2. ASSUME NEW x \in Int, s1.budget_remaining_usd * 100 <= x
        PROVE  s2.budget_remaining_usd * 100 <= x
    BY <1>1, <2>2
  <2>3. cfg.hitl_budget_threshold # Nil =>
          cfg.hitl_budget_threshold * s1.budget_initial_usd \in Int
    BY <1>1, <2>1
  <2>4. QED
    BY <1>1, <2>2, <2>3 DEF BelowThreshold
<1>6. QED
  BY <1>2, <1>3, <1>4, <1>5

\* A boundary error of the earlier state is one of the later state.
LEMMA ErrorsPersist ==
  ASSUME NEW cfg, NEW c, NEW s1, NEW s2,
         Built(s1), Built(s2), MorePressure(s1, s2),
         s1.seen_nonces = s2.seen_nonces \/ s1.seen_nonces # Bad,
         ~decision_input_error(cfg, s2, c)
  PROVE  ~decision_input_error(cfg, s1, c)
<1>1. /\ s1.budget_initial_usd = s2.budget_initial_usd
      /\ s1.pending_transition = s2.pending_transition
      /\ s1.last_tool_name = s2.last_tool_name
  BY DEF MorePressure
<1>2. /\ s1.budget_remaining_usd # Bad
      /\ s1.circuit_tripped \in {Nil, TRUE, FALSE}
  BY BadAssumption DEF Built
<1>3. Bad \notin {s1.seen_nonces, s1.pending_transition, s1.last_tool_name}
  <2>1. Bad \notin {s2.seen_nonces, s2.pending_transition, s2.last_tool_name}
    BY Zenon DEF decision_input_error
  <2>2. QED
    BY <1>1, <2>1
<1>4. ~(Cardinality(s1.seen_nonces) > NonceCap)
  <2>1. ~(Cardinality(s2.seen_nonces) > NonceCap)
    BY Zenon DEF decision_input_error
  <2>2. Cardinality(s1.seen_nonces) <= Cardinality(s2.seen_nonces)
    BY FS_Subset DEF MorePressure, Built
  <2>3. Cardinality(s1.seen_nonces) \in Nat /\ Cardinality(s2.seen_nonces) \in Nat
    BY FS_CardinalityType DEF Built
  <2>4. QED
    BY <2>1, <2>2, <2>3, NonceCapAssumption
<1>5. ~(s1.repeat_count # Nil /\ (s1.repeat_count = Bad \/ s1.repeat_count < 0))
  BY BadAssumption DEF MorePressure
<1>6. QED
  BY <1>1, <1>2, <1>3, <1>4, <1>5, Zenon DEF decision_input_error

\* The precedence of decide()'s rules: what is denied early in a session is
\* denied later, and what is held early is never let through later.
THEOREM DecideMonotone ==
  ASSUME NEW cfg, NEW c, NEW s1, NEW s2,
         Built(s1), Built(s2), MorePressure(s1, s2),
         s1.seen_nonces = s2.seen_nonces \/ s1.seen_nonces # Bad,
         cfg.max_repeat_calls \in Nat \cup {Nil},
         estimated(c) \in Nat
  PROVE  Rank(decide(cfg, s1, c)) <= Rank(decide(cfg, s2, c))
<1> DEFINE v1 == decide(cfg, s1, c)
           v2 == decide(cfg, s2, c)
<1>1. Rank(v1) \in {0, 1, 2} /\ Rank(v2) \in {0, 1, 2}
  BY RankRange
<1>2. ASSUME v2[1] = "DENY" PROVE Rank(v1) <= Rank(v2)
  BY <1>1, <1>2, RankDeny
<1>3. CASE decision_input_error(cfg, s2, c)
  BY <1>2, <1>3 DEF decide, Deny
<1>4. CASE s2.circuit_tripped = TRUE
  BY <1>2, <1>4 DEF decide, Deny
<1>5. CASE c.nonce # Nil /\ c.nonce \in s2.seen_nonces
  BY <1>2, <1>5 DEF decide, Deny
<1>6. CASE /\ ~decision_input_error(cfg, s2, c)
           /\ s2.circuit_tripped # TRUE
           /\ ~(c.nonce # Nil /\ c.nonce \in s2.seen_nonces)
  <2>1. ~decision_input_error(cfg, s1, c)
    BY <1>6, ErrorsPersist
  <2>2. /\ s1.circuit_tripped # TRUE
        /\ ~(c.nonce # Nil /\ c.nonce \in s1.seen_nonces)
        /\ s1.pending_transition = s2.pending_transition
    BY <1>6 DEF MorePressure
  <2>3. CASE s1.pending_transition # Nil
    <3>1. v1 = v2
      BY <1>6, <2>1, <2>2, <2>3, Zenon DEF decide
    <3>2. QED
      BY <1>1, <3>1
  <2>4. CASE s1.pending_transition = Nil
    <3>1. v1 = AutomaticRules(cfg, s1, c) /\ v2 = AutomaticRules(cfg, s2, c)
      BY <1>6, <2>1, <2>2, <2>4, Zenon DEF decide
    <3>2. Rank(AutomaticRules(cfg, s1, c)) <= Rank(AutomaticRules(cfg, s2, c))
      BY <2>1, RulesPersist DEF AutomaticRules, Rank, Allow, Deny, Hitl
    <3>3. QED
      BY <3>1, <3>2
  <2>5. QED
    BY <2>3, <2>4
<1>7. QED
  BY <1>3, <1>4, <1>5, <1>6

-----------------------------------------------------------------------------
(***************************************************************************)
(* What a verdict lets through.                                            *)
(***************************************************************************)
\* pre_remaining is what is left of the budget, and never negative.
LEMMA RemainingType ==
  ASSUME total_cost \in Nat
  PROVE  /\ pre_remaining \in Nat
         /\ total_cost <= Budget => pre_remaining = Budget - total_cost
         /\ total_cost >= Budget => pre_remaining = 0
BY GuardAssumption DEF pre_remaining

\* An LLM call that decide() allows fits in the budget.
LEMMA LlmAllowFits ==
  ASSUME total_cost \in Nat, NEW cost \in Cost, Budget > 0,
         LlmVerdict(cost)[1] = "ALLOW"
  PROVE  total_cost + cost <= Budget
<1>1. cost \in Nat /\ Budget \in Nat /\ cost # Nil
  BY GuardAssumption, NilAssumption
<1>2. pre_remaining > 0 /\ pre_remaining - cost >= 0
  <2> DEFINE cfg == [budget_usd |-> Budget, max_repeat_calls |-> Nil,
                     hitl_mode |-> Nil, hitl_budget_threshold |-> Nil]
             st  == [budget_initial_usd |-> Budget, budget_remaining_usd |-> pre_remaining,
                     circuit_tripped |-> FALSE, seen_nonces |-> {}, repeat_count |-> Nil,
                     last_tool_name |-> Nil, pending_transition |-> Nil]
             c   == [tool_name |-> "model", nonce |-> Nil, opaque |-> FALSE,
                     digest |-> "empty", estimated_cost_usd |-> cost]
  <2>1. /\ cfg.budget_usd > 0 /\ st.pending_transition = Nil
        /\ st.budget_remaining_usd = pre_remaining
        /\ pre_remaining \in Int
    BY <1>1, RemainingType
  <2>2. estimated(c) = cost
    BY <1>1 DEF estimated
  <2>3. decide(cfg, st, c)[1] = "ALLOW"
    BY DEF LlmVerdict
  <2> HIDE DEF cfg, st, c
  <2>4. QED
    BY <1>1, <2>1, <2>2, <2>3, AutomaticAllowFits
<1>3. QED
  BY <1>1, <1>2, RemainingType

\* A tool call that decide() allows is not yet at the ceiling of repeats.
LEMMA ToolAllowIsNew ==
  ASSUME NEW key \in Key, NEW count \in Nat,
         ToolVerdict(key, effective_count(key, count))[1] = "ALLOW"
  PROVE  count < MaxRepeat
<1>1. /\ MaxRepeat \in Nat /\ MaxRepeat # Nil
      /\ effective_count(key, count) \in Nat /\ effective_count(key, count) # Nil
      /\ effective_count(key, count) >= count
  BY GuardAssumption, NilAssumption DEF effective_count
<1>2. ~(effective_count(key, count) >= MaxRepeat)
  BY <1>1, RepeatedIsNotAllowed DEF ToolVerdict
<1>3. QED
  BY <1>1, <1>2

-----------------------------------------------------------------------------
(***************************************************************************)
(* Type correctness.                                                       *)
(***************************************************************************)
\* Going from one phase to another keeps the types of at and call.
LEMMA GoType ==
  ASSUME TypeOK, NEW t \in Thread, NEW phase \in Phase, NEW c \in Key \cup CallId \cup {Nil},
         Go(t, phase, c),
         phase \in {"tool", "running", "ask_tool"} => c \in Key,
         phase \in {"gate", "bypass", "ask_gate"} => c \in CallId
  PROVE  /\ at' \in [Thread -> Phase]
         /\ call' \in [Thread -> Key \cup CallId \cup {Nil}]
         /\ \A u \in Thread :
              /\ at'[u] \in {"tool", "running", "ask_tool"} => call'[u] \in Key
              /\ at'[u] \in {"gate", "bypass", "ask_gate"} => call'[u] \in CallId
BY DEF Go, TypeOK

\* What evaluate_llm_call leaves booked is an amount of money.
LEMMA BookedType ==
  ASSUME TypeOK, NEW cost \in Cost, NEW raises, evaluate_llm_call(cost, raises)
  PROVE  total_cost' \in Nat
BY GuardAssumption DEF evaluate_llm_call, TypeOK

\* Letting a call go keeps the type of the history.
LEMMA LetGoType ==
  ASSUME TypeOK, NEW t \in Thread, LetGo(t)
  PROVE  afterLatch' \in [Thread -> Nat]
BY DEF LetGo, TypeOK

\* The initial state is well typed.
LEMMA InitType == Init => TypeOK
<1> SUFFICES ASSUME Init PROVE TypeOK
  OBVIOUS
<1>1. total_tool_calls \in 0..MaxCalls /\ elapsed \in 0..MaxClock
  BY GuardAssumption DEF Init
<1>2. at \in [Thread -> Phase] /\ call \in [Thread -> Key \cup CallId \cup {Nil}]
  BY DEF Init, Phase
<1>3. \A t \in Thread : at[t] = "idle"
  BY DEF Init
<1>4. /\ tool_history \in [Key -> Nat] /\ autoRuns \in [Key -> Nat]
      /\ afterLatch \in [Thread -> Nat]
  BY DEF Init
<1>5. QED
  BY <1>1, <1>2, <1>3, <1>4 DEF Init, TypeOK

\* Every step keeps the types.
LEMMA NextType == TypeOK /\ [Next]_vars => TypeOK'
<1> SUFFICES ASSUME TypeOK, [Next]_vars PROVE TypeOK'
  OBVIOUS
<1> USE DEF state, history
<1>1. ASSUME NEW t \in Thread, NEW key \in Key, ToolStart(t, key) PROVE TypeOK'
  BY <1>1, GoType, Zenon DEF ToolStart, TypeOK, Phase
<1>2. ASSUME NEW t \in Thread, evaluate_tool_call(t) PROVE TypeOK'
  <2>1. call[t] \in Key
    BY <1>2 DEF evaluate_tool_call, TypeOK
  <2>2. total_tool_calls' \in 0..MaxCalls
    BY <1>2, GuardAssumption DEF evaluate_tool_call, TypeOK
  <2>3. tool_history' \in [Key -> Nat]
    BY <1>2, <2>1 DEF evaluate_tool_call, TypeOK
  <2>4. /\ Go(t, "ask_tool", call[t]) \/ Go(t, "running", call[t])
        /\ UNCHANGED afterLatch \/ LetGo(t)
    BY <1>2, Zenon DEF evaluate_tool_call
  <2>5. autoRuns' \in [Key -> Nat] /\ autoTotal' \in Nat /\ spend' \in Nat
    BY <1>2, <2>1 DEF evaluate_tool_call, TypeOK
  <2>6. /\ at' \in [Thread -> Phase]
        /\ call' \in [Thread -> Key \cup CallId \cup {Nil}]
        /\ \A u \in Thread :
             /\ at'[u] \in {"tool", "running", "ask_tool"} => call'[u] \in Key
             /\ at'[u] \in {"gate", "bypass", "ask_gate"} => call'[u] \in CallId
    BY <2>1, <2>4, GoType DEF Phase, Asked
  <2>7. afterLatch' \in [Thread -> Nat]
    BY <2>4, LetGoType DEF TypeOK
  <2>8. QED
    BY <1>2, <2>2, <2>3, <2>5, <2>6, <2>7 DEF evaluate_tool_call, TypeOK
<1>3. ASSUME NEW t \in Thread, ToolDone(t) PROVE TypeOK'
  BY <1>3, GoType, Zenon DEF ToolDone, TypeOK, Phase
<1>4. ASSUME NEW t \in Thread, LlmStart(t) PROVE TypeOK'
  BY <1>4, GoType, Zenon DEF LlmStart, TypeOK, Phase
<1>5. ASSUME NEW t \in Thread, LlmFail(t) PROVE TypeOK'
  <2>1. bypass_call_ids' \subseteq CallId
    BY <1>5 DEF LlmFail, TypeOK
  <2>2. QED
    BY <1>5, <2>1, GoType, Zenon DEF LlmFail, TypeOK, Phase
<1>6. ASSUME NEW t \in Thread, NEW cost \in Cost, LlmReturn(t, cost) PROVE TypeOK'
  <2>1. total_cost' \in Nat /\ spend' \in Nat
    BY <1>6, BookedType, GuardAssumption DEF LlmReturn, TypeOK
  <2>2. \E p \in {"ask_llm", "idle"} : Go(t, p, Nil)
    BY <1>6 DEF LlmReturn
  <2>3. QED
    BY <1>6, <2>1, <2>2, GoType, Zenon DEF LlmReturn, TypeOK, Phase, Asked
<1>7. ASSUME NEW t \in Thread, NEW id \in CallId, GateStart(t, id) PROVE TypeOK'
  BY <1>7, GoType, Zenon DEF GateStart, TypeOK, Phase
<1>8. ASSUME NEW t \in Thread, precheck_llm_call(t) PROVE TypeOK'
  <2>1. call[t] \in CallId
    BY <1>8 DEF precheck_llm_call, TypeOK
  <2>2. /\ \/ Go(t, "bypass", call[t]) \/ Go(t, "idle", Nil) \/ Go(t, "ask_gate", call[t])
        /\ UNCHANGED afterLatch \/ LetGo(t)
        /\ bypass_call_ids' \subseteq CallId
    BY <1>8, <2>1 DEF precheck_llm_call, SendGated, Raise, TypeOK
  <2>3. /\ pending_interrupt' \in Thread \cup {Accountant, Nil}
        /\ circuit_tripped' \in BOOLEAN
        /\ scope' \in {"live", "returned", "failed", "aborted"}
    BY <1>8 DEF precheck_llm_call, SendGated, Raise, latch_interrupt, TypeOK
  <2>4. afterLatch' \in [Thread -> Nat]
    BY <2>2, LetGoType DEF TypeOK
  <2>5. /\ at' \in [Thread -> Phase]
        /\ call' \in [Thread -> Key \cup CallId \cup {Nil}]
        /\ \A u \in Thread :
             /\ at'[u] \in {"tool", "running", "ask_tool"} => call'[u] \in Key
             /\ at'[u] \in {"gate", "bypass", "ask_gate"} => call'[u] \in CallId
    BY <2>1, <2>2, GoType DEF Phase, Asked
  <2>6. QED
    BY <1>8, <2>2, <2>3, <2>4, <2>5 DEF precheck_llm_call, TypeOK
<1>9. ASSUME NEW t \in Thread, NEW cost \in Cost, BypassReturn(t, cost) PROVE TypeOK'
  <2>1. call[t] \in CallId
    BY <1>9 DEF BypassReturn, TypeOK
  <2>2. due' \subseteq [id : CallId, cost : Cost]
    BY <1>9, <2>1 DEF BypassReturn, TypeOK
  <2>3. spend' \in Nat
    BY <1>9, GuardAssumption DEF BypassReturn, TypeOK
  <2>4. QED
    BY <1>9, <2>2, <2>3, GoType, Zenon DEF BypassReturn, TypeOK, Phase
<1>10. ASSUME NEW d \in due, Account(d) PROVE TypeOK'
  <2>1. d.cost \in Cost
    BY DEF TypeOK
  <2>2. total_cost' \in Nat
    BY <1>10, <2>1, BookedType DEF Account, TypeOK
  <2>3. latching' \in BOOLEAN /\ bypass_call_ids' \subseteq CallId
        /\ due' \subseteq [id : CallId, cost : Cost]
    BY <1>10 DEF Account, TypeOK
  <2>4. QED
    BY <1>10, <2>2, <2>3 DEF Account, TypeOK
<1>11. CASE AccountLatch
  BY <1>11 DEF AccountLatch, latch_interrupt, TypeOK
<1>12. ASSUME NEW t \in Thread, Abort(t) PROVE TypeOK'
  <2>1. /\ pending_interrupt' \in Thread \cup {Accountant, Nil}
        /\ circuit_tripped' \in BOOLEAN
        /\ scope' \in {"live", "returned", "failed", "aborted"}
        /\ Go(t, "idle", Nil)
    BY <1>12 DEF Abort, latch_interrupt, Raise, TypeOK
  <2>2. QED
    BY <1>12, <2>1, GoType, Zenon DEF Abort, TypeOK, Phase
<1>13. ASSUME NEW t \in Thread, Resume(t) PROVE TypeOK'
  <2>1. /\ tool_history' \in [Key -> Nat] /\ autoRuns' \in [Key -> Nat]
        /\ total_cost' \in Nat /\ spend' \in Nat
    BY <1>13 DEF Resume, TypeOK
  <2>2. /\ \/ call[t] \in Key /\ Go(t, "running", call[t])
           \/ Go(t, "idle", Nil)
           \/ call[t] \in CallId /\ Go(t, "bypass", call[t])
        /\ UNCHANGED afterLatch \/ LetGo(t)
        /\ bypass_call_ids' \subseteq CallId
    BY <1>13 DEF Resume, SendGated, TypeOK
  <2>3. afterLatch' \in [Thread -> Nat]
    BY <2>2, LetGoType DEF TypeOK
  <2>4. /\ at' \in [Thread -> Phase]
        /\ call' \in [Thread -> Key \cup CallId \cup {Nil}]
        /\ \A u \in Thread :
             /\ at'[u] \in {"tool", "running", "ask_tool"} => call'[u] \in Key
             /\ at'[u] \in {"gate", "bypass", "ask_gate"} => call'[u] \in CallId
    BY <2>2, GoType DEF Phase
  <2>5. circuit_tripped' \in BOOLEAN
    BY <1>13 DEF Resume
  <2>6. QED
    BY <1>13, <2>1, <2>2, <2>3, <2>4, <2>5 DEF Resume, TypeOK
<1>14. ASSUME NEW t \in Thread, Skip(t) PROVE TypeOK'
  <2>1. /\ Go(t, "idle", Nil) \/ (call[t] \in CallId /\ Go(t, "bypass", call[t]))
        /\ UNCHANGED afterLatch \/ LetGo(t)
        /\ bypass_call_ids' \subseteq CallId
    BY <1>14 DEF Skip, SendGated, TypeOK
  <2>2. afterLatch' \in [Thread -> Nat]
    BY <2>1, LetGoType DEF TypeOK
  <2>3. /\ at' \in [Thread -> Phase]
        /\ call' \in [Thread -> Key \cup CallId \cup {Nil}]
        /\ \A u \in Thread :
             /\ at'[u] \in {"tool", "running", "ask_tool"} => call'[u] \in Key
             /\ at'[u] \in {"gate", "bypass", "ask_gate"} => call'[u] \in CallId
    BY <2>1, GoType DEF Phase
  <2>4. QED
    BY <1>14, <2>1, <2>2, <2>3 DEF Skip, TypeOK
<1>15. CASE End
  BY <1>15 DEF End, TypeOK
<1>16. CASE Tick
  BY <1>16, GuardAssumption DEF Tick, TypeOK
<1>17. CASE UNCHANGED vars
  BY <1>17 DEF vars, TypeOK
<1>18. QED
  BY <1>1, <1>2, <1>3, <1>4, <1>5, <1>6, <1>7, <1>8, <1>9, <1>10, <1>11, <1>12,
     <1>13, <1>14, <1>15, <1>16, <1>17, Zenon DEF Next
-----------------------------------------------------------------------------
(***************************************************************************)
(* The safety invariants.                                                  *)
(***************************************************************************)
\* Every unattended run was counted when it was evaluated, both in the history of
\* its key and in the total: this is what makes LoopBound inductive.
RunsAreCounted ==
  /\ \A k \in Key : autoRuns[k] <= tool_history[k]
  /\ autoTotal <= total_tool_calls

\* Before the latch nothing is counted against it, and a thread that has let a
\* call go since is in that call, or has finished and will start no other: this
\* is what makes OneLastCall inductive.
LastCallIsLast ==
  \A t \in Thread :
    /\ ~latched => afterLatch[t] = 0
    /\ afterLatch[t] # 0 => at[t] \in {"running", "bypass", "idle"}

IInv ==
  TypeOK /\ BookedWithinBudget /\ LoopBound /\ RunsAreCounted /\ OneLastCall /\ LastCallIsLast

\* The invariant holds when the scope is entered.
LEMMA InitIInv == Init => IInv
<1> SUFFICES ASSUME Init PROVE IInv
  OBVIOUS
<1>1. TypeOK
  BY InitType
<1>2. BookedWithinBudget /\ LoopBound /\ RunsAreCounted /\ OneLastCall /\ LastCallIsLast
  BY GuardAssumption DEF Init, BookedWithinBudget, LoopBound, RunsAreCounted, OneLastCall,
     LastCallIsLast
<1>3. QED
  BY <1>1, <1>2 DEF IInv

\* evaluate_llm_call never books past the budget.
LEMMA BookingFits ==
  ASSUME TypeOK, BookedWithinBudget, NEW cost \in Cost, NEW raises,
         evaluate_llm_call(cost, raises)
  PROVE  BookedWithinBudget'
<1> SUFFICES ASSUME Budget > 0 PROVE total_cost' <= Budget
  BY DEF BookedWithinBudget
<1>1. PICK v \in Consulted(FaultyOutcome, LlmVerdict(cost)) :
        total_cost' = IF v[1] = "ALLOW" THEN total_cost + cost ELSE total_cost
  BY DEF evaluate_llm_call
<1>2. CASE v[1] = "ALLOW"
  <2>1. LlmVerdict(cost)[1] = "ALLOW"
    BY <1>2, ConsultedAllows, FaultyAssumption
  <2>2. QED
    BY <1>1, <1>2, <2>1, LlmAllowFits DEF TypeOK
<1>3. CASE v[1] # "ALLOW"
  BY <1>1, <1>3 DEF BookedWithinBudget
<1>4. QED
  BY <1>2, <1>3

\* BookedWithinBudget is inductive given the types.
LEMMA NextBooked == TypeOK /\ BookedWithinBudget /\ [Next]_vars => BookedWithinBudget'
<1> SUFFICES ASSUME TypeOK, BookedWithinBudget, [Next]_vars PROVE BookedWithinBudget'
  OBVIOUS
<1>1. ASSUME NEW t \in Thread, NEW cost \in Cost, LlmReturn(t, cost) PROVE BookedWithinBudget'
  BY <1>1, BookingFits DEF LlmReturn
<1>2. ASSUME NEW d \in due, Account(d) PROVE BookedWithinBudget'
  <2>1. d.cost \in Cost
    BY DEF TypeOK
  <2>2. CASE UNCHANGED total_cost
    BY <2>2 DEF BookedWithinBudget
  <2>3. QED
    BY <1>2, <2>1, <2>2, BookingFits DEF Account
<1>3. ASSUME NEW t \in Thread, Resume(t) PROVE BookedWithinBudget'
  BY <1>3, GuardAssumption DEF Resume, BookedWithinBudget
<1>4. CASE UNCHANGED total_cost
  BY <1>4 DEF BookedWithinBudget
<1>5. QED
  BY <1>1, <1>2, <1>3, <1>4
     DEF Next, vars, state, ToolStart, evaluate_tool_call, ToolDone, LlmStart, LlmFail,
         precheck_llm_call, BypassReturn, GateStart, Abort, Skip, AccountLatch, End, Tick

\* LoopBound is inductive with RunsAreCounted.
LEMMA NextLoop ==
  TypeOK /\ LoopBound /\ RunsAreCounted /\ [Next]_vars => LoopBound' /\ RunsAreCounted'
<1> SUFFICES ASSUME TypeOK, LoopBound, RunsAreCounted, [Next]_vars
             PROVE  LoopBound' /\ RunsAreCounted'
  OBVIOUS
<1>1. ASSUME NEW t \in Thread, evaluate_tool_call(t) PROVE LoopBound' /\ RunsAreCounted'
  <2> DEFINE key   == call[t]
             count == tool_history[key] + 1
  <2>1. key \in Key /\ count \in Nat /\ total_tool_calls' = total_tool_calls + 1
    BY <1>1 DEF evaluate_tool_call, TypeOK
  <2>2. CASE UNCHANGED <<autoRuns, autoTotal>>
    <3>1. \A k \in Key : tool_history[k] <= tool_history'[k]
      BY <1>1, <2>1 DEF evaluate_tool_call, TypeOK
    <3>2. \A k \in Key : tool_history'[k] \in Nat
      BY <1>1, <2>1 DEF evaluate_tool_call, TypeOK
    <3>3. QED
      BY <2>1, <2>2, <3>1, <3>2 DEF LoopBound, RunsAreCounted, TypeOK
  <2>3. CASE ~UNCHANGED <<autoRuns, autoTotal>>
    <3>1. PICK v \in Consulted(FaultyOutcome, ToolVerdict(key, effective_count(key, count))) :
            /\ v[1] = "ALLOW" /\ total_tool_calls + 1 < MaxToolCalls
            /\ tool_history' = [tool_history EXCEPT ![key] = count]
            /\ autoRuns' = [autoRuns EXCEPT ![key] = @ + 1]
            /\ autoTotal' = autoTotal + 1
      BY <1>1, <2>3, Zenon DEF evaluate_tool_call, history
    <3>2. count < MaxRepeat
      BY <2>1, <3>1, ConsultedAllows, FaultyAssumption, ToolAllowIsNew
    <3>3. \A k \in Key : autoRuns'[k] <= tool_history'[k]
      BY <2>1, <3>1 DEF RunsAreCounted, TypeOK
    <3>4. autoRuns'[key] <= count
      BY <2>1, <3>1 DEF RunsAreCounted, TypeOK
    <3>5. \A k \in Key : autoRuns'[k] < MaxRepeat \/ autoRuns'[k] = 0
      BY <2>1, <3>1, <3>2, <3>4, GuardAssumption DEF LoopBound, TypeOK
    <3>6. autoTotal' <= total_tool_calls' /\ autoTotal' < MaxToolCalls
      BY <2>1, <3>1, GuardAssumption DEF RunsAreCounted, TypeOK
    <3>7. QED
      BY <3>3, <3>5, <3>6 DEF LoopBound, RunsAreCounted
  <2>4. QED
    BY <2>2, <2>3
<1>2. ASSUME NEW t \in Thread, Resume(t) PROVE LoopBound' /\ RunsAreCounted'
  <2>1. \A k \in Key :
          \/ autoRuns'[k] = 0 /\ tool_history'[k] = 0
          \/ autoRuns'[k] = autoRuns[k] /\ tool_history'[k] = tool_history[k]
    <3>1. \/ tool_history' = [k \in Key |-> 0] /\ autoRuns' = [k \in Key |-> 0]
          \/ tool_history' = tool_history /\ autoRuns' = autoRuns
      BY <1>2, Zenon DEF Resume
    <3>2. QED
      BY <3>1
  <2>2. autoTotal' = autoTotal /\ total_tool_calls' = total_tool_calls
    BY <1>2 DEF Resume
  <2>3. QED
    BY <2>1, <2>2 DEF LoopBound, RunsAreCounted, TypeOK
<1>3. CASE UNCHANGED <<autoRuns, autoTotal, tool_history, total_tool_calls>>
  BY <1>3 DEF LoopBound, RunsAreCounted
<1>4. QED
  BY <1>1, <1>2, <1>3
     DEF Next, vars, state, history, ToolStart, ToolDone, LlmStart, LlmReturn, LlmFail,
         precheck_llm_call, BypassReturn, GateStart, Abort, Skip, Account, AccountLatch,
         End, Tick
\* A thread that moves without letting a call go, and does not begin one after
\* the latch, keeps OneLastCall.
LEMMA MoveKeepsLast ==
  ASSUME TypeOK, OneLastCall, LastCallIsLast,
         NEW t \in Thread, NEW phase, NEW c, Go(t, phase, c),
         UNCHANGED afterLatch, latched => latched',
         phase = "idle" \/ ~latched \/ at[t] \notin {"running", "bypass", "idle"}
  PROVE  OneLastCall' /\ LastCallIsLast'
<1>1. at' = [at EXCEPT ![t] = phase]
  BY DEF Go
<1>2. OneLastCall'
  BY DEF OneLastCall
<1>3. LastCallIsLast'
  BY <1>1 DEF LastCallIsLast, TypeOK
<1>4. QED
  BY <1>2, <1>3

\* Nor does a call that is let go by a hook it was waiting in.
LEMMA LetGoKeepsLast ==
  ASSUME TypeOK, OneLastCall, LastCallIsLast,
         NEW t \in Thread, NEW phase \in {"running", "bypass"}, NEW c, Go(t, phase, c),
         LetGo(t), UNCHANGED pending_interrupt,
         at[t] \notin {"running", "bypass", "idle"}
  PROVE  OneLastCall' /\ LastCallIsLast'
<1>1. /\ at' = [at EXCEPT ![t] = phase]
      /\ afterLatch' = [afterLatch EXCEPT ![t] = IF latched THEN @ + 1 ELSE @]
      /\ latched' = latched
  BY DEF Go, LetGo, latched
<1>2. afterLatch[t] = 0
  BY DEF LastCallIsLast
<1>3. OneLastCall'
  BY <1>1, <1>2 DEF OneLastCall, TypeOK
<1>4. LastCallIsLast'
  BY <1>1, <1>2 DEF LastCallIsLast, TypeOK
<1>5. QED
  BY <1>3, <1>4

\* Once an interrupt is latched it stays, and it is the first one.
LEMMA LatchStays ==
  ASSUME [Next]_vars, latched
  PROVE  pending_interrupt' = pending_interrupt
<1>1. ASSUME NEW who, latch_interrupt(who) PROVE pending_interrupt' = pending_interrupt
  BY <1>1 DEF latch_interrupt
<1>2. ASSUME NEW t \in Thread, precheck_llm_call(t) PROVE pending_interrupt' = pending_interrupt
  BY <1>1, <1>2 DEF precheck_llm_call
<1>3. ASSUME NEW t \in Thread, Abort(t) PROVE pending_interrupt' = pending_interrupt
  BY <1>1, <1>3 DEF Abort
<1>4. CASE AccountLatch
  BY <1>1, <1>4 DEF AccountLatch
<1>5. QED
  BY <1>2, <1>3, <1>4
     DEF Next, vars, state, ToolStart, evaluate_tool_call, ToolDone, LlmStart, LlmReturn,
         LlmFail, BypassReturn, GateStart, Resume, Skip, Account, End, Tick

\* OneLastCall is inductive with LastCallIsLast.
LEMMA NextLast ==
  TypeOK /\ OneLastCall /\ LastCallIsLast /\ [Next]_vars => OneLastCall' /\ LastCallIsLast'
<1> SUFFICES ASSUME TypeOK, OneLastCall, LastCallIsLast, [Next]_vars
             PROVE  OneLastCall' /\ LastCallIsLast'
  OBVIOUS
<1>l. latched => latched'
  BY LatchStays DEF latched
<1> USE DEF history
<1>1. ASSUME NEW t \in Thread, NEW key \in Key, ToolStart(t, key)
      PROVE  OneLastCall' /\ LastCallIsLast'
  BY <1>1, <1>l, MoveKeepsLast DEF ToolStart, deny_if_latched
<1>2. ASSUME NEW t \in Thread, evaluate_tool_call(t) PROVE OneLastCall' /\ LastCallIsLast'
  <2>1. /\ at[t] = "tool" /\ UNCHANGED pending_interrupt
        /\ \/ Go(t, "ask_tool", call[t]) /\ UNCHANGED afterLatch
           \/ Go(t, "running", call[t]) /\ LetGo(t)
    BY <1>2 DEF evaluate_tool_call
  <2>2. QED
    BY <1>l, <2>1, MoveKeepsLast, LetGoKeepsLast
<1>3. ASSUME NEW t \in Thread, ToolDone(t) PROVE OneLastCall' /\ LastCallIsLast'
  BY <1>3, <1>l, MoveKeepsLast DEF ToolDone
<1>4. ASSUME NEW t \in Thread, LlmStart(t) PROVE OneLastCall' /\ LastCallIsLast'
  BY <1>4, <1>l, MoveKeepsLast DEF LlmStart, deny_if_latched
<1>5. ASSUME NEW t \in Thread, LlmFail(t) PROVE OneLastCall' /\ LastCallIsLast'
  BY <1>5, <1>l, MoveKeepsLast DEF LlmFail
<1>6. ASSUME NEW t \in Thread, NEW cost \in Cost, LlmReturn(t, cost)
      PROVE  OneLastCall' /\ LastCallIsLast'
  <2>1. \E p \in {"ask_llm", "idle"} : Go(t, p, Nil)
    BY <1>6 DEF LlmReturn
  <2>2. at[t] = "llm" /\ UNCHANGED afterLatch
    BY <1>6 DEF LlmReturn
  <2>3. QED
    BY <1>l, <2>1, <2>2, MoveKeepsLast
<1>7. ASSUME NEW t \in Thread, NEW id \in CallId, GateStart(t, id)
      PROVE  OneLastCall' /\ LastCallIsLast'
  BY <1>7, <1>l, MoveKeepsLast DEF GateStart, deny_if_latched
<1>8. ASSUME NEW t \in Thread, precheck_llm_call(t) PROVE OneLastCall' /\ LastCallIsLast'
  <2>1. /\ at[t] = "gate"
        /\ \/ Go(t, "bypass", call[t]) /\ LetGo(t) /\ UNCHANGED pending_interrupt
           \/ \E p \in {"idle", "ask_gate"}, c \in {Nil, call[t]} :
                Go(t, p, c) /\ UNCHANGED afterLatch
    BY <1>8 DEF precheck_llm_call, SendGated, Raise
  <2>2. QED
    BY <1>l, <2>1, MoveKeepsLast, LetGoKeepsLast
<1>9. ASSUME NEW t \in Thread, NEW cost \in Cost, BypassReturn(t, cost)
      PROVE  OneLastCall' /\ LastCallIsLast'
  BY <1>9, <1>l, MoveKeepsLast DEF BypassReturn
<1>10. ASSUME NEW t \in Thread, Abort(t) PROVE OneLastCall' /\ LastCallIsLast'
  BY <1>10, <1>l, MoveKeepsLast DEF Abort, Raise
<1>11. ASSUME NEW t \in Thread, Resume(t) PROVE OneLastCall' /\ LastCallIsLast'
  <2>1. /\ at[t] \in Asked /\ UNCHANGED pending_interrupt
        /\ \/ Go(t, "idle", Nil) /\ UNCHANGED afterLatch
           \/ \E p \in {"running", "bypass"} : Go(t, p, call[t]) /\ LetGo(t)
    BY <1>11 DEF Resume, SendGated
  <2>2. QED
    BY <1>l, <2>1, MoveKeepsLast, LetGoKeepsLast DEF Asked
<1>12. ASSUME NEW t \in Thread, Skip(t) PROVE OneLastCall' /\ LastCallIsLast'
  <2>1. /\ at[t] \in Asked /\ UNCHANGED pending_interrupt
        /\ \/ Go(t, "idle", Nil) /\ UNCHANGED afterLatch
           \/ Go(t, "bypass", call[t]) /\ LetGo(t)
    BY <1>12 DEF Skip, SendGated
  <2>2. QED
    BY <1>l, <2>1, MoveKeepsLast, LetGoKeepsLast DEF Asked
<1>13. CASE UNCHANGED <<at, afterLatch>>
  BY <1>13, <1>l DEF OneLastCall, LastCallIsLast
<1>14. QED
  BY <1>1, <1>2, <1>3, <1>4, <1>5, <1>6, <1>7, <1>8, <1>9, <1>10, <1>11, <1>12, <1>13
     DEF Next, vars, Account, AccountLatch, End, Tick

\* The invariant holds in every state of the scope.
LEMMA SpecIInv == Spec => []IInv
<1>1. IInv /\ [Next]_vars => IInv'
  BY NextType, NextBooked, NextLoop, NextLast DEF IInv
<1>2. QED
  BY <1>1, InitIInv, PTL DEF Spec

\* Every variable keeps its type.
THEOREM TypeCorrect == Spec => []TypeOK
<1>1. IInv => TypeOK
  BY DEF IInv
<1>2. QED
  BY <1>1, SpecIInv, PTL

\* evaluate_llm_call under the state's lock: however many threads, tasks and
\* callbacks book money, what is booked stays within the budget.
THEOREM BookedStaysWithinBudget == Spec => []BookedWithinBudget
<1>1. IInv => BookedWithinBudget
  BY DEF IInv
<1>2. QED
  BY <1>1, SpecIInv, PTL

\* evaluate_tool_call: the two ceilings on unattended calls hold on any number of
\* threads, whatever a broken decision function returns and an operator answers.
THEOREM LoopsAreBounded == Spec => []LoopBound
<1>1. IInv => LoopBound
  BY DEF IInv
<1>2. QED
  BY <1>1, SpecIInv, PTL

\* The latch of core.py:129-133: after it, a thread lets at most one call go.
THEOREM OneCallAfterTheLatch == Spec => []LatchInv
<1>1. IInv => LatchInv
  BY DEF IInv, LatchInv
<1>2. QED
  BY <1>1, SpecIInv, PTL

\* latch_interrupt keeps the first interrupt for good.
THEOREM FirstInterruptIsKept == Spec => FirstInterruptKept
<1>1. [Next]_vars => [latched => pending_interrupt' = pending_interrupt]_vars
  BY LatchStays
<1>2. QED
  BY <1>1, PTL DEF Spec, FirstInterruptKept
-----------------------------------------------------------------------------
(***************************************************************************)
(* Pressure never loosens a verdict.                                       *)
(***************************************************************************)
\* The three arguments evaluate_tool_call and evaluate_llm_call give decide().
ToolConfig == [budget_usd |-> Budget, max_repeat_calls |-> MaxRepeat,
               hitl_mode |-> Nil, hitl_budget_threshold |-> Nil]
ToolState(key, count) ==
  [budget_initial_usd |-> Budget, budget_remaining_usd |-> pre_remaining,
   circuit_tripped |-> circuit_tripped, seen_nonces |-> {},
   repeat_count |-> count, last_tool_name |-> key.tool, pending_transition |-> Nil]
ToolCall(key) ==
  [tool_name |-> key.tool, nonce |-> Nil, opaque |-> key.input \in OpaqueInput,
   digest |-> IF key.input \in MalformedInput THEN Bad ELSE key.input,
   estimated_cost_usd |-> 0]
LlmConfig == [budget_usd |-> Budget, max_repeat_calls |-> Nil,
              hitl_mode |-> Nil, hitl_budget_threshold |-> Nil]
LlmState ==
  [budget_initial_usd |-> Budget, budget_remaining_usd |-> pre_remaining,
   circuit_tripped |-> FALSE, seen_nonces |-> {}, repeat_count |-> Nil,
   last_tool_name |-> Nil, pending_transition |-> Nil]
LlmCall(cost) ==
  [tool_name |-> "model", nonce |-> Nil, opaque |-> FALSE, digest |-> "empty",
   estimated_cost_usd |-> cost]

NextCount(key) == effective_count(key, tool_history[key] + 1)

\* Without a Resume a step only adds to what was spent, counted and tripped.
LEMMA StepsAddPressure ==
  ASSUME TypeOK, TypeOK', [Next]_vars, \A t \in Thread : ~Resume(t)
  PROVE  /\ total_cost <= total_cost'
         /\ circuit_tripped => circuit_tripped'
         /\ \A k \in Key : tool_history[k] <= tool_history'[k]
<1>1. total_cost <= total_cost'
  <2>1. ASSUME NEW cost \in Cost, NEW raises, evaluate_llm_call(cost, raises)
        PROVE  total_cost <= total_cost'
    BY <2>1, GuardAssumption DEF evaluate_llm_call, TypeOK
  <2>2. ASSUME NEW t \in Thread, NEW cost \in Cost, LlmReturn(t, cost)
        PROVE  total_cost <= total_cost'
    BY <2>1, <2>2 DEF LlmReturn
  <2>3. ASSUME NEW d \in due, Account(d) PROVE total_cost <= total_cost'
    <3>1. d.cost \in Cost
      BY DEF TypeOK
    <3>2. QED
      BY <2>1, <2>3, <3>1 DEF Account, TypeOK
  <2>4. CASE UNCHANGED total_cost
    BY <2>4 DEF TypeOK
  <2>5. QED
    BY <2>2, <2>3, <2>4
       DEF Next, vars, state, ToolStart, evaluate_tool_call, ToolDone, LlmStart, LlmFail,
           precheck_llm_call, BypassReturn, GateStart, Abort, Skip, AccountLatch, End, Tick
<1>2. circuit_tripped => circuit_tripped'
  <2>1. ASSUME NEW t \in Thread, precheck_llm_call(t) PROVE circuit_tripped => circuit_tripped'
    BY <2>1 DEF precheck_llm_call, latch_interrupt
  <2>2. QED
    BY <2>1
       DEF Next, vars, state, ToolStart, evaluate_tool_call, ToolDone, LlmStart, LlmFail,
           LlmReturn, BypassReturn, GateStart, Abort, Skip, Account, AccountLatch, End, Tick,
           latch_interrupt
<1>3. ASSUME NEW k \in Key PROVE tool_history[k] <= tool_history'[k]
  <2>1. ASSUME NEW t \in Thread, evaluate_tool_call(t) PROVE tool_history[k] <= tool_history'[k]
    <3>1. \/ tool_history' = tool_history
          \/ tool_history' = [tool_history EXCEPT ![call[t]] = tool_history[call[t]] + 1]
      BY <2>1, Zenon DEF evaluate_tool_call
    <3>2. QED
      BY <3>1 DEF TypeOK
  <2>2. CASE UNCHANGED tool_history
    BY <2>2 DEF TypeOK
  <2>3. QED
    BY <2>1, <2>2
       DEF Next, vars, state, ToolStart, ToolDone, LlmStart, LlmFail, LlmReturn,
           precheck_llm_call, BypassReturn, GateStart, Abort, Skip, Account, AccountLatch,
           End, Tick
<1>4. QED
  BY <1>1, <1>2, <1>3

\* An identical call counts at least as much after more of them.
LEMMA CountGrows ==
  ASSUME NEW k \in Key, NEW m \in Nat, NEW n \in Nat, m <= n
  PROVE  /\ effective_count(k, m) \in Nat /\ effective_count(k, n) \in Nat
         /\ effective_count(k, m) <= effective_count(k, n)
BY DEF effective_count

\* What is left never grows back without a Resume.
LEMMA RemainingShrinks ==
  ASSUME TypeOK, TypeOK', total_cost <= total_cost'
  PROVE  pre_remaining \in Nat /\ pre_remaining' \in Nat /\ pre_remaining' <= pre_remaining
<1> DEFINE Left(cost) == IF Budget > cost THEN Budget - cost ELSE 0
<1>1. total_cost \in Nat /\ total_cost' \in Nat /\ Budget \in Nat
  BY GuardAssumption DEF TypeOK
<1>2. pre_remaining = Left(total_cost) /\ pre_remaining' = Left(total_cost')
  BY DEF pre_remaining
<1>3. ASSUME NEW m \in Nat, NEW n \in Nat, m <= n
      PROVE  Left(m) \in Nat /\ Left(n) \in Nat /\ Left(n) <= Left(m)
  BY <1>1, <1>3
<1>4. QED
  BY <1>1, <1>2, <1>3

\* decide()'s precedence and the counters of core.py together: unless an operator
\* resumes, no call becomes more acceptable as a run goes on.
THEOREM PressureOnlyTightens == Spec => PressureNeverLoosens
<1>1. ASSUME TypeOK, TypeOK', [Next]_vars, \A t \in Thread : ~Resume(t), NEW k \in Key
      PROVE  Rank(ToolVerdict(k, NextCount(k))) <= Rank(ToolVerdict(k, NextCount(k)))'
  <2> DEFINE s1 == ToolState(k, NextCount(k))
             s2 == ToolState(k, NextCount(k))'
  <2>1. /\ total_cost <= total_cost'
        /\ circuit_tripped => circuit_tripped'
        /\ tool_history[k] <= tool_history'[k]
    BY <1>1, StepsAddPressure
  <2>2. /\ tool_history[k] + 1 \in Nat /\ tool_history'[k] + 1 \in Nat
        /\ tool_history[k] + 1 <= tool_history'[k] + 1
    BY <1>1, <2>1 DEF TypeOK
  <2>3. NextCount(k) \in Nat /\ NextCount(k)' \in Nat /\ NextCount(k) <= NextCount(k)'
    BY <2>2, CountGrows DEF NextCount
  <2>4. pre_remaining \in Nat /\ pre_remaining' \in Nat /\ pre_remaining' <= pre_remaining
    BY <1>1, <2>1, RemainingShrinks
  <2>b. circuit_tripped \in BOOLEAN /\ circuit_tripped' \in BOOLEAN
    BY <1>1 DEF TypeOK
  <2>5. Built(s1) /\ Built(s2)
    BY <2>b, <2>4, GuardAssumption, FS_EmptySet DEF Built, ToolState
  <2>c. s1.circuit_tripped = TRUE => s2.circuit_tripped = TRUE
    BY <2>1, <2>b DEF ToolState
  <2>6. MorePressure(s1, s2) /\ s1.seen_nonces = s2.seen_nonces
    BY <2>c, <2>3, <2>4 DEF MorePressure, ToolState
  <2>7. /\ ToolConfig.max_repeat_calls \in Nat \cup {Nil}
        /\ estimated(ToolCall(k)) \in Nat
    BY GuardAssumption, NilAssumption DEF ToolConfig, ToolCall, estimated
  <2>8. /\ ToolVerdict(k, NextCount(k)) = decide(ToolConfig, s1, ToolCall(k))
        /\ ToolVerdict(k, NextCount(k))' = decide(ToolConfig, s2, ToolCall(k))
    BY Zenon DEF ToolVerdict, ToolConfig, ToolState, ToolCall
  <2> HIDE DEF s1, s2
  <2>9. Rank(decide(ToolConfig, s1, ToolCall(k))) <= Rank(decide(ToolConfig, s2, ToolCall(k)))
    BY <2>5, <2>6, <2>7, DecideMonotone
  <2>10. QED
    BY <2>8, <2>9
<1>2. ASSUME TypeOK, TypeOK', [Next]_vars, \A t \in Thread : ~Resume(t), NEW c \in Cost
      PROVE  Rank(LlmVerdict(c)) <= Rank(LlmVerdict(c))'
  <2> DEFINE s1 == LlmState
             s2 == LlmState'
  <2>1. total_cost <= total_cost'
    BY <1>2, StepsAddPressure
  <2>2. pre_remaining \in Nat /\ pre_remaining' \in Nat /\ pre_remaining' <= pre_remaining
    BY <1>2, <2>1, RemainingShrinks
  <2>3. Built(s1) /\ Built(s2)
    BY <2>2, GuardAssumption, FS_EmptySet DEF Built, LlmState
  <2>4. MorePressure(s1, s2) /\ s1.seen_nonces = s2.seen_nonces
    BY <2>2 DEF MorePressure, LlmState
  <2>5. /\ LlmConfig.max_repeat_calls \in Nat \cup {Nil}
        /\ estimated(LlmCall(c)) \in Nat
    BY GuardAssumption, NilAssumption DEF LlmConfig, LlmCall, estimated
  <2>6. /\ LlmVerdict(c) = decide(LlmConfig, s1, LlmCall(c))
        /\ LlmVerdict(c)' = decide(LlmConfig, s2, LlmCall(c))
    BY Zenon DEF LlmVerdict, LlmConfig, LlmState, LlmCall
  <2> HIDE DEF s1, s2
  <2>7. Rank(decide(LlmConfig, s1, LlmCall(c))) <= Rank(decide(LlmConfig, s2, LlmCall(c)))
    BY <2>3, <2>4, <2>5, DecideMonotone
  <2>8. QED
    BY <2>6, <2>7
<1>3. TypeOK /\ TypeOK' /\ [Next]_vars =>
        [ (\A t \in Thread : ~Resume(t)) =>
            /\ \A k \in Key : Rank(ToolVerdict(k, NextCount(k))) <=
                              Rank(ToolVerdict(k, NextCount(k)))'
            /\ \A c \in Cost : Rank(LlmVerdict(c)) <= Rank(LlmVerdict(c))' ]_vars
  BY <1>1, <1>2
<1>4. QED
  BY <1>3, TypeCorrect, PTL DEF Spec, PressureNeverLoosens, NextCount

-----------------------------------------------------------------------------
(***************************************************************************)
(* What a headless run spends.  Nobody resumes or skips, so a thread whose *)
(* LLM call raised an interrupt is not heard of again before the latch,    *)
(* and after the latch no thread begins another call.                      *)
(***************************************************************************)
Headless == Answer = {"A"} /\ CallId = {}
Highest  == CHOOSE m \in Cost : \A c \in Cost : c <= m

Waiting == {t \in Thread : at[t] = "ask_llm"}
Sending == {t \in Thread : at[t] = "llm"}

\* What is not booked was spent by threads that wait for the answer Abort or, after
\* the latch, by threads that do not send any more.
SpendIsCounted ==
  Headless =>
    /\ ~latching
    /\ IF latched THEN spend <= Budget + Cardinality(Thread \ Sending) * Highest
       ELSE spend <= (IF Budget > 0 THEN total_cost ELSE 0) + Cardinality(Waiting) * Highest

LEMMA HighestBounds == Highest \in Nat /\ \A c \in Cost : c \in Nat /\ c <= Highest
BY GuardAssumption DEF Highest

\* More threads, more money.
LEMMA CountFacts ==
  ASSUME NEW S \in SUBSET Thread, NEW T \in SUBSET Thread, S \subseteq T
  PROVE  /\ Cardinality(S) \in Nat /\ Cardinality(T) \in Nat
         /\ Cardinality(S) * Highest \in Nat /\ Cardinality(T) * Highest \in Nat
         /\ Cardinality(S) * Highest <= Cardinality(T) * Highest
         /\ \A t \in T \ S :
              Cardinality(S) * Highest + Highest <= Cardinality(T) * Highest
<1>1. IsFiniteSet(S) /\ IsFiniteSet(T)
  BY FS_Subset, GuardAssumption
<1>2. /\ Cardinality(S) \in Nat /\ Cardinality(T) \in Nat
      /\ Cardinality(S) <= Cardinality(T)
  BY <1>1, FS_CardinalityType, FS_Subset
<1>3. \A i, j, m \in Nat : /\ i * m \in Nat
                           /\ i <= j => i * m <= j * m
                           /\ i + 1 <= j => i * m + m <= j * m
  <2>1. \A i, m \in Nat : i * m \in Nat
    OBVIOUS
  <2>2. \A i, k, m \in Nat : (i + k) * m = i * m + k * m
    OBVIOUS
  <2>3. \A i, j \in Nat : i <= j => \E k \in Nat : j = i + k
    <3> SUFFICES ASSUME NEW i \in Nat, NEW j \in Nat, i <= j PROVE \E k \in Nat : j = i + k
      OBVIOUS
    <3>1. j - i \in Nat /\ j = i + (j - i)
      OBVIOUS
    <3>2. QED
      BY <3>1
  <2>4. ASSUME NEW i \in Nat, NEW j \in Nat, NEW m \in Nat, i <= j PROVE i * m <= j * m
    <3>1. PICK k \in Nat : j = i + k
      BY <2>3, <2>4
    <3>2. j * m = i * m + k * m /\ k * m \in Nat /\ i * m \in Nat
      BY <2>1, <2>2, <3>1
    <3>3. QED
      BY <3>2
  <2>5. ASSUME NEW i \in Nat, NEW j \in Nat, NEW m \in Nat, i + 1 <= j PROVE i * m + m <= j * m
    <3>1. (i + 1) * m <= j * m
      BY <2>4, <2>5
    <3>2. (i + 1) * m = i * m + 1 * m /\ 1 * m = m
      BY <2>2
    <3>3. QED
      BY <3>1, <3>2
  <2>6. QED
    BY <2>1, <2>4, <2>5
<1>4. ASSUME NEW t \in T \ S PROVE Cardinality(S) + 1 <= Cardinality(T)
  <2>1. S \cup {t} \subseteq T /\ IsFiniteSet(S \cup {t})
    BY <1>1, FS_AddElement
  <2>2. Cardinality(S \cup {t}) = Cardinality(S) + 1
    BY <1>1, FS_AddElement
  <2>3. QED
    BY <1>1, <2>1, <2>2, FS_Subset
<1>5. QED
  BY <1>2, <1>3, <1>4, HighestBounds

\* A step that spends nothing, in which nobody starts or stops waiting before the
\* latch or sends after it.
LEMMA QuietKeepsCount ==
  ASSUME TypeOK, SpendIsCounted, Headless,
         UNCHANGED <<spend, total_cost, pending_interrupt>>, ~latching',
         ~latched => Waiting' = Waiting, latched => Sending' \subseteq Sending
  PROVE  SpendIsCounted'
<1>1. latched' = latched
  BY DEF latched
<1>2. CASE ~latched
  BY <1>1, <1>2 DEF SpendIsCounted, Headless
<1>3. CASE latched
  <2>1. Thread \ Sending \in SUBSET Thread /\ Thread \ Sending' \in SUBSET Thread
        /\ Thread \ Sending \subseteq Thread \ Sending'
    BY <1>3
  <2>2. Cardinality(Thread \ Sending) * Highest <= Cardinality(Thread \ Sending') * Highest
        /\ Cardinality(Thread \ Sending) * Highest \in Nat
        /\ Cardinality(Thread \ Sending') * Highest \in Nat
    BY <2>1, CountFacts
  <2>3. Highest' = Highest /\ Budget \in Nat /\ spend \in Nat
    BY GuardAssumption DEF TypeOK
  <2>4. QED
    BY <1>1, <1>3, <2>2, <2>3 DEF SpendIsCounted, Headless
<1>4. QED
  BY <1>2, <1>3

\* Going from a phase that is neither waiting nor sending to another is quiet.
LEMMA GoIsQuiet ==
  ASSUME TypeOK, NEW t \in Thread, NEW phase, NEW c, Go(t, phase, c)
  PROVE  /\ at[t] # "ask_llm" /\ phase # "ask_llm" => Waiting' = Waiting
         /\ phase # "llm" => Sending' = Sending \ {t}
BY DEF Go, TypeOK, Waiting, Sending

LEMMA ReturnKeepsCount ==
  ASSUME TypeOK, BookedWithinBudget, SpendIsCounted, Headless,
         NEW t \in Thread, NEW cost \in Cost, LlmReturn(t, cost)
  PROVE  SpendIsCounted'
<1>1. /\ at[t] = "llm" /\ spend' = spend + cost /\ latched' = latched /\ latching' = latching
      /\ cost \in Nat /\ cost <= Highest /\ Highest \in Nat /\ spend \in Nat /\ total_cost \in Nat
      /\ Budget \in Nat
  BY HighestBounds, GuardAssumption DEF LlmReturn, TypeOK, latched
<1>2. PICK raises \in BOOLEAN :
        evaluate_llm_call(cost, raises) /\ Go(t, IF raises THEN "ask_llm" ELSE "idle", Nil)
  BY DEF LlmReturn
<1>3. total_cost' \in {total_cost, total_cost + cost}
      /\ (~raises => total_cost' = total_cost + cost /\ total_cost' < Budget)
  <2>1. PICK v \in Consulted(FaultyOutcome, LlmVerdict(cost)) :
          /\ total_cost' = IF v[1] = "ALLOW" THEN total_cost + cost ELSE total_cost
          /\ raises = (v[1] # "ALLOW" \/ total_cost' >= Budget)
    BY <1>2 DEF evaluate_llm_call
  <2>2. ~raises => v[1] = "ALLOW" /\ ~(total_cost' >= Budget)
    BY <2>1, Zenon
  <2>3. QED
    BY <1>1, <2>1, <2>2
<1>4. Waiting' = (IF raises THEN Waiting \cup {t} ELSE Waiting) /\ Sending' = Sending \ {t}
      /\ t \notin Waiting /\ t \in Sending
  BY <1>1, <1>2 DEF Go, TypeOK, Waiting, Sending
<1>5. CASE ~latched /\ raises
  <2>1. Waiting \in SUBSET Thread /\ Waiting' \in SUBSET Thread /\ t \in Waiting' \ Waiting
        /\ Waiting \subseteq Waiting'
    BY <1>4, <1>5 DEF Waiting
  <2>2. /\ Cardinality(Waiting) * Highest + Highest <= Cardinality(Waiting') * Highest
        /\ Cardinality(Waiting) * Highest \in Nat /\ Cardinality(Waiting') * Highest \in Nat
    BY <2>1, CountFacts
  <2>3. spend <= (IF Budget > 0 THEN total_cost ELSE 0) + Cardinality(Waiting) * Highest
        /\ ~latching
    BY <1>5 DEF SpendIsCounted
  <2>4. (IF Budget > 0 THEN total_cost ELSE 0) <= (IF Budget > 0 THEN total_cost' ELSE 0)
    BY <1>1, <1>3
  <2>5. spend' <= (IF Budget > 0 THEN total_cost' ELSE 0) + Cardinality(Waiting') * Highest
    BY <1>1, <1>3, <2>2, <2>3, <2>4
  <2>6. QED
    BY <1>1, <1>5, <2>3, <2>5 DEF SpendIsCounted
<1>6. CASE ~latched /\ ~raises
  <2>1. Budget > 0 /\ total_cost' = total_cost + cost /\ Waiting' = Waiting
    BY <1>1, <1>3, <1>4, <1>6
  <2>2. Cardinality(Waiting) * Highest \in Nat
    BY CountFacts DEF Waiting
  <2>3. spend <= total_cost + Cardinality(Waiting) * Highest /\ ~latching
    BY <1>6, <2>1 DEF SpendIsCounted
  <2>4. spend' <= total_cost' + Cardinality(Waiting') * Highest
    BY <1>1, <2>1, <2>2, <2>3
  <2>5. QED
    BY <1>1, <1>6, <2>1, <2>3, <2>4 DEF SpendIsCounted
<1>7. CASE latched
  <2> DEFINE S == Thread \ Sending
             T == Thread \ Sending'
  <2>1. S \in SUBSET Thread /\ T \in SUBSET Thread /\ t \in T \ S /\ S \subseteq T
    BY <1>4
  <2>2. /\ Cardinality(S) * Highest + Highest <= Cardinality(T) * Highest
        /\ Cardinality(S) * Highest \in Nat /\ Cardinality(T) * Highest \in Nat
    BY <2>1, CountFacts
  <2>3. spend <= Budget + Cardinality(S) * Highest /\ ~latching
    BY <1>7 DEF SpendIsCounted
  <2>4. spend' <= Budget + Cardinality(T) * Highest
    BY <1>1, <2>2, <2>3
  <2>5. QED
    BY <1>1, <1>7, <2>3, <2>4 DEF SpendIsCounted
<1>8. QED
  BY <1>5, <1>6, <1>7

LEMMA AbortKeepsCount ==
  ASSUME TypeOK, BookedWithinBudget, SpendIsCounted, Headless, NEW t \in Thread, Abort(t)
  PROVE  SpendIsCounted'
<1>1. /\ latched' /\ spend' = spend /\ latching' = latching /\ spend \in Nat
      /\ total_cost \in Nat /\ Budget \in Nat /\ (Budget > 0 => total_cost <= Budget)
  BY GuardAssumption DEF Abort, latch_interrupt, latched, history, TypeOK, BookedWithinBudget
<1>2. Sending' = Sending \ {t}
  BY GoIsQuiet DEF Abort, Raise
<1>3. Waiting \subseteq Thread \ Sending /\ Thread \ Sending \subseteq Thread \ Sending'
  BY <1>2 DEF Waiting, Sending
<1>4. /\ Cardinality(Waiting) * Highest \in Nat
      /\ Cardinality(Thread \ Sending) * Highest \in Nat
      /\ Cardinality(Thread \ Sending') * Highest \in Nat
      /\ Cardinality(Waiting) * Highest <= Cardinality(Thread \ Sending) * Highest
      /\ Cardinality(Thread \ Sending) * Highest <= Cardinality(Thread \ Sending') * Highest
  <2>1. /\ Waiting \in SUBSET Thread /\ Thread \ Sending \in SUBSET Thread
        /\ Thread \ Sending' \in SUBSET Thread
    BY DEF Waiting
  <2>2. QED
    BY <1>3, <2>1, CountFacts
<1>5. spend <= Budget + Cardinality(Thread \ Sending) * Highest
  <2>1. CASE latched
    BY <2>1 DEF SpendIsCounted
  <2>2. CASE ~latched
    <3>1. spend <= (IF Budget > 0 THEN total_cost ELSE 0) + Cardinality(Waiting) * Highest
      BY <2>2 DEF SpendIsCounted
    <3>2. QED
      BY <1>1, <1>4, <3>1
  <2>3. QED
    BY <2>1, <2>2
<1>6. spend' <= Budget + Cardinality(Thread \ Sending') * Highest
  BY <1>1, <1>4, <1>5
<1>7. QED
  BY <1>1, <1>6 DEF SpendIsCounted

LEMMA NextSpendIsCounted ==
  TypeOK /\ BookedWithinBudget /\ SpendIsCounted /\ [Next]_vars => SpendIsCounted'
<1> SUFFICES ASSUME TypeOK, BookedWithinBudget, SpendIsCounted, [Next]_vars, Headless
             PROVE  SpendIsCounted'
  BY DEF SpendIsCounted, Headless
<1>0. ~latching /\ due = {} /\ \A t \in Thread : at[t] \notin {"gate", "bypass", "ask_gate"}
  BY DEF SpendIsCounted, TypeOK, Headless
<1> USE DEF state, history
<1>1. ASSUME NEW t \in Thread, NEW key \in Key, ToolStart(t, key) PROVE SpendIsCounted'
  <2>1. at[t] = "idle" /\ Go(t, "tool", key)
    BY <1>1 DEF ToolStart
  <2>2. QED
    BY <1>0, <1>1, <2>1, GoIsQuiet, QuietKeepsCount DEF ToolStart
<1>2. ASSUME NEW t \in Thread, evaluate_tool_call(t) PROVE SpendIsCounted'
  <2>1. at[t] = "tool" /\ \E phase \in {"ask_tool", "running"} : Go(t, phase, call[t])
    BY <1>2 DEF evaluate_tool_call
  <2>2. UNCHANGED <<spend, total_cost, pending_interrupt, latching>>
    BY <1>2 DEF evaluate_tool_call
  <2>3. QED
    BY <1>0, <2>1, <2>2, GoIsQuiet, QuietKeepsCount
<1>3. ASSUME NEW t \in Thread, ToolDone(t) PROVE SpendIsCounted'
  <2>1. at[t] = "running" /\ Go(t, "idle", Nil)
    BY <1>3 DEF ToolDone
  <2>2. QED
    BY <1>0, <1>3, <2>1, GoIsQuiet, QuietKeepsCount DEF ToolDone
<1>4. ASSUME NEW t \in Thread, LlmStart(t) PROVE SpendIsCounted'
  <2>1. at[t] = "idle" /\ Go(t, "llm", Nil) /\ ~latched
    BY <1>4 DEF LlmStart, deny_if_latched
  <2>2. QED
    BY <1>0, <1>4, <2>1, GoIsQuiet, QuietKeepsCount DEF LlmStart
<1>5. ASSUME NEW t \in Thread, LlmFail(t) PROVE SpendIsCounted'
  <2>1. at[t] # "ask_llm" /\ Go(t, "idle", Nil)
    BY <1>5 DEF LlmFail
  <2>2. QED
    BY <1>0, <1>5, <2>1, GoIsQuiet, QuietKeepsCount DEF LlmFail
<1>6. ASSUME NEW t \in Thread, NEW cost \in Cost, LlmReturn(t, cost) PROVE SpendIsCounted'
  BY <1>6, ReturnKeepsCount
<1>7. ASSUME NEW t \in Thread, Abort(t) PROVE SpendIsCounted'
  BY <1>7, AbortKeepsCount
<1>8. ASSUME NEW t \in Thread PROVE ~Resume(t) /\ ~Skip(t) /\ ~precheck_llm_call(t)
  BY <1>0 DEF Resume, Skip, precheck_llm_call, Headless
<1>9. ASSUME NEW t \in Thread, NEW cost \in Cost PROVE ~BypassReturn(t, cost)
  BY <1>0 DEF BypassReturn
<1>10. ~AccountLatch
  BY <1>0 DEF AccountLatch
<1>11. CASE End \/ Tick \/ UNCHANGED vars
  <2>1. UNCHANGED <<spend, total_cost, pending_interrupt, latching, at>>
    BY <1>11 DEF End, Tick, vars
  <2>2. QED
    BY <1>0, <2>1, QuietKeepsCount DEF Waiting, Sending
<1>12. QED
  BY <1>0, <1>1, <1>2, <1>3, <1>4, <1>5, <1>6, <1>7, <1>8, <1>9, <1>10, <1>11 DEF Next, Headless

\* A run that nobody watches: however many threads ask models at once, what is
\* spent exceeds the budget by at most one call of each, booked or not.
THEOREM HeadlessSpendIsBounded == Spec => []HeadlessSpendBound
<1>1. Init => SpendIsCounted
  <2> SUFFICES ASSUME Init PROVE SpendIsCounted
    OBVIOUS
  <2>1. ~latched /\ ~latching /\ spend = 0 /\ total_cost = 0
    BY DEF Init, latched
  <2>2. Cardinality(Waiting) * Highest \in Nat
    BY CountFacts DEF Waiting
  <2>3. QED
    BY <2>1, <2>2 DEF SpendIsCounted
<1>2. TypeOK /\ BookedWithinBudget /\ SpendIsCounted => HeadlessSpendBound
  <2> SUFFICES ASSUME TypeOK, BookedWithinBudget, SpendIsCounted, Headless
               PROVE  spend <= Budget + Cardinality(Thread) * Highest
    BY DEF HeadlessSpendBound, Headless, Highest
  <2>1. spend \in Nat /\ total_cost \in Nat /\ Budget \in Nat /\ (Budget > 0 => total_cost <= Budget)
    BY GuardAssumption DEF TypeOK, BookedWithinBudget
  <2>2. Waiting \in SUBSET Thread /\ Thread \ Sending \in SUBSET Thread
    BY DEF Waiting
  <2>3. /\ Cardinality(Waiting) * Highest \in Nat
        /\ Cardinality(Thread \ Sending) * Highest \in Nat
        /\ Cardinality(Thread) * Highest \in Nat
        /\ Cardinality(Waiting) * Highest <= Cardinality(Thread) * Highest
        /\ Cardinality(Thread \ Sending) * Highest <= Cardinality(Thread) * Highest
    BY <2>2, CountFacts
  <2>4. CASE latched
    BY <2>1, <2>3, <2>4 DEF SpendIsCounted
  <2>5. CASE ~latched
    <3>1. spend <= (IF Budget > 0 THEN total_cost ELSE 0) + Cardinality(Waiting) * Highest
      BY <2>5 DEF SpendIsCounted
    <3>2. QED
      BY <2>1, <2>3, <3>1
  <2>6. QED
    BY <2>4, <2>5
<1>3. QED
  BY <1>1, <1>2, NextSpendIsCounted, TypeCorrect, BookedStaysWithinBudget, PTL DEF Spec
=============================================================================
