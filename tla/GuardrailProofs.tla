-------------------------- MODULE GuardrailProofs ---------------------------
(***************************************************************************)
(* Theorems about Guardrail, for every configuration, any number of        *)
(* dispatches in flight, every human decision and every broken decision    *)
(* function.                                                               *)
(***************************************************************************)
EXTENDS Guardrail, TLAPS

\* A dispatch was denied only if the circuit is open since: what makes
\* ClosedStaysClosed hold.
DeniedTripped == (\E d \in Dispatch : phase[d] = "denied") => circuit_tripped

\* Whatever a person decides about was dispatched before: what makes
\* NonceBoundReleasesNothing inductive.
DecidedIsOld ==
  \A d \in Dispatch :
    pending_transition # Nil /\ authorized(pending_transition).nonce = d => phase[d] # "new"

IInv == TypeOK /\ ReleasesItsArguments /\ NonceBoundReleasesNothing /\ DeniedTripped /\ DecidedIsOld

-----------------------------------------------------------------------------
(***************************************************************************)
(* What decide() allows, for every configuration, state and call.          *)
(***************************************************************************)
\* decide_checked; the promise of conformance.py:117-127).
LEMMA FaultyNeverAllows ==
  ASSUME NEW o, NoAllow(o)
  PROVE  decide_checked(o)[1] # "ALLOW"
BY DEF NoAllow, decide_checked, normalize_decision, Deny, Verdicts

\* An honest decision function is enforced as it decided.
LEMMA HonestIsEnforced ==
  ASSUME NEW verdict,
         decide_checked([raised |-> FALSE, raw |-> [shape |-> "pair", verdict |-> verdict,
                                                    usable |-> TRUE]])[1] = "ALLOW"
  PROVE  verdict = "ALLOW"
BY DEF decide_checked, normalize_decision, Deny, Verdicts

\* A broken decision function lets nothing through that decide() does not.
LEMMA ConsultedAllows ==
  ASSUME NEW faulty, \A o \in faulty : NoAllow(o),
         NEW verdict, NEW v \in Consulted(faulty, verdict), v[1] = "ALLOW"
  PROVE  verdict[1] = "ALLOW"
<1> DEFINE honest == [raised |-> FALSE, raw |-> [shape |-> "pair", verdict |-> verdict[1],
                                                 usable |-> TRUE]]
<1>1. PICK o \in faulty \cup {honest} : v = decide_checked(o)
  BY DEF Consulted
<1>2. o = honest
  BY <1>1, FaultyNeverAllows
<1>3. QED
  BY <1>1, <1>2, HonestIsEnforced

\* A call decide() allows is well formed.
LEMMA AllowedIsWellFormed ==
  ASSUME NEW cfg, NEW st, NEW call, decide(cfg, st, call)[1] = "ALLOW"
  PROVE  ~decision_input_error(cfg, st, call)
BY DEF decide, Deny

\* fits in what is left.
LEMMA AutomaticAllowFits ==
  ASSUME NEW cfg, NEW st, NEW call, NEW left \in Int,
         cfg.budget_usd > 0, st.pending_transition = Nil,
         st.budget_remaining_usd = left, estimated(call) \in Nat,
         decide(cfg, st, call)[1] = "ALLOW"
  PROVE  left > 0 /\ left - estimated(call) >= 0
<1>1. AutomaticRules(cfg, st, call)[1] = "ALLOW"
  BY DEF decide, Deny
<1>2. ~Exhausted(cfg, st) /\ ~Overrun(cfg, st, call)
  BY <1>1 DEF AutomaticRules, Deny
<1>3. left # Nil
  BY NilAssumption
<1>4. left > 0
  BY <1>2, <1>3 DEF Exhausted
<1>5. estimated(call) > 0 => left - estimated(call) >= 0
  BY <1>2, <1>3 DEF Overrun
<1>6. QED
  BY <1>4, <1>5

\* digest, and matches each of the two it is bound to; the nonce is new.
LEMMA ReleasesWhatItIsBoundTo ==
  ASSUME NEW cfg, NEW st, NEW call, st.pending_transition # Nil,
         decide(cfg, st, call)[1] = "ALLOW"
  PROVE  LET a == authorized(st.pending_transition) IN
           /\ a.nonce # Nil \/ a.digest # Nil
           /\ a.nonce # Nil => call.nonce = a.nonce /\ call.nonce \notin st.seen_nonces
           /\ a.digest # Nil => call.digest = a.digest
<1> DEFINE p == st.pending_transition
<1>1. /\ evaluate_transition(p, call)[1] = "ALLOW"
      /\ ~(call.nonce # Nil /\ call.nonce \in st.seen_nonces)
  BY DEF decide, Deny
<1>2. Released(p, call)[1] = "ALLOW"
  BY <1>1 DEF evaluate_transition, Deny, Hitl, Known
<1>3. QED
  BY <1>1, <1>2 DEF Released, Deny

-----------------------------------------------------------------------------
\* A dispatch the guardrail lets go was allowed by decide().
LEMMA EvaluateCases ==
  ASSUME NEW d \in Dispatch, NEW model \in Model, NEW content \in Content,
         evaluate(d, model, content)
  PROVE  \/ /\ Admit(d, model, content)
            /\ decide(config, StateFor(model), build_call(d, model, content))[1] = "ALLOW"
         \/ \E verdict : Block(d, verdict)
<1>1. CASE content \in MalformedContent /\ Block(d, "raised")
  BY <1>1
<1>2. ASSUME NEW v \in Consulted(FaultyOutcome,
                decide(config, StateFor(model), build_call(d, model, content))),
             IF v[1] = "ALLOW" THEN Admit(d, model, content) ELSE Block(d, v[1])
      PROVE  \/ /\ Admit(d, model, content)
                /\ decide(config, StateFor(model), build_call(d, model, content))[1] = "ALLOW"
             \/ \E verdict : Block(d, verdict)
  BY <1>2, ConsultedAllows, FaultyAssumption
<1>3. QED
  BY <1>1, <1>2 DEF evaluate

\* What an admitted dispatch says about the state it was admitted in.
LEMMA AdmittedFacts ==
  ASSUME TypeOK, NEW d \in Dispatch, NEW model \in Model, NEW content \in Content,
         decide(config, StateFor(model), build_call(d, model, content))[1] = "ALLOW"
  PROVE  /\ ~circuit_tripped
         /\ pending_transition = Nil /\ config.budget_usd > 0 => budget_remaining_usd > 0
         /\ pending_transition # Nil =>
              LET a == authorized(pending_transition) IN
                /\ a.nonce # Nil => a.nonce = d
                /\ a.digest # Nil => a.digest = content
<1> DEFINE st == StateFor(model)
           c  == build_call(d, model, content)
<1>1. /\ st.circuit_tripped = circuit_tripped
      /\ st.pending_transition = pending_transition
      /\ st.budget_remaining_usd = budget_remaining_usd
      /\ c.nonce = d /\ estimated(c) = 0
      /\ c.digest = IF content \in RejectedContent THEN Bad ELSE content
  BY DEF StateFor, build_call, estimated
<1> HIDE DEF st, c
<1>2. st.circuit_tripped # TRUE
  BY DEF decide, Deny, st, c
<1>3. c.digest = content
  <2>1. ~decision_input_error(config, st, c)
    BY AllowedIsWellFormed DEF st, c
  <2>2. c.digest # Bad
    BY <2>1, Zenon DEF decision_input_error
  <2>3. QED
    BY <1>1, <2>2
<1>4. pending_transition = Nil /\ config.budget_usd > 0 => budget_remaining_usd > 0
  BY <1>1, AutomaticAllowFits DEF TypeOK, st, c
<1>5. pending_transition # Nil =>
        LET a == authorized(pending_transition) IN
          /\ a.nonce # Nil => a.nonce = d
          /\ a.digest # Nil => a.digest = content
  BY <1>1, <1>3, ReleasesWhatItIsBoundTo DEF st, c
<1>6. QED
  BY <1>1, <1>2, <1>4, <1>5 DEF TypeOK

-----------------------------------------------------------------------------
\* The invariant holds when the guardrail is created.
LEMMA InitIInv == Init => IInv
<1> SUFFICES ASSUME Init PROVE IInv
  OBVIOUS
<1>1. config.budget_usd \in Int
  BY ConfigAssumption DEF Init
<1>2. TypeOK
  BY <1>1 DEF Init, TypeOK
<1>3. QED
  BY <1>2 DEF Init, IInv, ReleasesItsArguments, NonceBoundReleasesNothing, DeniedTripped,
     DecidedIsOld

\* A dispatch that is evaluated keeps the invariant.
LEMMA EvaluateIInv ==
  ASSUME IInv, NEW d \in Dispatch, NEW model \in Model, NEW content \in Content,
         evaluate(d, model, content)
  PROVE  IInv'
<1>1. /\ phase[d] = "new"
      /\ config' = config /\ pending_transition' = pending_transition
  BY DEF evaluate
<1>2. CASE /\ Admit(d, model, content)
           /\ decide(config, StateFor(model), build_call(d, model, content))[1] = "ALLOW"
  <2>1. TypeOK'
    <3>1. build_call(d, model, content).nonce = d
      BY DEF build_call
    <3>2. repeat_counts' \in [Model -> Nat] /\ seen_nonces' \subseteq Dispatch
      BY <1>2, <3>1 DEF Admit, IInv, TypeOK
    <3>3. phase' \in [Dispatch -> {"new", "sent", "done", "failed", "denied", "held", "raised"}]
      BY <1>2 DEF Admit, Phase, IInv, TypeOK
    <3>4. executions' \in Nat /\ released' \subseteq Content
      BY <1>2 DEF Admit, IInv, TypeOK
    <3>5. QED
      BY <1>1, <1>2, <3>2, <3>3, <3>4 DEF Admit, IInv, TypeOK
  <2>2. phase' = [phase EXCEPT ![d] = "sent"] /\ circuit_tripped' = circuit_tripped
    BY <1>2 DEF Admit, Phase
  <2>3. DeniedTripped' /\ DecidedIsOld'
    BY <1>1, <2>2 DEF IInv, TypeOK, DeniedTripped, DecidedIsOld
  <2>4. ReleasesItsArguments' /\ NonceBoundReleasesNothing'
    <3>1. CASE pending_transition = Nil
      BY <1>1, <3>1 DEF ReleasesItsArguments, NonceBoundReleasesNothing
    <3>2. CASE pending_transition # Nil
      <4> DEFINE a == authorized(pending_transition)
      <4>1. (a.nonce # Nil => a.nonce = d) /\ (a.digest # Nil => a.digest = content)
        BY <1>2, <3>2, AdmittedFacts DEF IInv
      <4>2. a.nonce \notin Dispatch
        BY <1>1, <3>2, <4>1, GuardrailAssumption DEF IInv, DecidedIsOld
      <4>3. released' = released \cup {content}
        BY <1>2, <3>2 DEF Admit
      <4>4. QED
        BY <1>1, <3>2, <4>1, <4>2, <4>3
           DEF IInv, ReleasesItsArguments, NonceBoundReleasesNothing
    <3>3. QED
      BY <3>1, <3>2
  <2>5. QED
    BY <2>1, <2>3, <2>4 DEF IInv
<1>3. ASSUME NEW verdict, Block(d, verdict) PROVE IInv'
  <2>1. /\ phase' = [phase EXCEPT ![d] = Outcome(verdict)]
        /\ circuit_tripped' = (circuit_tripped \/ verdict = "DENY")
        /\ UNCHANGED <<seen_nonces, budget_remaining_usd, repeat_counts, last_tool_name,
                       executions, released>>
    BY <1>3 DEF Block, Phase
  <2>2. Outcome(verdict) \in {"denied", "held", "raised"} /\ (Outcome(verdict) = "denied" => verdict = "DENY")
    BY DEF Outcome
  <2>3. TypeOK'
    BY <1>1, <2>1, <2>2 DEF IInv, TypeOK
  <2>4. DeniedTripped'
    BY <2>1, <2>2 DEF IInv, TypeOK, DeniedTripped
  <2>5. DecidedIsOld'
    BY <1>1, <2>1, <2>2 DEF IInv, TypeOK, DecidedIsOld
  <2>6. ReleasesItsArguments' /\ NonceBoundReleasesNothing'
    BY <1>1, <2>1 DEF IInv, ReleasesItsArguments, NonceBoundReleasesNothing
  <2>7. QED
    BY <2>3, <2>4, <2>5, <2>6 DEF IInv
<1>4. QED
  BY <1>2, <1>3, EvaluateCases

\* Every step keeps the invariant.
LEMMA NextIInv == IInv /\ [Next]_vars => IInv'
<1> SUFFICES ASSUME IInv, [Next]_vars PROVE IInv'
  OBVIOUS
<1> USE DEF IInv, TypeOK, ReleasesItsArguments, NonceBoundReleasesNothing, DeniedTripped,
            DecidedIsOld
<1>1. ASSUME NEW d \in Dispatch, NEW model \in Model, NEW content \in Content,
             evaluate(d, model, content)
      PROVE  IInv'
  BY <1>1, EvaluateIInv
<1>2. ASSUME NEW d \in Dispatch, NEW cost \in Cost, record(d, cost) PROVE IInv'
  <2>1. budget_remaining_usd' \in Int
    BY <1>2, GuardrailAssumption DEF record
  <2>2. QED
    BY <1>2, <2>1 DEF record, Phase
<1>3. ASSUME NEW d \in Dispatch, Fail(d) PROVE IInv'
  BY <1>3 DEF Fail, Phase, hookState
<1>4. ASSUME NEW t \in Transition \cup {Nil}, Resolve(t) PROVE IInv'
  <2>1. authorized(t).nonce \in {t.original_nonce, t.successor_nonce}
    BY DEF authorized
  <2>2. DecidedIsOld'
    BY <1>4, <2>1 DEF Resolve
  <2>3. QED
    BY <1>4, <2>2 DEF Resolve, hookState
<1>5. CASE UNCHANGED vars
  BY <1>5 DEF vars, hookState
<1>6. QED
  BY <1>1, <1>2, <1>3, <1>4, <1>5 DEF Next

\* The invariant holds in every state.
LEMMA SpecIInv == Spec => []IInv
BY InitIInv, NextIInv, PTL DEF Spec

\* Every variable keeps its type.
THEOREM TypeCorrect == Spec => []TypeOK
<1>1. IInv => TypeOK
  BY DEF IInv
<1>2. QED
  BY <1>1, SpecIInv, PTL

\* evaluate_transition at its enforcement site: an approval or a modification
\* releases the arguments it was given for and no others.
THEOREM ApprovalsReleaseTheirArguments == Spec => []ReleasesItsArguments
<1>1. IInv => ReleasesItsArguments
  BY DEF IInv
<1>2. QED
  BY <1>1, SpecIInv, PTL

\* With a nonce minted per dispatch, an approval bound to one releases nothing.
THEOREM NonceBoundApprovalsAreInert == Spec => []NonceBoundReleasesNothing
<1>1. IInv => NonceBoundReleasesNothing
  BY DEF IInv
<1>2. QED
  BY <1>1, SpecIInv, PTL

\* A circuit that opened, or a budget that is used up, admits nothing more.
THEOREM ClosedIsFinal == Spec => ClosedStaysClosed
<1> DEFINE Closed == \/ \E d \in Dispatch : phase[d] = "denied"
                     \/ /\ config.budget_usd > 0 /\ budget_remaining_usd <= 0
                        /\ pending_transition = Nil
<1>1. ASSUME IInv, [Next]_vars, Closed PROVE seen_nonces' = seen_nonces
  <2>1. ASSUME NEW d \in Dispatch, NEW model \in Model, NEW content \in Content,
               evaluate(d, model, content)
        PROVE  seen_nonces' = seen_nonces
    <3>1. decide(config, StateFor(model), build_call(d, model, content))[1] # "ALLOW"
      BY <1>1, AdmittedFacts DEF IInv, DeniedTripped, TypeOK
    <3>2. PICK verdict : Block(d, verdict)
      BY <2>1, <3>1, EvaluateCases
    <3>3. QED
      BY <3>2 DEF Block
  <2>2. QED
    BY <1>1, <2>1 DEF Next, vars, hookState, record, Fail, Resolve
<1>2. IInv /\ [Next]_vars => [Closed => seen_nonces' = seen_nonces]_vars
  BY <1>1
<1>3. QED
  BY <1>2, SpecIInv, PTL DEF Spec, ClosedStaysClosed
=============================================================================
