------------------------------ MODULE SpecSession ------------------------------
(***************************************************************************)
(* Hosts that govern their calls with v2/spec/decide.py and record them in *)
(* one ledger, as the two modules say they are meant to be used: decide(), *)
(* log_decision, then apply_allow or apply_deny; after the call            *)
(* apply_post_exec and log_execution.  A session is in the memory of its   *)
(* host and is lost with it; the ledger is a file.  A host may have        *)
(* several calls running at once.                                          *)
(***************************************************************************)
EXTENDS SpecDecide, Ledger

CONSTANTS
  Host,        \* the writers of the ledger that govern a session; others only log
  Config,     \* configurations of a session
  Transitions, \* human decisions a host may persist
  Bad,         \* what the core rejects as malformed
  Estimate, Cost, MaxCost, Nonce, Rng,
  MaxLines,   \* lines of the ledger
  MaxRunning  \* calls of one host that run at once

ASSUME SessionAssumption ==
  /\ Host \subseteq Writer
  /\ Config \subseteq GuardConfig
  /\ Nil \notin Session(Nonce, Transitions) /\ Nil \notin LastCall /\ Nil \notin Transition
  /\ Nil \notin Int \cup Tool /\ Bad \notin {Nil} \cup Int \cup Tool
  /\ \A seen \in SUBSET Nonce : Bad # seen
  /\ Params \subseteq Parameters /\ Transitions \subseteq Transition
  /\ MaxCost \in Nat /\ Estimate \subseteq Nat /\ Cost \subseteq 0..MaxCost /\ Rng \subseteq 0..99
  /\ MaxLines \in Nat /\ MaxRunning \in Nat

VARIABLES
  config,
  state,     \* the session of each host, Nil while it is down
  held,      \* hosts whose last call is held for a human
  running,   \* calls of each host that were released and have not reported
  repeats,   \* history: calls in a row without a human that were the same
  released,  \* history: nonces a session released without a human, with how often
  overlap,   \* history: two hosts have had the ledger open at once
  crashed    \* history: a host died while it wrote

sessionVars == <<config, state, held, running, repeats, released>>
vars == <<sessionVars, ledgerVars, overlap, crashed>>

Calls == ToolCall(Estimate, Nonce)

Init ==
  /\ LedgerInit /\ config \in Config
  /\ state = [w \in Host |-> Nil] /\ held = {}
  /\ running = [w \in Host |-> 0] /\ repeats = [w \in Host |-> 0]
  /\ released = [w \in Host |-> [n \in Nonce |-> 0]]
  /\ overlap = FALSE /\ crashed = FALSE

Start(w) ==
  /\ Open(w)
  /\ state' = [state EXCEPT ![w] = SessionState(config)]
  /\ overlap' = (overlap \/ Live # {})
  /\ UNCHANGED <<config, held, running, repeats, released, crashed>>

\* A call is decided, the decision logged and applied.
Evaluate(w, call, rng) ==
  /\ state[w] # Nil /\ Len(file) < MaxLines /\ running[w] < MaxRunning
  /\ LET s       == state[w]
         verdict == decide(s, call, config, rng)
         human   == Resolves(s.pending_transition)
     IN
     /\ append(w, "decision")
     /\ state' = [state EXCEPT ![w] = CASE verdict = "ALLOW" -> apply_allow(s, call)
                                        [] verdict = "DENY"  -> apply_deny(s)
                                        [] verdict = "HITL"  -> s]
     /\ held' = IF verdict = "HITL" THEN held \cup {w} ELSE held \ {w}
     /\ running' = [running EXCEPT ![w] = IF verdict = "ALLOW" THEN @ + 1 ELSE @]
     /\ repeats' = [repeats EXCEPT ![w] =
                      IF verdict # "ALLOW" THEN @
                      ELSE IF human THEN 0 ELSE IF SameAsLast(s, call) THEN @ + 1 ELSE 1]
     /\ released' = [released EXCEPT ![w][call.nonce] =
                       IF verdict = "ALLOW" /\ ~human THEN @ + 1 ELSE @]
  /\ UNCHANGED <<config, overlap, crashed>>

\* A human has decided about the held call, or the host puts that decision away.
Decided(w, p) ==
  /\ state[w] # Nil
  /\ \/ w \in held /\ p # Nil
     \/ p = Nil /\ state[w].pending_transition # Nil
  /\ state' = [state EXCEPT ![w].pending_transition = p]
  /\ held' = held \ {w}
  /\ UNCHANGED <<config, running, repeats, released, ledgerVars, overlap, crashed>>

\* A released call ends: what it cost, and the record of it.
Report(w, cost) ==
  /\ state[w] # Nil /\ running[w] > 0 /\ Len(file) < MaxLines
  /\ state' = [state EXCEPT ![w] = apply_post_exec(@, cost)]
  /\ running' = [running EXCEPT ![w] = @ - 1]
  /\ append(w, "execution")
  /\ UNCHANGED <<config, held, repeats, released, overlap, crashed>>

Lost(w) ==
  /\ state' = [state EXCEPT ![w] = Nil] /\ held' = held \ {w}
  /\ running' = [running EXCEPT ![w] = 0] /\ repeats' = [repeats EXCEPT ![w] = 0]
  /\ released' = [released EXCEPT ![w] = [n \in Nonce |-> 0]]
  /\ UNCHANGED <<config, overlap>>

Crash(w)        == Die(w) /\ Lost(w) /\ UNCHANGED crashed
CrashWriting(w) ==
  /\ Len(file) < MaxLines /\ DieWriting(w, "decision") /\ Lost(w) /\ crashed' = TRUE

\* A process that has the same ledger open for something else.
Other(w) ==
  /\ \/ Open(w) /\ overlap' = (overlap \/ Live # {})
     \/ Len(file) < MaxLines /\ append(w, "decision") /\ UNCHANGED overlap
     \/ Die(w) /\ UNCHANGED overlap
  /\ UNCHANGED <<sessionVars, crashed>>

Next ==
  \/ \E w \in Writer \ Host : Other(w)
  \/ \E w \in Host :
    \/ Start(w) \/ Crash(w) \/ CrashWriting(w)
    \/ \E call \in Calls, rng \in Rng : Evaluate(w, call, rng)
    \/ \E p \in Transitions \cup {Nil} : Decided(w, p)
    \/ \E cost \in Cost : Report(w, cost)

Spec == Init /\ [][Next]_vars

-----------------------------------------------------------------------------
TypeOK ==
  /\ state \in [Host -> {Nil} \cup Session(Nonce, Transitions)]
  /\ held \subseteq Live /\ Live \cap Host = {w \in Host : state[w] # Nil}
  /\ running \in [Host -> Nat] /\ repeats \in [Host -> Nat]
  /\ overlap \in BOOLEAN /\ crashed \in BOOLEAN

\* decide.py:16 P5 over a whole session: without a human, the same call is released
\* at most max_repeat_calls times in a row (a human's answer starts the count again).
RepeatBound ==
  config.max_repeat_calls > 0 =>
    \A w \in Host : repeats[w] <= config.max_repeat_calls

\* decide.py:20 P9 over a whole session: apart from what a human released, no nonce is
\* released twice.
NonceOnce == \A w \in Host : \A n \in Nonce : released[w][n] <= 1

\* P1 and P4 (decide.py:12, 15) for money that is really spent: an estimate reserves
\* nothing, so calls that run together can overspend, but by no more than one call's
\* cost each, as long as no human released a call.
OverspendBounded ==
  config.budget_usd > 0 =>
    \A w \in Host :
      state[w] # Nil /\ state[w].total_calls = Cardinality({n \in Nonce : released[w][n] > 0})
        => state[w].budget_spent_usd + running[w] * MaxCost
             < state[w].budget_initial_usd + MaxRunning * MaxCost

\* What decide.py:12-20 promises of one call, over a whole session of calls.
SessionInv == TypeOK /\ RepeatBound /\ NonceOnce /\ OverspendBounded

\* The certified core (shackle/conformance.py) on the same session and call; it knows
\* neither on_deny nor a repeat limit of 0, counts repeats by tool, and puts tests of
\* its own to the parameters.
Core == INSTANCE Decide WITH NonceCap <- 1000

CoreVerdict(s, call) ==
  Core!decide(
    [budget_usd |-> config.budget_usd,
     max_repeat_calls |-> IF config.max_repeat_calls = 0 THEN Nil ELSE config.max_repeat_calls,
     hitl_mode |-> IF config.hitl_mode = "on_deny" THEN "never" ELSE config.hitl_mode,
     hitl_budget_threshold |-> config.hitl_budget_threshold],
    [budget_initial_usd |-> s.budget_initial_usd,
     budget_remaining_usd |-> s.budget_remaining_usd, circuit_tripped |-> s.circuit_tripped,
     seen_nonces |-> s.seen_nonces, pending_transition |-> Nil,
     last_tool_name |-> IF SameAsLast(s, call) THEN call.tool_name ELSE Nil,
     repeat_count |-> s.repeat_counts[call.tool_name]],
    [tool_name |-> call.tool_name, digest |-> IF call.params.core_canonical THEN 1 ELSE Bad,
     nonce |-> call.nonce, estimated_cost_usd |-> call.estimated_cost_usd,
     opaque |-> call.params.core_opaque])[1]

\* Calls this module would release by its rules, no human having decided.
AllowedByRule(w, call, rng) ==
  /\ state[w] # Nil /\ ~Resolves(state[w].pending_transition)
  /\ decide(state[w], call, config, rng) = "ALLOW"

\* What this module releases by its rules, the core the daemon runs releases too, unless
\* the core cannot canonicalize the parameters or finds their context opaque
\* (decide.py:1-4, 244: one is the forward-looking version of the other; money, repeats,
\* nonces, limits and thresholds never make the core the stricter one).
CoreDiffersOnlyOnParameters ==
  \A w \in Host, call \in Calls, rng \in Rng :
    AllowedByRule(w, call, rng) =>
      CoreVerdict(state[w], call) = IF ~call.params.core_canonical THEN "DENY"
                                    ELSE IF call.params.core_opaque THEN "HITL" ELSE "ALLOW"

\* ledger.py:14-17: a file that verifies holds every record append() returned, whatever
\* instances wrote it and however they died.
ValidHoldsAcknowledged ==
  verify_chain(file) =>
    acknowledged \subseteq
      {file[i].text.record_hash : i \in {j \in DOMAIN file : file[j].text # Torn}}

\* One instance at a time, none of which died while it wrote, leaves a file that
\* verifies, across any number of restarts (recovery at ledger.py:68-81).
SoleWriterVerifies == ~overlap /\ ~crashed => verify_chain(file)
=============================================================================
