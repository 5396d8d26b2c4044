------------------------------- MODULE Guard -------------------------------
(***************************************************************************)
(* The in-process runtime of shackle/core.py, for one Guard scope: the     *)
(* ExecutionState its hooks share, the TriggerEngine that evaluates each   *)
(* call under the state's lock, and the operator who is asked what to do   *)
(* with an interrupt, without the lock.                                    *)
(*                                                                         *)
(* A thread is a thread or an asyncio task of the governed program.  Three *)
(* kinds of hooked call: a tool call (patched_run, patched_arun), an LLM   *)
(* call through the rebound litellm function (patched_completion), and one *)
(* that bypasses it, is gated before it goes out and accounted by a        *)
(* callback on litellm's thread.  The bodies of evaluate_tool_call,        *)
(* evaluate_llm_call and precheck_llm_call hold the lock throughout; the   *)
(* stores of a Resume do not, but a single store of zero between the reads *)
(* of a locked body has the effect of one before or after it.              *)
(*                                                                         *)
(* Money and time are small integers.  An interrupt is identified by who   *)
(* raised it; its label and message are left out.                          *)
(***************************************************************************)
EXTENDS Decide, FiniteSets

CONSTANTS
  Thread, Main, \* Main runs the decorated function
  OnLoop,       \* the threads that are tasks of a running event loop
  Tool, Input,
  ErrorInput,   \* inputs whose text names an error
  OpaqueInput, MalformedInput,
  CallId,       \* litellm call ids of the bypassing calls
  Cost,         \* what an LLM call costs
  Answer,       \* what the operator may answer; "A" alone is a headless run
  FaultyOutcome,\* out-of-contract results of a broken decision function
  Accountant,   \* who raises the accounting callback's interrupts
  Budget, MaxRepeat, MaxToolCalls, Timeout,
  MaxClock, MaxSpend, MaxCalls  \* bounds: time, money spent since a reset,
                                \* tool calls evaluated

ASSUME GuardAssumption ==
  /\ Main \in Thread /\ OnLoop \subseteq Thread
  /\ IsFiniteSet(Thread)
  /\ Cost \subseteq Nat /\ \E m \in Cost : \A c \in Cost : c <= m
  /\ Answer \subseteq {"R", "S", "A"}
  /\ Nil \notin Thread \cup {Accountant}
  /\ Accountant \notin Thread
  /\ Budget \in Nat /\ MaxRepeat \in Nat /\ MaxToolCalls \in Nat /\ Timeout \in Nat
  /\ MaxClock \in Nat /\ MaxSpend \in Nat /\ MaxCalls \in Nat

ASSUME FaultyAssumption == \A o \in FaultyOutcome : NoAllow(o)

Key == [tool : Tool, input : Input]

ASSUME KeyAssumption == Nil \notin Key \cup CallId

VARIABLES
  total_cost, total_tool_calls, tool_history, circuit_tripped,
  pending_interrupt, bypass_call_ids,  \* ExecutionState
  elapsed,
  scope,       \* "live", then how the decorated function ended
  at, call,    \* where each thread is, and in which call
  due,         \* bypassing calls that completed, with their cost
  latching,    \* the callback has raised and not yet latched
  spend,       \* history: LLM money spent since the last reset
  autoRuns,    \* history: runs nobody was asked about since tool_history was
               \* cleared, per key
  autoTotal,   \* history: the same, ever
  afterLatch   \* history: calls each thread released after the latch

state   == <<total_cost, total_tool_calls, tool_history, circuit_tripped,
             pending_interrupt, bypass_call_ids>>
history == <<spend, autoRuns, autoTotal, afterLatch>>
vars    == <<state, elapsed, scope, at, call, due, latching, history>>

-----------------------------------------------------------------------------
(***************************************************************************)
(* Consulting decide().                                                    *)
(***************************************************************************)
pre_remaining == IF Budget > total_cost THEN Budget - total_cost ELSE 0

\* _consult_decide; the hooks pass neither a nonce nor an estimate.
ToolVerdict(key, count) ==
  decide([budget_usd |-> Budget, max_repeat_calls |-> MaxRepeat,
          hitl_mode |-> Nil, hitl_budget_threshold |-> Nil],
         [budget_initial_usd |-> Budget, budget_remaining_usd |-> pre_remaining,
          circuit_tripped |-> circuit_tripped, seen_nonces |-> {},
          repeat_count |-> count, last_tool_name |-> key.tool, pending_transition |-> Nil],
         [tool_name |-> key.tool, nonce |-> Nil, opaque |-> key.input \in OpaqueInput,
          digest |-> IF key.input \in MalformedInput THEN Bad ELSE key.input,
          estimated_cost_usd |-> 0])

\* The same question of evaluate_llm_call: neither the circuit nor the nonces.
LlmVerdict(cost) ==
  decide([budget_usd |-> Budget, max_repeat_calls |-> Nil,
          hitl_mode |-> Nil, hitl_budget_threshold |-> Nil],
         [budget_initial_usd |-> Budget, budget_remaining_usd |-> pre_remaining,
          circuit_tripped |-> FALSE, seen_nonces |-> {}, repeat_count |-> Nil,
          last_tool_name |-> Nil, pending_transition |-> Nil],
         [tool_name |-> "model", nonce |-> Nil, opaque |-> FALSE, digest |-> "empty",
          estimated_cost_usd |-> cost])

\* A slip: the call being evaluated is not counted.
effective_count_prior(key, count) == count - 1

\* An identical call that keeps reporting an error counts one more.
effective_count(key, count) ==
  count + (IF key.input \in ErrorInput /\ count >= 2 THEN 1 ELSE 0)

-----------------------------------------------------------------------------
(***************************************************************************)
(* ExecutionState.                                                         *)
(***************************************************************************)
latched == pending_interrupt # Nil

\* A slip: a later interrupt overwrites the first.
latch_interrupt_last(who) ==
  /\ pending_interrupt' = who
  /\ circuit_tripped' = TRUE

\* latch_interrupt: the first interrupt stays, the circuit opens.
latch_interrupt(who) ==
  /\ pending_interrupt' = IF latched THEN pending_interrupt ELSE who
  /\ circuit_tripped' = TRUE

\* A slip: the latch is never looked at.
deny_if_latched_never == FALSE

\* _deny_if_latched: an interrupt that was latched is raised again.
deny_if_latched == latched

Go(t, phase, c) ==
  /\ at' = [at EXCEPT ![t] = phase]
  /\ call' = [call EXCEPT ![t] = c]

\* A call the hook lets go is counted if it goes out after the latch.
LetGo(t) == afterLatch' = [afterLatch EXCEPT ![t] = IF latched THEN @ + 1 ELSE @]

Init ==
  /\ total_cost = 0 /\ total_tool_calls = 0 /\ tool_history = [k \in Key |-> 0]
  /\ circuit_tripped = FALSE /\ pending_interrupt = Nil /\ bypass_call_ids = {}
  /\ elapsed = 0
  /\ scope = "live"
  /\ at = [t \in Thread |-> "idle"] /\ call = [t \in Thread |-> Nil]
  /\ due = {} /\ latching = FALSE
  /\ spend = 0 /\ autoRuns = [k \in Key |-> 0] /\ autoTotal = 0
  /\ afterLatch = [t \in Thread |-> 0]

-----------------------------------------------------------------------------
(***************************************************************************)
(* A tool call: the latch is looked at, then evaluate_tool_call decides.   *)
(***************************************************************************)
ToolStart(t, key) ==
  /\ scope = "live" /\ at[t] = "idle"
  /\ ~deny_if_latched
  /\ Go(t, "tool", key)
  /\ UNCHANGED <<state, elapsed, scope, due, latching, history>>

\* total_tool_calls counts every attempt, tool_history every one in time.  The
\* call is let go on an exact ALLOW below the ceiling of calls; anything else
\* raises and asks the operator.
evaluate_tool_call(t) ==
  LET key   == call[t]
      count == tool_history[key] + 1
  IN
  /\ at[t] = "tool"
  /\ total_tool_calls < MaxCalls
  /\ total_tool_calls' = total_tool_calls + 1
  /\ \/ /\ elapsed > Timeout
        /\ Go(t, "ask_tool", key)
        /\ UNCHANGED <<tool_history, history>>
     \/ /\ elapsed <= Timeout
        /\ tool_history' = [tool_history EXCEPT ![key] = count]
        /\ \E v \in Consulted(FaultyOutcome, ToolVerdict(key, effective_count(key, count))) :
             IF v[1] = "ALLOW" /\ total_tool_calls + 1 < MaxToolCalls
             THEN /\ Go(t, "running", key)
                  /\ autoRuns' = [autoRuns EXCEPT ![key] = @ + 1]
                  /\ autoTotal' = autoTotal + 1
                  /\ LetGo(t)
                  /\ UNCHANGED spend
             ELSE Go(t, "ask_tool", key) /\ UNCHANGED history
  /\ UNCHANGED <<total_cost, circuit_tripped, pending_interrupt, bypass_call_ids,
                 elapsed, scope, due, latching>>

ToolDone(t) ==
  /\ at[t] = "running"
  /\ Go(t, "idle", Nil)
  /\ UNCHANGED <<state, elapsed, scope, due, latching, history>>

-----------------------------------------------------------------------------
(***************************************************************************)
(* LLM calls.                                                              *)
(***************************************************************************)
\* evaluate_llm_call: what the verdict allows is booked, and an interrupt is
\* raised when it was not allowed or used the budget up.
evaluate_llm_call(cost, raises) ==
  \E v \in Consulted(FaultyOutcome, LlmVerdict(cost)) :
    /\ total_cost' = IF v[1] = "ALLOW" THEN total_cost + cost ELSE total_cost
    /\ raises = (v[1] # "ALLOW" \/ total_cost' >= Budget)

\* patched_completion sends the request before anything is evaluated.
LlmStart(t) ==
  /\ scope = "live" /\ at[t] = "idle"
  /\ ~deny_if_latched
  /\ Go(t, "llm", Nil)
  /\ UNCHANGED <<state, elapsed, scope, due, latching, history>>

LlmReturn(t, cost) ==
  /\ at[t] = "llm"
  /\ spend + cost <= MaxSpend
  /\ spend' = spend + cost
  /\ \E raises \in BOOLEAN :
       /\ evaluate_llm_call(cost, raises)
       /\ Go(t, IF raises THEN "ask_llm" ELSE "idle", Nil)
  /\ UNCHANGED <<total_tool_calls, tool_history, circuit_tripped, pending_interrupt,
                 bypass_call_ids, elapsed, scope, due, latching,
                 autoRuns, autoTotal, afterLatch>>

\* A provider error reaches the caller; the failure callback drops the id.
LlmFail(t) ==
  /\ at[t] \in {"llm", "bypass"}
  /\ Go(t, "idle", Nil)
  /\ bypass_call_ids' = bypass_call_ids \ {call[t]}
  /\ UNCHANGED <<total_cost, total_tool_calls, tool_history, circuit_tripped,
                 pending_interrupt, elapsed, scope, due, latching, history>>

\* A call that does not come through the rebound function meets the gate.  Call
\* ids are unique: one is used again only when nothing remembers it.
GateStart(t, id) ==
  /\ scope = "live" /\ at[t] = "idle"
  /\ ~deny_if_latched
  /\ id \notin bypass_call_ids \cup {d.id : d \in due} \cup {call[u] : u \in Thread}
  /\ Go(t, "gate", id)
  /\ UNCHANGED <<state, elapsed, scope, due, latching, history>>

\* The operator's answer, or the exception the hook passes on: a framework may
\* swallow it, or it ends the decorated function.
Raise(t) ==
  /\ Go(t, "idle", Nil)
  /\ \/ UNCHANGED scope
     \/ t = Main /\ scope = "live" /\ scope' = "aborted"

\* The gate's last step: the id is registered and the request goes out.
SendGated(t) ==
  /\ bypass_call_ids' = bypass_call_ids \cup {call[t]}
  /\ Go(t, "bypass", call[t])
  /\ LetGo(t)

\* precheck_llm_call and what the gate makes of it: on an event loop it latches,
\* elsewhere it asks.
precheck_llm_call(t) ==
  LET over == elapsed > Timeout \/ total_cost >= Budget IN
  /\ at[t] = "gate"
  /\ \/ ~over /\ SendGated(t) /\ UNCHANGED <<circuit_tripped, pending_interrupt, scope>>
     \/ over /\ t \in OnLoop /\ latch_interrupt(t) /\ Raise(t)
          /\ UNCHANGED <<bypass_call_ids, afterLatch>>
     \/ over /\ t \notin OnLoop /\ Go(t, "ask_gate", call[t])
          /\ UNCHANGED <<circuit_tripped, pending_interrupt, bypass_call_ids, scope, afterLatch>>
  /\ UNCHANGED <<total_cost, total_tool_calls, tool_history, elapsed, due, latching,
                 spend, autoRuns, autoTotal>>

BypassReturn(t, cost) ==
  /\ at[t] = "bypass"
  /\ spend + cost <= MaxSpend
  /\ spend' = spend + cost
  /\ due' = due \cup {[id |-> call[t], cost |-> cost]}
  /\ Go(t, "idle", Nil)
  /\ UNCHANGED <<state, elapsed, scope, latching, autoRuns, autoTotal, afterLatch>>

\* _litellm_scope_for and ShackleAccountant._account, on litellm's thread: only a
\* live scope that admitted the call books it.
Account(d) ==
  /\ d \in due
  /\ due' = due \ {d}
  /\ IF scope = "live" /\ d.id \in bypass_call_ids
     THEN /\ bypass_call_ids' = bypass_call_ids \ {d.id}
          /\ \E raises \in BOOLEAN :
               evaluate_llm_call(d.cost, raises) /\ latching' = (latching \/ raises)
     ELSE UNCHANGED <<bypass_call_ids, total_cost, latching>>
  /\ UNCHANGED <<total_tool_calls, tool_history, circuit_tripped, pending_interrupt,
                 elapsed, scope, at, call, history>>

\* It cannot raise into the caller: it latches.
AccountLatch ==
  /\ latching
  /\ latching' = FALSE
  /\ latch_interrupt(Accountant)
  /\ UNCHANGED <<total_cost, total_tool_calls, tool_history, bypass_call_ids,
                 elapsed, scope, at, call, due, history>>

-----------------------------------------------------------------------------
(***************************************************************************)
(* The operator (_handle_interrupt_sync, _handle_interrupt_async), and the *)
(* end of the decorated function (Guard.__call__).                         *)
(***************************************************************************)
Asked == {"ask_tool", "ask_llm", "ask_gate"}

Abort(t) ==
  /\ "A" \in Answer /\ at[t] \in Asked
  /\ latch_interrupt(t)
  /\ Raise(t)
  /\ UNCHANGED <<total_cost, total_tool_calls, tool_history, bypass_call_ids,
                 elapsed, due, latching, history>>

\* Resume unlatches the circuit, not the pending interrupt, clears the counters
\* of its path and lets the call it was asked about proceed.
Resume(t) ==
  /\ "R" \in Answer /\ at[t] \in Asked
  /\ circuit_tripped' = FALSE
  /\ \/ /\ at[t] = "ask_tool"
        /\ tool_history' = [k \in Key |-> 0]
        /\ autoRuns' = [k \in Key |-> 0]
        /\ Go(t, "running", call[t]) /\ LetGo(t)
        /\ UNCHANGED <<total_cost, bypass_call_ids, spend>>
     \/ /\ at[t] # "ask_tool"
        /\ total_cost' = 0 /\ spend' = 0
        /\ \/ at[t] = "ask_llm" /\ Go(t, "idle", Nil) /\ UNCHANGED <<bypass_call_ids, afterLatch>>
           \/ at[t] = "ask_gate" /\ SendGated(t)
        /\ UNCHANGED <<tool_history, autoRuns>>
  /\ UNCHANGED <<total_tool_calls, pending_interrupt, elapsed, scope, due, latching, autoTotal>>

\* Skip keeps the tool from running; an LLM call is not skipped.
Skip(t) ==
  /\ "S" \in Answer /\ at[t] \in Asked
  /\ \/ at[t] # "ask_gate" /\ Go(t, "idle", Nil) /\ UNCHANGED <<bypass_call_ids, afterLatch>>
     \/ at[t] = "ask_gate" /\ SendGated(t)
  /\ UNCHANGED <<total_cost, total_tool_calls, tool_history, circuit_tripped,
                 pending_interrupt, elapsed, scope, due, latching, spend, autoRuns, autoTotal>>

\* The decorated function returns or fails; the hooks are removed.
End ==
  /\ scope = "live" /\ at[Main] = "idle"
  /\ scope' \in IF latched THEN {"aborted"} ELSE {"returned", "failed"}
  /\ UNCHANGED <<state, elapsed, at, call, due, latching, history>>

Tick ==
  /\ elapsed < MaxClock
  /\ elapsed' = elapsed + 1
  /\ UNCHANGED <<state, scope, at, call, due, latching, history>>

Next ==
  \/ \E t \in Thread :
       \/ \E key \in Key : ToolStart(t, key)
       \/ evaluate_tool_call(t) \/ ToolDone(t)
       \/ LlmStart(t) \/ LlmFail(t) \/ precheck_llm_call(t)
       \/ \E cost \in Cost : LlmReturn(t, cost) \/ BypassReturn(t, cost)
       \/ \E id \in CallId : GateStart(t, id)
       \/ Abort(t) \/ Resume(t) \/ Skip(t)
  \/ \E d \in due : Account(d)
  \/ AccountLatch
  \/ End
  \/ Tick

Spec == Init /\ [][Next]_vars

-----------------------------------------------------------------------------
(***************************************************************************)
(* Properties.                                                             *)
(***************************************************************************)
Phase == {"idle", "tool", "running", "llm", "gate", "bypass"} \cup Asked

TypeOK ==
  /\ total_cost \in Nat /\ total_tool_calls \in 0..MaxCalls
  /\ tool_history \in [Key -> Nat]
  /\ circuit_tripped \in BOOLEAN
  /\ pending_interrupt \in Thread \cup {Accountant, Nil}
  /\ bypass_call_ids \subseteq CallId
  /\ elapsed \in 0..MaxClock
  /\ scope \in {"live", "returned", "failed", "aborted"}
  /\ at \in [Thread -> Phase]
  /\ call \in [Thread -> Key \cup CallId \cup {Nil}]
  /\ \A t \in Thread :
       /\ at[t] \in {"tool", "running", "ask_tool"} => call[t] \in Key
       /\ at[t] \in {"gate", "bypass", "ask_gate"} => call[t] \in CallId
  /\ due \subseteq [id : CallId, cost : Cost]
  /\ latching \in BOOLEAN
  /\ spend \in Nat /\ autoRuns \in [Key -> Nat] /\ autoTotal \in Nat
  /\ afterLatch \in [Thread -> Nat]

\* Concurrent calls never book more than the budget: evaluate_llm_call decides
\* on the remaining money under the lock it books under.
BookedWithinBudget == Budget > 0 => total_cost <= Budget

\* An identical call runs unattended fewer than max_repeat_calls times between
\* two Resumes, on however many threads, and fewer than max_tool_calls calls run
\* unattended in the whole scope, which no Resume extends.
LoopBound ==
  /\ \A k \in Key : autoRuns[k] < MaxRepeat \/ autoRuns[k] = 0
  /\ autoTotal < MaxToolCalls \/ autoTotal = 0

\* core.py:129-133, the reason for the latch: without it "the framework keeps
\* calling the LLM and tools".  After an Abort, swallowed or not, each thread
\* finishes at most the one call it had begun.
OneLastCall == \A t \in Thread : afterLatch[t] <= 1

\* The latch holds, and the state is one the program can be in.
LatchInv == TypeOK /\ OneLastCall

\* Once latched, the first interrupt is the one every later call is shown.
FirstInterruptKept == [][latched => pending_interrupt' = pending_interrupt]_vars

\* Unless an operator resumes, nothing becomes more acceptable as a run goes on:
\* neither another call of any tool nor an LLM call of any cost.
PressureNeverLoosens ==
  [][ (\A t \in Thread : ~Resume(t)) =>
        /\ \A k \in Key :
             Rank(ToolVerdict(k, effective_count(k, tool_history[k] + 1))) <=
               Rank(ToolVerdict(k, effective_count(k, tool_history[k] + 1)))'
        /\ \A c \in Cost : Rank(LlmVerdict(c)) <= Rank(LlmVerdict(c))' ]_vars

\* With nobody to answer (render_hitl_terminal aborts) and no bypassing calls,
\* real spending exceeds the budget by at most one call per thread, booked or not.
HeadlessSpendBound ==
  Answer = {"A"} /\ CallId = {} =>
    spend <= Budget + Cardinality(Thread) * (CHOOSE m \in Cost : \A c \in Cost : c <= m)
=============================================================================
