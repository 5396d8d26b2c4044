# SHACKLE in TLA+

TLA+ models, TLC runs and TLAPS proofs of SHACKLE, a governance layer that decides
whether an agent may make a tool call or an LLM call, and enforces the decision. The
models are translated from the code under `src/`; `PROJECT.json` maps every definition
to the lines it stands for.

## The system

| component | state it keeps | operations | what makes it correct |
|---|---|---|---|
| decision core, `shackle/conformance.py` | none: `decide(config, state, call)` is pure | `decide`, `evaluate_transition`, `normalize_decision`, `decide_checked` | never less restrictive under more pressure; nothing but an exact, auditable ALLOW releases a call; a human approval releases only what it was given for |
| in-process runtime, `shackle/core.py` | one `ExecutionState` per `Guard` scope: cost, counts, circuit, latched interrupt, admitted bypassing calls | hooks on litellm and on LangChain tools, `TriggerEngine`, operator console, accounting callback, `Guard.__call__` | loops and spending are bounded on any number of threads; an Abort a framework swallows still stops the run |
| LiteLLM proxy guardrails, `shackle/litellm_shackle_guardrail.py` | `self.state`, shared by all requests in flight | pre-call hook, post-call hook | approvals, nonces and the circuit hold across concurrent requests |
| AutoGen wrapper, `shackle/autogen_shackle_wrapper.py` | an engine and its state | guarded function calls | as for the runtime |
| daemon policy store, `v2/daemon/state.py`, `decision.py` | Redis keys with expiry: spent, limit, reserved, history per session; reservation, estimate, capability, consumed per request | `evaluate_and_record` (two Lua scripts around `decide`), `grant_hitl_execution`, `record_post_exec_once`, `set_budget_limit`, `clear_session` | a request is allowed once, is charged once, and concurrent requests never promise the same money |
| daemon broker and handlers, `v2/daemon/daemon.py` | pending approval tokens with future, age, claim and binding; WebSocket clients | `/pre_exec`, `/post_exec`, `/hitl_response`, `/hitl_wait`, `/ws` | an execution is granted only on a timely approval of that request, to one waiter; the queue is bounded; waiters return |
| daemon client, `v2/daemon/client.py` | the id of its last request | `pre_exec`, `post_exec`, `shackled` | what it executes was allowed, and is reported |
| audit trail, `v2/daemon/audit.py` | signed rows in Postgres | `log_decision`, `log_execution`, `verify_log_integrity` | the decisions on record verify, also after a restart |
| second decision function, `v2/spec/decide.py` | none | `decide`, `apply_allow`, `apply_deny`, `apply_post_exec` | agrees with the core where both are defined |
| ledger, `v2/spec/ledger.py` | a hash-chained file and the last hash | `append`, recovery, `verify_chain` | a file that verifies holds every record whose append returned |
| reference client, `v2/protocol/python-reference/client.py` | one stream, `_connected`, the heartbeat task | connect, disconnect, `pre_exec_check`, `post_exec_log`, `poll_hitl_decision`, heartbeats | a verdict is the reply to the call it is given to; every call ends |
| protocol server and client stubs, `v2/protocol` | sessions and held requests | evaluate, resolve, clean up | (never run, see Not modelled) |
| license server and key generation, `v2/compliance` | SQLite tables of licenses and signed audit rows; trust anchors and the master secret of the process | trust configuration, register, validate, verification by the exporter | what is registered is genuine, a registered license is not lost, the trail is complete and verifies |

The runtime and the guardrails call the decision core in-process. An agent under the
daemon goes client -> `/pre_exec` -> store (`_EVAL_LUA`, then `decide`, then
`_ISSUE_CAPABILITY_LUA`) -> audit log; a held request goes through the broker, to an
operator over a WebSocket, and back through `/hitl_response` and `/hitl_wait`, which
grants the execution in the store; the execution is reported by `/post_exec`. Several
`Guard` scopes of one process meet in the functions they patch and in the hooks they
register with CrewAI. The second decision function and the ledger are used together by a
host of their own; the license server stands alone.

What is hard here is concurrency (threads of an agent framework, a callback on litellm's
own thread, tasks of an event loop, clients that share a session), failure (replies of
Redis that are lost, sockets that close, broken decision functions), ordering (answers,
sweeps and timeouts of one approval; Resume of one interrupt while another is latched;
scopes that end in another order than they began), crashes (of the daemon, of a writer
in the middle of a line, of the license server between two commits) and time (five kinds
of keys and tokens that expire separately). `PROJECT.json` lists each hazard at its
line, with the properties that would notice.

## The modules

### Decide

`decide` and what surrounds it, as operators. Each of rules 5 to 9 is a predicate
(`Exhausted`, `Overrun`, `Repeated`, `BelowThreshold`, opaque), `AutomaticRules` their
precedence. Money is an integer number of the smallest amount the model tells apart.
Parameters are reduced to their digest and to whether a context binding in them is
opaque; `Bad` stands for a value the boundary check rejects; the size limit of the
boundary check, which covers the state with its nonces, is `NonceCap`. A decision
function that is broken is a set of outcomes (`Consulted`): it raises, returns no pair,
a lookalike of ALLOW, or an ALLOW without a usable reason.

The modules that consult it prove what they rest on: a faulty outcome is never an ALLOW,
an allowed call was well formed and fits the budget unless a person released it, and a
transition releases only the pair it is bound to. `GuardProofs` also has `DecideMonotone`:
with less money, higher counts, more nonces or a tripped circuit, the verdict never gets
milder.

### Guard

One `Guard` scope. `Thread` are threads or event-loop tasks of the governed program;
`Main` runs the decorated function. Three kinds of hooked call, as in the code: a tool
call (`ToolStart`, `evaluate_tool_call`, `ToolDone`), an LLM call through the rebound
function (`LlmStart` sends it, `LlmReturn` evaluates it), and a bypassing one
(`GateStart`, `precheck_llm_call`, `BypassReturn`, then `Account` and `AccountLatch` on
litellm's thread). An interrupt asks an operator: `Abort` latches and raises, which a
framework may swallow (`Raise`), `Resume` unlatches the circuit and clears the counters
of its path, `Skip` drops the call if it is a tool call and changes nothing if it is an
LLM call. The bodies under the `RLock` are one action each; the latch check, the
evaluation, the prompt and the call itself are separate, so that everything interleaves
there. `spend`, `autoRuns`, `autoTotal` and `afterLatch` are history variables.

### Guardrail

Option A of the proxy guardrail. A dispatch is evaluated (`evaluate`: `Admit` or
`Block`), then its LLM call succeeds (`record`) or fails (`Fail`). The hooks contain no
await, so each is one action. Nothing in `src/` writes `pending_transition`; `Resolve`
stands for the deployment, which decides about dispatches that were made.

### PolicyStore

The Redis keys of one session. A key is a value and the ticks it has left. `Admit` and
`Refuse` are `evaluate_and_record` up to the reply of `_EVAL_LUA` with `decide` on it,
`IssueCapability` its second script; connections fail before and after either.
`PostExec`, `GrantHitl`, `SetLimit`, `ClearSession` and `Tick` are the rest. Request ids
are 192 random bits, so an id is new unless its key is still there (`Minted`).

Redis keeps the counters in decimal and the model exactly. What the scripts compute from
them in doubles may be off by `Slack` (`Remainders`), and what they print for `decide`
is rounded to a multiple of `Grain` when it has more digits than `tostring` keeps. So
the gate and `decide` judge two renderings of one amount, as in the code. Reservations
are one counter for the session: a request's own keys say how much of it is theirs
(`est`), but when they expire nothing is taken out of the counter.

### HitlBroker

The approval tokens. `Create`, `Audit`, `Send`, `EndAnnounce` are the HITL branch of
`/pre_exec`, with the broadcast's iteration over the live set of clients; then
`hitl_response`, and `Wait`, `Wake`, `Grant`, `Timeout`, `Cancel` are `/hitl_wait`. Every
handler begins with the sweep (`Swept`). The body under `hitl_lock` never suspends, so
each is one action; the awaits in between are where actions interleave.

### Capability and Approval

What the daemon's two halves promise, without how. `Capability`: a request is refused,
or admitted with its money held; only an admitted one gets an execution capability, and
that is settled once; what the store remembers ends with its keys. `Approval`: a request
is asked about once, answered at most once while it is open, and granted only by whoever
took an answer that allowed it. `PolicyStoreRefinement` and `HitlBrokerRefinement` read
these lives off the keys and off the token tables (`StageOf`, `ApprovalOf`), and TLC
checks that every step of the store and of the broker is a step of them or none.

### GovernedCall

The composition: calls decorated with `@shackled`, the client's POSTs, the daemon's
handlers of `/pre_exec`, `/hitl_wait` and `/post_exec`, the rows they leave in the audit
log, and a daemon that crashes and is started again. Store and broker are `Capability`
and `Approval`, so each of their steps is an action of those modules conjoined with what
the handler does around it. The client gives up on any POST after 30 s (`GiveUp`) while
the handler goes on; what it answers then reaches nobody. `_request_id`, which the calls
of one client share, is what `post_exec` reports (`Reported`). An audit row is the set of
fields that were signed, the set the table gives back and the key, which is what
`verify_log_integrity` compares.

### GuardScopes

Several `Guard` scopes and what they patch. A function is named by the scope whose
wrapper it is; entering reads each patched attribute and stores the wrapper, point by
point (`Begin`, `Install`, `Arm`), leaving puts back what was found (`Return`,
`Restore`), so scopes of two threads interleave anywhere. A call goes down the wrappers
it meets and up again (`Call`, `Enter`, `Arrive`, `Out`, `Unwind`); a call that bypasses
them goes through the gate and is booked by litellm's callback, to the first scope that
claims it (`Callback`). CrewAI's native models go through the hooks: `before_hook` takes
the baseline of the model's cumulative usage and settles, `after_hook` settles, a
step per shared read or write of `last_usage` and the counters, because `_settle` holds
no lock. A model without usage counters (`uncounted`) is booked by its hooks with an
estimate from the prompt and the answer (`Estimated`), and has no usage to settle. The
gate passes whatever call went through a wrapper, which it knows from the call's context
(`Gated`: no wrapper is on its way). `HookSettle` stores `last_usage` and books in one
step: what is booked is computed from values already read, so that nobody can tell the
store from the booking that follows it.

### SpecDecide, Ledger, SpecSession

`SpecDecide` is the second decision function, layer by layer, with `apply_allow`,
`apply_deny` and `apply_post_exec`. `Ledger` is the hash-chained file: lines that were
written whole, without their newline or in part (`Torn`), recovery of the last hash by
each instance that opens it, and `verify_chain`. A hash is the sequence of the events it
covers. `verify_chain` fails at the first line that cannot be read, so it links every line
to the one before it. `SpecSession` uses both as their docstrings say: decide, log,
apply; run; apply the cost, log. A host runs several calls at once, dies between two steps
or in the middle of a write, and shares the file with another writer. `Core` is an
instance of `Decide`, to which `CoreDiffersOnlyOnParameters` compares every decision. The
two functions have tests of their own for whether parameters are canonical and whether
their context is opaque (decide.py:174-223; conformance.py:236-300, 325-357), so a
parameter value carries the result of each.

### ReferenceClient

The protocol client: one stream, on which a call writes a request and reads the next
frame, in two steps, while the heartbeat task reads as well. asyncio's `StreamReader`
raises for a second reader; timeouts may fall between the length and the body of a frame
and leave the stream out of step. Writing awaits `drain()`, which has no timeout: a task
is `draining` until the daemon has read enough (`Drained`) or the connection is lost
(`DrainFails`); so is one that waits for `open_connection`, and that wait and the one for
the first `drain()` are one, since each ends when the daemon comes forward or the link
breaks. The daemon at the other end reads late or never, answers in order, late or never,
or breaks the link. `astray` records that a call ended without its reply.
The parts of its specification are named `ClientInit`, `ClientNext`, `ClientSpec` and so
on, apart from those of `GovernedCall`, the daemon's own client.

### Licensing

From the key generator to the audit exporter. The environment changes (`Redeploy`), and
is read when a process starts: `Launch` with what a program configured before, then
`startup`. `register_license` and `validate_license` commit their row, and `Finish` the
audit row and the answer. Between the two commits the server may be killed, and the
second commit may fail (`FinishFails`: a locked database, a full disk), which the client
sees as a 500. Either way the license stays without its row: `cut` remembers them. A
checksum and a signature are what they are computed from.

## The runs

Properties that share a run and a state are checked as one named conjunction (`LatchInv`,
`StoreInv`, `QueueInv`, `SessionInv`, `StreamInv`, `CallInv`, `UsageInv`, `AuditInv`), whose parts
have names and comments of their own in the module.

| run | what it checks | states |
|---|---|---|
| `guard_tools` | `LoopBound`, `PressureNeverLoosens`: two threads make identical and error-bearing calls while operators resume, skip and abort, with faulty decision functions | 155 k |
| `guard_llm` | `BookedWithinBudget`, `LatchInv` (after the latch a thread makes at most one more call), `FirstInterruptKept`: rebound and bypassing LLM calls, one thread on an event loop, the accounting thread | 64 k |
| `guard_headless` | `HeadlessSpendBound`: three threads and nobody to answer | 7 k |
| `guard_scopes` | `NestedScopesCompose`, `AbortStopsNested`, `BookedOnce` and `UsageInv` (usage of native models is neither lost nor settled twice): two scopes and one thread that calls, or one scope and two | 2.8 M |
| `guardrail_calls` | `ReleasesItsArguments`, `NonceBoundReleasesNothing`, `ClosedStaysClosed`: three dispatches, four configurations, ten kinds of human decision | 109 k |
| `policy_store` | `StoreInv` (one ALLOW per request, no capability without admission, the repeat ceiling), `ReservedCoversHeld`, `AllowIsChargeable`, `QuietReleasesReserved` (money of lost calls is released when no request of the last hour is left), `DeniedReservesNothing`, `CommitmentIsBounded`, `DivergenceIsRounding` (gate and `decide` part only where rounding takes what remains across the cost), `ImplementsCapability`: three requests, two parameter values (one opaque), two costs that print exactly, doubles that are off by one and printed to a grain of ten | 379 k |
| `hitl_answers` | `QueueInv` (bounded queue, one consumer per token), `IndexesAgree`, `GrantedWasApproved`, `TimedOutStaysRefused`, `WaitersReturn`, `ImplementsApproval`: two requests, two waiters, one place in the queue | 171 k |
| `governed_call` | `CallInv` (a running tool has money reserved, only what ran is paid, decisions on record verify in production), `HeldRunsOnlyIfGranted`, `CallsAreAnswered` | 240 k |
| `spec_session` | `SessionInv` (repeats, nonces and overspending of a whole session), `CoreDiffersOnlyOnParameters`, `ValidHoldsAcknowledged`, `SoleWriterVerifies` | 508 k |
| `reference_client` | `StreamInv` (a verdict is the caller's own unless an earlier call went astray), `CallsEnd` (calls end unless the daemon stops reading for good with the link open) | 657 k |
| `licensing` | `AuditInv` (answered registrations have their row; rows verify under their deployment's secret), `RegisteredIsGenuine`, `RefusedForAReason` | 1.6 M |

`guard_scopes_overlap` expects a violation: `EndedScopesAreGone`. core.py:644-645 says
that removal is done "so two Guard scopes (nested, or concurrent across threads/tasks) no
longer stomp on each other's "original" references", and core.py:1184-1185 that "nested or
concurrent Guard scopes compose". Nested ones do (`NestedScopesCompose`). Two scopes that
end in the order they began do not: A wraps the original and B wraps A; A's end puts the
original back and takes B's wrapper away while B is live, and B's end puts the wrapper of
A, which has ended, back for good (core.py:823).

### Divergences that have no run

The models show them without a run of their own.

* Runtime. The interrupt of an overrun LLM call says "the call never happened"
  (core.py:363): it was made and paid, and its cost is not booked. The rebound function
  sends first and checks afterwards (core.py:747-751), where README.md:15 has gates
  before "another request".
* Guardrail. An approval is "a single-use capability" (conformance.py:381), but a
  transition bound to a digest alone is never consumed by the guardrail; and the first of
  two calls that "must NOT silently drain the budget past zero on the second"
  (conformance.py:586) does, since the guardrail gives no estimate. `malformed_input`, for
  params that are "not canonicalizable" (SP-1.0-SPECIFICATION.md:310), is also the
  answer of a session whose nonces outgrew the size limit (`NonceCap`).
* Store. "DENIED calls never mutate state" (test_state_atomic.py:210-212): the gate
  compares doubles and reserves; `decide` then judges what `tostring` printed, with 14
  digits, and `evaluate_and_record` denies what only the gate admitted (state.py:423).
  With a limit of 1.0, 0.7 spent and a cost of 0.30000000000000004, which is `3 * 0.1`,
  the gate admits, "0.3" is printed, `decide` denies, and the reservation and the history
  entry stay. With a cost of 21 beside 10 and a default limit of 30 in
  `MCPolicyStore.cfg`, TLC finds `DeniedReservesNothing` violated that way. The other way
  round, limit 0.3, spent 0.1, cost 0.2, the gate denies on 0.19999999999999998 what
  `decide` would allow, before anything is reserved: the run meets that.
  `clear_session` ("Clear all state for a session", state.py:438) leaves the reservation;
  repeats of "this exact call" (state.py:227) are counted by parameters alone; budgets
  kept for "24 hours" (ARCHITECTURE.md:169) are forgotten after one.
* Broker. "Retain the future until the sole authenticated waiter consumes it"
  (daemon.py:348): a sweep or a timeout drops it with an accepted answer in it.
* Governed calls. `log_execution` signs fields that it stores as NULL when empty, so a
  row without a result or without an error does not verify; a result that is no object
  is refused by `/post_exec` (422) and never booked; the report is sent once, and the
  money of a lost one stays in the session's counter until the session has been quiet
  for an hour (`QuietReleasesReserved`), since every admission and report renews the
  counter and no request's expiry takes anything out of it (state.py:278-279, 296-298);
  and audit failures are logged and swallowed.
* Nested scopes. A bypassing call is booked by one scope alone (`BookedOnce`), so
  the budget of an inner scope does not see the calls an outer one claimed; and two
  workers inside one `_settle` can settle the same usage twice (`SettledOnce` holds as
  long as they do not race).
* Second decision function. The core refuses a session whose nonces outgrow its size
  limit, this function does not (hypothesis `NoncesFit` of `CoreStricterOnlyOnParameters`).
  Parameters the core finds not canonical or opaque and this function does not are
  denied or held there and allowed here (`CoreDiffersOnlyOnParameters`): decide.py:166-167
  says that it fails closed on opaque context, which SP-1.0-SPECIFICATION.md:244-253 has
  at any depth, but it looks at the top-level keys only (decide.py:213-223), so
  `{"a": {"ctx": "opaque"}}` passes. P2, "Repeat counts non-decreasing" (decide.py:13): a
  call that differs from the last one sets its tool's count back to 1 (decide.py:362). P8 and P9
  (decide.py:19-20): a pending approval is answered before nonces and the mode are looked
  at, and releases whatever call comes next. Window counts are never reset.
* Reference client. PROTOCOL.md:81 and :151 have ids that match replies to requests;
  the client compares none, and `_connected` stays true when the link breaks.
  `pre_exec_check` has a "Maximum time to wait for decision" (client.py:447), but it covers
  the read: a daemon that stops reading with the link open keeps a call whose payload is
  larger than the buffers in `drain()` (client.py:239) for ever. TLC finds `CallsEnd`
  violated that way when its hypothesis is dropped.
* License server. A registration that is killed between its commits, or whose audit
  commit fails, stays without its audit row, since to register again is a conflict; keys
  taken out of the trust anchors do not invalidate what was registered; a new master secret makes the rows of earlier ones unverifiable for the
  exporter; and the rows are signed with an HMAC where v2/compliance/README.md:159 says Ed25519.

### Bounds

* `Guard`: a tool budget of `MaxCalls` evaluations, `MaxSpend` money and one tick of the
  clock past the timeout. Five tool calls on two threads reach a loop twice, with a
  Resume in between. One tool with two inputs and one call id are enough: the code never
  relates two tools, or two ids, except by equality. Budget 2 or 3 with costs 1 and 2
  reaches the exact end of the budget and an overrun of it.
* `Guardrail`: three dispatches are the call an approval is about, a retry of it and one
  in flight. `NonceCap` is above what they use, so that the size limit does not hide
  other behaviour.
* `PolicyStore`: three requests fill a limit of 20 and a repeat ceiling of 3; `HourTtl` of
  2 lets one key expire before another that was set a tick later, `MaxSpent` bounds what
  a session may be charged. The history of three calls is as long as the run can fill,
  so its truncation at 100 does not occur. With `Grain` 10 and `Slack` 1, ten of the
  smallest amounts make one that is printed, as a 14-digit amount stands to the error of
  a double, and limits of 10 and 20 with costs of 10 and 20 meet a remainder just below,
  at and just above a cost.
* `HitlBroker`: two ticks of life let a token be claimed at one age and swept at another.
* `GuardScopes`: two scopes show every way two can overlap; `SmallPrograms` gives one
  thread two scopes or two threads one scope, each kind of call or pair of kinds, calls of
  cost 1 and a budget of 0 to 3, so that a first, second or third call is the one that is
  stopped, and racing hooks book several. Two scopes come with one or two calls, a third
  call with one scope and two threads. One program has a strict scope that fails to enter.
* `GovernedCall`: two calls of one client are what sharing `_request_id` takes; none, one
  or both are held. `MaxStarts` 2 allows one crash and restart. Keys do not expire while
  the client still asks or waits (an hour against minutes).
* `SpecSession`: a budget of 3, estimates 0 and 3, costs 1 and 3, three nonces and two
  calls at once reach an overrun by an unestimated cost; four lines of ledger hold a
  record, a torn line and what two writers append after it. One writer governs a session
  and another one only logs.
* `ReferenceClient`: six requests are a connection and its registration, three calls and
  a heartbeat, or two connections.
* `Licensing`: two licenses, four environments (an issuer, the second beside it, only the
  second under a new secret, nothing), three presets, two audit rows, one kill. The audit commit
  may fail whenever there is one.

Symmetry is used for safety runs whose request ids, worker threads, scopes or nonces
are interchangeable, never where a liveness property is checked. Runs that set
`CHECK_DEADLOCK FALSE` model programs that end: every call made, every request answered.

### Fairness

Each liveness property assumes fairness of steps the code's own scheduler takes, and of
nothing else.

* `HitlBroker`: time passes (`Tick`), and each waiter's own step (`Wake`, `Grant`,
  `Timeout` or `Cancel`) is taken when it stays enabled: the event loop runs ready tasks
  and its timers fire, and a store that does not answer raises. Nothing makes an operator
  answer, a client connect or the audit log succeed.
* `ReferenceClient`: a task whose data is there, or whose `wait_for` timer has fired, is
  run, and a lost connection ends every read and every `drain()`. Nothing is assumed of
  the daemon: it may never read and never answer. `CallsEnd` therefore has a hypothesis
  about it, that again and again nobody is draining or the link is broken.
* `GovernedCall`: the client's loop takes an answer that is there or gives up after its
  timeout. Nothing is assumed of the daemon, the operator, the tool or the keys of Redis:
  the daemon may hang, stay down or never start.

## The proofs

All proofs are checked by `tlapm` for every value of the constants that the named
assumptions of the modules allow.

* Decision core, in `GuardProofs`: by cases on the rules, in the order of their
  precedence. `RulesPersist` and `ErrorsPersist` say that each rule, once it fires, keeps
  firing or is overtaken by a stricter one; `DecideMonotone` combines them.
* `GuardProofs`: `IInv` is type correctness, `BookedWithinBudget`, `LoopBound`,
  `OneLastCall` and two strengthenings. `RunsAreCounted`: unattended runs of a key are at
  most its count in `tool_history`, and in total at most `total_tool_calls`; without it
  `LoopBound` is not inductive, since the bound is enforced on the counts. `LastCallIsLast`:
  a thread that has let a call go after the latch is in no phase from which it can let
  another go. The theorems are `TypeCorrect`, `BookedStaysWithinBudget` (an ALLOW of
  `LlmVerdict` fits what is left: `AutomaticAllowFits`), `LoopsAreBounded`,
  `OneCallAfterTheLatch`, `FirstInterruptIsKept` and `PressureOnlyTightens` (from
  `DecideMonotone`, with one case per action).
* `GuardrailProofs`: `TypeCorrect`, `ApprovalsReleaseTheirArguments`,
  `NonceBoundApprovalsAreInert` (a pending transition names only dispatches that were
  made, and a dispatch is evaluated once) and `ClosedIsFinal` (a denial trips the
  circuit, and nothing closes it).

* `HitlBrokerProofs`: all safety properties (`QueueInvHolds` is the conjunction the run
  checks), for any number of requests, waiters and clients. `IInv` adds to them what the
  single one needs: `FuturesAgree` (a pending token has an open or an answered future,
  and only an answered one has a response), `AnswersAreTimely`, and `ClaimsHold`: a
  waiting waiter's token stays claimed while it is in the table, and a waiter that is
  past waiting has left none behind, so nobody claims it again. Steps that only drop
  tokens share one lemma (`DropKeepsIInv`), ends of a wait another (`SettleKeepsIInv`).
  `Nil` is assumed to be none of the values it stands beside. `BrokerImplementsApproval`
  maps each action to one of `Approval` or to a stutter, per request, from that `IInv`.
* `PolicyStoreProofs`: `IInv` says which key of a request outlives which (`KeysAgree`),
  what the evaluator's last answer implies about them (`AnswersAgree`), and that an
  expired key reads as absent. `StoreSafe` and `AllowChargeable` follow, and
  `StoreImplementsCapability`, which is about every key at once: a tick ends several
  lives together. The money needs sums over all requests: `Held` is a sum, whose lemmas
  (one term changed, all terms dropped) are proved by induction on the least
  counterexample of a set of naturals (`NatsAreIn`). `ReservationCovers` and
  `CommitmentBounded` hold if `tostring` rounds no estimate up (`RoundsDown`), and
  `DenialsReserveNothing` if it prints every cost exactly (`PrintsCosts`). These are
  hypotheses because the code does not guarantee them: Lua keeps 14 digits, and
  the store's divergence above is what happens without the second. `DivergesByRounding` has none
  of the kind: it says, for any `Grain` and `Slack`, when the gate and `decide` part.
  Both rest on rounding being monotone, and on `max_repeat` being above 0: 0, which
  state.py:389 accepts and the daemon never passes (daemon.py:280 passes 3), denies in
  `decide` what the Lua gate lets pass. `QuietReleases` needs no hypothesis: the counter is
  renewed only together with a key that lives as long.
* `GuardProofs` also proves `HeadlessSpendIsBounded`, by counting: before the latch,
  what was spent and is not booked belongs to threads that wait for the answer Abort;
  after it, to threads that do not send any more (`SpendIsCounted`). It assumes finitely
  many threads and a largest cost.
* `ClientProofs`, for the governed calls: the wrapper of a call and the handler of its
  latest POST agree (`PostsAgree`: a client that gave up leaves a handler behind, but only
  one that its phase explains), and so do the handler and the store (`StoreAgrees`: a
  reply ALLOW that is on its way stands for money still held); `KeysAgree` is what
  production assumes of the signing key. `CallsAgree` and `HeldNeedsGrant` follow. A step
  moves one call, which `OneCallMoves` uses once for all.
* `ClientProofs`, for the reference client (the two modules share no top-level name, so
  that one module extends both): the client compares no identifier, so that a verdict is
  whatever frame of its kind comes next. `WireInv`, for any number of callers, says that
  the stream and its readers are well formed and that no two frames on the way, as
  requests, halves or whole, are of one request (`Distinct`); `StreamTypeCorrect` states
  it. `VerdictsAwaited` adds, while no call of the connection ended without its reply,
  that the only frames of a kind that returns a verdict are the reply to the call under
  way: what else the stream holds is the heartbeat's and the handshake's, and a reader
  that takes one of those returns no verdict. `VerdictsAreOwn` (`StreamInv`) follows for
  one caller (`SingleCaller`), for whom the property is meant: two callers of one client
  can take each other's verdicts, which is why the hypothesis is there. The daemon's half
  (a request answered in order, a reply that arrives in two parts) has one lemma for each
  end of the stream (`AnswerKeeps`, `PartKeeps`), for any contents of it.
* `LicensingProofs`: `BundlesAgree` (a bundle is signed as it stands), `SecretDeployed`
  (a running process has the secret of the environment it started under), `HandlingAgrees`
  (between its commits a registration has its row and a secret to sign with) and
  `ReasonsHold` strengthen `RegisteredIsGenuine`, `RefusedForAReason` and the parts of
  `AuditInv`. `AnsweredIsAudited` is about answered registrations: a client that got a
  500, or nothing, has no such promise.
* `SpecSessionProofs`: the ledger and the sessions meet only in who is alive (`Opened`).
  For the ledger, `KeptOrTorn`: a line with its newline never changes, so an acknowledged
  record is either in one or a complete line that cannot be read is there for good; and
  `SoleWriterContinues`. For the sessions, `CountsAgree` (the session's own counts cover
  the histories) and `MoneyAgrees`, in which `MaxRunning` calls in flight bound what is
  overspent. `CoreStricterOnlyOnParameters` says exactly what the core does with a call that
  this function releases by its rules: DENY if the core cannot canonicalize the
  parameters, HITL if it finds their context opaque, ALLOW otherwise. It needs
  `NoncesFit`: the core answers `malformed_input` to a session whose nonces outgrow its
  size limit, and this function goes on.
* `GuardScopesProofs`: the four properties of `GuardScopes`, for any set of scopes, any
  workers and any program, from an `IInv` of four layers, the last three of
  which rest on the first.
  1. How far a scope has come (`PatchInv`): its phase says which points it has taken and
     given back and where it is registered, and a wrapper that has not been stored is
     nowhere, neither installed nor saved nor on a call's way.
  2. Who may still book a call (`BookInv`). `Under` says that one function stands below
     another at a point, without recursion: it is in every set that is closed under
     "wraps". No wrapper stands under what it wraps (`Acyclic`), whichever scopes overlap
     and in whatever order they end, so a call that goes down meets no scope twice
     (`Descends`), and a call that is still in a wrapper is not yet the callback's to
     claim, nor marked as one that bypasses (`Identified`; `Free` and `Told` are how far
     a call has come when it is). `BookedOnce` follows.
  3. Brackets (`NestInv`): while scopes nest, each found what the one before it had
     stored, and only the latest is on its way in or out. `NestedScopesCompose` follows;
     with it, a live scope that was latched when a call began is still ahead of the call
     (`StopInv`), and `AbortStopsNested` follows.
  4. What hooks have read (`SettleInv`): between the steps of one `_settle`, the value of
     the counter that was read, what has been settled and `last_usage` bound one another
     from both sides, from one side if two workers race (`ReadsAgree`). `UsageInv` follows.

  The bounds of `SmallPrograms` (two scopes, two workers, three calls) play no part: the
  theorems hold for all of them. What overlapping scopes do to each other's wrappers
  (`EndedScopesAreGone`) stays a violation; that they book once is proved for them too.

Only model-checked: all liveness, since fairness and ENABLED are out of the prover's reach
(`CallsAreAnswered`, `WaitersReturn`, `CallsEnd`).
Every invariant and every action property of a passing run is stated by a theorem.

## Not modelled

* The stubs of the protocol's server and client (`server_stub.py`, `client_stub.py`).
  `_start_unix_server` (server_stub.py:450-480) calls a blocking `accept()` inside the
  event loop: no handler, cleanup or timeout of it runs after that, so that there is no
  behaviour to model; the WebSocket transport is a TODO and no test drives either file.
* The AutoGen wrapper and Option B of the guardrail: thin deployments of the engine that
  `Guard` models.
* `generate_pdf.py`, the certification pipeline and its checker, the CLI, the clients in
  other languages, demos, benchmarks and generated protobuf code: sequential scripts,
  wrappers over HTTP and presentation, without state the properties are about.
* Read-only queries: the audit trail's query functions and the exporter's filters, limit
  and formats.
* The HTTP and WebSocket layers themselves and authentication. Within the modelled parts:
  the text of messages and labels, pricing tables, logging, and the canonical form of
  parameters. `disconnect` of the reference client also awaits `wait_closed()`, which
  concerns no other call. A license exporter is modelled with one master secret, as it
  takes one. The example `shackle` decorator of the reference client, whose client is
  None and which raises AttributeError when called.

## Plan

What is left to model: Option B of the guardrail and the AutoGen wrapper, on `Guard`'s
engine.
