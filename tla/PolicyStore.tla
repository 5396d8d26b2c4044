---------------------------- MODULE PolicyStore -----------------------------
(***************************************************************************)
(* The daemon's session state in Redis (v2/daemon/state.py), for one       *)
(* session.  Each Lua script is one atomic action; evaluate_and_record is  *)
(* two of them, _EVAL_LUA and then _ISSUE_CAPABILITY_LUA, with decide() in *)
(* between and a Redis connection that may fail around either.             *)
(*                                                                         *)
(* A Redis key is an entry [val, ttl]: ttl counts the ticks it has left, 0 *)
(* means the key does not exist and Persist that it never expires.  The    *)
(* fingerprint of a request is its id, tool and parameters; kept under a   *)
(* key of that id, it is the call.  Money is an integer number of the      *)
(* smallest amount the model tells apart.  The counters are exact, as      *)
(* Redis keeps them in decimal; what the scripts compute from them in      *)
(* doubles is off by up to Slack, and what they print is rounded.          *)
(***************************************************************************)
EXTENDS Decide, Sequences, Functions

CONSTANTS
  Request,       \* request ids
  Tool, Params,  \* a call is a tool and parameters
  Opaque,        \* the parameters with an opaque context binding
  Cost,          \* estimated and actual costs
  Limit,         \* limits an operator may set
  DefaultLimit,  \* limit of a session with no limit key
  MaxRepeat,     \* max_repeat of /pre_exec
  HistoryCap,    \* calls the history list keeps (100 in the code)
  HourTtl,       \* 3600 s, in ticks
  DayTtl,        \* 86400 s, in ticks
  Grain,         \* precision of Lua's tostring: 1 is exact
  Slack,         \* error of a sum or difference of amounts in Lua: 0 is exact
  MaxSpent       \* bound on what a session may be charged

Call == [tool : Tool, params : Params]

ASSUME StoreAssumption ==
  /\ Opaque \subseteq Params
  /\ Cost \subseteq Nat /\ Limit \subseteq Nat /\ DefaultLimit \in Nat
  /\ MaxRepeat \in Nat /\ HistoryCap \in Nat \ {0}
  /\ HourTtl \in Nat \ {0} /\ DayTtl \in Nat \ {0} /\ Grain \in Nat \ {0}
  /\ Slack \in Nat /\ MaxSpent \in Nat
  /\ Nil \notin Call /\ Bad \notin Tool \cup Params
  /\ IsFiniteSet(Request)

VARIABLES
  spent, limit, reserved,         \* budget keys of the session
  history,                        \* recorded calls, newest first
  request, est, exec, consumed,   \* the keys of each request
  asking,    \* the evaluation of a request between its two scripts: its call
  answer,    \* what its evaluator was told (history variable); ERROR is a
             \* fail-closed denial after the gate admitted the call
  allows     \* ALLOWs given for it while its key lives (history variable)

budgetVars == <<spent, limit, reserved>>
keyVars    == <<request, est, exec, consumed>>
vars       == <<budgetVars, history, keyVars, asking, answer, allows>>

-----------------------------------------------------------------------------
(***************************************************************************)
(* Entries.                                                                *)
(***************************************************************************)
Persist == -1

Gone(absent)    == [val |-> absent, ttl |-> 0]
Fresh(value)    == [val |-> value, ttl |-> HourTtl]
Live(entry)     == entry.ttl # 0
Aged(entry, absent) ==
  IF entry.ttl = 1 THEN Gone(absent)
  ELSE IF entry.ttl > 1 THEN [entry EXCEPT !.ttl = @ - 1]
  ELSE entry

\* GET limit, or the default the scripts are given.
LimitNow == IF Live(limit) THEN limit.val ELSE DefaultLimit

Committed == spent.val + reserved.val

-----------------------------------------------------------------------------
(***************************************************************************)
(* The gate of _EVAL_LUA, and decide() on what it returns.                 *)
(***************************************************************************)
\* The script looks for the parameters' hash; the tool's name plays no part.
Prior(call) ==
  Cardinality({i \in DOMAIN history.val : history.val[i].params = call.params})

\* A slip: money promised to others is not counted.
Remainders_unreserved == {LimitNow - spent.val + e : e \in -Slack..Slack}

\* What `remaining' may come to in the script.
Remainders == {LimitNow - Committed + e : e \in -Slack..Slack}

\* A slip: one repeat too many.
RepeatDenied_late(call) == MaxRepeat > 0 /\ Prior(call) >= MaxRepeat

RepeatDenied(call) == MaxRepeat > 0 /\ Prior(call) + 1 >= MaxRepeat
BudgetDenied(cost, rest) == LimitNow > 0 /\ (rest <= 0 \/ rest - cost < 0)

Admits(call, cost, rest) == ~RepeatDenied(call) /\ ~BudgetDenied(cost, rest)

\* tostring() keeps 14 significant digits: all of a small amount, fewer than there
\* are of a larger one.
tostring(x) ==
  IF x \in 1-Grain..Grain-1 THEN x ELSE ((2 * x + Grain) \div (2 * Grain)) * Grain

\* The call under evaluation counts (decision.py:69).
effective_count_prior(call) == Prior(call)    \* a slip: it does not
effective_count(call) == Prior(call) + 1

decide_for_daemon(call, cost, rest) ==
  decide([budget_usd |-> tostring(LimitNow), max_repeat_calls |-> MaxRepeat,
          hitl_mode |-> "never", hitl_budget_threshold |-> Nil],
         [budget_initial_usd |-> tostring(LimitNow),
          budget_remaining_usd |-> tostring(rest),
          circuit_tripped |-> FALSE, seen_nonces |-> {},
          repeat_count |-> effective_count(call), last_tool_name |-> call.tool,
          pending_transition |-> Nil],
         [tool_name |-> call.tool, nonce |-> call.params, digest |-> call.params,
          opaque |-> call.params \in Opaque, estimated_cost_usd |-> cost])

-----------------------------------------------------------------------------
Init ==
  /\ spent = Gone(0) /\ limit = Gone(0) /\ reserved = Gone(0)
  /\ history = Gone(<<>>)
  /\ request = [r \in Request |-> Gone(Nil)]
  /\ est = [r \in Request |-> Gone(0)]
  /\ exec = [r \in Request |-> Gone(Nil)]
  /\ consumed = [r \in Request |-> Gone(Nil)]
  /\ asking = [r \in Request |-> Nil]
  /\ answer = [r \in Request |-> "none"]
  /\ allows = [r \in Request |-> 0]

\* SET request NX: a live key means this is a replay, which is denied and
\* changes nothing.  An id that is not a replay was minted afresh by the client
\* (client.py:108), so no key of an earlier life of it is left.
FirstSeen_always(r) == TRUE   \* a slip: SET without NX
FirstSeen(r) == ~Live(request[r])
Minted(r) == Live(request[r]) \/ ~(Live(est[r]) \/ Live(exec[r]) \/ Live(consumed[r]))

Tell(r, what) ==
  /\ answer' = [answer EXCEPT ![r] = what]
  /\ allows' = [allows EXCEPT ![r] = IF what = "ALLOW" THEN @ + 1 ELSE @]

\* A slip: the counter keeps the time it had left.
Reserve_unexpiring(cost) ==
  reserved' = [val |-> reserved.val + cost,
               ttl |-> IF Live(reserved) THEN reserved.ttl ELSE Persist]

\* INCRBYFLOAT and EXPIRE of the one reservation counter.
Reserve(cost) == reserved' = Fresh(reserved.val + cost)

\* evaluate_and_record up to the reply of _EVAL_LUA, when the gate admits the
\* call.  The reply may be lost, decide() may disagree with the gate, a HITL
\* verdict is final here, and an ALLOW goes on to issue the capability.
Admit(r, call, cost) ==
  /\ FirstSeen(r) /\ Minted(r)
  /\ asking[r] = Nil
  /\ Committed + cost <= MaxSpent
  /\ request' = [request EXCEPT ![r] = Fresh(call)]
  /\ Reserve(cost)
  /\ history' = Fresh(SubSeq(<<call>> \o history.val, 1,
                             IF Len(history.val) < HistoryCap
                             THEN Len(history.val) + 1 ELSE HistoryCap))
  /\ est' = [est EXCEPT ![r] = Fresh(tostring(cost))]
  /\ \E rest \in Remainders :
       /\ Admits(call, cost, rest)
       /\ LET verdict == decide_for_daemon(call, cost, rest)[1] IN
          \/ Tell(r, "ERROR") /\ UNCHANGED asking     \* the connection failed
          \/ verdict = "DENY" /\ Tell(r, "DIVERGED") /\ UNCHANGED asking
          \/ verdict = "HITL" /\ Tell(r, "HITL") /\ UNCHANGED asking
          \/ verdict = "ALLOW" /\ Tell(r, "none") /\ asking' = [asking EXCEPT ![r] = call]
  /\ UNCHANGED <<spent, limit, exec, consumed>>

\* The same when the gate refuses it: the request id is burnt, nothing else.
Refuse(r, call, cost) ==
  /\ FirstSeen(r) /\ Minted(r)
  /\ asking[r] = Nil
  /\ request' = [request EXCEPT ![r] = Fresh(call)]
  /\ \E rest \in Remainders :
       /\ ~Admits(call, cost, rest)
       /\ Tell(r, IF decide_for_daemon(call, cost, rest)[1] = "DENY" THEN "DENY" ELSE "DIVERGED")
  /\ UNCHANGED <<budgetVars, history, est, exec, consumed, asking>>

\* _ISSUE_CAPABILITY_LUA and the end of evaluate_and_record.  A connection that
\* fails, before or after the script ran, fails the evaluation closed.
MayIssue(r, call) ==
  /\ Live(request[r]) /\ Live(est[r])
  /\ request[r].val = call
  /\ ~Live(exec[r])

IssueCapability(r) ==
  /\ asking[r] # Nil
  /\ asking' = [asking EXCEPT ![r] = Nil]
  /\ \/ /\ MayIssue(r, asking[r])
        /\ exec' = [exec EXCEPT ![r] = Fresh(request[r].val)]
        /\ \E what \in {"ALLOW", "ERROR"} : Tell(r, what)
     \/ ~MayIssue(r, asking[r]) /\ Tell(r, "DENY") /\ UNCHANGED exec
     \/ Tell(r, "ERROR") /\ UNCHANGED exec
  /\ UNCHANGED <<budgetVars, history, request, est, consumed>>

\* grant_hitl_execution, once a person approved a held request.  The daemon
\* calls it for requests it answered HITL, once (hitl_wait).
MayGrant(r) ==
  /\ Live(request[r]) /\ Live(est[r])
  /\ \E e \in -Slack..Slack : ~(LimitNow > 0 /\ Committed + e > LimitNow)
  /\ ~Live(exec[r])

GrantHitl(r) ==
  /\ answer[r] = "HITL"
  /\ \/ /\ MayGrant(r)
        /\ exec' = [exec EXCEPT ![r] = Fresh(request[r].val)]
        /\ \E what \in {"ALLOW", "ERROR"} : Tell(r, what)
     \/ Tell(r, "ERROR") /\ UNCHANGED exec   \* not granted, or not reached
  /\ UNCHANGED <<budgetVars, history, request, est, consumed, asking>>

\* record_post_exec_once: consume the matching capability and book the cost.
\* Any other report is refused and changes nothing.
MayCharge(r, call) ==
  /\ Live(exec[r]) /\ exec[r].val = call
  /\ Live(est[r])
  /\ ~Live(consumed[r])

PostExec(r, call, actual) ==
  /\ MayCharge(r, call)
  /\ spent.val + actual <= MaxSpent
  /\ consumed' = [consumed EXCEPT ![r] = Fresh(call)]
  /\ spent' = Fresh(spent.val + actual)
  /\ reserved' = Fresh(reserved.val - est[r].val)
  /\ exec' = [exec EXCEPT ![r] = Gone(Nil)]
  /\ est' = [est EXCEPT ![r] = Gone(0)]
  /\ UNCHANGED <<limit, history, request, asking, answer, allows>>

\* set_budget_limit: SET, then EXPIRE in a second round trip that may fail.
SetLimit(l) ==
  /\ \E ttl \in {DayTtl, Persist} : limit' = [val |-> l, ttl |-> ttl]
  /\ UNCHANGED <<spent, reserved, history, keyVars, asking, answer, allows>>

\* A slip: clear_session deletes the reservation as well, of calls still running.
ClearSession_reserved ==
  /\ spent' = Gone(0) /\ limit' = Gone(0) /\ history' = Gone(<<>>) /\ reserved' = Gone(0)
  /\ UNCHANGED <<keyVars, asking, answer, allows>>

\* Another: it deletes the keys of the requests.
ClearSession_requests ==
  /\ spent' = Gone(0) /\ limit' = Gone(0) /\ history' = Gone(<<>>)
  /\ est' = [r \in Request |-> Gone(0)] /\ exec' = [r \in Request |-> Gone(Nil)]
  /\ UNCHANGED <<reserved, request, consumed, asking, answer, allows>>

\* clear_session deletes three keys.
ClearSession ==
  /\ spent' = Gone(0) /\ limit' = Gone(0) /\ history' = Gone(<<>>)
  /\ UNCHANGED <<reserved, keyVars, asking, answer, allows>>

\* Time passes for every key at once.  A request whose key is gone is forgotten.
Tick ==
  /\ spent' = Aged(spent, 0) /\ limit' = Aged(limit, 0) /\ reserved' = Aged(reserved, 0)
  /\ history' = Aged(history, <<>>)
  /\ request' = [r \in Request |-> Aged(request[r], Nil)]
  /\ est' = [r \in Request |-> Aged(est[r], 0)]
  /\ exec' = [r \in Request |-> Aged(exec[r], Nil)]
  /\ consumed' = [r \in Request |-> Aged(consumed[r], Nil)]
  /\ answer' = [r \in Request |-> IF Live(request'[r]) THEN answer[r] ELSE "none"]
  /\ allows' = [r \in Request |-> IF Live(request'[r]) THEN allows[r] ELSE 0]
  /\ UNCHANGED asking

Next ==
  \/ \E r \in Request, call \in Call, cost \in Cost :
       Admit(r, call, cost) \/ Refuse(r, call, cost) \/ PostExec(r, call, cost)
  \/ \E r \in Request : IssueCapability(r) \/ GrantHitl(r)
  \/ \E l \in Limit : SetLimit(l)
  \/ ClearSession
  \/ Tick

Spec == Init /\ [][Next]_vars

-----------------------------------------------------------------------------
(***************************************************************************)
(* Properties.                                                             *)
(***************************************************************************)
Entry(S, absent) == [val : S, ttl : 0..HourTtl] \cup {Gone(absent)}

TypeOK ==
  /\ spent \in Entry(Int, 0) /\ reserved \in Entry(Int, 0)
  /\ limit \in [val : Limit, ttl : {Persist} \cup (1..DayTtl)] \cup {Gone(0)}
  /\ history \in Entry(Seq(Call), <<>>)
  /\ request \in [Request -> Entry(Call, Nil)]
  /\ est \in [Request -> Entry({tostring(c) : c \in Cost}, 0)]
  /\ exec \in [Request -> Entry(Call, Nil)]
  /\ consumed \in [Request -> Entry(Call, Nil)]
  /\ asking \in [Request -> Call \cup {Nil}]
  /\ answer \in [Request -> {"none", "ALLOW", "HITL", "DENY", "DIVERGED", "ERROR"}]
  /\ allows \in [Request -> Nat]

\* The money promised to calls that may still run.
Held == SumFunctionOnSet([r \in Request |-> est[r].val], Request)

\* The one reservation counter never drops below the estimates it stands for,
\* through refunds, expiry and clear_session alike: if it did, concurrent calls
\* would be admitted against money already promised.  It also never outlives or
\* predeceases them wrongly: every live estimate is backed by a live counter.
ReservedCoversHeld ==
  /\ reserved.val >= Held
  /\ \A r \in Request : est[r].ttl <= reserved.ttl

\* A request id is allowed at most once while its key lives, whatever mixture of
\* duplicated deliveries, lost replies and human approvals happens.
OneAllowPerRequest == \A r \in Request : allows[r] <= 1

\* An ALLOW can be settled: while the request's key lives, a call that was
\* allowed either holds a capability for exactly that call, with the estimate
\* _POST_EXEC_LUA needs to book it, or has been booked already.
AllowIsChargeable ==
  \A r \in Request :
    answer[r] = "ALLOW" =>
      Live(consumed[r]) \/ MayCharge(r, request[r].val)

\* Capabilities exist only for requests that were admitted: whoever was refused
\* by the gate, or is waiting for a person, has nothing to execute with.
NoCapabilityUnlessAdmitted ==
  \A r \in Request :
    Live(exec[r]) /\ Live(request[r]) =>
      /\ exec[r].val = request[r].val
      /\ answer[r] \in {"ALLOW", "ERROR"}   \* ERROR: the reply was lost
      /\ Live(est[r])

\* The ceiling of identical calls bites at max_repeat, however calls interleave.
RepeatCeiling ==
  MaxRepeat > 0 => \A call \in Call : Prior(call) <= MaxRepeat - 1

\* What the session's keys say of its requests, together.
StoreInv == TypeOK /\ OneAllowPerRequest /\ NoCapabilityUnlessAdmitted /\ RepeatCeiling

\* A call that is denied for good has no money reserved, although the gate reserves
\* before decide() has the last word: "DENIED calls never mutate state"
\* (test_state_atomic.py:210-212).  It needs costs that tostring() prints exactly.
DeniedReservesNothing ==
  \A r \in Request : answer[r] \in {"DENY", "DIVERGED"} => ~Live(est[r])

\* The money of a call that was lost stays in the session's counter as long as calls
\* are admitted or settled: no expiry of a request takes it out.  It is released when
\* no request of the last hour is left (state.py:278-279, 296-298).
QuietReleasesReserved ==
  Live(reserved) => \E r \in Request : Live(request[r]) \/ Live(consumed[r])

\* The gate and decide() judge a call in two places, from two renderings of one
\* amount (state.py:273-284, 423).  They part, and the call is denied for
\* state_decision_divergence, only where rounding takes what remains across the cost.
DivergenceIsRounding ==
  [][ \A r \in Request :
        answer[r] # "DIVERGED" /\ answer'[r] = "DIVERGED" =>
          \E cost \in Cost, rest \in Remainders :
            \/ rest < cost /\ cost <= tostring(rest)
            \/ tostring(rest) < cost /\ cost <= rest ]_vars

\* What the session owes, spent and promised, grows only within the limit in
\* force, as exactly as the gate can tell, or because an execution cost more than it was estimated at.
Overrun1(r) == ~Live(consumed[r]) /\ Live(consumed'[r]) /\ spent'.val - spent.val > est[r].val

CommitmentIsBounded ==
  [][ Committed' > Committed =>
        \/ LimitNow' = 0
        \/ Committed' <= LimitNow' + Slack
        \/ \E r \in Request : Overrun1(r) ]_vars

=============================================================================
