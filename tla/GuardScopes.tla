---------------------------- MODULE GuardScopes ----------------------------
(***************************************************************************)
(* Several Guard scopes in one process (shackle/core.py): how they patch   *)
(* the functions of litellm, langchain and CrewAI and take the patches     *)
(* away again, which of them a call then meets, and which of them books    *)
(* it.  Module Guard models what one scope does with a call in detail;     *)
(* here a scope is headless (every interrupt is an Abort) and has a        *)
(* budget, and a call costs 1.                                             *)
(*                                                                         *)
(* A patched function is named by the scope whose wrapper it is.  What it  *)
(* wraps was read before it was stored, in two steps, so that two scopes   *)
(* of different threads can interleave.  "litellm" stands for completion   *)
(* and acompletion, "tool" for BaseTool.run and arun and CrewAI's          *)
(* Agent.execute_task, whose wrappers have one shape.                      *)
(***************************************************************************)
EXTENDS Naturals, FiniteSets, SequencesExt

CONSTANTS
  Scope, Worker,
  Original, Nil,
  Programs   \* the programs there are, by the scopes, threads and kinds of call
             \* they have, their budget, the strict scopes that find a loaded
             \* framework without a hook, and a bound on the calls

Points == <<"litellm", "gate", "tool">>
Fn     == Scope \cup {Original}
Llm    == {"native", "uncounted", "routed"}  \* a CrewAI model: its own provider,
                                             \* with usage counters or without, or litellm
Kind   == {"rebound", "bypass", "tool"} \cup Llm
Hook   == {"before_llm", "after_llm", "before_tool"}

ASSUME ScopesAssumption ==
  /\ Original \notin Scope /\ Nil \notin Scope \cup Nat

ASSUME ProgramsAssumption ==
  \A p \in Programs : /\ p.scopes \subseteq Scope /\ p.workers \subseteq Worker /\ p.kinds \subseteq Kind
                      /\ p.refused \subseteq p.scopes
                      /\ p.budget \in Nat /\ p.calls \in Nat

VARIABLES
  program,
  installed,        \* the function at each point
  saved, put,       \* what a scope wrapped; how many points it has done
  phase,
  hooks,            \* CrewAI's registered hooks, by scope
  litellm_scopes,   \* _LITELLM_SCOPES, in order of insertion
  total_cost, pending_interrupt, bypass_call_ids,  \* a scope's ExecutionState
  doing, calls,     \* the call each worker is in, and how many there were
  due,              \* bypassing calls whose success callback is to come
  counter,          \* a CrewAI model's cumulative usage
  last_usage,
  begun, nested,    \* history: scopes not yet ended; was every end in order?
  booked,           \* history: the scopes that booked a call, one by one
  base, settled,    \* history: the highest baseline; what hooks booked by counters
  raced             \* history: two workers were in one scope's _settle at once

patches == <<installed, saved, put, phase, hooks, litellm_scopes, begun, nested>>
states  == <<total_cost, pending_interrupt, bypass_call_ids>>
usage   == <<counter, last_usage, base, settled, raced>>
vars    == <<program, patches, states, doing, calls, due, usage, booked>>

-----------------------------------------------------------------------------
(***************************************************************************)
(* Entering and leaving a scope: _apply_patches, _check_coverage and       *)
(* _remove_patches.                                                        *)
(***************************************************************************)
Moving == {s \in Scope : phase[s] \in {"entering", "leaving"}}
InOrder(s) == nested /\ Moving \subseteq {s} /\ (begun = <<>> \/ Last(begun) = s)

\* prev = getattr(...): what is installed now, another scope's wrapper too.
Found(s, i) == IF i <= Len(Points) THEN Append(saved[s], installed[Points[i]]) ELSE saved[s]

Begin(s) ==
  /\ phase[s] = "idle" /\ s \in program.scopes
  /\ phase' = [phase EXCEPT ![s] = "entering"]
  /\ saved' = [saved EXCEPT ![s] = Found(s, 1)]
  /\ begun' = Append(begun, s)
  /\ nested' = (nested /\ Moving = {})
  /\ UNCHANGED <<installed, put, hooks, litellm_scopes, states, doing, calls, due, usage, booked, program>>

\* One point is patched, and the next one read.
Install(s) ==
  /\ phase[s] = "entering" /\ put[s] < Len(Points)
  /\ LET p == Points[put[s] + 1] IN
       /\ installed' = [installed EXCEPT ![p] = s]
       /\ litellm_scopes' = IF p = "gate" THEN Append(litellm_scopes, s) ELSE litellm_scopes
  /\ saved' = [saved EXCEPT ![s] = Found(s, put[s] + 2)]
  /\ put' = [put EXCEPT ![s] = @ + 1]
  /\ UNCHANGED <<phase, hooks, begun, nested, states, doing, calls, due, usage, booked, program>>

\* The hooks are last.  A strict scope with a gap raises inside the try, whose
\* finally takes every patch away.
Arm(s) ==
  /\ phase[s] = "entering" /\ put[s] = Len(Points)
  /\ hooks' = Append(hooks, s)
  /\ phase' = [phase EXCEPT ![s] = IF s \in program.refused THEN "leaving" ELSE "live"]
  /\ put' = [put EXCEPT ![s] = 0]
  /\ UNCHANGED <<installed, saved, litellm_scopes, begun, nested,
                 states, doing, calls, due, usage, booked, program>>

\* The decorated function has returned or raised.
Return(s) ==
  /\ phase[s] = "live"
  /\ phase' = [phase EXCEPT ![s] = "leaving"]
  /\ nested' = InOrder(s)
  /\ UNCHANGED <<installed, saved, put, hooks, litellm_scopes, begun,
                 states, doing, calls, due, usage, booked, program>>

\* A scope is registered once; pop and unregister take that entry out.
Without(seq, s) == RemoveAt(seq, CHOOSE i \in DOMAIN seq : seq[i] = s)

\* A slip: what is put back is litellm's own function, not what was there.
Restored_original(s, i) == Original

\* What a scope puts back: exactly what it found.
Restored(s, i) == saved[s][i]

\* The points are given back in the order they were taken, the hooks last.
Restore(s) ==
  /\ phase[s] = "leaving"
  /\ LET p == Points[put[s] + 1] done == put[s] + 1 = Len(Points) IN
       /\ installed' = [installed EXCEPT ![p] = Restored(s, put[s] + 1)]
       /\ litellm_scopes' = IF p = "gate" THEN Without(litellm_scopes, s) ELSE litellm_scopes
       /\ put' = [put EXCEPT ![s] = IF done THEN 0 ELSE @ + 1]
       /\ IF done
          THEN /\ hooks' = Without(hooks, s)
               /\ phase' = [phase EXCEPT ![s] = "ended"]
               /\ begun' = Without(begun, s)
          ELSE UNCHANGED <<hooks, phase, begun>>
  /\ UNCHANGED <<saved, nested, states, doing, calls, due, usage, booked, program>>

-----------------------------------------------------------------------------
(***************************************************************************)
(* What a scope does with a call.  Denied and Abort are headless: an       *)
(* interrupt is latched and raised through every wrapper above.            *)
(***************************************************************************)
\* A slip: the latch is never looked at.
deny_if_latched_never(s) == FALSE

deny_if_latched(s) == pending_interrupt[s]

\* precheck_llm_call, and the budget rule of evaluate_tool_call.
Exhausted(s) == total_cost[s] >= program.budget

\* evaluate_llm_call: what would overrun the budget is not booked.
Overruns(s, cost) == total_cost[s] + cost > program.budget

Latch(s) == pending_interrupt' = [pending_interrupt EXCEPT ![s] = TRUE]
Book(s, cost) == total_cost' = [total_cost EXCEPT ![s] = @ + cost]
Leave(w) == doing' = [doing EXCEPT ![w] = Nil]

\* evaluate_llm_call for the call with this id, from a wrapper or the callback.
Account(s, id, from) ==
  IF Overruns(s, 1)
  THEN Latch(s) /\ UNCHANGED <<total_cost, booked>>
  ELSE Book(s, 1) /\ booked' = [booked EXCEPT ![id] = Append(@, <<s, from>>)] /\ UNCHANGED pending_interrupt

-----------------------------------------------------------------------------
(***************************************************************************)
(* A call goes down the chain of wrappers of its point.                    *)
(***************************************************************************)
At(k)  == CASE k = "bypass" -> 2 [] k = "tool" -> 3 [] OTHER -> 1

Hooks(c, h) == [c EXCEPT !.at = "hooks", !.hook = h, !.todo = hooks, !.step = "latch", !.fn = Original]

\* Which live scopes were stopped when the call began.
Stopped == {s \in Scope : phase[s] = "live" /\ pending_interrupt[s]}

Call(w, k) ==
  /\ doing[w] = Nil /\ w \in program.workers /\ k \in program.kinds /\ calls < program.calls
  /\ calls' = calls + 1
  /\ LET c == [id |-> calls + 1, kind |-> k, at |-> "down", point |-> At(k),
               fn |-> Original, stack |-> <<>>, stopped |-> Stopped,
               hook |-> "before_llm", todo |-> <<>>, step |-> "latch", snap |-> 0, prev |-> Nil]
     IN doing' = [doing EXCEPT ![w] = IF k \in Llm THEN Hooks(c, "before_llm") ELSE [c EXCEPT !.fn = installed[Points[At(k)]]]]
  /\ UNCHANGED <<patches, states, due, usage, booked, program>>

\* A slip: the gate stops and claims the calls of a wrapper as well.
Gated_all(c) == TRUE

\* _IN_PATCHED_LITELLM: what went through a wrapper is looked after there.
Gated(c) == c.stack = <<>>

\* patched_completion before it calls on, the gate, and patched_run.
Enter(w) ==
  /\ doing[w] # Nil /\ doing[w].at = "down" /\ doing[w].fn \in Scope
  /\ LET c == doing[w] s == c.fn
         on == doing' = [doing EXCEPT ![w].fn = saved[s][c.point],
                                      ![w].stack = IF c.point = 1 THEN Append(@, s) ELSE @]
     IN IF deny_if_latched(s) THEN Leave(w) /\ UNCHANGED states
        ELSE IF c.point # 1 /\ Exhausted(s)
        THEN Leave(w) /\ Latch(s) /\ UNCHANGED <<total_cost, bypass_call_ids>>
        ELSE /\ on
             /\ bypass_call_ids' = IF c.point = 2 THEN [bypass_call_ids EXCEPT ![s] = @ \cup {c.id}]
                                                  ELSE bypass_call_ids
             /\ UNCHANGED <<total_cost, pending_interrupt>>
  /\ UNCHANGED <<patches, calls, due, usage, booked, program>>

\* litellm's own completion asks the gates of the moment, which let a call that
\* went through a wrapper pass.
Arrive(w) ==
  /\ doing[w] # Nil /\ doing[w].at = "down" /\ doing[w].fn = Original /\ doing[w].point = 1
  /\ doing' = [doing EXCEPT ![w].point = 2,
                            ![w].fn = IF Gated(doing[w]) THEN installed["gate"] ELSE Original]
  /\ UNCHANGED <<patches, states, calls, due, usage, booked, program>>

\* The request goes out and its answer comes back, or the tool runs.  litellm
\* will tell its callbacks, for whom only a call some gate admitted matters.
Out(w) ==
  /\ doing[w] # Nil /\ doing[w].at = "down" /\ doing[w].fn = Original /\ doing[w].point # 1
  /\ LET c == doing[w] IN
       /\ doing' = [doing EXCEPT ![w] = IF c.kind \in {"bypass", "tool"} THEN Nil ELSE [@ EXCEPT !.at = "up"]]
       /\ due' = IF \E s \in Scope : c.id \in bypass_call_ids[s] THEN due \cup {c.id} ELSE due
  /\ UNCHANGED <<patches, states, calls, usage, booked, program>>

\* The provider fails: the exception passes every wrapper, nothing is booked,
\* and log_failure_event takes the call's mark off the scope it finds first.
Claimant(id) == {i \in DOMAIN litellm_scopes : id \in bypass_call_ids[litellm_scopes[i]]}
First(id) == litellm_scopes[CHOOSE i \in Claimant(id) : \A j \in Claimant(id) : i <= j]
Claim(id) ==
  bypass_call_ids' = IF Claimant(id) = {} THEN bypass_call_ids
                     ELSE [bypass_call_ids EXCEPT ![First(id)] = @ \ {id}]

Fail(w) ==
  /\ doing[w] # Nil /\ doing[w].at = "down" /\ doing[w].fn = Original /\ doing[w].point = 2
  /\ Claim(doing[w].id)
  /\ Leave(w)
  /\ UNCHANGED <<patches, total_cost, pending_interrupt, calls, due, usage, booked, program>>

\* Each wrapper the call went through books it, the innermost function first;
\* one that aborts raises past the wrappers above it.
Unwind(w) ==
  /\ doing[w] # Nil /\ doing[w].at = "up" /\ doing[w].stack # <<>>
  /\ LET c == doing[w] s == Last(c.stack) IN
       /\ Account(s, c.id, "wrapper")
       /\ IF Overruns(s, 1) THEN Leave(w)
          ELSE doing' = [doing EXCEPT ![w].stack = Front(@)]
  /\ UNCHANGED <<patches, bypass_call_ids, calls, due, usage, program>>

\* log_success_event: the first scope that admitted the call books it, and
\* only that one.  Off the caller's thread an interrupt is latched.
Callback(id) ==
  /\ id \in due
  /\ due' = due \ {id}
  /\ Claim(id)
  /\ IF Claimant(id) = {} THEN UNCHANGED <<total_cost, pending_interrupt, booked>>
     ELSE Account(First(id), id, "callback")
  /\ UNCHANGED <<patches, doing, calls, usage, program>>

-----------------------------------------------------------------------------
(***************************************************************************)
(* A turn of a CrewAI agent: the hooks of every scope before the model is  *)
(* asked, the model, and the hooks after its last answer or before the     *)
(* tool it asks for.  A denial (HookAborted) ends the turn.                *)
(***************************************************************************)

\* _settle leaves what litellm's layer books to it.
Settles(c) == c.kind = "native"

InHook(w, step) ==
  /\ doing[w] # Nil /\ doing[w].at = "hooks" /\ doing[w].todo # <<>> /\ doing[w].step = step

InSettle(w, s) ==
  /\ doing[w] # Nil /\ doing[w].at = "hooks" /\ doing[w].todo # <<>>
  /\ Head(doing[w].todo) = s /\ doing[w].step \in {"baseline", "prev", "store"}

Rebased(s, c) == [base EXCEPT ![s] = IF c.kind = "native" /\ c.snap > @ THEN c.snap ELSE @]

To(w, step) == doing' = [doing EXCEPT ![w].step = step]

\* A scope whose interrupt is latched denies.  _baseline: a model not seen yet; one
\* without counters has nothing to read.
HookEnter(w) ==
  /\ InHook(w, "latch")
  /\ LET c == doing[w] s == Head(c.todo) IN
       IF deny_if_latched(s) THEN Leave(w)
       ELSE To(w, IF c.kind = "uncounted" THEN "store"
                  ELSE IF c.hook = "before_llm" /\ last_usage[s][c.kind] = Nil THEN "baseline" ELSE "snap")
  /\ UNCHANGED <<patches, states, calls, due, usage, booked, program>>

HookBaseline(w) ==
  /\ InHook(w, "baseline")
  /\ LET c == doing[w] s == Head(c.todo) IN
       /\ last_usage' = [last_usage EXCEPT ![s][c.kind] = counter[c.kind]]
       /\ base' = Rebased(s, [c EXCEPT !.snap = counter[c.kind]])
  /\ To(w, "snap")
  /\ UNCHANGED <<patches, states, calls, due, counter, settled, raced, booked, program>>

\* _settle reads the model's counter, then what it was, then stores it.
HookSnap(w) ==
  /\ InHook(w, "snap")
  /\ doing' = [doing EXCEPT ![w].snap = counter[doing[w].kind], ![w].step = "prev"]
  /\ UNCHANGED <<patches, states, calls, due, usage, booked, program>>

HookPrev(w) ==
  /\ InHook(w, "prev")
  /\ doing' = [doing EXCEPT ![w].prev = last_usage[Head(doing[w].todo)][doing[w].kind], ![w].step = "store"]
  /\ UNCHANGED <<patches, states, calls, due, usage, booked, program>>

\* A slip: every boundary books one turn.
Grown_turn(c) == IF c.prev = Nil \/ c.snap <= c.prev THEN 0 ELSE 1

\* A model the scope has not seen yet is new to it from here on.
Grown(c) == IF c.prev = Nil \/ c.snap < c.prev THEN 0 ELSE c.snap - c.prev

\* A model without counters is booked by the length of its final answer.
Estimated(c) == IF c.kind = "uncounted" /\ c.hook = "after_llm" THEN 1 ELSE 0

\* The store, the booking under the state's lock, and the hook's own check.  The store
\* comes right before the booking, and nothing reads both: that two workers could book in
\* the other order than they stored is left out.
HookSettle(w) ==
  /\ InHook(w, "store")
  /\ LET c == doing[w] s == Head(c.todo)
         d == IF Settles(c) THEN Grown(c) ELSE Estimated(c)
         spent == total_cost[s] + (IF Overruns(s, d) THEN 0 ELSE d)
         checked == c.hook # "after_llm" /\ spent >= program.budget
         denied == (d > 0 /\ Overruns(s, d)) \/ checked
     IN /\ last_usage' = IF Settles(c) THEN [last_usage EXCEPT ![s][c.kind] = c.snap] ELSE last_usage
        /\ total_cost' = [total_cost EXCEPT ![s] = spent]
        /\ base' = IF c.prev = Nil THEN Rebased(s, c) ELSE base
        /\ raced' = (raced \/ \E v \in Worker \ {w} : InSettle(v, s))
        /\ settled' = [settled EXCEPT ![s] = @ + IF Settles(c) THEN spent - total_cost[s] ELSE 0]
        /\ IF denied THEN Latch(s) /\ Leave(w)
           ELSE /\ doing' = [doing EXCEPT ![w].todo = Tail(@), ![w].step = "latch", ![w].snap = 0, ![w].prev = Nil]
                /\ UNCHANGED pending_interrupt
  /\ UNCHANGED <<patches, bypass_call_ids, calls, due, counter, booked, program>>

\* _fail_closed: an internal error of a hook latches and denies, since CrewAI
\* would swallow it.
HookError(w) ==
  /\ InHook(w, "store")
  /\ Latch(Head(doing[w].todo))
  /\ Leave(w)
  /\ UNCHANGED <<patches, total_cost, bypass_call_ids, calls, due, usage, booked, program>>

\* Every hook let the turn through: the model is asked, through litellm if it
\* is routed so.
Ask(w) ==
  /\ doing[w] # Nil /\ doing[w].at = "hooks" /\ doing[w].todo = <<>> /\ doing[w].hook = "before_llm"
  /\ doing' = [doing EXCEPT ![w] = IF @.kind = "routed"
                                      THEN [@ EXCEPT !.at = "down", !.fn = installed["litellm"]]
                                      ELSE [@ EXCEPT !.at = "up"]]
  /\ UNCHANGED <<patches, states, calls, due, usage, booked, program>>

\* The answer is there: final, or the wish for a tool.
Reply(w) ==
  /\ doing[w] # Nil /\ doing[w].at = "up" /\ doing[w].stack = <<>>
  /\ IF doing[w].kind \notin Llm THEN Leave(w) /\ UNCHANGED counter
     ELSE /\ counter' = [counter EXCEPT ![doing[w].kind] = @ + 1]
          /\ \E h \in {"after_llm", "before_tool"} :
               doing' = [doing EXCEPT ![w] = Hooks(@, h)]
  /\ UNCHANGED <<patches, states, calls, due, last_usage, base, settled, raced, booked, program>>

\* The turn is over.
Done(w) ==
  /\ doing[w] # Nil /\ doing[w].at = "hooks" /\ doing[w].todo = <<>> /\ doing[w].hook # "before_llm"
  /\ Leave(w)
  /\ UNCHANGED <<patches, states, calls, due, usage, booked, program>>

-----------------------------------------------------------------------------
Init ==
  /\ program \in Programs
  /\ installed = [p \in Range(Points) |-> Original]
  /\ saved = [s \in Scope |-> <<>>] /\ put = [s \in Scope |-> 0]
  /\ phase = [s \in Scope |-> "idle"]
  /\ hooks = <<>> /\ litellm_scopes = <<>>
  /\ total_cost = [s \in Scope |-> 0]
  /\ pending_interrupt = [s \in Scope |-> FALSE]
  /\ bypass_call_ids = [s \in Scope |-> {}]
  /\ doing = [w \in Worker |-> Nil] /\ calls = 0 /\ due = {}
  /\ counter = [l \in Llm |-> 0]
  /\ last_usage = [s \in Scope |-> [l \in Llm |-> Nil]]
  /\ begun = <<>> /\ nested = TRUE
  /\ booked = [id \in 1..program.calls |-> <<>>]
  /\ base = [s \in Scope |-> 0] /\ settled = [s \in Scope |-> 0] /\ raced = FALSE

Next ==
  \/ \E s \in Scope : Begin(s) \/ Install(s) \/ Arm(s) \/ Return(s) \/ Restore(s)
  \/ \E w \in Worker :
       \/ \E k \in Kind : Call(w, k)
       \/ Enter(w) \/ Arrive(w) \/ Out(w) \/ Fail(w) \/ Unwind(w)
       \/ HookEnter(w) \/ HookBaseline(w) \/ HookSnap(w) \/ HookPrev(w) \/ HookSettle(w) \/ HookError(w)
       \/ Ask(w) \/ Reply(w) \/ Done(w)
  \/ \E id \in due : Callback(id)

Spec == Init /\ [][Next]_vars

-----------------------------------------------------------------------------
(***************************************************************************)
(* Properties.                                                             *)
(***************************************************************************)
CallRecord ==
  [id : 1..calls, kind : Kind, at : {"down", "up", "hooks"}, point : DOMAIN Points,
   fn : Fn, stack : Seq(Scope), stopped : SUBSET Scope, hook : Hook, todo : Seq(Scope),
   step : {"latch", "baseline", "snap", "prev", "store"}, snap : Nat, prev : Nat \cup {Nil}]

TypeOK ==
  /\ program \in Programs
  /\ installed \in [Range(Points) -> Fn]
  /\ saved \in [Scope -> Seq(Fn)]
  /\ \A s \in Scope : Len(saved[s]) <= Len(Points) /\ Range(saved[s]) \subseteq Fn \ {s}
  /\ put \in [Scope -> 0..Len(Points)]
  /\ phase \in [Scope -> {"idle", "entering", "live", "leaving", "ended"}]
  /\ \A seq \in {hooks, litellm_scopes, begun} : seq \in Seq(Scope) /\ IsInjective(seq)
  /\ total_cost \in [Scope -> 0..program.budget]
  /\ pending_interrupt \in [Scope -> BOOLEAN]
  /\ bypass_call_ids \in [Scope -> SUBSET (1..calls)]
  /\ doing \in [Worker -> {Nil} \cup CallRecord]
  /\ calls \in 0..program.calls /\ due \subseteq 1..calls
  /\ counter \in [Llm -> Nat] /\ last_usage \in [Scope -> [Llm -> Nat \cup {Nil}]]
  /\ nested \in BOOLEAN /\ raced \in BOOLEAN
  /\ booked \in [1..program.calls -> Seq(Scope \X {"wrapper", "callback"})]
  /\ base \in [Scope -> Nat] /\ settled \in [Scope -> Nat]

\* The functions a call meets at a point, from the outermost wrapper down to the original.
Meets(i, chain) ==
  /\ chain[1] = installed[Points[i]] /\ chain[Len(chain)] = Original
  /\ \A k \in 1..Len(chain)-1 : chain[k] \in Scope /\ saved[chain[k]][i] = chain[k + 1]

\* Scopes that began and ended like brackets (core.py:641-648, "in LIFO order")
\* compose: every open scope, and nothing else, stands between a caller and each
\* patched function, the latest outermost; hooks and scopes are registered alike.
NestedScopesCompose ==
  nested /\ Moving = {} =>
    /\ \A i \in DOMAIN Points : Meets(i, Append(Reverse(begun), Original))
    /\ hooks = begun /\ litellm_scopes = begun

\* An Abort in one of several nested scopes stops the process, not only the
\* calls of its own function: no call that began while a live scope was latched
\* reaches a provider or a tool.
AbortStopsNested ==
  nested =>
    \A w \in Worker :
      doing[w] # Nil /\ doing[w].at \in {"down", "up"} /\ (doing[w].at = "up" \/ doing[w].fn = Original)
        => ~ \E s \in doing[w].stopped : phase[s] = "live"

\* However scopes overlap, no scope books one call twice, by its wrapper and by
\* the accounting callback of the bypassing calls, or by two wrappers; and what
\* the callback books, it books to one scope and no wrapper does.
BookedOnce ==
  \A id \in 1..calls :
    /\ \A i, j \in DOMAIN booked[id] : booked[id][i][1] = booked[id][j][1] => i = j
    /\ (\E i \in DOMAIN booked[id] : booked[id][i][2] = "callback") => Len(booked[id]) = 1

\* Hooks never lose usage: in a scope that is not aborted, what its model used
\* since the baseline and has been settled is booked or about to be, however
\* many worker threads run the hooks at once.
SettledIsBooked ==
  \A s \in Scope :
    ~pending_interrupt[s] /\ last_usage[s]["native"] # Nil =>
      last_usage[s]["native"] <= base[s] + settled[s]

\* Nor do they book usage twice, or what litellm's layer books, as long as no
\* two workers were inside one scope's _settle, which holds no lock.
SettledOnce ==
  ~raced => \A s \in Scope : settled[s] <= counter["native"]

\* What the native hooks settle, they settle exactly.
UsageInv == TypeOK /\ SettledIsBooked /\ SettledOnce

-----------------------------------------------------------------------------
(***************************************************************************)
(* What the repository says and the code does not do.                      *)
(***************************************************************************)
\* core.py:641-645: "removal restores exactly what was there immediately before
\* ... so two Guard scopes (nested, or concurrent across threads/tasks) no longer
\* stomp on each other's 'original' references."
EndedScopesAreGone ==
  begun = <<>> => \A i \in DOMAIN Points : installed[Points[i]] = Original
=============================================================================
