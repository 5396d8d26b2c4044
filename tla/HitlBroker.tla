----------------------------- MODULE HitlBroker -----------------------------
(***************************************************************************)
(* The daemon's human approvals (v2/daemon/daemon.py): /pre_exec creates a *)
(* one-shot token for a held request and announces it on WebSockets,       *)
(* /hitl_response resolves it, /hitl_wait hands the answer to one waiter   *)
(* and grants the execution.  Handlers are tasks of one event loop; no     *)
(* body under hitl_lock suspends, so each is one atomic action, and        *)
(* everything interleaves between them.                                    *)
(*                                                                         *)
(* A token is identified by the request it was minted for.  Ages and waits *)
(* count ticks and stop counting at HitlTtl, the 300 s of                  *)
(* _HITL_TTL_SECONDS.                                                      *)
(***************************************************************************)
EXTENDS Integers, FiniteSets

CONSTANTS
  Nil,
  Request,     \* requests evaluated to HITL
  Waiter,      \* calls of /hitl_wait
  Ws,          \* WebSocket clients
  HitlTtl, MaxPending

ASSUME BrokerAssumption ==
  /\ HitlTtl \in Nat \ {0} /\ MaxPending \in Nat
  /\ Nil \notin Request /\ Nil \notin Int
  /\ Nil \notin [request : Request, decision : {"ALLOW", "DENY"}]
  /\ IsFiniteSet(Request) /\ IsFiniteSet(Ws)

VARIABLES
  hitl,      \* hitl_pending, hitl_created_at, hitl_wait_claimed, hitl_bindings
  future,    \* the future of each token; waiters hold it after it was popped
  response,  \* what was accepted for it: a request and a decision
  pre,       \* the /pre_exec handler of each request
  websocket_connections,
  announced, \* of each broadcast: the clients it began with and has sent to
  at, token, \* each waiter and the token it waits for
  waited,    \* how long it has
  granted,   \* requests grant_hitl_execution was called for with success
  answeredAt \* history: how old the token was when its answer was accepted

waiters == <<at, token, waited>>
vars == <<hitl, future, response, pre, websocket_connections, announced, waiters,
          granted, answeredAt>>

-----------------------------------------------------------------------------
(***************************************************************************)
(* The table of pending approvals.                                         *)
(***************************************************************************)
\* A slip: a token that is dropped stays claimed.
Drop_claimed(h, S) ==
  [h EXCEPT !.pending    = @ \ S,
            !.created_at = [r \in Request |-> IF r \in S THEN Nil ELSE @[r]],
            !.bindings   = [r \in Request |-> IF r \in S THEN Nil ELSE @[r]]]

Drop(h, S) ==
  [pending      |-> h.pending \ S,
   created_at   |-> [r \in Request |-> IF r \in S THEN Nil ELSE h.created_at[r]],
   wait_claimed |-> h.wait_claimed \ S,
   bindings     |-> [r \in Request |-> IF r \in S THEN Nil ELSE h.bindings[r]]]

\* The futures of dropped tokens are cancelled unless they are done.
Cancelled(S) ==
  [r \in Request |-> IF r \in S /\ future[r] = "open" THEN "cancelled" ELSE future[r]]

\* _expire_hitl_requests, which every handler begins with.
Expired == {r \in Request : hitl.created_at[r] # Nil /\ hitl.created_at[r] >= HitlTtl}
Swept   == Drop(hitl, Expired)

Init ==
  /\ hitl = [pending |-> {}, created_at |-> [r \in Request |-> Nil], wait_claimed |-> {},
             bindings |-> [r \in Request |-> Nil]]
  /\ future = [r \in Request |-> "none"] /\ response = [r \in Request |-> Nil]
  /\ pre = [r \in Request |-> "evaluated"]
  /\ websocket_connections = {}
  /\ announced = [r \in Request |-> [from |-> {}, sent |-> {}, broken |-> {}]]
  /\ at = [w \in Waiter |-> "idle"] /\ token = [w \in Waiter |-> Nil]
  /\ waited = [w \in Waiter |-> 0]
  /\ granted = {} /\ answeredAt = [r \in Request |-> Nil]

-----------------------------------------------------------------------------
(***************************************************************************)
(* /pre_exec of a held request.                                            *)
(***************************************************************************)
Pre(r, p) == pre' = [pre EXCEPT ![r] = p]

\* A slip: one token too many.
QueueFull_late(h) == Cardinality(h.pending) > MaxPending
QueueFull(h) == Cardinality(h.pending) >= MaxPending

\* _create_hitl_request; a full queue is a 503, which the client takes for DENY.
Create(r) ==
  /\ pre[r] = "evaluated"
  /\ \/ /\ QueueFull(Swept)
        /\ hitl' = Swept /\ future' = Cancelled(Expired)
        /\ Pre(r, "denied")
     \/ /\ ~QueueFull(Swept)
        /\ hitl' = [Swept EXCEPT !.pending = @ \cup {r}, !.created_at[r] = 0,
                                 !.bindings[r] = r]
        /\ future' = [Cancelled(Expired) EXCEPT ![r] = "open"]
        /\ Pre(r, "auditing")
  /\ UNCHANGED <<response, websocket_connections, announced, waiters, granted, answeredAt>>

\* The decision is logged, or the token discarded and the request denied.
Audit(r) ==
  /\ pre[r] = "auditing"
  /\ \/ /\ Pre(r, "announcing")
        /\ announced' = [announced EXCEPT ![r].from = websocket_connections]
        /\ UNCHANGED <<hitl, future>>
     \/ /\ Pre(r, "denied")
        /\ hitl' = Drop(hitl, {r}) /\ future' = Cancelled({r})
        /\ UNCHANGED announced
  /\ UNCHANGED <<response, websocket_connections, waiters, granted, answeredAt>>

\* broadcast_hitl_request iterates over the live set with an await per client: a
\* set whose size changed meanwhile raises, and the request is denied; the token
\* stays.  A client that cannot be sent to is removed when the loop ends.
SameSize(r) == Cardinality(websocket_connections) = Cardinality(announced[r].from)

Send(r, ws) ==
  /\ pre[r] = "announcing" /\ SameSize(r)
  /\ ws \in websocket_connections \ announced[r].sent
  /\ \/ announced' = [announced EXCEPT ![r].sent = @ \cup {ws}]
     \/ announced' = [announced EXCEPT ![r].sent = @ \cup {ws}, ![r].broken = @ \cup {ws}]
  /\ UNCHANGED <<hitl, future, response, pre, websocket_connections, waiters, granted,
                 answeredAt>>

EndAnnounce(r) ==
  /\ pre[r] = "announcing"
  /\ \/ /\ SameSize(r)
        /\ announced[r].from \cap websocket_connections \subseteq announced[r].sent
        /\ Pre(r, "told")
        /\ websocket_connections' = websocket_connections \ announced[r].broken
     \/ ~SameSize(r) /\ Pre(r, "denied") /\ UNCHANGED websocket_connections
  /\ UNCHANGED <<hitl, future, response, announced, waiters, granted, answeredAt>>

Connect(ws) ==
  /\ ws \notin websocket_connections
  /\ websocket_connections' = websocket_connections \cup {ws}
  /\ UNCHANGED <<hitl, future, response, pre, announced, waiters, granted, answeredAt>>

Disconnect(ws) ==
  /\ ws \in websocket_connections
  /\ websocket_connections' = websocket_connections \ {ws}
  /\ UNCHANGED <<hitl, future, response, pre, announced, waiters, granted, answeredAt>>

-----------------------------------------------------------------------------
(***************************************************************************)
(* /hitl_response, by an operator who was sent the token; bound is the     *)
(* request the response names.  Anything but an open future is a 404.      *)
(***************************************************************************)
\* A slip: the request named is not compared.
Answerable_unbound(r, bound) == r \in hitl.pending /\ future[r] = "open"

Answerable(r, bound) ==
  /\ r \in Swept.pending
  /\ future[r] = "open"
  /\ Swept.bindings[r] = bound

hitl_response(r, bound, decision) ==
  /\ announced[r].sent \ announced[r].broken # {}
  /\ hitl' = Swept
  /\ \/ /\ Answerable(r, bound)
        /\ future' = [Cancelled(Expired) EXCEPT ![r] = "answered"]
        /\ response' = [response EXCEPT ![r] = [request |-> bound, decision |-> decision]]
        /\ answeredAt' = [answeredAt EXCEPT ![r] = hitl.created_at[r]]
     \/ /\ ~Answerable(r, bound)
        /\ future' = Cancelled(Expired)
        /\ UNCHANGED <<response, answeredAt>>
  /\ UNCHANGED <<pre, websocket_connections, announced, waiters, granted>>

-----------------------------------------------------------------------------
(***************************************************************************)
(* /hitl_wait, by a runtime that was told the token.                       *)
(***************************************************************************)
Ends(w, result) == at' = [at EXCEPT ![w] = result]

\* A slip: the claim is not looked at.
Claimable_again(r) == r \in Swept.pending
Claimable(r) == r \in Swept.pending /\ r \notin Swept.wait_claimed

Wait(w, r) ==
  /\ at[w] = "idle" /\ pre[r] = "told"
  /\ token' = [token EXCEPT ![w] = r]
  /\ future' = Cancelled(Expired)
  /\ \/ /\ Claimable(r)
        /\ hitl' = [Swept EXCEPT !.wait_claimed = @ \cup {r}]
        /\ Ends(w, "waiting")
     \/ /\ ~Claimable(r)
        /\ hitl' = Swept
        /\ Ends(w, "404")
  /\ UNCHANGED <<response, pre, websocket_connections, announced, waited, granted, answeredAt>>

\* The future is done and the waiter runs again: it takes the token out, unless a
\* sweep did so first.
Wake(w) ==
  LET r == token[w] IN
  /\ at[w] = "waiting" /\ future[r] = "answered"
  /\ \/ /\ r \in hitl.pending
        /\ hitl' = Drop(hitl, {r})
        /\ Ends(w, IF response[r].decision = "ALLOW" THEN "granting" ELSE "DENY")
     \/ /\ r \notin hitl.pending
        /\ Ends(w, "404")
        /\ UNCHANGED hitl
  /\ UNCHANGED <<future, response, pre, websocket_connections, announced, token, waited,
                 granted, answeredAt>>

\* grant_hitl_execution: it grants, or does not, or fails with or without effect.
Grant(w) ==
  LET request == response[token[w]].request IN
  /\ at[w] = "granting"
  /\ \/ granted' = granted \cup {request} /\ Ends(w, "ALLOW")
     \/ UNCHANGED granted /\ Ends(w, "DENY")
     \/ granted' \in {granted, granted \cup {request}} /\ Ends(w, "500")
  /\ UNCHANGED <<hitl, future, response, pre, websocket_connections, announced, token,
                 waited, answeredAt>>

\* A slip: wait_for is given no timeout.
Timeout_never(w) == FALSE /\ UNCHANGED vars

\* wait_for times out.  An answer that came but has not woken the waiter yet is
\* lost with the token: the shield, and from Python 3.12 on the wait itself, may
\* be cancelled in between.
Timeout(w) ==
  /\ at[w] = "waiting" /\ waited[w] >= HitlTtl
  /\ hitl' = Drop(hitl, {token[w]} \cap hitl.pending)
  /\ future' = Cancelled({token[w]} \cap hitl.pending)
  /\ Ends(w, "408")
  /\ UNCHANGED <<response, pre, websocket_connections, announced, token, waited, granted,
                 answeredAt>>

\* The future was cancelled by a sweep, and that cancels the wait.
Cancel(w) ==
  /\ at[w] = "waiting" /\ future[token[w]] = "cancelled"
  /\ Ends(w, "500")
  /\ UNCHANGED <<hitl, future, response, pre, websocket_connections, announced, token,
                 waited, granted, answeredAt>>

Older(age) == IF age \in 0..(HitlTtl - 1) THEN age + 1 ELSE age

Tick ==
  /\ hitl' = [hitl EXCEPT !.created_at = [r \in Request |-> Older(@[r])]]
  /\ waited' = [w \in Waiter |-> IF at[w] = "waiting" THEN Older(waited[w]) ELSE waited[w]]
  /\ UNCHANGED <<future, response, pre, websocket_connections, announced, at, token,
                 granted, answeredAt>>

Next ==
  \/ \E r \in Request :
       \/ Create(r) \/ Audit(r) \/ EndAnnounce(r)
       \/ \E ws \in Ws : Send(r, ws)
       \/ \E bound \in Request, decision \in {"ALLOW", "DENY"} : hitl_response(r, bound, decision)
       \/ \E w \in Waiter : Wait(w, r)
  \/ \E ws \in Ws : Connect(ws) \/ Disconnect(ws)
  \/ \E w \in Waiter : Wake(w) \/ Grant(w) \/ Timeout(w) \/ Cancel(w)
  \/ Tick

\* The event loop runs what is ready, its timers fire, and the store answers or
\* raises.  Nothing makes an operator answer or a client come.
Fairness ==
  /\ WF_vars(Tick)
  /\ \A w \in Waiter : WF_vars(Wake(w) \/ Grant(w) \/ Timeout(w) \/ Cancel(w))

Spec == Init /\ [][Next]_vars /\ Fairness

-----------------------------------------------------------------------------
(***************************************************************************)
(* Properties.                                                             *)
(***************************************************************************)
TypeOK ==
  /\ hitl \in [pending : SUBSET Request, created_at : [Request -> 0..HitlTtl \cup {Nil}],
               wait_claimed : SUBSET Request, bindings : [Request -> Request \cup {Nil}]]
  /\ future \in [Request -> {"none", "open", "answered", "cancelled"}]
  /\ response \in [Request -> [request : Request, decision : {"ALLOW", "DENY"}] \cup {Nil}]
  /\ pre \in [Request -> {"evaluated", "auditing", "announcing", "told", "denied"}]
  /\ websocket_connections \subseteq Ws
  /\ announced \in [Request -> [from : SUBSET Ws, sent : SUBSET Ws, broken : SUBSET Ws]]
  /\ at \in [Waiter -> {"idle", "waiting", "granting", "ALLOW", "DENY", "404", "408", "500"}]
  /\ token \in [Waiter -> Request \cup {Nil}]
  /\ \A w \in Waiter : at[w] # "idle" => token[w] \in Request
  /\ waited \in [Waiter -> 0..HitlTtl]
  /\ granted \subseteq Request
  /\ answeredAt \in [Request -> 0..HitlTtl \cup {Nil}]

\* The four indexes of pending approvals agree, through every way a token leaves
\* them: consumed, timed out, discarded or swept.
IndexesAgree ==
  /\ hitl.pending = {r \in Request : hitl.created_at[r] # Nil}
  /\ hitl.pending = {r \in Request : hitl.bindings[r] # Nil}
  /\ hitl.wait_claimed \subseteq hitl.pending

\* test_hitl_queue_is_bounded, for concurrent creations and lazy sweeps.
QueueBounded == Cardinality(hitl.pending) <= MaxPending

\* A request is granted only after an operator allowed that very request while
\* its token was younger than its time to live.
GrantedWasApproved ==
  \A r \in granted :
    /\ response[r] = [request |-> r, decision |-> "ALLOW"]
    /\ answeredAt[r] < HitlTtl

\* "One authenticated runtime waiter may consume each approval response."
OneConsumer ==
  \A r \in Request :
    Cardinality({w \in Waiter : token[w] = r /\ at[w] \in {"waiting", "granting", "ALLOW", "DENY"}})
      <= 1

\* What the broker's tables say of the tokens and their waiters, together.
QueueInv == TypeOK /\ QueueBounded /\ OneConsumer

\* A runtime that was told its approval timed out is never granted it afterwards,
\* by an answer that was on its way or by another waiter.
TimedOutStaysRefused == \A w \in Waiter : at[w] = "408" => token[w] \notin granted

\* Whoever waits gets an answer, whatever the operators, the clients and the
\* sweeps of other handlers do.
WaitersReturn ==
  \A w \in Waiter : at[w] = "waiting" ~> at[w] \notin {"waiting", "granting"}
=============================================================================
