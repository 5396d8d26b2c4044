-------------------------- MODULE HitlBrokerProofs --------------------------
(***************************************************************************)
(* Theorems about HitlBroker, for any number of requests, waiters and      *)
(* clients and any time to live.                                           *)
(***************************************************************************)
EXTENDS HitlBrokerRefinement, FiniteSetTheorems, TLAPS

\* What the future of a token says about the table and about the answer.
FuturesAgree ==
  \A r \in Request :
    /\ r \in hitl.pending => future[r] \in {"open", "answered"}
    /\ response[r] # Nil <=> future[r] = "answered"
    /\ pre[r] = "evaluated" => r \notin hitl.pending /\ future[r] = "none"

\* An answer is about the request its token was minted for, and came in time.
AnswersAreTimely ==
  \A r \in Request :
    /\ hitl.bindings[r] \in {r, Nil}
    /\ response[r] # Nil => response[r].request = r /\ answeredAt[r] \in 0..(HitlTtl - 1)

\* A waiter that got past the claim, whatever it was told since.
Claimed(w) == at[w] \in {"waiting", "granting", "ALLOW", "DENY", "408", "500"}

\* While a waiter waits, its token stays claimed; when it does not any more, the
\* token is gone for good.  So nobody else ever claims it.
ClaimsHold ==
  /\ \A w \in Waiter :
       /\ at[w] # "idle" => pre[token[w]] = "told"
       /\ at[w] = "waiting" /\ token[w] \in hitl.pending => token[w] \in hitl.wait_claimed
       /\ Claimed(w) /\ at[w] # "waiting" => token[w] \notin hitl.pending
  /\ \A v, w \in Waiter : Claimed(v) /\ Claimed(w) /\ token[v] = token[w] => v = w

\* A grant is the one waiter's, on an operator's ALLOW of its request.
GrantsFollowAnswers ==
  /\ \A w \in Waiter :
       at[w] = "granting" => /\ response[token[w]] # Nil
                             /\ response[token[w]].decision = "ALLOW"
  /\ \A r \in granted :
       /\ response[r] # Nil /\ response[r].decision = "ALLOW"
       /\ \E w \in Waiter : token[w] = r /\ at[w] \in {"ALLOW", "500"}

IInv ==
  /\ TypeOK /\ IndexesAgree /\ QueueBounded
  /\ FuturesAgree /\ AnswersAreTimely /\ ClaimsHold /\ GrantsFollowAnswers

-----------------------------------------------------------------------------
(***************************************************************************)
(* The table of tokens.                                                    *)
(***************************************************************************)
Table == [pending : SUBSET Request, created_at : [Request -> 0..HitlTtl \cup {Nil}],
          wait_claimed : SUBSET Request, bindings : [Request -> Request \cup {Nil}]]

\* What is left of the table when tokens are dropped from it.
LEMMA DropFacts ==
  ASSUME TypeOK, NEW S
  PROVE  /\ Drop(hitl, S) \in Table
         /\ Drop(hitl, S).pending = hitl.pending \ S
         /\ Drop(hitl, S).wait_claimed = hitl.wait_claimed \ S
         /\ \A r \in Request :
              /\ Drop(hitl, S).created_at[r] = IF r \in S THEN Nil ELSE hitl.created_at[r]
              /\ Drop(hitl, S).bindings[r] = IF r \in S THEN Nil ELSE hitl.bindings[r]
BY DEF Drop, Table, TypeOK

\* A table from which tokens were dropped is as consistent as before.
LEMMA DropAgrees ==
  ASSUME TypeOK, IndexesAgree, NEW S
  PROVE  LET h == Drop(hitl, S) IN
         /\ h.pending = {r \in Request : h.created_at[r] # Nil}
         /\ h.pending = {r \in Request : h.bindings[r] # Nil}
         /\ h.wait_claimed \subseteq h.pending
<1> DEFINE h == Drop(hitl, S)
<1>1. /\ h.pending = hitl.pending \ S
      /\ h.wait_claimed = hitl.wait_claimed \ S
      /\ \A r \in Request :
           /\ h.created_at[r] = IF r \in S THEN Nil ELSE hitl.created_at[r]
           /\ h.bindings[r] = IF r \in S THEN Nil ELSE hitl.bindings[r]
  BY DropFacts
<1> HIDE DEF h
<1>2. QED
  BY <1>1 DEF h, IndexesAgree, TypeOK

\* The sweep leaves only tokens younger than their time to live.
LEMMA SweptIsFresh ==
  ASSUME TypeOK, IndexesAgree, NEW r \in Swept.pending
  PROVE  r \in hitl.pending /\ hitl.created_at[r] \in 0..(HitlTtl - 1)
<1>1. r \in hitl.pending /\ r \notin Expired
  BY DropFacts DEF Swept
<1>2. r \in Request /\ hitl.created_at[r] \in 0..HitlTtl
  BY <1>1 DEF IndexesAgree, TypeOK
<1>3. hitl.created_at[r] # Nil
  BY <1>1, <1>2 DEF IndexesAgree
<1>4. QED
  BY <1>1, <1>2, <1>3, BrokerAssumption DEF Expired

\* A smaller queue is no longer than the bound.
LEMMA SmallerQueue ==
  ASSUME TypeOK, QueueBounded, NEW P \in SUBSET hitl.pending
  PROVE  IsFiniteSet(P) /\ Cardinality(P) <= MaxPending
<1>1. IsFiniteSet(hitl.pending)
  BY FS_Subset, BrokerAssumption DEF TypeOK
<1>2. IsFiniteSet(P) /\ Cardinality(P) <= Cardinality(hitl.pending)
  BY <1>1, FS_Subset
<1>3. Cardinality(P) \in Nat /\ Cardinality(hitl.pending) \in Nat
  BY <1>1, <1>2, FS_CardinalityType
<1>4. QED
  BY <1>2, <1>3, BrokerAssumption DEF QueueBounded

\* Cancelling futures touches none that is answered.
LEMMA CancelledFacts ==
  ASSUME TypeOK, NEW S
  PROVE  /\ Cancelled(S) \in [Request -> {"none", "open", "answered", "cancelled"}]
         /\ \A r \in Request :
              Cancelled(S)[r] = IF r \in S /\ future[r] = "open" THEN "cancelled" ELSE future[r]
BY DEF Cancelled, TypeOK

-----------------------------------------------------------------------------
\* The invariant holds when the daemon starts.
LEMMA InitIInv == Init => IInv
<1> SUFFICES ASSUME Init PROVE IInv
  OBVIOUS
<1>1. TypeOK
  BY BrokerAssumption DEF Init, TypeOK
<1>2. QueueBounded
  BY FS_EmptySet, BrokerAssumption DEF Init, QueueBounded
<1>3. QED
  BY <1>1, <1>2 DEF Init, IInv, IndexesAgree, FuturesAgree, AnswersAreTimely, ClaimsHold,
     GrantsFollowAnswers, Claimed

(***************************************************************************)
(* Steps in which no waiter gets or consumes a token.                      *)
(***************************************************************************)
\* Handlers of /pre_exec never go back, and waiters stay or are turned away.
Onward ==
  /\ \A r \in Request : pre'[r] = "evaluated" => pre[r] = "evaluated"
  /\ \A r \in Request : pre[r] = "told" => pre'[r] = "told"
  /\ \A w \in Waiter :
       \/ at'[w] = at[w] /\ token'[w] = token[w]
       \/ at[w] = "idle" /\ at'[w] = "404" /\ pre'[token'[w]] = "told"
  /\ UNCHANGED <<response, granted, answeredAt>>

\* A step that at most drops tokens, and cancels what nobody answered.
LEMMA DropKeepsIInv ==
  ASSUME IInv, NEW S, Onward, TypeOK', hitl' = Drop(hitl, S), future' = Cancelled(S)
  PROVE  IInv'
<1>1. /\ hitl'.pending = hitl.pending \ S
      /\ hitl'.wait_claimed = hitl.wait_claimed \ S
      /\ \A q \in Request : hitl'.bindings[q] \in {hitl.bindings[q], Nil}
      /\ \A q \in Request :
           future'[q] = IF q \in S /\ future[q] = "open" THEN "cancelled" ELSE future[q]
  BY DropFacts, CancelledFacts DEF IInv
<1>2. IndexesAgree'
  BY DropAgrees DEF IInv, IndexesAgree
<1>3. QueueBounded'
  BY <1>1, SmallerQueue DEF IInv, QueueBounded
<1>4. FuturesAgree'
  BY <1>1 DEF IInv, FuturesAgree, TypeOK, Onward
<1>5. AnswersAreTimely'
  BY <1>1 DEF IInv, AnswersAreTimely, Onward
<1>6. ClaimsHold'
  <2>1. \A w \in Waiter : at[w] # "idle" => token[w] \in Request
    BY DEF IInv, TypeOK
  <2>2. QED
    BY <1>1, <2>1 DEF IInv, ClaimsHold, Claimed, Onward
<1>7. GrantsFollowAnswers'
  BY DEF IInv, GrantsFollowAnswers, Onward
<1>8. QED
  BY <1>2, <1>3, <1>4, <1>5, <1>6, <1>7 DEF IInv

\* A step that does not touch the table, the futures and the waiters.
LEMMA QuietKeepsIInv ==
  ASSUME IInv, TypeOK', Onward, UNCHANGED <<hitl, future, at, token>>
  PROVE  IInv'
<1>1. IndexesAgree' /\ QueueBounded' /\ AnswersAreTimely' /\ GrantsFollowAnswers'
  BY DEF IInv, IndexesAgree, QueueBounded, AnswersAreTimely, GrantsFollowAnswers, Onward
<1>2. FuturesAgree'
  BY DEF IInv, FuturesAgree, Onward
<1>3. ClaimsHold'
  <2>1. \A w \in Waiter : at[w] # "idle" => token[w] \in Request
    BY DEF IInv, TypeOK
  <2>2. QED
    BY <2>1 DEF IInv, ClaimsHold, Claimed, Onward
<1>4. QED
  BY <1>1, <1>2, <1>3 DEF IInv

-----------------------------------------------------------------------------
(***************************************************************************)
(* The handler of /pre_exec, and the clients.                              *)
(***************************************************************************)
\* A token is minted, or refused by a full queue, after the sweep.
LEMMA CreateIInv ==
  ASSUME IInv, NEW r \in Request, Create(r)
  PROVE  IInv'
<1>1. TypeOK /\ IndexesAgree /\ pre[r] = "evaluated" /\ UNCHANGED waiters
      /\ UNCHANGED <<response, websocket_connections, announced, granted, answeredAt>>
  BY DEF Create, IInv
<1>2. CASE hitl' = Swept /\ future' = Cancelled(Expired) /\ Pre(r, "denied")
  <2>1. TypeOK'
    BY <1>1, <1>2, DropFacts, CancelledFacts DEF TypeOK, Swept, Table, Pre, waiters
  <2>2. Onward
    BY <1>1, <1>2 DEF Onward, Pre, TypeOK, waiters
  <2>3. QED
    BY <1>2, <2>1, <2>2, DropKeepsIInv DEF Swept
<1>3. CASE /\ ~QueueFull(Swept)
           /\ hitl' = [Swept EXCEPT !.pending = @ \cup {r}, !.created_at[r] = 0,
                                    !.bindings[r] = r]
           /\ future' = [Cancelled(Expired) EXCEPT ![r] = "open"]
           /\ Pre(r, "auditing")
  <2> DEFINE h == Swept
  <2>1. /\ h \in Table
        /\ h.pending = hitl.pending \ Expired
        /\ h.wait_claimed = hitl.wait_claimed \ Expired
        /\ \A q \in Request :
             /\ h.created_at[q] = IF q \in Expired THEN Nil ELSE hitl.created_at[q]
             /\ h.bindings[q] = IF q \in Expired THEN Nil ELSE hitl.bindings[q]
    BY <1>1, DropFacts DEF Swept
  <2>2. /\ h.pending = {q \in Request : h.created_at[q] # Nil}
        /\ h.pending = {q \in Request : h.bindings[q] # Nil}
        /\ h.wait_claimed \subseteq h.pending
    BY <1>1, DropAgrees DEF Swept
  <2> HIDE DEF h
  <2>3. /\ hitl' \in Table
        /\ hitl'.pending = h.pending \cup {r}
        /\ hitl'.wait_claimed = h.wait_claimed
        /\ hitl'.created_at = [h.created_at EXCEPT ![r] = 0]
        /\ hitl'.bindings = [h.bindings EXCEPT ![r] = r]
    <3>1. hitl' = [h EXCEPT !.pending = @ \cup {r}, !.created_at[r] = 0, !.bindings[r] = r]
      BY <1>3 DEF h
    <3>2. 0 \in 0..HitlTtl
      BY BrokerAssumption
    <3>3. /\ hitl'.pending = h.pending \cup {r}
          /\ hitl'.wait_claimed = h.wait_claimed
          /\ hitl'.created_at = [h.created_at EXCEPT ![r] = 0]
          /\ hitl'.bindings = [h.bindings EXCEPT ![r] = r]
          /\ hitl' = [pending |-> hitl'.pending, created_at |-> hitl'.created_at,
                      wait_claimed |-> hitl'.wait_claimed, bindings |-> hitl'.bindings]
      BY <2>1, <3>1 DEF Table
    <3>4. /\ hitl'.pending \subseteq Request /\ hitl'.wait_claimed \subseteq Request
          /\ hitl'.created_at \in [Request -> 0..HitlTtl \cup {Nil}]
          /\ hitl'.bindings \in [Request -> Request \cup {Nil}]
      BY <2>1, <3>2, <3>3 DEF Table
    <3>5. QED
      BY <3>3, <3>4 DEF Table
  <2>4. /\ pre' = [pre EXCEPT ![r] = "auditing"]
        /\ at' = at /\ token' = token /\ waited' = waited
    BY <1>1, <1>3 DEF Pre, waiters
  <2>5. /\ future' \in [Request -> {"none", "open", "answered", "cancelled"}]
        /\ future'[r] = "open"
        /\ \A q \in Request \ {r} :
             future'[q] = IF q \in Expired /\ future[q] = "open" THEN "cancelled" ELSE future[q]
    BY <1>1, <1>3, CancelledFacts
  <2>6. TypeOK'
    BY <1>1, <2>3, <2>4, <2>5 DEF TypeOK, Table
  <2>7. IndexesAgree'
    BY <2>1, <2>2, <2>3, BrokerAssumption DEF IndexesAgree, Table
  <2>8. QueueBounded'
    <3>1. h.pending \subseteq hitl.pending
      BY <2>1
    <3>2. IsFiniteSet(h.pending) /\ Cardinality(h.pending) <= MaxPending
      BY <3>1, SmallerQueue DEF IInv
    <3>3. r \notin h.pending
      BY <1>1, <3>1 DEF IInv, FuturesAgree
    <3>4. Cardinality(h.pending \cup {r}) = Cardinality(h.pending) + 1
      BY <3>2, <3>3, FS_AddElement
    <3>5. Cardinality(h.pending) \in Nat
      BY <3>2, FS_CardinalityType
    <3>6. QED
      BY <1>3, <2>3, <3>2, <3>4, <3>5, BrokerAssumption DEF QueueFull, QueueBounded, h
  <2>9. response[r] = Nil
    BY <1>1 DEF IInv, FuturesAgree
  <2>10. FuturesAgree'
    BY <1>1, <2>1, <2>3, <2>4, <2>5, <2>9 DEF IInv, FuturesAgree, TypeOK
  <2>11. AnswersAreTimely'
    BY <1>1, <2>1, <2>3 DEF IInv, AnswersAreTimely, Table
  <2>12. ClaimsHold'
    <3>1. \A w \in Waiter : at[w] # "idle" => token[w] # r /\ token[w] \in Request
      BY <1>1 DEF IInv, ClaimsHold, TypeOK
    <3>2. QED
      BY <1>1, <2>1, <2>3, <2>4, <3>1 DEF IInv, ClaimsHold, Claimed, TypeOK
  <2>13. GrantsFollowAnswers'
    BY <1>1, <2>4 DEF IInv, GrantsFollowAnswers
  <2>14. QED
    BY <2>6, <2>7, <2>8, <2>10, <2>11, <2>12, <2>13 DEF IInv
<1>4. QED
  BY <1>2, <1>3 DEF Create

\* The decision is logged, or its token is discarded.
LEMMA AuditIInv ==
  ASSUME IInv, NEW r \in Request, Audit(r)
  PROVE  IInv'
<1>1. TypeOK /\ pre[r] = "auditing" /\ UNCHANGED waiters
      /\ UNCHANGED <<response, websocket_connections, granted, answeredAt>>
  BY DEF Audit, IInv
<1>2. CASE /\ Pre(r, "announcing")
           /\ announced' = [announced EXCEPT ![r].from = websocket_connections]
           /\ UNCHANGED <<hitl, future>>
  <2>1. TypeOK'
    <3>1. pre' \in [Request -> {"evaluated", "auditing", "announcing", "told", "denied"}]
      BY <1>1, <1>2 DEF TypeOK, Pre
    <3>2. announced' \in [Request -> [from : SUBSET Ws, sent : SUBSET Ws, broken : SUBSET Ws]]
      <4>1. announced' = [announced EXCEPT ![r] = [announced[r] EXCEPT !.from = websocket_connections]]
        BY <1>2
      <4>2. [announced[r] EXCEPT !.from = websocket_connections]
              \in [from : SUBSET Ws, sent : SUBSET Ws, broken : SUBSET Ws]
        <5>1. websocket_connections \in SUBSET Ws
              /\ announced[r] \in [from : SUBSET Ws, sent : SUBSET Ws, broken : SUBSET Ws]
          BY <1>1 DEF TypeOK
        <5>2. QED
          BY <5>1
      <4>3. announced \in [Request -> [from : SUBSET Ws, sent : SUBSET Ws, broken : SUBSET Ws]]
        BY <1>1 DEF TypeOK
      <4>4. QED
        BY <4>1, <4>2, <4>3
    <3>3. QED
      BY <1>1, <1>2, <3>1, <3>2 DEF TypeOK, waiters
  <2>2. Onward
    BY <1>1, <1>2 DEF Onward, Pre, TypeOK, waiters
  <2>3. QED
    BY <1>1, <1>2, <2>1, <2>2, QuietKeepsIInv DEF waiters
<1>3. CASE /\ Pre(r, "denied")
           /\ hitl' = Drop(hitl, {r}) /\ future' = Cancelled({r})
           /\ UNCHANGED announced
  <2>1. TypeOK'
    BY <1>1, <1>3, DropFacts, CancelledFacts DEF TypeOK, Table, Pre, waiters
  <2>2. Onward
    BY <1>1, <1>3 DEF Onward, Pre, TypeOK, waiters
  <2>3. QED
    BY <1>3, <2>1, <2>2, DropKeepsIInv
<1>4. QED
  BY <1>2, <1>3 DEF Audit

\* Clients are sent tokens without a change to the table.
LEMMA AnnounceIInv ==
  ASSUME IInv, NEW r \in Request, EndAnnounce(r) \/ \E ws \in Ws : Send(r, ws)
  PROVE  IInv'
<1> DEFINE Sent == [from : SUBSET Ws, sent : SUBSET Ws, broken : SUBSET Ws]
<1>1. TypeOK
  BY DEF IInv
<1>2. CASE EndAnnounce(r)
  <2>1. TypeOK'
    BY <1>1, <1>2 DEF TypeOK, EndAnnounce, Pre, waiters
  <2>2. Onward
    BY <1>1, <1>2 DEF Onward, EndAnnounce, Pre, TypeOK, waiters
  <2>3. QED
    BY <1>2, <2>1, <2>2, QuietKeepsIInv DEF EndAnnounce, waiters
<1>3. ASSUME NEW ws \in Ws, Send(r, ws)
      PROVE  IInv'
  <2>1. PICK one \in Sent : announced' = [announced EXCEPT ![r] = one]
    <3> DEFINE was == announced[r]
    <3>1. \/ announced' = [announced EXCEPT ![r] = [was EXCEPT !.sent = @ \cup {ws}]]
          \/ announced' = [announced EXCEPT ![r] = [was EXCEPT !.sent = @ \cup {ws},
                                                             !.broken = @ \cup {ws}]]
      BY <1>1, <1>3 DEF TypeOK, Send
    <3>2. was \in Sent
      BY <1>1 DEF TypeOK
    <3> HIDE DEF was
    <3>3. /\ [was EXCEPT !.sent = @ \cup {ws}] \in Sent
          /\ [was EXCEPT !.sent = @ \cup {ws}, !.broken = @ \cup {ws}] \in Sent
      BY <3>2
    <3>4. QED
      BY <3>1, <3>3
  <2>2. announced' \in [Request -> Sent]
    BY <1>1, <2>1 DEF TypeOK
  <2>3. TypeOK'
    BY <1>1, <1>3, <2>2 DEF TypeOK, Send, waiters
  <2>4. Onward
    BY <1>3 DEF Onward, Send, waiters
  <2>5. QED
    BY <1>3, <2>3, <2>4, QuietKeepsIInv DEF Send, waiters
<1>4. QED
  BY <1>2, <1>3

\* Clients come and go.
LEMMA ClientIInv ==
  ASSUME IInv, NEW ws \in Ws, Connect(ws) \/ Disconnect(ws)
  PROVE  IInv'
<1>1. TypeOK
  BY DEF IInv
<1>2. websocket_connections' \subseteq Ws
  BY <1>1 DEF TypeOK, Connect, Disconnect
<1>3. TypeOK' /\ Onward /\ UNCHANGED <<hitl, future, at, token>>
  BY <1>1, <1>2 DEF TypeOK, Onward, Connect, Disconnect, waiters
<1>4. QED
  BY <1>3, QuietKeepsIInv

-----------------------------------------------------------------------------
(***************************************************************************)
(* /hitl_response, /hitl_wait and what follows.                            *)
(***************************************************************************)
\* An accepted response is about the request of its token, and comes in time.
LEMMA AnswerFacts ==
  ASSUME IInv, NEW r \in Request, NEW bound \in Request, Answerable(r, bound)
  PROVE  /\ bound = r /\ r \in hitl.pending \ Expired /\ future[r] = "open"
         /\ hitl.created_at[r] \in 0..(HitlTtl - 1)
<1>1. r \in hitl.pending \ Expired /\ future[r] = "open" /\ hitl.bindings[r] = bound
  BY DropFacts DEF IInv, Answerable, Swept
<1>2. bound = r
  BY <1>1, BrokerAssumption DEF IInv, AnswersAreTimely
<1>3. QED
  BY <1>1, <1>2, SweptIsFresh DEF IInv, Answerable

\* An answer is accepted or turned away, after the sweep.
LEMMA ResponseIInv ==
  ASSUME IInv, NEW r \in Request, NEW bound \in Request, NEW decision \in {"ALLOW", "DENY"},
         hitl_response(r, bound, decision)
  PROVE  IInv'
<1>1. /\ TypeOK /\ IndexesAgree
      /\ hitl' = Drop(hitl, Expired)
      /\ UNCHANGED <<pre, websocket_connections, announced, at, token, waited, granted>>
  BY DEF IInv, hitl_response, waiters, Swept
<1>2. CASE ~Answerable(r, bound)
  <2>1. future' = Cancelled(Expired) /\ UNCHANGED <<response, answeredAt>>
    BY <1>2 DEF hitl_response
  <2>2. TypeOK'
    BY <1>1, <2>1, DropFacts, CancelledFacts DEF TypeOK, Table
  <2>3. Onward
    BY <1>1, <2>1 DEF Onward
  <2>4. QED
    BY <1>1, <2>1, <2>2, <2>3, DropKeepsIInv
<1>3. CASE Answerable(r, bound)
  <2> DEFINE answer == [request |-> r, decision |-> decision]
  <2>1. /\ bound = r /\ r \in hitl.pending \ Expired /\ future[r] = "open"
        /\ hitl.created_at[r] \in 0..(HitlTtl - 1)
    BY <1>3, AnswerFacts
  <2>2. /\ future' = [Cancelled(Expired) EXCEPT ![r] = "answered"]
        /\ response' = [response EXCEPT ![r] = answer]
        /\ answeredAt' = [answeredAt EXCEPT ![r] = hitl.created_at[r]]
    BY <1>3, <2>1 DEF hitl_response
  <2>3. answer # Nil /\ answer \in [request : Request, decision : {"ALLOW", "DENY"}]
        /\ answer.request = r
    BY BrokerAssumption
  <2> HIDE DEF answer
  <2>4. /\ hitl' \in Table
        /\ hitl'.pending = hitl.pending \ Expired
        /\ hitl'.wait_claimed = hitl.wait_claimed \ Expired
        /\ \A q \in Request : hitl'.bindings[q] \in {hitl.bindings[q], Nil}
    BY <1>1, DropFacts
  <2>5. /\ future' \in [Request -> {"none", "open", "answered", "cancelled"}]
        /\ future'[r] = "answered"
        /\ \A q \in Request \ {r} :
             future'[q] = IF q \in Expired /\ future[q] = "open" THEN "cancelled" ELSE future[q]
    BY <1>1, <2>2, CancelledFacts
  <2>6. TypeOK'
    <3>1. response' \in [Request -> [request : Request, decision : {"ALLOW", "DENY"}] \cup {Nil}]
      BY <1>1, <2>2, <2>3 DEF TypeOK
    <3>2. answeredAt' \in [Request -> 0..HitlTtl \cup {Nil}]
      BY <1>1, <2>1, <2>2, BrokerAssumption DEF TypeOK
    <3>3. QED
      BY <1>1, <2>4, <2>5, <3>1, <3>2 DEF TypeOK, Table
  <2>7. IndexesAgree'
    BY <1>1, DropAgrees DEF IndexesAgree
  <2>8. QueueBounded'
    BY <2>4, SmallerQueue DEF IInv, QueueBounded
  <2>9. \A q \in Request : response'[q] = IF q = r THEN answer ELSE response[q]
    BY <1>1, <2>2 DEF TypeOK
  <2>10. FuturesAgree'
    BY <1>1, <2>1, <2>3, <2>4, <2>5, <2>9 DEF IInv, FuturesAgree
  <2>11. AnswersAreTimely'
    BY <1>1, <2>1, <2>2, <2>3, <2>4, <2>9 DEF IInv, AnswersAreTimely, TypeOK
  <2>12. ClaimsHold'
    BY <1>1, <2>4 DEF IInv, ClaimsHold, Claimed, TypeOK
  <2>13. response[r] = Nil
    BY <2>1 DEF IInv, FuturesAgree
  <2>14. GrantsFollowAnswers'
    <3>1. \A q \in Request : response[q] # Nil => response'[q] = response[q]
      BY <2>9, <2>13
    <3>2. \A w \in Waiter : at[w] = "granting" => token[w] \in Request
      BY <1>1 DEF TypeOK
    <3>3. granted \subseteq Request
      BY <1>1 DEF TypeOK
    <3>4. QED
      BY <1>1, <3>1, <3>2, <3>3 DEF IInv, GrantsFollowAnswers
  <2>15. QED
    BY <2>6, <2>7, <2>8, <2>10, <2>11, <2>12, <2>14 DEF IInv
<1>4. QED
  BY <1>2, <1>3

\* A waiter claims the token, if it is there and nobody has, after the sweep.
LEMMA WaitIInv ==
  ASSUME IInv, NEW w \in Waiter, NEW r \in Request, Wait(w, r)
  PROVE  IInv'
<1>1. /\ TypeOK /\ IndexesAgree
      /\ at[w] = "idle" /\ pre[r] = "told"
      /\ token' = [token EXCEPT ![w] = r]
      /\ future' = Cancelled(Expired)
      /\ UNCHANGED <<response, pre, websocket_connections, announced, waited, granted, answeredAt>>
  BY DEF IInv, Wait
<1>2. CASE hitl' = Swept /\ Ends(w, "404")
  <2>1. hitl' = Drop(hitl, Expired)
    BY <1>2 DEF Swept
  <2>2. TypeOK'
    BY <1>1, <1>2, <2>1, DropFacts, CancelledFacts DEF TypeOK, Table, Ends
  <2>3. Onward
    BY <1>1, <1>2 DEF Onward, Ends, TypeOK
  <2>4. QED
    BY <1>1, <2>1, <2>2, <2>3, DropKeepsIInv
<1>3. CASE /\ Claimable(r)
           /\ hitl' = [Swept EXCEPT !.wait_claimed = @ \cup {r}]
           /\ Ends(w, "waiting")
  <2> DEFINE h == Swept
  <2>1. /\ h \in Table
        /\ h.pending = hitl.pending \ Expired
        /\ h.wait_claimed = hitl.wait_claimed \ Expired
        /\ \A q \in Request : h.bindings[q] \in {hitl.bindings[q], Nil}
    BY <1>1, DropFacts DEF Swept
  <2>2. /\ h.pending = {q \in Request : h.created_at[q] # Nil}
        /\ h.pending = {q \in Request : h.bindings[q] # Nil}
        /\ h.wait_claimed \subseteq h.pending
    BY <1>1, DropAgrees DEF Swept
  <2>3. r \in h.pending /\ r \notin h.wait_claimed
    BY <1>3 DEF Claimable
  <2>4. hitl' = [h EXCEPT !.wait_claimed = @ \cup {r}]
    BY <1>3
  <2> HIDE DEF h
  <2>5. /\ hitl' \in Table
        /\ hitl'.pending = h.pending /\ hitl'.created_at = h.created_at
        /\ hitl'.bindings = h.bindings
        /\ hitl'.wait_claimed = h.wait_claimed \cup {r}
    BY <2>1, <2>4 DEF Table
  <2>6. at' = [at EXCEPT ![w] = "waiting"]
    BY <1>3 DEF Ends
  <2>7. TypeOK'
    BY <1>1, <2>5, <2>6, CancelledFacts DEF TypeOK, Table
  <2>8. IndexesAgree'
    BY <2>2, <2>3, <2>5 DEF IndexesAgree
  <2>9. QueueBounded'
    BY <2>1, <2>5, SmallerQueue DEF IInv, QueueBounded
  <2>10. FuturesAgree'
    BY <1>1, <2>1, <2>5, CancelledFacts DEF IInv, FuturesAgree, TypeOK
  <2>11. AnswersAreTimely'
    BY <1>1, <2>1, <2>5 DEF IInv, AnswersAreTimely
  <2>12. ClaimsHold'
    <3>1. \A v \in Waiter : at[v] # "idle" => token[v] \in Request
      BY <1>1 DEF TypeOK
    <3>2. \A v \in Waiter : Claimed(v) => token[v] # r
      BY <2>1, <2>3 DEF IInv, ClaimsHold, Claimed
    <3>3. /\ at'[w] = "waiting" /\ token'[w] = r
          /\ \A v \in Waiter \ {w} : at'[v] = at[v] /\ token'[v] = token[v]
      BY <1>1, <2>6 DEF TypeOK
    <3>4. QED
      BY <1>1, <2>1, <2>3, <2>5, <3>1, <3>2, <3>3 DEF IInv, ClaimsHold, Claimed
  <2>13. GrantsFollowAnswers'
    BY <1>1, <2>6 DEF IInv, GrantsFollowAnswers, TypeOK
  <2>14. QED
    BY <2>7, <2>8, <2>9, <2>10, <2>11, <2>12, <2>13 DEF IInv
<1>4. QED
  BY <1>2, <1>3 DEF Wait

\* Dropping no token changes nothing.
LEMMA DropNothing ==
  ASSUME TypeOK
  PROVE  hitl = Drop(hitl, {}) /\ future = Cancelled({})
BY DEF TypeOK, Drop, Cancelled

\* A wait ends, and its token is out of the table.
LEMMA SettleKeepsIInv ==
  ASSUME IInv, NEW w \in Waiter, NEW S,
         NEW result \in {"granting", "DENY", "404", "408", "500"},
         at[w] = "waiting", Ends(w, result),
         hitl' = Drop(hitl, S), future' = Cancelled(S), token[w] \notin hitl'.pending,
         result = "granting" => /\ response[token[w]] # Nil
                                /\ response[token[w]].decision = "ALLOW",
         UNCHANGED <<response, pre, websocket_connections, announced, token, waited, granted,
                     answeredAt>>
  PROVE  IInv'
<1>1. /\ hitl' \in Table
      /\ hitl'.pending = hitl.pending \ S
      /\ hitl'.wait_claimed = hitl.wait_claimed \ S
      /\ \A q \in Request : hitl'.bindings[q] \in {hitl.bindings[q], Nil}
      /\ \A q \in Request :
           future'[q] = IF q \in S /\ future[q] = "open" THEN "cancelled" ELSE future[q]
  BY DropFacts, CancelledFacts DEF IInv
<1>2. \A v \in Waiter : at'[v] = IF v = w THEN result ELSE at[v]
  BY DEF IInv, TypeOK, Ends
<1>3. TypeOK'
  BY <1>1, CancelledFacts DEF IInv, TypeOK, Table, Ends
<1>4. IndexesAgree'
  BY DropAgrees DEF IInv, IndexesAgree
<1>5. QueueBounded'
  BY <1>1, SmallerQueue DEF IInv, QueueBounded
<1>6. FuturesAgree'
  BY <1>1 DEF IInv, FuturesAgree
<1>7. AnswersAreTimely'
  BY <1>1 DEF IInv, AnswersAreTimely
<1>8. ClaimsHold'
  BY <1>1, <1>2 DEF IInv, ClaimsHold, Claimed, TypeOK
<1>9. GrantsFollowAnswers'
  BY <1>2 DEF IInv, GrantsFollowAnswers
<1>10. QED
  BY <1>3, <1>4, <1>5, <1>6, <1>7, <1>8, <1>9 DEF IInv

\* The waiter takes the answer, or finds its token swept.
LEMMA WakeIInv ==
  ASSUME IInv, NEW w \in Waiter, Wake(w)
  PROVE  IInv'
<1> DEFINE r == token[w]
<1>1. /\ TypeOK /\ at[w] = "waiting" /\ future[r] = "answered"
      /\ UNCHANGED <<future, response, pre, websocket_connections, announced, token, waited,
                     granted, answeredAt>>
  BY DEF IInv, Wake
<1>2. r \in Request /\ response[r] # Nil
  BY <1>1 DEF IInv, TypeOK, FuturesAgree
<1>3. CASE /\ hitl' = Drop(hitl, {r})
           /\ Ends(w, IF response[r].decision = "ALLOW" THEN "granting" ELSE "DENY")
  <2>1. future' = Cancelled({r})
    BY <1>1 DEF Cancelled, TypeOK
  <2>2. r \notin hitl'.pending
    BY <1>1, <1>3, DropFacts
  <2>3. CASE response[r].decision = "ALLOW"
    BY <1>1, <1>2, <1>3, <2>1, <2>2, <2>3, SettleKeepsIInv
  <2>4. CASE response[r].decision # "ALLOW"
    BY <1>1, <1>2, <1>3, <2>1, <2>2, <2>4, SettleKeepsIInv
  <2>5. QED
    BY <2>3, <2>4
<1>4. CASE r \notin hitl.pending /\ Ends(w, "404") /\ UNCHANGED hitl
  <2>1. hitl' = Drop(hitl, {}) /\ future' = Cancelled({})
    BY <1>1, <1>4, DropNothing
  <2>2. QED
    BY <1>1, <1>4, <2>1, SettleKeepsIInv
<1>5. QED
  BY <1>3, <1>4 DEF Wake

\* The wait times out and takes its token with it.
LEMMA TimeoutIInv ==
  ASSUME IInv, NEW w \in Waiter, Timeout(w)
  PROVE  IInv'
<1>1. token[w] \notin hitl'.pending
  BY DropFacts DEF IInv, Timeout
<1>2. QED
  BY <1>1, SettleKeepsIInv DEF Timeout

\* A sweep cancelled the wait; the token went with the sweep.
LEMMA CancelIInv ==
  ASSUME IInv, NEW w \in Waiter, Cancel(w)
  PROVE  IInv'
<1>1. token[w] \notin hitl'.pending
  BY DEF IInv, Cancel, FuturesAgree, TypeOK
<1>2. hitl' = Drop(hitl, {}) /\ future' = Cancelled({})
  BY DropNothing DEF IInv, Cancel
<1>3. QED
  BY <1>1, <1>2, SettleKeepsIInv DEF Cancel

\* The execution is granted, or is not.
LEMMA GrantIInv ==
  ASSUME IInv, NEW w \in Waiter, Grant(w)
  PROVE  IInv'
<1> DEFINE r == token[w]
<1>1. /\ TypeOK /\ at[w] = "granting"
      /\ UNCHANGED <<hitl, future, response, pre, websocket_connections, announced, token,
                     waited, answeredAt>>
  BY DEF IInv, Grant
<1>2. /\ r \in Request /\ response[r] # Nil /\ response[r].decision = "ALLOW"
      /\ response[r].request = r
  BY <1>1 DEF IInv, TypeOK, GrantsFollowAnswers, AnswersAreTimely
<1>3. PICK result \in {"ALLOW", "DENY", "500"} :
        /\ at' = [at EXCEPT ![w] = result]
        /\ granted' \in {granted, granted \cup {r}}
        /\ granted' # granted => result \in {"ALLOW", "500"}
  BY <1>2 DEF Grant, Ends
<1>4. \A v \in Waiter : at'[v] = IF v = w THEN result ELSE at[v]
  BY <1>1, <1>3 DEF TypeOK
<1>5. TypeOK'
  BY <1>1, <1>2, <1>3 DEF TypeOK
<1>6. IndexesAgree' /\ QueueBounded' /\ AnswersAreTimely' /\ FuturesAgree'
  BY <1>1 DEF IInv, IndexesAgree, QueueBounded, AnswersAreTimely, FuturesAgree
<1>7. ClaimsHold'
  <2>1. r \notin hitl.pending
    BY <1>1 DEF IInv, ClaimsHold, GrantsFollowAnswers, Claimed
  <2>2. QED
    BY <1>1, <1>4, <2>1 DEF IInv, ClaimsHold, Claimed
<1>8. GrantsFollowAnswers'
  BY <1>1, <1>2, <1>3, <1>4 DEF IInv, GrantsFollowAnswers
<1>9. QED
  BY <1>5, <1>6, <1>7, <1>8 DEF IInv

\* Time passes for tokens and waiters.
LEMMA TickIInv ==
  ASSUME IInv, Tick
  PROVE  IInv'
<1>1. /\ TypeOK
      /\ hitl' = [hitl EXCEPT !.created_at = [r \in Request |-> Older(@[r])]]
      /\ UNCHANGED <<future, response, pre, websocket_connections, announced, at, token,
                     granted, answeredAt>>
  BY DEF IInv, Tick
<1>2. \A age \in 0..HitlTtl \cup {Nil} :
        Older(age) \in 0..HitlTtl \cup {Nil} /\ (Older(age) = Nil <=> age = Nil)
  BY BrokerAssumption DEF Older
<1>3. /\ hitl' \in Table
      /\ hitl'.pending = hitl.pending /\ hitl'.wait_claimed = hitl.wait_claimed
      /\ hitl'.bindings = hitl.bindings
      /\ \A r \in Request : hitl'.created_at[r] = Nil <=> hitl.created_at[r] = Nil
  BY <1>1, <1>2 DEF TypeOK, Table
<1>4. waited' \in [Waiter -> 0..HitlTtl]
  BY BrokerAssumption DEF IInv, TypeOK, Tick, Older
<1>5. TypeOK'
  BY <1>1, <1>3, <1>4 DEF TypeOK, Table
<1>6. IndexesAgree' /\ QueueBounded' /\ FuturesAgree' /\ AnswersAreTimely'
  <2>1. IndexesAgree'
    <3>1. {r \in Request : hitl'.created_at[r] # Nil} = {r \in Request : hitl.created_at[r] # Nil}
      BY <1>3
    <3>2. QED
      BY <1>3, <3>1 DEF IInv, IndexesAgree
  <2>2. QueueBounded' /\ FuturesAgree' /\ AnswersAreTimely'
    BY <1>1, <1>3 DEF IInv, QueueBounded, FuturesAgree, AnswersAreTimely
  <2>3. QED
    BY <2>1, <2>2
<1>7. ClaimsHold' /\ GrantsFollowAnswers'
  BY <1>1, <1>3 DEF IInv, ClaimsHold, GrantsFollowAnswers, Claimed
<1>8. QED
  BY <1>5, <1>6, <1>7 DEF IInv

-----------------------------------------------------------------------------
(***************************************************************************)
(* The theorems.                                                           *)
(***************************************************************************)
\* Every step of the daemon and of its clients keeps the invariant.
LEMMA StepIInv == IInv /\ [Next]_vars => IInv'
<1> SUFFICES ASSUME IInv, [Next]_vars PROVE IInv'
  OBVIOUS
<1>1. CASE UNCHANGED vars
  <2>1. TypeOK'
    BY <1>1 DEF vars, waiters, IInv, TypeOK
  <2>2. Onward /\ UNCHANGED <<hitl, future, at, token>>
    BY <1>1 DEF vars, waiters, Onward
  <2>3. QED
    BY <2>1, <2>2, QuietKeepsIInv
<1>2. ASSUME NEW r \in Request,
             \/ Create(r) \/ Audit(r) \/ EndAnnounce(r)
             \/ \E ws \in Ws : Send(r, ws)
             \/ \E bound \in Request, decision \in {"ALLOW", "DENY"} :
                  hitl_response(r, bound, decision)
             \/ \E w \in Waiter : Wait(w, r)
      PROVE  IInv'
  <2>1. ASSUME NEW bound \in Request, NEW decision \in {"ALLOW", "DENY"},
               hitl_response(r, bound, decision)
        PROVE  IInv'
    BY <2>1, ResponseIInv
  <2>2. ASSUME NEW w \in Waiter, Wait(w, r)
        PROVE  IInv'
    BY <2>2, WaitIInv
  <2>3. Create(r) \/ Audit(r) => IInv'
    BY CreateIInv, AuditIInv
  <2>4. EndAnnounce(r) \/ (\E ws \in Ws : Send(r, ws)) => IInv'
    BY AnnounceIInv
  <2>5. QED
    BY <1>2, <2>1, <2>2, <2>3, <2>4
<1>3. ASSUME NEW ws \in Ws, Connect(ws) \/ Disconnect(ws)
      PROVE  IInv'
  BY <1>3, ClientIInv
<1>4. ASSUME NEW w \in Waiter, Wake(w) \/ Grant(w) \/ Timeout(w) \/ Cancel(w)
      PROVE  IInv'
  BY <1>4, WakeIInv, GrantIInv, TimeoutIInv, CancelIInv
<1>5. CASE Tick
  BY <1>5, TickIInv
<1>6. QED
  BY <1>1, <1>2, <1>3, <1>4, <1>5 DEF Next

\* The state of the broker stays well formed.
THEOREM TypeCorrect == Spec => []TypeOK
<1>1. IInv => TypeOK
  BY DEF IInv
<1>2. QED
  BY <1>1, InitIInv, StepIInv, PTL DEF Spec

\* However a token leaves the table, its four indexes go on agreeing.
THEOREM IndexesAlwaysAgree == Spec => []IndexesAgree
<1>1. IInv => IndexesAgree
  BY DEF IInv
<1>2. QED
  BY <1>1, InitIInv, StepIInv, PTL DEF Spec

\* No interleaving of creations and sweeps makes the queue exceed its bound.
THEOREM QueueIsBounded == Spec => []QueueBounded
<1>1. IInv => QueueBounded
  BY DEF IInv
<1>2. QED
  BY <1>1, InitIInv, StepIInv, PTL DEF Spec

\* grant_hitl_execution succeeds only for a request an operator allowed in time.
THEOREM GrantsWereApproved == Spec => []GrantedWasApproved
<1>1. IInv => GrantedWasApproved
  <2> SUFFICES ASSUME IInv, NEW r \in granted
               PROVE  /\ response[r] = [request |-> r, decision |-> "ALLOW"]
                      /\ answeredAt[r] < HitlTtl
    BY DEF GrantedWasApproved
  <2>1. /\ r \in Request /\ response[r] # Nil /\ response[r].decision = "ALLOW"
        /\ response[r].request = r /\ answeredAt[r] \in 0..(HitlTtl - 1)
    BY DEF IInv, TypeOK, GrantsFollowAnswers, AnswersAreTimely
  <2>2. response[r] \in [request : Request, decision : {"ALLOW", "DENY"}]
    BY <2>1 DEF IInv, TypeOK
  <2>3. answeredAt[r] < HitlTtl
    BY <2>1, BrokerAssumption
  <2>4. QED
    BY <2>1, <2>2, <2>3
<1>2. QED
  BY <1>1, InitIInv, StepIInv, PTL DEF Spec

\* One waiter at most gets past the claim of a token, ever.
THEOREM ConsumersAreUnique == Spec => []OneConsumer
<1>1. IInv => OneConsumer
  <2> SUFFICES ASSUME IInv, NEW r \in Request
               PROVE  Cardinality({w \in Waiter : /\ token[w] = r
                                                  /\ at[w] \in {"waiting", "granting",
                                                                "ALLOW", "DENY"}}) <= 1
    BY DEF OneConsumer
  <2> DEFINE C == {w \in Waiter : /\ token[w] = r
                                  /\ at[w] \in {"waiting", "granting", "ALLOW", "DENY"}}
  <2>1. \A v, w \in C : v = w
    BY DEF IInv, ClaimsHold, Claimed
  <2> HIDE DEF C
  <2>2. CASE C = {}
    BY <2>2, FS_EmptySet DEF C
  <2>3. CASE C # {}
    <3>1. PICK w : C = {w}
      BY <2>1, <2>3
    <3>2. Cardinality(C) = 1
      BY <3>1, FS_Singleton
    <3>3. QED
      BY <3>2 DEF C
  <2>4. QED
    BY <2>2, <2>3
<1>2. QED
  BY <1>1, InitIInv, StepIInv, PTL DEF Spec

\* The broker's tables are typed and bounded, and each token has one consumer.
THEOREM QueueInvHolds == Spec => []QueueInv
<1>1. IInv => TypeOK
  BY DEF IInv
<1>2. QED
  BY <1>1, InitIInv, StepIInv, QueueIsBounded, ConsumersAreUnique, PTL DEF Spec, QueueInv

\* A request whose wait timed out is not granted, then or later.
THEOREM TimeoutsAreFinal == Spec => []TimedOutStaysRefused
<1>1. IInv => TimedOutStaysRefused
  BY DEF IInv, ClaimsHold, Claimed, GrantsFollowAnswers, TimedOutStaysRefused
<1>2. QED
  BY <1>1, InitIInv, StepIInv, PTL DEF Spec

-----------------------------------------------------------------------------
(***************************************************************************)
(* The broker implements Approval.                                         *)
(***************************************************************************)
ApprovalMap == [r \in Request |-> ApprovalOf(r)]

Granting(r) == \E w \in Waiter : token[w] = r /\ at[w] = "granting"

\* What an approval is, by its index, its future and its answer.
LEMMA ApprovalFacts ==
  ASSUME IInv, NEW r \in Request
  PROVE  /\ Granting(r) => r \notin hitl.pending /\ future[r] = "answered"
         /\ r \in hitl.pending =>
              ApprovalOf(r) = IF future[r] = "answered" THEN response[r].decision ELSE "open"
         /\ r \in hitl.pending => ApprovalOf(r) \in {"open", "ALLOW", "DENY"}
         /\ r \notin hitl.pending =>
              ApprovalOf(r) = IF Granting(r) THEN "granting"
                              ELSE IF future[r] = "none" THEN "none" ELSE "closed"
<1>1. Granting(r) => r \notin hitl.pending /\ future[r] = "answered"
  BY DEF Granting, IInv, ClaimsHold, Claimed, GrantsFollowAnswers, FuturesAgree
<1>2. r \in hitl.pending => future[r] \in {"open", "answered"}
  BY DEF IInv, FuturesAgree
<1>3. future[r] = "answered" => response[r].decision \in {"ALLOW", "DENY"}
  BY DEF IInv, FuturesAgree, TypeOK
<1>4. QED
  BY <1>1, <1>2, <1>3 DEF ApprovalOf, Granting

\* A token that is dropped closes its approval, if it was still pending.
LEMMA DroppedCloses ==
  ASSUME IInv, IInv', NEW S, NEW q \in Request,
         q \in hitl'.pending <=> q \in hitl.pending /\ q \notin S,
         future'[q] = IF q \in S /\ future[q] = "open" THEN "cancelled" ELSE future[q],
         response'[q] = response[q], Granting(q)' <=> Granting(q)
  PROVE  ApprovalOf(q)' = IF q \in S /\ ApprovalOf(q) \in Approvals!Pending
                          THEN "closed" ELSE ApprovalOf(q)
<1>1. future[q] \in {"none", "open", "answered", "cancelled"}
  BY DEF IInv, TypeOK
<1>2. q \in hitl.pending => future[q] \in {"open", "answered"}
  BY DEF IInv, FuturesAgree
<1>3. CASE q \in hitl.pending /\ q \in S
  <2>1. ApprovalOf(q) \in Approvals!Pending /\ ~Granting(q)
    BY <1>3, ApprovalFacts DEF Approvals!Pending
  <2>2. ApprovalOf(q)' = "closed"
    BY <1>2, <1>3, <2>1 DEF ApprovalOf, Granting
  <2>3. QED
    BY <1>3, <2>1, <2>2
<1>4. CASE q \notin hitl.pending
  <2>1. ApprovalOf(q) \notin Approvals!Pending
    BY <1>4, ApprovalFacts DEF Approvals!Pending
  <2>2. ApprovalOf(q)' = ApprovalOf(q)
    BY <1>1, <1>4 DEF ApprovalOf, Granting
  <2>3. QED
    BY <2>1, <2>2
<1>5. CASE q \in hitl.pending /\ q \notin S
  BY <1>1, <1>5 DEF ApprovalOf, Granting
<1>6. QED
  BY <1>3, <1>4, <1>5

\* The waiters that are granting are the same.
LEMMA SameGranting ==
  ASSUME NEW q, \A w \in Waiter : \/ at'[w] = at[w] /\ token'[w] = token[w]
                                  \/ at[w] # "granting" /\ at'[w] # "granting"
  PROVE  Granting(q)' <=> Granting(q)
BY DEF Granting

\* A step that only drops tokens is a Close.
LEMMA DropIsClose ==
  ASSUME IInv, IInv', NEW S \in SUBSET Request, hitl'.pending = hitl.pending \ S,
         future' = Cancelled(S), UNCHANGED <<response, granted>>,
         \A q \in Request : Granting(q)' <=> Granting(q)
  PROVE  Approvals!Close
<1>1. \A q \in Request :
        future'[q] = IF q \in S /\ future[q] = "open" THEN "cancelled" ELSE future[q]
  BY CancelledFacts DEF IInv
<1>2. \A q \in Request :
        ApprovalOf(q)' = IF q \in S /\ ApprovalOf(q) \in Approvals!Pending
                         THEN "closed" ELSE ApprovalOf(q)
  BY <1>1, DroppedCloses
<1>3. ApprovalMap' = Approvals!Closed(S)
  BY <1>2 DEF ApprovalMap, Approvals!Closed
<1>4. QED
  BY <1>3 DEF Approvals!Close, ApprovalMap

\* A step that moves the approval of r, and drops other tokens, is a move of r.
LEMMA MoveOfOne ==
  ASSUME NEW r \in Request, NEW from, NEW to, NEW S \in SUBSET (Request \ {r}),
         ApprovalOf(r) = from, ApprovalOf(r)' = to,
         \A q \in Request \ {r} :
           ApprovalOf(q)' = IF q \in S /\ ApprovalOf(q) \in Approvals!Pending
                            THEN "closed" ELSE ApprovalOf(q)
  PROVE  Approvals!Moves(r, from, to)
<1>1. ApprovalMap' = [Approvals!Closed(S) EXCEPT ![r] = to]
  BY DEF ApprovalMap, Approvals!Closed
<1>2. QED
  BY <1>1 DEF Approvals!Moves, ApprovalMap

\* The same when no other token is dropped.
LEMMA MoveAlone ==
  ASSUME NEW r \in Request, NEW from, NEW to, ApprovalOf(r) = from, ApprovalOf(r)' = to,
         \A q \in Request \ {r} : ApprovalOf(q)' = ApprovalOf(q)
  PROVE  Approvals!Moves(r, from, to)
<1> DEFINE S == {}
<1>1. /\ S \in SUBSET (Request \ {r})
      /\ \A q \in Request \ {r} :
           ApprovalOf(q)' = IF q \in S /\ ApprovalOf(q) \in Approvals!Pending
                            THEN "closed" ELSE ApprovalOf(q)
  OBVIOUS
<1> HIDE DEF S
<1>2. QED
  BY <1>1, MoveOfOne

\* A step that changes no token, future, answer or granting waiter changes nothing.
LEMMA SameApprovals ==
  ASSUME hitl'.pending = hitl.pending, UNCHANGED <<future, response, granted>>,
         \A q \in Request : Granting(q)' <=> Granting(q)
  PROVE  ApprovalMap' = ApprovalMap
<1>1. \A q \in Request : ApprovalOf(q)' = ApprovalOf(q)
  BY DEF ApprovalOf, Granting
<1>2. QED
  BY <1>1 DEF ApprovalMap

\* What the sweep leaves.
LEMMA SweptPending ==
  ASSUME IInv
  PROVE  Swept.pending = hitl.pending \ Expired /\ Expired \in SUBSET Request
BY DropFacts DEF Swept, Expired, IInv

LEMMA CreateMoves ==
  ASSUME IInv, IInv', NEW r \in Request, Create(r)
  PROVE  Approvals!Next
<1>1. /\ UNCHANGED <<response, granted>> /\ pre[r] = "evaluated"
      /\ \A q \in Request : Granting(q)' <=> Granting(q)
  BY SameGranting DEF Create, waiters
<1>2. CASE hitl' = Swept /\ future' = Cancelled(Expired)
  BY <1>1, <1>2, SweptPending, DropIsClose DEF Approvals!Next
<1>3. CASE /\ hitl' = [Swept EXCEPT !.pending = @ \cup {r}, !.created_at[r] = 0,
                                    !.bindings[r] = r]
           /\ future' = [Cancelled(Expired) EXCEPT ![r] = "open"]
  <2>1. Swept \in Table
    BY DropFacts DEF Swept, IInv
  <2>2. hitl'.pending = (hitl.pending \ Expired) \cup {r}
    BY <1>3, <2>1, SweptPending DEF Table
  <2>3. /\ future'[r] = "open"
        /\ \A q \in Request \ {r} :
             future'[q] = IF q \in Expired /\ future[q] = "open" THEN "cancelled" ELSE future[q]
    BY <1>3, CancelledFacts DEF IInv
  <2>4. r \notin hitl.pending /\ future[r] = "none"
    BY <1>1 DEF IInv, FuturesAgree
  <2>5. ApprovalOf(r) = "none"
    BY <2>4, ApprovalFacts
  <2>6. ~Granting(r)
    BY <2>4, ApprovalFacts
  <2>7. ApprovalOf(r)' = "open"
    BY <1>1, <2>2, <2>3, <2>6 DEF ApprovalOf, Granting
  <2>8. \A q \in Request \ {r} :
          ApprovalOf(q)' = IF q \in Expired \ {r} /\ ApprovalOf(q) \in Approvals!Pending
                           THEN "closed" ELSE ApprovalOf(q)
    <3> SUFFICES ASSUME NEW q \in Request \ {r}
                 PROVE ApprovalOf(q)' = IF q \in Expired /\ ApprovalOf(q) \in Approvals!Pending
                                        THEN "closed" ELSE ApprovalOf(q)
      OBVIOUS
    <3>1. q \in hitl'.pending <=> q \in hitl.pending /\ q \notin Expired
      BY <2>2
    <3>2. QED
      BY <1>1, <2>3, <3>1, DroppedCloses
  <2>9. Expired \ {r} \in SUBSET (Request \ {r})
    BY SweptPending
  <2>10. Approvals!Moves(r, "none", "open")
    BY <2>5, <2>7, <2>8, <2>9, MoveOfOne
  <2>11. QED
    BY <1>1, <2>10 DEF Approvals!Next, Approvals!Open
<1>4. QED
  BY <1>2, <1>3 DEF Create

LEMMA AuditMoves ==
  ASSUME IInv, IInv', NEW r \in Request, Audit(r)
  PROVE  Approvals!Next \/ ApprovalMap' = ApprovalMap
<1>1. /\ UNCHANGED <<response, granted>>
      /\ \A q \in Request : Granting(q)' <=> Granting(q)
  BY SameGranting DEF Audit, waiters
<1>2. CASE UNCHANGED <<hitl, future>>
  BY <1>1, <1>2, SameApprovals
<1>3. CASE hitl' = Drop(hitl, {r}) /\ future' = Cancelled({r})
  <2>1. hitl'.pending = hitl.pending \ {r}
    BY <1>3, DropFacts DEF IInv
  <2>2. QED
    BY <1>1, <1>3, <2>1, DropIsClose DEF Approvals!Next
<1>4. QED
  BY <1>2, <1>3 DEF Audit

LEMMA ResponseMoves ==
  ASSUME IInv, IInv', NEW r \in Request, NEW bound \in Request, NEW decision \in {"ALLOW", "DENY"},
         hitl_response(r, bound, decision)
  PROVE  Approvals!Next
<1>1. /\ hitl' = Swept /\ UNCHANGED granted
      /\ \A q \in Request : Granting(q)' <=> Granting(q)
  BY SameGranting DEF hitl_response, waiters
<1>2. CASE Answerable(r, bound) /\ future' = [Cancelled(Expired) EXCEPT ![r] = "answered"]
           /\ response' = [response EXCEPT ![r] = [request |-> bound, decision |-> decision]]
  <2>1. r \in hitl.pending /\ r \notin Expired /\ future[r] = "open"
    BY <1>2, SweptPending DEF Answerable
  <2>2. /\ future'[r] = "answered" /\ response'[r].decision = decision
        /\ \A q \in Request \ {r} :
             /\ future'[q] = IF q \in Expired /\ future[q] = "open" THEN "cancelled" ELSE future[q]
             /\ response'[q] = response[q]
    BY <1>2, CancelledFacts DEF IInv, TypeOK
  <2>3. ApprovalOf(r) = "open" /\ ~Granting(r)
    BY <2>1, ApprovalFacts
  <2>4. ApprovalOf(r)' = decision
    BY <1>1, <2>1, <2>2, <2>3, SweptPending DEF ApprovalOf, Granting
  <2>5. \A q \in Request \ {r} :
          ApprovalOf(q)' = IF q \in Expired \ {r} /\ ApprovalOf(q) \in Approvals!Pending
                           THEN "closed" ELSE ApprovalOf(q)
    BY <1>1, <2>2, SweptPending, DroppedCloses
  <2>6. Approvals!Moves(r, "open", decision)
    BY <2>3, <2>4, <2>5, SweptPending, MoveOfOne
  <2>7. QED
    BY <1>1, <2>6 DEF Approvals!Next, Approvals!Answer
<1>3. CASE future' = Cancelled(Expired) /\ UNCHANGED response
  BY <1>1, <1>3, SweptPending, DropIsClose DEF Approvals!Next
<1>4. QED
  BY <1>2, <1>3 DEF hitl_response

LEMMA WaitMoves ==
  ASSUME IInv, IInv', NEW w \in Waiter, NEW r \in Request, Wait(w, r)
  PROVE  Approvals!Next
<1>1. /\ UNCHANGED <<response, granted>> /\ future' = Cancelled(Expired)
      /\ \A q \in Request : Granting(q)' <=> Granting(q)
  <2>1. \A v \in Waiter : \/ at'[v] = at[v] /\ token'[v] = token[v]
                          \/ at[v] # "granting" /\ at'[v] # "granting"
    BY DEF Wait, Ends, IInv, TypeOK
  <2>2. QED
    BY <2>1, SameGranting DEF Wait
<1>2. hitl'.pending = hitl.pending \ Expired
  <2>1. Swept \in Table
    BY DropFacts DEF Swept, IInv
  <2>2. QED
    BY <2>1, SweptPending DEF Wait, Table
<1>3. QED
  BY <1>1, <1>2, SweptPending, DropIsClose DEF Approvals!Next

LEMMA WakeMoves ==
  ASSUME IInv, IInv', NEW w \in Waiter, Wake(w)
  PROVE  Approvals!Next \/ ApprovalMap' = ApprovalMap
<1> DEFINE r == token[w]
<1>1. /\ r \in Request /\ at[w] = "waiting" /\ future[r] = "answered"
      /\ UNCHANGED <<future, response, granted, token>>
  BY DEF Wake, IInv, TypeOK
<1>2. CASE r \in hitl.pending /\ response[r].decision = "ALLOW"
  <2>1. hitl'.pending = hitl.pending \ {r} /\ at' = [at EXCEPT ![w] = "granting"]
    BY <1>2, DropFacts DEF Wake, Ends, IInv
  <2>2. at'[w] = "granting" /\ \A v \in Waiter \ {w} : at'[v] = at[v]
    BY <2>1 DEF IInv, TypeOK
  <2>3. ApprovalOf(r) = "ALLOW" /\ ApprovalOf(r)' = "granting"
    BY <1>1, <1>2, <2>2, ApprovalFacts DEF ApprovalOf
  <2>4. ASSUME NEW q \in Request \ {r} PROVE ApprovalOf(q)' = ApprovalOf(q)
    <3>1. Granting(q)' <=> Granting(q)
      BY <1>1, <2>2 DEF Granting
    <3>2. QED
      BY <1>1, <2>1, <3>1 DEF ApprovalOf, Granting
  <2>5. Approvals!Moves(r, "ALLOW", "granting")
    BY <1>1, <2>3, <2>4, MoveAlone
  <2>6. QED
    BY <1>1, <2>5 DEF Approvals!Next, Approvals!Take
<1>3. CASE r \in hitl.pending /\ response[r].decision # "ALLOW"
  <2>1. hitl'.pending = hitl.pending \ {r} /\ at' = [at EXCEPT ![w] = "DENY"]
    BY <1>3, DropFacts DEF Wake, Ends, IInv
  <2>2. \A q \in Request : Granting(q)' <=> Granting(q)
    <3>1. \A v \in Waiter : \/ at'[v] = at[v] /\ token'[v] = token[v]
                            \/ at[v] # "granting" /\ at'[v] # "granting"
      BY <1>1, <2>1 DEF IInv, TypeOK
    <3>2. QED
      BY <3>1, SameGranting
  <2>3. future' = Cancelled({r})
    BY <1>1 DEF Cancelled, IInv, TypeOK
  <2>4. QED
    BY <1>1, <2>1, <2>2, <2>3, DropIsClose DEF Approvals!Next
<1>4. CASE r \notin hitl.pending
  <2>1. hitl' = hitl /\ at' = [at EXCEPT ![w] = "404"]
    BY <1>4 DEF Wake, Ends
  <2>2. \A v \in Waiter : \/ at'[v] = at[v] /\ token'[v] = token[v]
                          \/ at[v] # "granting" /\ at'[v] # "granting"
    BY <1>1, <2>1 DEF IInv, TypeOK
  <2>3. QED
    BY <1>1, <2>1, <2>2, SameGranting, SameApprovals
<1>5. QED
  BY <1>2, <1>3, <1>4

LEMMA GrantMoves ==
  ASSUME IInv, IInv', NEW w \in Waiter, Grant(w)
  PROVE  Approvals!Next
<1> DEFINE r == token[w]
<1>1. /\ r \in Request /\ at[w] = "granting"
      /\ UNCHANGED <<hitl, future, response, token>>
  BY DEF Grant, IInv, TypeOK
<1>2. response[r].request = r
  BY <1>1 DEF IInv, GrantsFollowAnswers, AnswersAreTimely
<1>3. PICK result \in {"ALLOW", "DENY", "500"} : at' = [at EXCEPT ![w] = result]
  BY DEF Grant, Ends
<1>4. granted' \in {granted, granted \cup {r}}
  BY <1>2 DEF Grant
<1>5. at'[w] # "granting" /\ \A v \in Waiter \ {w} : at'[v] = at[v]
  BY <1>3 DEF IInv, TypeOK
<1>6. ApprovalOf(r) = "granting" /\ r \notin hitl.pending /\ future[r] = "answered"
  <2>1. Granting(r)
    BY <1>1 DEF Granting
  <2>2. QED
    BY <1>1, <2>1, ApprovalFacts
<1>7. ~Granting(r)'
  <2>1. \A v \in Waiter : token[v] = r /\ at[v] = "granting" => v = w
    BY <1>1 DEF IInv, ClaimsHold, Claimed
  <2>2. QED
    BY <1>1, <1>5, <2>1 DEF Granting
<1>8. ApprovalOf(r)' = "closed"
  BY <1>1, <1>6, <1>7 DEF ApprovalOf, Granting
<1>9. ASSUME NEW q \in Request \ {r} PROVE ApprovalOf(q)' = ApprovalOf(q)
  <2>1. Granting(q)' <=> Granting(q)
    BY <1>1, <1>5 DEF Granting
  <2>2. QED
    BY <1>1, <2>1 DEF ApprovalOf, Granting
<1>10. Approvals!Moves(r, "granting", "closed")
  BY <1>1, <1>6, <1>8, <1>9, MoveAlone
<1>11. QED
  BY <1>1, <1>4, <1>10 DEF Approvals!Next, Approvals!Grant

LEMMA TimeoutMoves ==
  ASSUME IInv, IInv', NEW w \in Waiter, Timeout(w)
  PROVE  Approvals!Next
<1> DEFINE S == {token[w]} \cap hitl.pending
<1>1. /\ hitl'.pending = hitl.pending \ S /\ future' = Cancelled(S)
      /\ UNCHANGED <<response, granted, token>>
  BY DropFacts DEF Timeout, IInv
<1>2. \A v \in Waiter : \/ at'[v] = at[v] /\ token'[v] = token[v]
                        \/ at[v] # "granting" /\ at'[v] # "granting"
  BY DEF Timeout, Ends, IInv, TypeOK
<1>3. S \in SUBSET Request
  BY DEF IInv, TypeOK
<1>4. QED
  BY <1>1, <1>2, <1>3, SameGranting, DropIsClose DEF Approvals!Next

\* The other steps touch no approval.
LEMMA QuietMoves ==
  ASSUME IInv,
         \/ \E r \in Request : EndAnnounce(r) \/ \E ws \in Ws : Send(r, ws)
         \/ \E ws \in Ws : Connect(ws) \/ Disconnect(ws)
         \/ \E w \in Waiter : Cancel(w)
         \/ Tick
         \/ UNCHANGED vars
  PROVE  ApprovalMap' = ApprovalMap
<1>1. hitl'.pending = hitl.pending /\ UNCHANGED <<future, response, granted, token>>
  <2>1. hitl' = hitl \/ Tick
    BY DEF EndAnnounce, Send, Connect, Disconnect, Cancel, vars
  <2>2. Tick => hitl'.pending = hitl.pending
    BY DEF Tick, IInv, TypeOK
  <2>3. QED
    BY <2>1, <2>2 DEF EndAnnounce, Send, Connect, Disconnect, Cancel, Tick, vars, waiters
<1>2. \A v \in Waiter : \/ at'[v] = at[v] /\ token'[v] = token[v]
                        \/ at[v] # "granting" /\ at'[v] # "granting"
  <2>1. at' = at \/ \E w \in Waiter : at[w] = "waiting" /\ at' = [at EXCEPT ![w] = "500"]
    BY DEF EndAnnounce, Send, Connect, Disconnect, Cancel, Tick, Ends, vars, waiters
  <2>2. QED
    BY <1>1, <2>1 DEF IInv, TypeOK
<1>3. QED
  BY <1>1, <1>2, SameGranting, SameApprovals

\* HitlBroker implements Approval: through lazy sweeps, timeouts, cancelled futures
\* and any number of waiters, an approval is asked for once, answered at most once
\* while it is open, and granted only by whoever took an answer that allows it.
THEOREM BrokerImplementsApproval == Spec => ImplementsApproval
<1>1. Init => Approvals!Init
  BY DEF Init, Approvals!Init, ApprovalOf
<1>2. IInv /\ IInv' /\ [Next]_vars => [Approvals!Next]_<<ApprovalMap, granted>>
  <2> SUFFICES ASSUME IInv, IInv', [Next]_vars
               PROVE  Approvals!Next \/ UNCHANGED <<ApprovalMap, granted>>
    OBVIOUS
  <2>1. ASSUME NEW r \in Request, Create(r) \/ Audit(r)
        PROVE  Approvals!Next \/ UNCHANGED <<ApprovalMap, granted>>
    BY <2>1, CreateMoves, AuditMoves DEF Audit
  <2>2. ASSUME NEW r \in Request, NEW bound \in Request, NEW decision \in {"ALLOW", "DENY"},
               hitl_response(r, bound, decision)
        PROVE  Approvals!Next
    BY <2>2, ResponseMoves
  <2>3. ASSUME NEW w \in Waiter, NEW r \in Request, Wait(w, r)
        PROVE  Approvals!Next
    BY <2>3, WaitMoves
  <2>4. ASSUME NEW w \in Waiter, Wake(w) \/ Grant(w) \/ Timeout(w)
        PROVE  Approvals!Next \/ UNCHANGED <<ApprovalMap, granted>>
    BY <2>4, WakeMoves, GrantMoves, TimeoutMoves DEF Wake
  <2>5. CASE \/ \E r \in Request : EndAnnounce(r) \/ \E ws \in Ws : Send(r, ws)
             \/ \E ws \in Ws : Connect(ws) \/ Disconnect(ws)
             \/ \E w \in Waiter : Cancel(w)
             \/ Tick
             \/ UNCHANGED vars
    <3>1. UNCHANGED granted
      BY <2>5 DEF EndAnnounce, Send, Connect, Disconnect, Cancel, Tick, vars
    <3>2. QED
      BY <2>5, <3>1, QuietMoves
  <2>6. QED
    BY <2>1, <2>2, <2>3, <2>4, <2>5 DEF Next
<1>3. QED
  BY <1>1, <1>2, InitIInv, StepIInv, PTL
     DEF Spec, ImplementsApproval, Approvals!Spec, Approvals!vars, ApprovalMap
=============================================================================
