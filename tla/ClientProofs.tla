---------------------------- MODULE ClientProofs ----------------------------
(***************************************************************************)
(* Theorems about the two clients of a daemon: the governed calls of its   *)
(* own client, GovernedCall, for any number of calls, held or not, and any *)
(* number of crashes and starts of the daemon; and the protocol's          *)
(* reference client, ReferenceClient, for any stream a link may carry.     *)
(***************************************************************************)
EXTENDS GovernedCall, ReferenceClient, SequenceTheorems, TLAPS

\* The handlers that can be at work for a call, by where its wrapper is.  One that
\* was given up goes on.
Serves(where) ==
  CASE where = "asking"  -> {"none", "pre_exec", "issuing", "denying", "allowing",
                             "holding", "announcing"}
    [] where = "waiting" -> {"none", "hitl_wait", "granting"}
    [] where = "denied"  -> {"none", "pre_exec", "issuing", "denying", "allowing",
                             "holding", "announcing", "hitl_wait", "granting"}
    [] where \in {"reporting", "over"} -> {"none", "post_exec"}
    [] OTHER -> {"none"}

\* A wrapper and the handler of its latest POST.
PostsAgree(r) ==
  /\ handler[r] \in Serves(at[r])
  /\ handler[r] # "none" => up /\ reply[r] = Nil
  /\ reply[r] # Nil => at[r] \in {"asking", "waiting"}
  /\ handler[r] = "post_exec" => report[r] # Nil
  /\ report[r] # Nil => report[r].id = r

\* What the store holds for a call, against how far the wrapper and the handler are:
\* nothing expires under a wrapper that still waits for its answer.
StoreAgrees(r) ==
  /\ at[r] = "idle" \/ handler[r] = "pre_exec" => stage[r] = "new"
  /\ at[r] = "asking" /\ handler[r] = "allowing" => stage[r] = "allowed"
  /\ reply[r] = "ALLOW" =>
       /\ stage[r] = "allowed"
       /\ at[r] = "asking" => r \notin opaque
       /\ at[r] = "waiting" => r \in granted

\* The key of the daemon and the rows it signed.
KeysAgree ==
  /\ up => key \in 0..MaxStarts
  /\ Production =>
       /\ up => seed /\ key = 0
       /\ audit_log # {} => seed /\ key = 0
       /\ key \in {Nil, 0}
  /\ \A row \in audit_log :
       /\ "decision" \in row.signed => row.kept = row.signed
       /\ Production => row.key = 0

\* What is said of one call.
CallAgrees(r) ==
  /\ PostsAgree(r) /\ StoreAgrees(r)
  /\ at[r] = "running" => stage[r] \in {"allowed", "lapsed", "new"}
  /\ stage[r] = "settled" => at[r] \in {"reporting", "over"}
  /\ r \in opaque /\ at[r] \in Started => r \in granted

IInv == TypeOK /\ KeysAgree /\ \A r \in Request : CallAgrees(r)

-----------------------------------------------------------------------------
(***************************************************************************)
(* What a step leaves alone.                                               *)
(***************************************************************************)
\* The steps of one call: nothing is said of the others that was not before.
OnlyCall(r) ==
  /\ up' = up /\ opaque' = opaque /\ granted \subseteq granted'
  /\ \A q \in Request \ {r} :
       /\ stage'[q] = stage[q] /\ at'[q] = at[q] /\ handler'[q] = handler[q]
       /\ reply'[q] = reply[q] /\ report'[q] = report[q]

LEMMA OneCallMoves ==
  ASSUME IInv, TypeOK', KeysAgree', NEW r \in Request, OnlyCall(r), CallAgrees(r)'
  PROVE  IInv'
<1> SUFFICES ASSUME NEW q \in Request, q # r PROVE CallAgrees(q)'
  BY DEF IInv
<1>1. CallAgrees(q)
  BY DEF IInv
<1>2. QED
  BY <1>1 DEF OnlyCall, CallAgrees, PostsAgree, StoreAgrees

LEMMA KeysKept ==
  ASSUME KeysAgree, UNCHANGED <<daemon, seed, audit_log>>
  PROVE  KeysAgree'
BY DEF KeysAgree, daemon

\* A daemon that is up signs what it logs with the key of its deployment.
LEMMA LogsKept ==
  ASSUME TypeOK, KeysAgree, up, UNCHANGED <<daemon, config>>, NEW row,
         row.key = key, row.signed \subseteq Field, row.kept \subseteq Field,
         "decision" \in row.signed => row.kept = row.signed, Logs(row)
  PROVE  /\ KeysAgree'
         /\ \A w \in audit_log' : w.signed \subseteq Field /\ w.kept \subseteq Field
                                  /\ w.key \in 0..MaxStarts
<1>1. \A w \in audit_log' : w \in audit_log \/ w = row
  BY DEF Logs
<1>2. key \in 0..MaxStarts /\ (Production => seed /\ key = 0)
  BY DEF KeysAgree
<1>3. QED
  BY <1>1, <1>2 DEF KeysAgree, TypeOK, daemon, config

LEMMA RowFacts ==
  /\ DecisionRow.key = key /\ DecisionRow.signed \subseteq Field
  /\ DecisionRow.kept = DecisionRow.signed
  /\ \A r, free : LET row == ExecutionRow(r, free) IN
       row.key = key /\ row.signed \subseteq Field /\ row.kept \subseteq Field /\ "decision" \notin row.signed
BY DEF DecisionRow, ExecutionRow, Row, Field

\* The broker's moves are typed, and grants are not taken back.
LEMMA BrokerTyped ==
  ASSUME approval \in [Request -> Approvals!State], granted \subseteq Request,
         NEW r \in Request,
         \/ Approvals!Open(r) \/ Approvals!Take(r) \/ Approvals!Grant(r) \/ Approvals!Close
         \/ \E decision \in {"ALLOW", "DENY"} : Approvals!Answer(r, decision)
         \/ approval' = Approvals!Closed({r}) /\ UNCHANGED granted
         \/ UNCHANGED broker
  PROVE  /\ approval' \in [Request -> Approvals!State]
         /\ granted \subseteq granted' /\ granted' \subseteq granted \cup {r}
BY DEF Approvals!Open, Approvals!Take, Approvals!Grant, Approvals!Close, Approvals!Answer,
       Approvals!Moves, Approvals!Closed, Approvals!State, Approvals!Pending, broker

\* So are the store's.
LEMMA StoreTyped ==
  ASSUME stage \in [Request -> Capabilities!Stage], NEW r \in Request, 
         NEW from, NEW to \in Capabilities!Stage, Capabilities!Moves(r, from, to)
  PROVE  /\ stage' \in [Request -> Capabilities!Stage]
         /\ stage[r] = from /\ stage'[r] = to
         /\ \A q \in Request \ {r} : stage'[q] = stage[q]
BY DEF Capabilities!Moves

-----------------------------------------------------------------------------
LEMMA InitIInv == Init => IInv
<1> SUFFICES ASSUME Init PROVE IInv
  OBVIOUS
<1>1. TypeOK
  <2>1. \A r \in opaque : r \in Request
    BY CallAssumption DEF Init
  <2>2. stage \in [Request -> Capabilities!Stage] /\ approval \in [Request -> Approvals!State]
    BY DEF Init, Capabilities!Init, Capabilities!Stage, Approvals!Init, Approvals!State
  <2>3. /\ granted \subseteq Request /\ opaque \in Opaque /\ seed \in BOOLEAN
        /\ _request_id \in Request \cup {Nil} /\ key \in 0..MaxStarts \cup {Nil}
        /\ audit_log = {}
    BY DEF Init, Approvals!Init
  <2>4. /\ at \in [Request -> {"idle"}] /\ handler \in [Request -> {"none"}]
        /\ reply \in [Request -> {Nil}] /\ report \in [Request -> {Nil}]
    BY DEF Init
  <2>5. MaxStarts \in Nat
    BY CallAssumption
  <2>6. starts \in 0..MaxStarts
    BY <2>5 DEF Init
  <2>7. up \in BOOLEAN
    BY DEF Init
  <2>8. QED
    BY <2>1, <2>2, <2>3, <2>4, <2>6, <2>7 DEF TypeOK
<1>2. KeysAgree
  BY DEF Init, KeysAgree
<1>3. QED
  BY <1>1, <1>2, CallAssumption DEF Init, Capabilities!Init, IInv, CallAgrees, PostsAgree,
     StoreAgrees, Serves, Started

-----------------------------------------------------------------------------
(***************************************************************************)
(* The wrapper's steps.                                                    *)
(***************************************************************************)
LEMMA AskKeeps == ASSUME IInv, NEW r \in Request, Ask(r) PROVE IInv'
<1>1. CallAgrees(r)
  BY DEF IInv
<1>2. TypeOK'
  BY CallAssumption DEF IInv, Ask, At, Posts, TypeOK, store, broker, config, daemon
<1>3. KeysAgree'
  BY KeysKept DEF IInv, Ask, config
<1>4. OnlyCall(r)
  BY DEF IInv, TypeOK, Ask, At, Posts, OnlyCall, store, broker, config, daemon
<1>5. CallAgrees(r)'
  BY <1>1 DEF IInv, TypeOK, Ask, At, Posts, CallAgrees, PostsAgree, StoreAgrees, Serves, Started,
     store, broker, config, daemon
<1>6. QED
  BY <1>2, <1>3, <1>4, <1>5, OneCallMoves

LEMMA TakeDecisionKeeps == ASSUME IInv, NEW r \in Request, TakeDecision(r) PROVE IInv'
<1>1. CallAgrees(r)
  BY DEF IInv
<1>2. TypeOK'
  BY CallAssumption DEF IInv, TakeDecision, At, Posts, TypeOK, store, broker, config, daemon
<1>3. KeysAgree'
  BY KeysKept DEF IInv, TakeDecision, config
<1>4. OnlyCall(r)
  BY DEF IInv, TypeOK, TakeDecision, At, Posts, OnlyCall, store, broker, config, daemon
<1>5. CallAgrees(r)'
  BY <1>1, CallAssumption DEF IInv, TypeOK, TakeDecision, Permits, At, Posts, CallAgrees,
     PostsAgree, StoreAgrees, Serves, Started, store, broker, config, daemon
<1>6. QED
  BY <1>2, <1>3, <1>4, <1>5, OneCallMoves

LEMMA TakeApprovalKeeps == ASSUME IInv, NEW r \in Request, TakeApproval(r) PROVE IInv'
<1>1. CallAgrees(r)
  BY DEF IInv
<1>2. TypeOK'
  BY CallAssumption DEF IInv, TakeApproval, At, Posts, TypeOK, store, broker, config, daemon
<1>3. KeysAgree'
  BY KeysKept DEF IInv, TakeApproval, config
<1>4. OnlyCall(r)
  BY DEF IInv, TypeOK, TakeApproval, At, Posts, OnlyCall, store, broker, config, daemon
<1>5. CallAgrees(r)'
  BY <1>1, CallAssumption DEF IInv, TypeOK, TakeApproval, Permits, At, Posts, CallAgrees,
     PostsAgree, StoreAgrees, Serves, Started, store, broker, config, daemon
<1>6. QED
  BY <1>2, <1>3, <1>4, <1>5, OneCallMoves

LEMMA GiveUpKeeps == ASSUME IInv, NEW r \in Request, GiveUp(r) PROVE IInv'
<1>1. CallAgrees(r)
  BY DEF IInv
<1>2. TypeOK'
  BY CallAssumption DEF IInv, GiveUp, At, TypeOK, store, broker, config, daemon
<1>3. KeysAgree'
  BY KeysKept DEF IInv, GiveUp, config
<1>4. OnlyCall(r)
  BY DEF IInv, TypeOK, GiveUp, At, OnlyCall, store, broker, config, daemon
<1>5. CallAgrees(r)'
  BY <1>1, CallAssumption DEF IInv, TypeOK, GiveUp, At, CallAgrees,
     PostsAgree, StoreAgrees, Serves, Started, store, broker, config, daemon
<1>6. QED
  BY <1>2, <1>3, <1>4, <1>5, OneCallMoves

LEMMA ToolEndsKeeps == ASSUME IInv, NEW r \in Request, ToolEnds(r) PROVE IInv'
<1>1. CallAgrees(r) /\ TypeOK
  BY DEF IInv
<1>2. CASE At(r, "over") /\ UNCHANGED posts
  <2>1. TypeOK'
    BY <1>1, <1>2, CallAssumption DEF ToolEnds, At, posts, TypeOK, store, broker, config, daemon
  <2>2. CallAgrees(r)'
    BY <1>1, <1>2, CallAssumption DEF TypeOK, ToolEnds, At, posts, CallAgrees, PostsAgree,
       StoreAgrees, Serves, Started, store, broker, config, daemon
  <2>3. OnlyCall(r)
    BY <1>1, <1>2 DEF TypeOK, ToolEnds, At, posts, OnlyCall, store, broker, config, daemon
  <2>4. KeysAgree'
    BY KeysKept DEF IInv, ToolEnds, config
  <2>5. QED
    BY <2>1, <2>2, <2>3, <2>4, OneCallMoves
<1>3. ASSUME up, At(r, "reporting"), Posts(r, "post_exec"), NEW told \in Report, told.id = r,
             report' = [report EXCEPT ![r] = told]
      PROVE  IInv'
  <2>1. report' \in [Request -> Report \cup {Nil}] /\ report'[r] = told
    BY <1>1, <1>3, Zenon DEF TypeOK
  <2>2. told # Nil
    BY CallAssumption DEF Report
  <2>3. TypeOK'
    BY <1>1, <1>3, <2>1, CallAssumption DEF ToolEnds, At, Posts, TypeOK, store, broker, config,
       daemon
  <2>4. CallAgrees(r)'
    BY <1>1, <1>3, <2>1, <2>2, CallAssumption DEF TypeOK, ToolEnds, At, Posts, CallAgrees,
       PostsAgree, StoreAgrees, Serves, Started, store, broker, config, daemon
  <2>5. OnlyCall(r)
    BY <1>1, <1>3 DEF TypeOK, ToolEnds, At, Posts, OnlyCall, store, broker, config, daemon
  <2>6. KeysAgree'
    BY KeysKept DEF IInv, ToolEnds, config
  <2>7. QED
    BY <2>3, <2>4, <2>5, <2>6, OneCallMoves
<1>4. ASSUME NEW result \in {"object", "none"}, NEW error \in BOOLEAN
      PROVE  [id |-> r, result |-> result, error |-> error] \in Report
  BY DEF Report
<1>5. CASE up /\ At(r, "reporting") /\ Posts(r, "post_exec") /\ ~(At(r, "over") /\ UNCHANGED posts)
  <2>1. PICK outcome \in [result : {"object", "none"}, error : BOOLEAN] :
          report' = [report EXCEPT ![r] = [id |-> r, result |-> outcome.result,
                                           error |-> outcome.error]]
    BY <1>5 DEF ToolEnds, Reported
  <2>2. QED
    BY <1>3, <1>4, <1>5, <2>1
<1>6. QED
  BY <1>2, <1>5 DEF ToolEnds

LEMMA EndReportKeeps == ASSUME IInv, NEW r \in Request, EndReport(r) PROVE IInv'
<1>1. CallAgrees(r)
  BY DEF IInv
<1>2. TypeOK'
  BY CallAssumption DEF IInv, EndReport, At, posts, TypeOK, store, broker, config, daemon
<1>3. KeysAgree'
  BY KeysKept DEF IInv, EndReport, config
<1>4. OnlyCall(r)
  BY DEF IInv, TypeOK, EndReport, At, posts, OnlyCall, store, broker, config, daemon
<1>5. CallAgrees(r)'
  BY <1>1 DEF IInv, TypeOK, EndReport, At, posts, CallAgrees,
     PostsAgree, StoreAgrees, Serves, Started, store, broker, config, daemon
<1>6. QED
  BY <1>2, <1>3, <1>4, <1>5, OneCallMoves

-----------------------------------------------------------------------------
(***************************************************************************)
(* The daemon's handlers.                                                  *)
(***************************************************************************)
\* The steps of the handler of /pre_exec that leave the broker and the log alone.
LEMMA EvaluateKeeps == ASSUME IInv, NEW r \in Request, Evaluate(r) PROVE IInv'
<1>1. CallAgrees(r) /\ TypeOK /\ opaque \subseteq Request
  BY CallAssumption DEF IInv, TypeOK
<1>2. PICK where \in {"holding", "issuing", "denying"} :
        Handler(r, where) /\ (where = "issuing" => r \notin opaque)
  BY DEF Evaluate, Admitted
<1>3. /\ stage' \in [Request -> Capabilities!Stage]
      /\ stage'[r] \in {"new", "refused", "held"}
      /\ \A q \in Request \ {r} : stage'[q] = stage[q]
  <2>1. CASE Capabilities!Refuse(r) \/ Capabilities!Admit(r)
    BY <1>1, <2>1, StoreTyped DEF Capabilities!Refuse, Capabilities!Admit, Capabilities!Stage, TypeOK
  <2>2. CASE UNCHANGED store
    BY <1>1, <2>2 DEF Evaluate, store, TypeOK, CallAgrees, StoreAgrees
  <2>3. QED
    BY <2>1, <2>2 DEF Evaluate
<1>4. TypeOK'
  BY <1>1, <1>2, <1>3 DEF Evaluate, Handler, TypeOK, broker, client, config, daemon
<1>5. KeysAgree'
  BY KeysKept DEF IInv, Evaluate, config
<1>6. OnlyCall(r)
  BY <1>1, <1>2, <1>3 DEF Evaluate, Handler, OnlyCall, TypeOK, broker, client, config, daemon
<1>7. CallAgrees(r)'
  BY <1>1, <1>2, <1>3, CallAssumption DEF Evaluate, Handler, TypeOK, CallAgrees, PostsAgree, StoreAgrees,
     Serves, Started, broker, client, config, daemon
<1>8. QED
  BY <1>4, <1>5, <1>6, <1>7, OneCallMoves

LEMMA IssueKeeps == ASSUME IInv, NEW r \in Request, Issue(r) PROVE IInv'
<1>1. CallAgrees(r) /\ TypeOK /\ opaque \subseteq Request
  BY CallAssumption DEF IInv, TypeOK
<1>2. PICK where \in {"allowing", "denying"} :
        Handler(r, where) /\ (where = "allowing" => Capabilities!Issue(r))
  BY DEF Issue
<1>3. /\ stage' \in [Request -> Capabilities!Stage]
      /\ stage'[r] = "allowed" \/ stage'[r] = stage[r]
      /\ where = "allowing" => stage'[r] = "allowed"
      /\ \A q \in Request \ {r} : stage'[q] = stage[q]
  <2>1. CASE Capabilities!Issue(r)
    BY <1>1, <2>1, StoreTyped DEF Capabilities!Issue, Capabilities!Stage, TypeOK
  <2>2. CASE UNCHANGED store /\ ~Capabilities!Issue(r)
    BY <1>1, <1>2, <2>2 DEF store, TypeOK
  <2>3. QED
    BY <2>1, <2>2 DEF Issue
<1>4. r \notin opaque
  BY <1>1 DEF Issue, TypeOK
<1>5. TypeOK'
  BY <1>1, <1>2, <1>3, <1>4 DEF Issue, Handler, TypeOK, broker, client, config, daemon
<1>6. KeysAgree'
  BY KeysKept DEF IInv, Issue, config
<1>7. OnlyCall(r)
  BY <1>1, <1>2, <1>3 DEF Issue, Handler, OnlyCall, TypeOK, broker, client, config, daemon
<1>8. CallAgrees(r)'
  BY <1>1, <1>2, <1>3, CallAssumption DEF Issue, Handler, TypeOK, CallAgrees, PostsAgree, StoreAgrees,
     Serves, Started, broker, client, config, daemon
<1>9. QED
  BY <1>5, <1>6, <1>7, <1>8, OneCallMoves

\* A handler that is at work runs in a daemon that is up.
LEMMA WorkingIsUp == ASSUME IInv, NEW r \in Request, handler[r] # "none" PROVE up
BY DEF IInv, CallAgrees, PostsAgree

LEMMA DecideKeeps == ASSUME IInv, NEW r \in Request, Decide(r) PROVE IInv'
<1>1. CallAgrees(r) /\ TypeOK
  BY DEF IInv
<1>2. /\ KeysAgree'
      /\ \A w \in audit_log' : w.signed \subseteq Field /\ w.kept \subseteq Field
                               /\ w.key \in 0..MaxStarts
  BY <1>1, LogsKept, RowFacts, WorkingIsUp DEF IInv, Decide
<1>3. TypeOK'
  BY <1>1, <1>2 DEF Decide, Answers, Handler, TypeOK, store, broker, client, config, daemon
<1>4. OnlyCall(r)
  BY <1>1 DEF Decide, Answers, Handler, OnlyCall, TypeOK, store, broker, client, config, daemon
<1>5. CallAgrees(r)'
  BY <1>1, CallAssumption DEF Decide, Answers, Handler, TypeOK, CallAgrees, PostsAgree, StoreAgrees,
     Serves, Started, store, broker, client, config, daemon
<1>6. QED
  BY <1>2, <1>3, <1>4, <1>5, OneCallMoves

LEMMA HoldKeeps == ASSUME IInv, NEW r \in Request, Hold(r) PROVE IInv'
<1>1. CallAgrees(r) /\ TypeOK /\ opaque \subseteq Request
  BY CallAssumption DEF IInv, TypeOK
<1>2. CASE Approvals!Open(r) /\ Logs(DecisionRow) /\ Handler(r, "announcing") /\ UNCHANGED reply
  <2>1. /\ KeysAgree'
        /\ \A w \in audit_log' : w.signed \subseteq Field /\ w.kept \subseteq Field
                                 /\ w.key \in 0..MaxStarts
    BY <1>1, <1>2, LogsKept, RowFacts, WorkingIsUp DEF IInv, Hold
  <2>2. approval' \in [Request -> Approvals!State] /\ granted' = granted
    BY <1>1, <1>2, BrokerTyped DEF TypeOK, Approvals!Open
  <2>3. TypeOK'
    BY <1>1, <1>2, <2>1, <2>2 DEF Hold, Handler, TypeOK, store, client, config, daemon
  <2>4. OnlyCall(r)
    BY <1>1, <1>2, <2>2 DEF Hold, Handler, OnlyCall, TypeOK, store, client, config, daemon
  <2>5. CallAgrees(r)'
    BY <1>1, <1>2, <2>2 DEF Hold, Handler, TypeOK, CallAgrees, PostsAgree, StoreAgrees, Serves,
       Started, store, client, config, daemon
  <2>6. QED
    BY <2>1, <2>3, <2>4, <2>5, OneCallMoves
<1>3. CASE Answers(r, "error") /\ UNCHANGED <<broker, audit_log>>
  <2>1. KeysAgree'
    BY <1>3, KeysKept DEF IInv, Hold, config
  <2>2. TypeOK'
    BY <1>1, <1>3 DEF Hold, Answers, Handler, TypeOK, store, broker, client, config, daemon
  <2>3. OnlyCall(r)
    BY <1>1, <1>3 DEF Hold, Answers, Handler, OnlyCall, TypeOK, store, broker, client, config, daemon
  <2>4. CallAgrees(r)'
    BY <1>1, <1>3, CallAssumption DEF Hold, Answers, Handler, TypeOK, CallAgrees, PostsAgree,
       StoreAgrees, Serves, Started, store, broker, client, config, daemon
  <2>5. QED
    BY <2>1, <2>2, <2>3, <2>4, OneCallMoves
<1>4. QED
  BY <1>2, <1>3 DEF Hold

LEMMA AnnounceKeeps == ASSUME IInv, NEW r \in Request, Announce(r) PROVE IInv'
<1>1. CallAgrees(r) /\ TypeOK /\ opaque \subseteq Request
  BY CallAssumption DEF IInv, TypeOK
<1>2. KeysAgree'
  BY KeysKept DEF IInv, Announce, config
<1>3. TypeOK'
  BY <1>1 DEF Announce, Answers, Handler, TypeOK, store, broker, client, config, daemon
<1>4. OnlyCall(r)
  BY <1>1 DEF Announce, Answers, Handler, OnlyCall, TypeOK, store, broker, client, config, daemon
<1>5. CallAgrees(r)'
  BY <1>1, CallAssumption DEF Announce, Answers, Handler, TypeOK, CallAgrees, PostsAgree,
     StoreAgrees, Serves, Started, store, broker, client, config, daemon
<1>6. QED
  BY <1>2, <1>3, <1>4, <1>5, OneCallMoves

\* An answer of a person, and a sweep, change nothing but the broker's table.
LEMMA BrokerKeeps ==
  ASSUME IInv, approval' \in [Request -> Approvals!State], granted' = granted,
         UNCHANGED <<store, client, posts, config, daemon, audit_log>>
  PROVE  IInv'
<1>1. TypeOK'
  BY DEF IInv, TypeOK, store, client, posts, config, daemon
<1>2. KeysAgree'
  BY KeysKept DEF IInv, config
<1>3. ASSUME NEW r \in Request PROVE CallAgrees(r)'
  BY DEF IInv, CallAgrees, PostsAgree, StoreAgrees, Started, store, client, posts, config, daemon
<1>4. QED
  BY <1>1, <1>2, <1>3 DEF IInv

LEMMA ResponseKeeps ==
  ASSUME IInv, NEW r \in Request, NEW decision \in {"ALLOW", "DENY"}, hitl_response(r, decision)
  PROVE  IInv'
<1>1. Approvals!Answer(r, decision) /\ granted' = granted
  BY DEF hitl_response, Approvals!Answer
<1>2. approval' \in [Request -> Approvals!State]
  BY <1>1, BrokerTyped DEF IInv, TypeOK
<1>3. QED
  BY <1>1, <1>2, BrokerKeeps DEF hitl_response

LEMMA SweepKeeps == ASSUME IInv, Sweep PROVE IInv'
<1>1. approval' \in [Request -> Approvals!State] /\ granted' = granted
  BY DEF IInv, TypeOK, Sweep, Approvals!Close, Approvals!Closed, Approvals!State, Approvals!Pending
<1>2. QED
  BY <1>1, BrokerKeeps DEF Sweep

LEMMA WaitKeeps == ASSUME IInv, NEW r \in Request, hitl_wait(r) PROVE IInv'
<1>1. CallAgrees(r) /\ TypeOK /\ opaque \subseteq Request
  BY CallAssumption DEF IInv, TypeOK
<1>2. approval' \in [Request -> Approvals!State] /\ granted' = granted
  BY <1>1, BrokerTyped DEF hitl_wait, Approvals!Take, TypeOK
<1>3. KeysAgree'
  BY KeysKept DEF IInv, hitl_wait, config
<1>4. \/ Handler(r, "granting") /\ UNCHANGED reply
      \/ \E decision \in {"DENY", "error"} : Answers(r, decision)
  BY DEF hitl_wait
<1>5. TypeOK'
  BY <1>1, <1>2, <1>4 DEF hitl_wait, Answers, Handler, TypeOK, store, client, config, daemon
<1>6. OnlyCall(r)
  BY <1>1, <1>2, <1>4 DEF hitl_wait, Answers, Handler, OnlyCall, TypeOK, store, client, config, daemon
<1>7. CallAgrees(r)'
  BY <1>1, <1>2, <1>4, CallAssumption DEF hitl_wait, Answers, Handler, TypeOK, CallAgrees, PostsAgree,
     StoreAgrees, Serves, Started, store, client, config, daemon
<1>8. QED
  BY <1>3, <1>5, <1>6, <1>7, OneCallMoves

LEMMA GrantKeeps == ASSUME IInv, NEW r \in Request, Grant(r) PROVE IInv'
<1>1. CallAgrees(r) /\ TypeOK /\ opaque \subseteq Request
  BY CallAssumption DEF IInv, TypeOK
<1>2. /\ approval' \in [Request -> Approvals!State]
      /\ granted \subseteq granted' /\ granted' \subseteq granted \cup {r}
  BY <1>1, BrokerTyped DEF Grant, TypeOK
<1>3. PICK decision \in {"ALLOW", "DENY", "error"} :
        /\ Answers(r, decision)
        /\ decision = "ALLOW" => r \in granted' /\ stage'[r] = "allowed"
  BY <1>1, StoreTyped DEF Grant, Capabilities!Issue, Capabilities!Stage, TypeOK
<1>4. /\ stage' \in [Request -> Capabilities!Stage]
      /\ stage'[r] = "allowed" \/ stage'[r] = stage[r]
      /\ \A q \in Request \ {r} : stage'[q] = stage[q]
  BY <1>1, StoreTyped DEF Grant, Capabilities!Issue, Capabilities!Stage, TypeOK, store
<1>5. KeysAgree'
  BY KeysKept DEF IInv, Grant, config
<1>6. TypeOK'
  BY <1>1, <1>2, <1>3, <1>4 DEF Grant, Answers, Handler, TypeOK, client, config, daemon
<1>7. OnlyCall(r)
  BY <1>1, <1>2, <1>3, <1>4 DEF Grant, Answers, Handler, OnlyCall, TypeOK, client, config, daemon
<1>8. CallAgrees(r)'
  BY <1>1, <1>2, <1>3, <1>4, CallAssumption DEF Grant, Answers, Handler, TypeOK, CallAgrees, PostsAgree,
     StoreAgrees, Serves, Started, client, config, daemon
<1>9. QED
  BY <1>5, <1>6, <1>7, <1>8, OneCallMoves

LEMMA PostExecKeeps == ASSUME IInv, NEW r \in Request, post_exec(r) PROVE IInv'
<1>1. CallAgrees(r) /\ TypeOK /\ opaque \subseteq Request
  BY CallAssumption DEF IInv, TypeOK
<1>2. /\ at[r] \in {"reporting", "over"} /\ report[r].id = r /\ up
      /\ handler[r] = "post_exec" /\ Answers(r, "ACK")
      /\ report' = [report EXCEPT ![r] = Nil]
  BY <1>1 DEF post_exec, CallAgrees, PostsAgree, Serves, TypeOK
<1>3. /\ stage' \in [Request -> Capabilities!Stage]
      /\ stage'[r] = "settled" \/ stage'[r] = stage[r]
      /\ \A q \in Request \ {r} : stage'[q] = stage[q]
  BY <1>1, <1>2, StoreTyped DEF post_exec, Capabilities!Settle, Capabilities!Stage, TypeOK, store
<1>4. /\ KeysAgree'
      /\ \A w \in audit_log' : w.signed \subseteq Field /\ w.kept \subseteq Field
                               /\ w.key \in 0..MaxStarts
  <2>1. ASSUME NEW free \in BOOLEAN, Logs(ExecutionRow(r, free))
        PROVE  /\ KeysAgree'
               /\ \A w \in audit_log' : w.signed \subseteq Field /\ w.kept \subseteq Field
                                        /\ w.key \in 0..MaxStarts
    BY <1>1, <1>2, <2>1, LogsKept, RowFacts DEF IInv, post_exec
  <2>2. CASE UNCHANGED audit_log
    BY <1>1, <2>2, KeysKept DEF IInv, TypeOK, post_exec, config
  <2>3. QED
    BY <2>1, <2>2 DEF post_exec
<1>5. TypeOK'
  BY <1>1, <1>2, <1>3, <1>4 DEF post_exec, Answers, Handler, TypeOK, broker, client, config, daemon
<1>6. OnlyCall(r)
  BY <1>1, <1>2, <1>3 DEF post_exec, Answers, Handler, OnlyCall, TypeOK, broker, client, config, daemon
<1>7. CallAgrees(r)'
  BY <1>1, <1>2, <1>3, CallAssumption DEF post_exec, Answers, Handler, TypeOK, CallAgrees, PostsAgree,
     StoreAgrees, Serves, Started, broker, client, config, daemon
<1>8. QED
  BY <1>4, <1>5, <1>6, <1>7, OneCallMoves

-----------------------------------------------------------------------------
(***************************************************************************)
(* Keys that expire, and a daemon that crashes and is started again.       *)
(***************************************************************************)
LEMMA ExpireKeeps == ASSUME IInv, NEW r \in Request, Expire(r) PROVE IInv'
<1>1. CallAgrees(r) /\ TypeOK
  BY DEF IInv
<1>2. /\ stage' \in [Request -> Capabilities!Stage]
      /\ stage'[r] \in {"new", "lapsed"} /\ (stage'[r] = "lapsed" => stage[r] = "allowed")
      /\ \A q \in Request \ {r} : stage'[q] = stage[q]
  BY <1>1 DEF Expire, Capabilities!Expire, Capabilities!After, Capabilities!Stage, TypeOK
<1>3. TypeOK'
  BY <1>1, <1>2 DEF Expire, TypeOK, broker, client, posts, config, daemon
<1>4. KeysAgree'
  BY KeysKept DEF IInv, Expire, config
<1>5. OnlyCall(r)
  BY <1>2 DEF Expire, OnlyCall, broker, client, posts, config, daemon
<1>6. CallAgrees(r)'
  BY <1>1, <1>2, CallAssumption DEF Expire, Expirable, CallAgrees, PostsAgree, StoreAgrees, Serves,
     Started, broker, client, posts, config, daemon
<1>7. QED
  BY <1>3, <1>4, <1>5, <1>6, OneCallMoves

LEMMA StartKeeps == ASSUME IInv, Start PROVE IInv'
<1>1. MaxStarts \in Nat /\ Production \in BOOLEAN
  BY CallAssumption
<1>2. starts' \in 0..MaxStarts /\ starts + 1 \in 0..MaxStarts
  BY <1>1 DEF IInv, TypeOK, Start
<1>3. key' \in 0..MaxStarts
  BY <1>1, <1>2 DEF Start
<1>4. up' \in BOOLEAN
  BY DEF Start
<1>5. TypeOK'
  BY <1>2, <1>3, <1>4 DEF IInv, TypeOK, Start, store, broker, client, posts, config
<1>6. KeysAgree'
  BY <1>3 DEF IInv, KeysAgree, Start, MayStart, config
<1>7. ASSUME NEW r \in Request PROVE CallAgrees(r)'
  BY DEF IInv, CallAgrees, PostsAgree, StoreAgrees, Started, Start, store, broker, client, posts,
     config
<1>8. QED
  BY <1>5, <1>6, <1>7 DEF IInv

LEMMA CrashKeeps == ASSUME IInv, Crash PROVE IInv'
<1>1. approval' \in [Request -> Approvals!State]
  BY DEF IInv, TypeOK, Crash, Approvals!State, Approvals!Pending
<1>2. /\ handler' \in [Request -> {"none"}] /\ report' \in [Request -> {Nil}]
      /\ up' \in BOOLEAN
  BY DEF Crash
<1>3. \A r \in opaque' : r \in Request
  BY CallAssumption DEF IInv, TypeOK, Crash, config
<1>4. TypeOK'
  BY <1>1, <1>2, <1>3 DEF IInv, TypeOK, Crash, store, client, config
<1>5. KeysAgree'
  BY DEF IInv, KeysAgree, Crash, config
<1>6. ASSUME NEW r \in Request PROVE CallAgrees(r)'
  BY <1>2 DEF IInv, CallAgrees, PostsAgree, StoreAgrees, Serves, Started, Crash, store, client, config
<1>7. QED
  BY <1>4, <1>5, <1>6 DEF IInv

LEMMA StutterKeeps == ASSUME IInv, UNCHANGED vars PROVE IInv'
<1>1. TypeOK'
  BY DEF IInv, TypeOK, vars, store, broker, client, posts, config, daemon
<1>2. KeysAgree'
  BY KeysKept DEF IInv, vars, config
<1>3. ASSUME NEW r \in Request PROVE CallAgrees(r)'
  BY DEF IInv, CallAgrees, PostsAgree, StoreAgrees, Started, vars, store, broker, client, posts,
     config, daemon
<1>4. QED
  BY <1>1, <1>2, <1>3 DEF IInv

LEMMA NextIInv == IInv /\ [Next]_vars => IInv'
<1> SUFFICES ASSUME IInv, [Next]_vars PROVE IInv'
  OBVIOUS
<1>1. CASE Start \/ Crash \/ Sweep \/ UNCHANGED vars
  BY <1>1, StartKeeps, CrashKeeps, SweepKeeps, StutterKeeps
<1>2. ASSUME NEW r \in Request,
             Ask(r) \/ TakeDecision(r) \/ TakeApproval(r) \/ GiveUp(r) \/ ToolEnds(r) \/ EndReport(r)
      PROVE  IInv'
  BY <1>2, AskKeeps, TakeDecisionKeeps, TakeApprovalKeeps, GiveUpKeeps, ToolEndsKeeps, EndReportKeeps
<1>3. ASSUME NEW r \in Request, Step(r) PROVE IInv'
  BY <1>3, EvaluateKeeps, IssueKeeps, DecideKeeps, HoldKeeps, AnnounceKeeps, WaitKeeps, GrantKeeps,
     PostExecKeeps DEF Step
<1>4. ASSUME NEW r \in Request, Expire(r) \/ \E decision \in {"ALLOW", "DENY"} : hitl_response(r, decision)
      PROVE  IInv'
  BY <1>4, ExpireKeeps, ResponseKeeps
<1>5. QED
  BY <1>1, <1>2, <1>3, <1>4 DEF Next

LEMMA Invariance == Spec => []IInv
<1>1. Init => IInv
  BY InitIInv
<1>2. IInv /\ [Next]_vars => IInv'
  BY NextIInv
<1>3. QED
  BY <1>1, <1>2, PTL DEF Spec

\* A tool runs only on money reserved for it, money is booked only for a tool that
\* has run, and in production every decision on record verifies, whatever is given
\* up, crashes or is started again between any two steps.
THEOREM CallsAgree == Spec => []CallInv
<1>1. IInv => CallInv
  <2> SUFFICES ASSUME IInv PROVE CallInv
    OBVIOUS
  <2>1. RunningIsReserved /\ BookedHasRun
    BY DEF IInv, CallAgrees, RunningIsReserved, BookedHasRun
  <2>2. DecisionsVerifyInProduction
    BY DEF IInv, KeysAgree, DecisionsVerifyInProduction, verify_log_integrity
  <2>3. QED
    BY <2>1, <2>2 DEF IInv, CallInv
<1>2. QED
  BY <1>1, Invariance, PTL

\* No call held for a person runs without that person's answer to that call: not
\* on a late, a lost or another request's one, and not across a crash.
THEOREM HeldNeedsGrant == Spec => []HeldRunsOnlyIfGranted
<1>1. IInv => HeldRunsOnlyIfGranted
  BY CallAssumption DEF IInv, TypeOK, CallAgrees, HeldRunsOnlyIfGranted
<1>2. QED
  BY <1>1, Invariance, PTL

-----------------------------------------------------------------------------
(***************************************************************************)
(* The reference client: what its link carries, and whose it is.           *)
(***************************************************************************)
Part == [part : {"length"}, reply : {None}] \cup [part : {"body"}, reply : Reply]

\* No two of the frames on the way, of n requests sent, are of one request.
Distinct(parts, frame, requests, n) ==
  /\ \A i \in DOMAIN parts : parts[i].reply # None =>
       /\ parts[i].reply.id <= n
       /\ frame # None => parts[i].reply.id # frame.id
       /\ \A j \in DOMAIN parts : parts[j].reply # None /\ i # j => parts[i].reply.id # parts[j].reply.id
       /\ \A k \in DOMAIN requests : parts[i].reply.id # requests[k].id
  /\ frame # None => frame.id <= n /\ \A k \in DOMAIN requests : frame.id # requests[k].id
  /\ \A k \in DOMAIN requests :
       /\ requests[k].id <= n
       /\ \A l \in DOMAIN requests : k # l => requests[k].id # requests[l].id

\* f is of no call that returns a verdict, or of the one under way.
Mine(f, request) ==
  f.kind \in {"pre", "poll"} => request # None /\ request.kind = f.kind /\ request.id = f.id

\* So is every frame on the way.
AllMine(parts, frame, requests, request) ==
  /\ \A i \in DOMAIN parts : parts[i].reply # None => Mine(parts[i].reply, request)
  /\ frame # None => Mine(frame, request)
  /\ \A k \in DOMAIN requests : Mine(requests[k], request)

\* The one caller has had every reply of its calls, but the one under way.
VerdictsAwaited ==
  ~astray => \A c \in Caller : AllMine(stream, arriving, wire, op[c])

\* What holds for any number of callers, and what one caller adds.
WireInv == ClientTypeOK /\ sends \in 0..MaxSends /\ Distinct(stream, arriving, wire, sends)
CallerInv == OwnVerdictUnlessAstray /\ VerdictsAwaited

SingleCaller == \A c, d \in Caller : c = d

-----------------------------------------------------------------------------
(***************************************************************************)
(* Frames on the way, for any streams.                                     *)
(***************************************************************************)
LEMMA MessageIsFrame ==
  /\ None \notin Message /\ None \notin Reply /\ None \notin Task
  /\ \A f \in Message \cup Reply : f.id \in Nat
BY ClientAssumption DEF Message, Reply

\* Elements of what is left, or of what has been appended to.
LEMMA TailElements ==
  ASSUME NEW S, NEW seq \in Seq(S), seq # <<>>
  PROVE  /\ Tail(seq) \in Seq(S) /\ Head(seq) \in S
         /\ 1 \in DOMAIN seq /\ Head(seq) = seq[1]
         /\ \A i \in DOMAIN Tail(seq) : i + 1 \in DOMAIN seq /\ i + 1 # 1 /\ Tail(seq)[i] = seq[i + 1]
<1>1. Len(seq) \in Nat \ {0} /\ DOMAIN seq = 1..Len(seq)
  BY EmptySeq, LenProperties
<1>2. /\ Tail(seq) \in Seq(S) /\ Len(Tail(seq)) = Len(seq) - 1
      /\ \A i \in 1..Len(Tail(seq)) : Tail(seq)[i] = seq[i + 1]
  BY HeadTailProperties
<1>3. Head(seq) \in S /\ Head(seq) = seq[1]
  BY <1>1, HeadTailProperties
<1>4. DOMAIN Tail(seq) = 1..Len(Tail(seq))
  BY <1>2, LenProperties
<1>5. QED
  BY <1>1, <1>2, <1>3, <1>4

LEMMA AppendElements ==
  ASSUME NEW S, NEW seq \in Seq(S), NEW e \in S
  PROVE  /\ Append(seq, e) \in Seq(S)
         /\ \A i \in DOMAIN Append(seq, e) : \/ i \in DOMAIN seq /\ Append(seq, e)[i] = seq[i]
                                             \/ i = Len(seq) + 1 /\ Append(seq, e)[i] = e
         /\ DOMAIN seq = 1..Len(seq) /\ Len(seq) \in Nat
<1>1. Append(seq, e) \in Seq(S) /\ Len(Append(seq, e)) = Len(seq) + 1
  BY AppendProperties
<1>2. /\ \A i \in 1..Len(seq) : Append(seq, e)[i] = seq[i]
      /\ Append(seq, e)[Len(seq) + 1] = e
  BY AppendProperties
<1>3. DOMAIN Append(seq, e) = 1..Len(seq)+1 /\ DOMAIN seq = 1..Len(seq) /\ Len(seq) \in Nat
  BY <1>1, LenProperties
<1>4. QED
  BY <1>1, <1>2, <1>3

LEMMA ReadKeeps ==
  ASSUME NEW parts \in Seq(Part), parts # <<>>, NEW frame, NEW requests, NEW n, NEW request
  PROVE  /\ Distinct(parts, frame, requests, n) => Distinct(Tail(parts), frame, requests, n)
         /\ AllMine(parts, frame, requests, request) => AllMine(Tail(parts), frame, requests, request)
<1>1. \A i \in DOMAIN Tail(parts) : i + 1 \in DOMAIN parts /\ Tail(parts)[i] = parts[i + 1]
  BY TailElements
<1>2. \A i, j \in DOMAIN Tail(parts) : i # j => i + 1 # j + 1
  <2>1. DOMAIN Tail(parts) \subseteq Int
    BY TailElements, LenProperties
  <2>2. QED
    BY <2>1
<1>3. ASSUME Distinct(parts, frame, requests, n) PROVE Distinct(Tail(parts), frame, requests, n)
  <2>1. ASSUME NEW i \in DOMAIN Tail(parts), Tail(parts)[i].reply # None
        PROVE  /\ Tail(parts)[i].reply.id <= n
               /\ frame # None => Tail(parts)[i].reply.id # frame.id
               /\ \A j \in DOMAIN Tail(parts) : Tail(parts)[j].reply # None /\ i # j =>
                    Tail(parts)[i].reply.id # Tail(parts)[j].reply.id
               /\ \A k \in DOMAIN requests : Tail(parts)[i].reply.id # requests[k].id
    BY <1>1, <1>2, <1>3, <2>1 DEF Distinct
  <2>2. QED
    BY <1>3, <2>1 DEF Distinct
<1>4. AllMine(parts, frame, requests, request) => AllMine(Tail(parts), frame, requests, request)
  BY <1>1 DEF AllMine
<1>5. QED
  BY <1>3, <1>4

LEMMA SendKeeps ==
  ASSUME NEW parts \in Seq(Part), NEW frame \in {None} \cup Reply,
         NEW requests \in Seq(Message), NEW n \in 0..MaxSends-1, NEW kind \in Kind,
         Distinct(parts, frame, requests, n)
  PROVE  Distinct(parts, frame, Append(requests, [kind |-> kind, id |-> n + 1]), n + 1)
<1> DEFINE e  == [kind |-> kind, id |-> n + 1]
           qs == Append(requests, e)
<1>1. e \in Message /\ e.id = n + 1 /\ n \in Nat
  BY ClientAssumption DEF Message
<1>2. \A k \in DOMAIN qs : \/ k \in DOMAIN requests /\ qs[k] = requests[k]
                           \/ k = Len(requests) + 1 /\ qs[k] = e
  BY <1>1, AppendElements
<1>3. /\ \A i \in DOMAIN parts : parts[i].reply # None => parts[i].reply.id \in Nat
      /\ frame # None => frame.id \in Nat
      /\ \A k \in DOMAIN requests : requests[k].id \in Nat
  <2>1. \A i \in DOMAIN parts : parts[i] \in Part
    BY LenProperties, ElementOfSeq
  <2>2. \A k \in DOMAIN requests : requests[k] \in Message
    BY LenProperties, ElementOfSeq
  <2>3. QED
    BY <2>1, <2>2 DEF Part, Message, Reply
<1> HIDE DEF e, qs
<1>4. /\ \A i \in DOMAIN parts :
           parts[i].reply # None => parts[i].reply.id <= n + 1 /\ parts[i].reply.id # n + 1
      /\ frame # None => frame.id <= n + 1 /\ frame.id # n + 1
      /\ \A k \in DOMAIN requests : requests[k].id <= n + 1 /\ requests[k].id # n + 1
  BY <1>1, <1>3 DEF Distinct
<1>5. \A i \in DOMAIN parts : parts[i].reply # None =>
        /\ parts[i].reply.id <= n + 1
        /\ frame # None => parts[i].reply.id # frame.id
        /\ \A j \in DOMAIN parts : parts[j].reply # None /\ i # j => parts[i].reply.id # parts[j].reply.id
        /\ \A k \in DOMAIN qs : parts[i].reply.id # qs[k].id
  BY <1>1, <1>2, <1>4, Zenon DEF Distinct
<1>6. frame # None => frame.id <= n + 1 /\ \A k \in DOMAIN qs : frame.id # qs[k].id
  BY <1>1, <1>2, <1>4, Zenon DEF Distinct
<1>7. ASSUME NEW k \in DOMAIN qs
      PROVE  qs[k].id <= n + 1 /\ \A l \in DOMAIN qs : k # l => qs[k].id # qs[l].id
  <2>1. CASE k \in DOMAIN requests /\ qs[k] = requests[k]
    BY <2>1, <1>1, <1>2, <1>4, Zenon DEF Distinct
  <2>2. CASE k = Len(requests) + 1 /\ qs[k] = e
    <3>1. n + 1 <= n + 1
      BY <1>1
    <3>2. QED
      BY <2>2, <3>1, <1>1, <1>2, <1>4, Zenon
  <2>3. QED
    BY <1>2, <2>1, <2>2
<1>8. Distinct(parts, frame, qs, n + 1)
  BY <1>5, <1>6, <1>7 DEF Distinct
<1>9. QED
  BY <1>8 DEF e, qs

\* A frame is sent for the call it is made for, when no other is awaited.
LEMMA SendMine ==
  ASSUME NEW parts, NEW frame, NEW requests \in Seq(Message), NEW n,
         NEW kind \in Kind, NEW before, NEW after, n + 1 \in 1..MaxSends,
         AllMine(parts, frame, requests, before),
         before = None \/ before.kind \notin {"pre", "poll"},
         after = [kind |-> kind, id |-> n + 1] \/ (after = before /\ kind \notin {"pre", "poll"})
  PROVE  AllMine(parts, frame, Append(requests, [kind |-> kind, id |-> n + 1]), after)
<1> DEFINE e  == [kind |-> kind, id |-> n + 1]
           qs == Append(requests, e)
<1>1. e \in Message /\ e.kind = kind /\ e.id = n + 1
  BY DEF Message
<1>2. \A k \in DOMAIN qs : \/ k \in DOMAIN requests /\ qs[k] = requests[k]
                           \/ qs[k] = e
  BY <1>1, AppendElements
<1>3. e # None
  BY <1>1, MessageIsFrame
<1>4. Mine(e, after)
  BY <1>1, <1>3 DEF Mine
<1>5. \A f : Mine(f, before) => f.kind \notin {"pre", "poll"}
  BY DEF Mine
<1>6. \A f : f.kind \notin {"pre", "poll"} => Mine(f, after)
  BY DEF Mine
<1> HIDE DEF e, qs
<1>7. AllMine(parts, frame, qs, after)
  BY <1>2, <1>4, <1>5, <1>6 DEF AllMine
<1>8. QED
  BY <1>7 DEF e, qs

-----------------------------------------------------------------------------
(***************************************************************************)
(* WireInv, for any number of callers.                                     *)
(***************************************************************************)
LEMMA EndsType ==
  ASSUME ClientTypeOK, NEW t \in Task, Ends(t)
  PROVE  /\ op' \in [Task -> {None} \cup Message] /\ waiter' \in {None} \cup Task
         /\ waiter' # None => op'[waiter'] # None
         /\ draining' \subseteq Task /\ \A u \in draining' : op'[u] # None
BY DEF ClientTypeOK, Ends

LEMMA SendType ==
  ASSUME ClientTypeOK, sends \in 0..MaxSends, NEW t \in Task, NEW kind \in Kind,
         NEW queue \in Seq(Message), send_message(t, kind, queue), waiter' \in {waiter, None}
  PROVE  /\ wire' \in Seq(Message) /\ op' \in [Task -> {None} \cup Message]
         /\ want' \in [Task -> {"length", "body"}] /\ waiter' \in {None} \cup Task
         /\ waiter' # None => op'[waiter'] # None
         /\ sends \in 0..MaxSends-1 /\ sends' = sends + 1 /\ sends' \in 0..MaxSends
         /\ draining' \subseteq Task /\ \A u \in draining' : op'[u] # None
<1> DEFINE e == [kind |-> kind, id |-> sends + 1]
<1>1. sends \in 0..MaxSends-1 /\ sends' = sends + 1 /\ sends' \in 0..MaxSends
  BY ClientAssumption DEF send_message
<1>2. e \in Message /\ e # None
  BY ClientAssumption, <1>1, MessageIsFrame DEF Message
<1>3. wire' \in Seq(Message)
  BY <1>2, AppendProperties DEF send_message
<1>4. op' = [op EXCEPT ![t] = e] /\ want' = [want EXCEPT ![t] = "length"]
  BY DEF send_message
<1> HIDE DEF e
<1>5. op' \in [Task -> {None} \cup Message] /\ want' \in [Task -> {"length", "body"}]
  BY <1>2, <1>4 DEF ClientTypeOK
<1>6. waiter' \in {None} \cup Task /\ (waiter' # None => op'[waiter'] # None)
  BY <1>2, <1>4 DEF ClientTypeOK
<1>7. draining' \subseteq draining \cup {t}
  BY DEF send_message
<1>8. draining' \subseteq Task /\ (\A u \in draining' : op'[u] # None)
  BY <1>2, <1>4, <1>7 DEF ClientTypeOK
<1>9. QED
  BY <1>1, <1>3, <1>5, <1>6, <1>8

\* Steps that leave the stream alone.
LEMMA QuietWire ==
  ASSUME WireInv,
         \/ \E t \in Task : Block(t) \/ Refused(t) \/ Timeout(t) \/ Eof(t) \/ DrainFails(t)
         \/ \E c \in Caller : Drop(c)
         \/ Drained \/ Break \/ disconnect \/ UNCHANGED clientVars
  PROVE  WireInv'
<1> USE DEF WireInv
<1>1. ASSUME NEW t \in Task, Block(t) PROVE WireInv'
  BY <1>1 DEF ClientTypeOK, Block, Reading, streamVars
<1>2. ASSUME NEW t \in Task, Refused(t) \/ Timeout(t) \/ Eof(t) PROVE WireInv'
  <2>1. ReadFails(t)
    BY <1>2 DEF Refused, Timeout, Eof
  <2>2. Ends(t)
    BY <2>1 DEF ReadFails
  <2>3. QED
    BY <2>1, <2>2, EndsType DEF ClientTypeOK, ReadFails
<1>3. ASSUME NEW c \in Caller, Drop(c) PROVE WireInv'
  BY <1>3 DEF ClientTypeOK, Drop, streamVars
<1>4. CASE Break
  BY <1>4 DEF ClientTypeOK, Break, streamVars
<1>5. CASE disconnect
  <2>1. Ends(Beat) /\ Beat \in Task
    BY <1>5 DEF disconnect, Task
  <2>2. QED
    BY <1>5, <2>1, EndsType DEF ClientTypeOK, disconnect, streamVars
<1>6. ASSUME NEW t \in Task, DrainFails(t) PROVE WireInv'
  <2>1. Ends(t)
    BY <1>6 DEF DrainFails
  <2>2. QED
    BY <1>6, <2>1, EndsType DEF ClientTypeOK, DrainFails, streamVars
<1>7. CASE Drained
  BY <1>7 DEF ClientTypeOK, Drained, streamVars
<1>8. CASE UNCHANGED clientVars
  BY <1>8 DEF ClientTypeOK, clientVars, streamVars
<1>9. QED
  BY <1>1, <1>2, <1>3, <1>4, <1>5, <1>6, <1>7, <1>8

LEMMA SendWire ==
  ASSUME WireInv,
         \/ \E c \in Caller : pre_exec_check(c) \/ Execute(c) \/ poll_hitl_decision(c)
         \/ send_heartbeat
  PROVE  WireInv'
<1> USE DEF WireInv
<1>1. PICK t \in Task, kind \in Kind : send_message(t, kind, wire)
  BY DEF pre_exec_check, Execute, poll_hitl_decision, send_heartbeat, Task, Kind
<1>2. /\ UNCHANGED <<link, connected, stream, arriving, aligned, waiter>>
      /\ verdict' = verdict \/ \E c \in Caller : verdict' = [verdict EXCEPT ![c] = None]
  BY DEF pre_exec_check, Execute, poll_hitl_decision, send_heartbeat
<1>3. wire \in Seq(Message)
  BY DEF ClientTypeOK
<1>4. /\ wire' \in Seq(Message) /\ op' \in [Task -> {None} \cup Message]
      /\ want' \in [Task -> {"length", "body"}] /\ waiter' \in {None} \cup Task
      /\ waiter' # None => op'[waiter'] # None
      /\ sends \in 0..MaxSends-1 /\ sends' = sends + 1 /\ sends' \in 0..MaxSends
      /\ draining' \subseteq Task /\ \A u \in draining' : op'[u] # None
  BY <1>1, <1>2, <1>3, SendType
<1>5. Distinct(stream, arriving, Append(wire, [kind |-> kind, id |-> sends + 1]), sends + 1)
  BY <1>3, <1>4, SendKeeps DEF ClientTypeOK, Part
<1>6. Distinct(stream, arriving, wire, sends)'
  BY <1>1, <1>2, <1>4, <1>5 DEF send_message
<1>7. ClientTypeOK'
  BY <1>2, <1>4 DEF ClientTypeOK
<1>8. QED
  BY <1>4, <1>6, <1>7

LEMMA ConnectWire ==
  ASSUME WireInv, NEW c \in Caller, connect(c)
  PROVE  WireInv'
<1> USE DEF WireInv
<1>1. send_message(c, "hello", <<>>) /\ c \in Task /\ "hello" \in Kind
  BY DEF connect, Task, Kind
<1>2. /\ link' = "open" /\ stream' = <<>> /\ arriving' = None /\ aligned' = TRUE
      /\ waiter' = None /\ verdict' = [d \in Caller |-> None] /\ connected' = connected
  BY DEF connect
<1>3. <<>> \in Seq(Message) /\ <<>> \in Seq(Part)
  OBVIOUS
<1>4. /\ wire' \in Seq(Message) /\ op' \in [Task -> {None} \cup Message]
      /\ want' \in [Task -> {"length", "body"}] /\ waiter' \in {None} \cup Task
      /\ waiter' # None => op'[waiter'] # None
      /\ sends \in 0..MaxSends-1 /\ sends' = sends + 1 /\ sends' \in 0..MaxSends
      /\ draining' \subseteq Task /\ \A u \in draining' : op'[u] # None
  BY <1>1, <1>2, <1>3, SendType
<1>5. Distinct(<<>>, None, <<>>, sends)
  BY DEF Distinct
<1>6. Distinct(<<>>, None, Append(<<>>, [kind |-> "hello", id |-> sends + 1]), sends + 1)
  BY <1>1, <1>3, <1>4, <1>5, SendKeeps
<1>7. Distinct(stream, arriving, wire, sends)'
  BY <1>1, <1>2, <1>4, <1>6 DEF send_message
<1>8. ClientTypeOK'
  BY <1>2, <1>3, <1>4 DEF ClientTypeOK, Part
<1>9. QED
  BY <1>4, <1>7, <1>8

\* The reply a task gets is the body at the head of the stream.
LEMMA BodyIsHead ==
  ASSUME ClientTypeOK, NEW t \in Task, Body(t) # None
  PROVE  /\ op[t] \in Message /\ stream \in Seq(Part) /\ stream # <<>>
         /\ Tail(stream) \in Seq(Part)
         /\ 1 \in DOMAIN stream /\ Body(t) = stream[1].reply /\ Body(t) \in Reply
<1>1. op[t] \in Message /\ stream \in Seq(Part) /\ stream # <<>> /\ Body(t) = Head(stream).reply
  BY DEF Body, Reading, ClientTypeOK, Part
<1>2. Tail(stream) \in Seq(Part) /\ Head(stream) \in Part /\ Head(stream) = stream[1] /\ 1 \in DOMAIN stream
  BY <1>1, TailElements
<1>3. QED
  BY <1>1, <1>2 DEF Part

LEMMA TakeLengthWire ==
  ASSUME WireInv, NEW t \in Task, TakeLength(t)
  PROVE  WireInv'
<1> USE DEF WireInv
<1>1. stream \in Seq(Part) /\ stream # <<>> /\ stream' = Tail(stream)
  BY DEF TakeLength, ClientTypeOK, Part
<1>2. Tail(stream) \in Seq(Part)
  BY <1>1, TailElements
<1>3. Distinct(Tail(stream), arriving, wire, sends)
  BY <1>1, ReadKeeps
<1>4. UNCHANGED <<link, connected, wire, arriving, waiter, op, draining, verdict, sends>>
      /\ aligned' \in BOOLEAN
  BY DEF TakeLength
<1>5. want' \in [Task -> {"length", "body"}]
  BY DEF TakeLength, ClientTypeOK
<1>6. ClientTypeOK'
  BY <1>1, <1>2, <1>4, <1>5 DEF ClientTypeOK, Part
<1>7. QED
  BY <1>1, <1>3, <1>4, <1>6

LEMMA TookWire ==
  ASSUME WireInv, NEW t \in Task, Body(t) # None, Took(t), Ends(t),
         UNCHANGED <<link, want, sends>>, connected' \in BOOLEAN,
         verdict' \in [Caller -> {None} \cup
           [asked : 1..MaxSends, got : 1..MaxSends, answer : {"ALLOW", "DENY", "HITL"}]]
  PROVE  WireInv'
<1> USE DEF WireInv
<1>1. stream \in Seq(Part) /\ stream # <<>> /\ Tail(stream) \in Seq(Part)
  BY BodyIsHead
<1>2. stream' = Tail(stream) /\ UNCHANGED <<wire, arriving, aligned>>
  BY DEF Took
<1>3. Distinct(Tail(stream), arriving, wire, sends)
  BY <1>1, ReadKeeps
<1>4. /\ op' \in [Task -> {None} \cup Message] /\ waiter' \in {None} \cup Task
      /\ waiter' # None => op'[waiter'] # None
      /\ draining' \subseteq Task /\ \A u \in draining' : op'[u] # None
  BY EndsType
<1>5. ClientTypeOK'
  BY <1>1, <1>2, <1>4 DEF ClientTypeOK, Part
<1>6. QED
  BY <1>2, <1>3, <1>5

LEMMA TakeWire ==
  ASSUME WireInv,
         \/ \E t \in Task : TakeAck(t)
         \/ \E c \in Caller : TakeVerdict(c) \/ TakeRegistered(c) \/ TakeRefusal(c)
  PROVE  WireInv'
<1> USE DEF WireInv
<1>1. verdict \in [Caller -> {None} \cup
           [asked : 1..MaxSends, got : 1..MaxSends, answer : {"ALLOW", "DENY", "HITL"}]]
      /\ connected \in BOOLEAN /\ Caller \subseteq Task
  BY DEF ClientTypeOK, Task
<1>2. ASSUME NEW t \in Task, TakeAck(t) PROVE WireInv'
  BY <1>1, <1>2, TookWire DEF TakeAck
<1>3. ASSUME NEW c \in Caller, TakeRegistered(c) PROVE WireInv'
  BY <1>1, <1>3, TookWire DEF TakeRegistered
<1>4. ASSUME NEW c \in Caller, TakeRefusal(c) PROVE WireInv'
  BY <1>1, <1>4, TookWire DEF TakeRefusal
<1>5. ASSUME NEW c \in Caller, TakeVerdict(c) PROVE WireInv'
  <2>1. Body(c) # None /\ Took(c) /\ Ends(c) /\ UNCHANGED <<link, connected, want, sends>>
    BY <1>5 DEF TakeVerdict
  <2>2. op[c] \in Message /\ Body(c) \in Reply
    BY <1>1, <2>1, BodyIsHead
  <2>3. Body(c).answer # "ERROR" =>
          [asked |-> op[c].id, got |-> Body(c).id, answer |-> Body(c).answer]
            \in [asked : 1..MaxSends, got : 1..MaxSends, answer : {"ALLOW", "DENY", "HITL"}]
    BY <2>2 DEF Message, Reply
  <2>4. PICK v : /\ verdict' = [verdict EXCEPT ![c] = v]
                 /\ v = None \/ v \in [asked : 1..MaxSends, got : 1..MaxSends,
                                       answer : {"ALLOW", "DENY", "HITL"}]
    BY <1>5, <2>3 DEF TakeVerdict
  <2>5. QED
    BY <1>1, <2>1, <2>4, TookWire
<1>6. QED
  BY <1>2, <1>3, <1>4, <1>5

LEMMA TakeHelloWire ==
  ASSUME WireInv, NEW c \in Caller, TakeHello(c)
  PROVE  WireInv'
<1> USE DEF WireInv
<1>1. c \in Task /\ Body(c) # None /\ "register" \in Kind
  BY DEF TakeHello, Task, Kind
<1>2. stream \in Seq(Part) /\ stream # <<>> /\ Tail(stream) \in Seq(Part)
  BY <1>1, BodyIsHead
<1>3. /\ send_message(c, "register", wire) /\ stream' = Tail(stream)
      /\ UNCHANGED <<link, connected, arriving, aligned, waiter, verdict>>
  BY DEF TakeHello
<1>4. wire \in Seq(Message)
  BY DEF ClientTypeOK
<1>5. /\ wire' \in Seq(Message) /\ op' \in [Task -> {None} \cup Message]
      /\ want' \in [Task -> {"length", "body"}] /\ waiter' \in {None} \cup Task
      /\ waiter' # None => op'[waiter'] # None
      /\ sends \in 0..MaxSends-1 /\ sends' = sends + 1 /\ sends' \in 0..MaxSends
      /\ draining' \subseteq Task /\ \A u \in draining' : op'[u] # None
  BY <1>1, <1>3, <1>4, SendType
<1>6. Distinct(Tail(stream), arriving, wire, sends)
  BY <1>2, ReadKeeps
<1>7. Distinct(Tail(stream), arriving, Append(wire, [kind |-> "register", id |-> sends + 1]), sends + 1)
  BY <1>1, <1>2, <1>4, <1>5, <1>6, SendKeeps DEF ClientTypeOK
<1>8. Distinct(stream, arriving, wire, sends)'
  BY <1>3, <1>5, <1>7 DEF send_message
<1>9. ClientTypeOK'
  BY <1>2, <1>3, <1>5 DEF ClientTypeOK, Part
<1>10. QED
  BY <1>5, <1>8, <1>9

\* A frame is the answer to the first of the requests, if it is one.
RepliesTo(frame, requests) ==
  frame = None \/ (frame.kind = requests[1].kind /\ frame.id = requests[1].id)

\* What arrives as a part: a length, with the frame still to come, or the body.
Brings(part, frame, rest) ==
  (part.reply = None /\ rest = frame) \/ (part.reply = frame /\ rest = None)

\* A step of the daemon: it answers or drops a request, or a part arrives.
Moves(frame, part, rest) ==
  /\ \/ wire # <<>> /\ arriving = None /\ wire' = Tail(wire) /\ RepliesTo(frame, wire)
     \/ wire' = wire /\ frame = arriving
  /\ \/ stream' = Append(stream, part) /\ Brings(part, frame, rest)
     \/ stream' = stream /\ rest = frame
  /\ arriving' = rest

\* The daemon moves the oldest request of the wire to the frame that arrives, or
\* drops it.
LEMMA AnswerKeeps ==
  ASSUME NEW parts \in Seq(Part), NEW requests \in Seq(Message), requests # <<>>,
         NEW frame \in {None} \cup Reply, NEW n, NEW request,
         RepliesTo(frame, requests)
  PROVE  /\ Distinct(parts, None, requests, n) => Distinct(parts, frame, Tail(requests), n)
         /\ AllMine(parts, None, requests, request) => AllMine(parts, frame, Tail(requests), request)
<1>1. /\ 1 \in DOMAIN requests
      /\ \A k \in DOMAIN Tail(requests) :
           k + 1 \in DOMAIN requests /\ k + 1 # 1 /\ Tail(requests)[k] = requests[k + 1]
  BY TailElements
<1>2. \A k, l \in DOMAIN Tail(requests) : k # l => k + 1 # l + 1
  <2>1. DOMAIN Tail(requests) \subseteq Int
    BY TailElements, LenProperties
  <2>2. QED
    BY <2>1
<1>3. ASSUME Distinct(parts, None, requests, n) PROVE Distinct(parts, frame, Tail(requests), n)
  <2>1. ASSUME NEW i \in DOMAIN parts, parts[i].reply # None
        PROVE  /\ parts[i].reply.id <= n
               /\ frame # None => parts[i].reply.id # frame.id
               /\ \A j \in DOMAIN parts : parts[j].reply # None /\ i # j => parts[i].reply.id # parts[j].reply.id
               /\ \A k \in DOMAIN Tail(requests) : parts[i].reply.id # Tail(requests)[k].id
    BY <1>1, <1>3, <2>1 DEF Distinct, RepliesTo
  <2>2. frame # None => frame.id <= n /\ \A k \in DOMAIN Tail(requests) : frame.id # Tail(requests)[k].id
    BY <1>1, <1>3 DEF Distinct, RepliesTo
  <2>3. ASSUME NEW k \in DOMAIN Tail(requests)
        PROVE  /\ Tail(requests)[k].id <= n
               /\ \A l \in DOMAIN Tail(requests) : k # l => Tail(requests)[k].id # Tail(requests)[l].id
    BY <1>1, <1>2, <1>3, <2>3 DEF Distinct
  <2>4. QED
    BY <2>1, <2>2, <2>3 DEF Distinct
<1>4. ASSUME AllMine(parts, None, requests, request)
      PROVE  AllMine(parts, frame, Tail(requests), request)
  <2>1. frame # None => Mine(frame, request)
    BY <1>1, <1>4 DEF AllMine, Mine, RepliesTo
  <2>2. QED
    BY <1>1, <1>4, <2>1 DEF AllMine
<1>5. QED
  BY <1>3, <1>4

\* A part without a reply is no frame, and a body that arrives was on the way.
LEMMA PartKeeps ==
  ASSUME NEW parts \in Seq(Part), NEW frame \in {None} \cup Reply,
         NEW requests \in Seq(Message), NEW n, NEW request, NEW part \in Part,
         NEW rest \in {None} \cup Reply,
         Brings(part, frame, rest)
  PROVE  /\ Distinct(parts, frame, requests, n) => Distinct(Append(parts, part), rest, requests, n)
         /\ AllMine(parts, frame, requests, request) => AllMine(Append(parts, part), rest, requests, request)
<1> DEFINE ps == Append(parts, part)
<1>1. /\ \A i \in DOMAIN ps : \/ i \in DOMAIN parts /\ ps[i] = parts[i]
                              \/ i = Len(parts) + 1 /\ ps[i] = part
  BY AppendElements
<1> HIDE DEF ps
<1>2. ASSUME Distinct(parts, frame, requests, n) PROVE Distinct(ps, rest, requests, n)
  <2>1. ASSUME NEW i \in DOMAIN ps, ps[i].reply # None
        PROVE  /\ ps[i].reply.id <= n
               /\ rest # None => ps[i].reply.id # rest.id
               /\ \A j \in DOMAIN ps : ps[j].reply # None /\ i # j => ps[i].reply.id # ps[j].reply.id
               /\ \A k \in DOMAIN requests : ps[i].reply.id # requests[k].id
    <3>1. CASE i \in DOMAIN parts /\ ps[i] = parts[i]
      <4>1. /\ ps[i].reply.id <= n
            /\ frame # None => ps[i].reply.id # frame.id
            /\ \A j \in DOMAIN parts : parts[j].reply # None /\ i # j => ps[i].reply.id # parts[j].reply.id
            /\ \A k \in DOMAIN requests : ps[i].reply.id # requests[k].id
        BY <1>2, <2>1, <3>1 DEF Distinct
      <4>2. QED
        BY <1>1, <2>1, <4>1 DEF Brings
    <3>2. CASE i = Len(parts) + 1 /\ ps[i] = part
      <4>1. frame # None /\ rest = None /\ part.reply = frame
        BY <2>1, <3>2 DEF Brings
      <4>2. /\ frame.id <= n
            /\ \A k \in DOMAIN requests : frame.id # requests[k].id
            /\ \A j \in DOMAIN parts : parts[j].reply # None => frame.id # parts[j].reply.id
        BY <1>2, <4>1 DEF Distinct
      <4>3. \A j \in DOMAIN ps : ps[j].reply # None /\ i # j => frame.id # ps[j].reply.id
        BY <1>1, <3>2, <4>2
      <4>4. QED
        BY <3>2, <4>1, <4>2, <4>3
    <3>3. QED
      BY <1>1, <3>1, <3>2
  <2>2. /\ rest # None => rest.id <= n /\ \A k \in DOMAIN requests : rest.id # requests[k].id
        /\ \A k \in DOMAIN requests :
             /\ requests[k].id <= n
             /\ \A l \in DOMAIN requests : k # l => requests[k].id # requests[l].id
    BY <1>2 DEF Distinct, Brings
  <2>3. QED
    BY <2>1, <2>2 DEF Distinct
<1>3. AllMine(parts, frame, requests, request) => AllMine(ps, rest, requests, request)
  BY <1>1 DEF AllMine, Brings
<1>4. QED
  BY <1>2, <1>3 DEF ps

\* The daemon's steps, as the two lemmas above see them.
LEMMA DaemonMoves ==
  ASSUME ClientTypeOK, Answer \/ Arrive
  PROVE  /\ \E frame, rest \in {None} \cup Reply, part \in Part : Moves(frame, part, rest)
         /\ waiter' \in {waiter, None}
         /\ UNCHANGED <<link, connected, aligned, op, want, draining, verdict, sends, beats, astray>>
<1>1. CASE Answer
  <2>1. wire # <<>> /\ arriving = None /\ wire' = Tail(wire)
    BY <1>1 DEF Answer
  <2>2. wire \in Seq(Message) /\ Head(wire) = wire[1] /\ Head(wire) \in Message
    BY <2>1, TailElements DEF ClientTypeOK
  <2>3. CASE UNCHANGED <<arriving, stream, waiter>>
    <3>1. [part |-> "length", reply |-> None] \in Part
      BY DEF Part
    <3>2. QED
      BY <1>1, <2>1, <2>3, <3>1 DEF Answer, Moves, RepliesTo, Brings
  <2>4. ASSUME NEW answer \in {"ALLOW", "DENY", "HITL", "ERROR"},
               arriving' = [kind |-> Head(wire).kind, id |-> Head(wire).id, answer |-> answer],
               stream' = Append(stream, [part |-> "length", reply |-> None]), waiter' = None
        PROVE  /\ arriving' \in Reply
               /\ arriving'.kind = wire[1].kind /\ arriving'.id = wire[1].id
    BY <2>2, <2>4 DEF Message, Reply
  <2>5. CASE ~UNCHANGED <<arriving, stream, waiter>>
    <3>1. /\ stream' = Append(stream, [part |-> "length", reply |-> None]) /\ waiter' = None
          /\ arriving' \in Reply
          /\ arriving'.kind = wire[1].kind /\ arriving'.id = wire[1].id
      BY <1>1, <2>4, <2>5 DEF Answer
    <3>2. [part |-> "length", reply |-> None] \in Part /\ [part |-> "length", reply |-> None].reply = None
      BY DEF Part
    <3>3. QED
      BY <1>1, <2>1, <3>1, <3>2 DEF Answer, Moves, RepliesTo, Brings
  <2>6. QED
    BY <2>3, <2>5
<1>2. CASE Arrive
  <2>1. arriving \in Reply /\ stream' = Append(stream, [part |-> "body", reply |-> arriving])
        /\ arriving' = None /\ waiter' = None
    BY <1>2 DEF Arrive, ClientTypeOK
  <2>2. [part |-> "body", reply |-> arriving] \in Part
        /\ [part |-> "body", reply |-> arriving].reply = arriving
    BY <2>1 DEF Part
  <2>3. QED
    BY <1>2, <2>1, <2>2 DEF Arrive, Moves, Brings
<1>3. QED
  BY <1>1, <1>2

LEMMA DaemonKeeps ==
  ASSUME WireInv, Answer \/ Arrive
  PROVE  /\ WireInv'
         /\ \A request : AllMine(stream, arriving, wire, request) => AllMine(stream', arriving', wire', request)
<1> USE DEF WireInv
<1>1. PICK frame, rest \in {None} \cup Reply, part \in Part : Moves(frame, part, rest)
  BY DaemonMoves
<1>2. /\ waiter' \in {waiter, None}
      /\ UNCHANGED <<link, connected, aligned, op, want, draining, verdict, sends>>
  BY DaemonMoves
<1>3. stream \in Seq(Part) /\ wire \in Seq(Message) /\ arriving \in {None} \cup Reply
  BY DEF ClientTypeOK, Part
<1>4. wire' \in Seq(Message)
  BY <1>1, <1>3, TailElements DEF Moves
<1>5. Append(stream, part) \in Seq(Part) /\ stream' \in Seq(Part)
  <2>1. Append(stream, part) \in Seq(Part)
    BY <1>3, AppendElements
  <2>2. QED
    BY <1>1, <1>3, <2>1 DEF Moves
<1>6. ClientTypeOK'
  <2>1. arriving' \in {None} \cup Reply
    BY <1>1 DEF Moves
  <2>2. /\ link' \in {"closed", "open", "broken"} /\ connected' \in BOOLEAN /\ aligned' \in BOOLEAN
        /\ op' \in [Task -> {None} \cup Message]
        /\ want' \in [Task -> {"length", "body"}]
        /\ verdict' \in [Caller -> {None} \cup
             [asked : 1..MaxSends, got : 1..MaxSends, answer : {"ALLOW", "DENY", "HITL"}]]
    BY <1>2 DEF ClientTypeOK
  <2>3. /\ waiter' \in {None} \cup Task /\ (waiter' # None => op'[waiter'] # None)
        /\ draining' \subseteq Task /\ \A u \in draining' : op'[u] # None
    BY <1>2 DEF ClientTypeOK
  <2> HIDE DEF WireInv
  <2>4. QED
    BY <1>4, <1>5, <2>1, <2>2, <2>3 DEF ClientTypeOK, Part
<1>7. /\ Distinct(stream, frame, wire', sends)
      /\ \A request : AllMine(stream, arriving, wire, request) => AllMine(stream, frame, wire', request)
  <2>1. CASE wire # <<>> /\ arriving = None /\ wire' = Tail(wire) /\ RepliesTo(frame, wire)
    <3>1. Distinct(stream, None, wire, sends)
      BY <2>1
    <3>2. /\ Distinct(stream, frame, Tail(wire), sends)
          /\ \A request : AllMine(stream, None, wire, request) => AllMine(stream, frame, Tail(wire), request)
      BY <1>1, <1>3, <2>1, <3>1, AnswerKeeps
    <3>3. QED
      BY <2>1, <3>2
  <2>2. CASE wire' = wire /\ frame = arriving
    BY <2>2
  <2>3. QED
    BY <1>1, <2>1, <2>2 DEF Moves
<1>8. /\ Distinct(stream', rest, wire', sends)
      /\ \A request : AllMine(stream, frame, wire', request) => AllMine(stream', rest, wire', request)
  <2>1. CASE stream' = stream /\ rest = frame
    BY <1>7, <2>1
  <2>2. CASE stream' = Append(stream, part) /\ Brings(part, frame, rest)
    <3>1. /\ Distinct(stream, frame, wire', sends) => Distinct(Append(stream, part), rest, wire', sends)
          /\ \A request : AllMine(stream, frame, wire', request) =>
                          AllMine(Append(stream, part), rest, wire', request)
      BY <1>3, <1>4, <2>2, PartKeeps
    <3>2. QED
      BY <1>7, <2>2, <3>1
  <2>3. QED
    BY <1>1, <2>1, <2>2 DEF Moves
<1>9. Distinct(stream, arriving, wire, sends)'
  BY <1>1, <1>2, <1>8 DEF Moves
<1>10. \A request : AllMine(stream, arriving, wire, request) => AllMine(stream', arriving', wire', request)
  BY <1>1, <1>7, <1>8 DEF Moves
<1>11. sends' \in 0..MaxSends
  BY <1>2
<1>12. QED
  BY <1>6, <1>9, <1>10, <1>11

LEMMA NextWire ==
  ASSUME WireInv, [ClientNext]_clientVars
  PROVE  WireInv'
BY QuietWire, SendWire, ConnectWire, TakeLengthWire, TakeWire, TakeHelloWire, DaemonKeeps
   DEF ClientNext, Reads, Receives

-----------------------------------------------------------------------------
(***************************************************************************)
(* CallerInv, for one caller.                                              *)
(***************************************************************************)
\* Steps that take no reply and make no call, or end one without its reply.
LEMMA QuietCaller ==
  ASSUME WireInv, CallerInv,
         \/ \E t \in Task : Block(t) \/ Refused(t) \/ Timeout(t) \/ Eof(t) \/ TakeLength(t)
         \/ \E t \in Task : DrainFails(t)
         \/ \E c \in Caller : Drop(c)
         \/ Answer \/ Arrive \/ Drained \/ Break \/ disconnect \/ UNCHANGED clientVars
  PROVE  CallerInv'
<1>1. CASE \E t \in Task : Refused(t) \/ Timeout(t) \/ Eof(t)
  BY <1>1 DEF Refused, Timeout, Eof, ReadFails, CallerInv, OwnVerdictUnlessAstray,
    VerdictsAwaited
<1>2. CASE \E t \in Task : Block(t)
  BY <1>2 DEF Block, streamVars, CallerInv, OwnVerdictUnlessAstray, VerdictsAwaited
<1>3. ASSUME NEW t \in Task, TakeLength(t) PROVE CallerInv'
  <2>1. stream \in Seq(Part) /\ stream # <<>> /\ stream' = Tail(stream)
        /\ UNCHANGED <<wire, arriving, op, verdict, astray>>
    BY <1>3 DEF TakeLength, WireInv, ClientTypeOK, Part
  <2>2. \A c \in Caller : AllMine(stream, arriving, wire, op[c]) =>
                          AllMine(Tail(stream), arriving, wire, op[c])
    BY <2>1, ReadKeeps
  <2>3. QED
    BY <2>1, <2>2 DEF CallerInv, OwnVerdictUnlessAstray, VerdictsAwaited
<1>4. CASE \E c \in Caller : Drop(c)
  BY <1>4 DEF Drop, streamVars, WireInv, ClientTypeOK, CallerInv, OwnVerdictUnlessAstray,
    VerdictsAwaited
<1>5. CASE Answer \/ Arrive
  <2>1. UNCHANGED <<op, verdict, astray>>
    BY <1>5, DaemonMoves DEF WireInv
  <2>2. \A c \in Caller : AllMine(stream, arriving, wire, op[c]) =>
                          AllMine(stream', arriving', wire', op[c])
    BY <1>5, DaemonKeeps
  <2>3. QED
    BY <2>1, <2>2 DEF CallerInv, OwnVerdictUnlessAstray, VerdictsAwaited
<1>6. CASE Break
  BY <1>6 DEF Break, streamVars, CallerInv, OwnVerdictUnlessAstray, VerdictsAwaited
<1>7. CASE disconnect
  <2>1. \A c \in Caller : op'[c] = op[c]
    BY ClientAssumption, <1>7 DEF disconnect, Ends, WireInv, ClientTypeOK, Task
  <2>2. QED
    BY <1>7, <2>1 DEF disconnect, streamVars, CallerInv, OwnVerdictUnlessAstray,
      VerdictsAwaited
<1>8. CASE UNCHANGED clientVars
  BY <1>8 DEF clientVars, streamVars, CallerInv, OwnVerdictUnlessAstray, VerdictsAwaited
<1>9. CASE \E t \in Task : DrainFails(t)
  BY <1>9 DEF DrainFails, CallerInv, OwnVerdictUnlessAstray, VerdictsAwaited
<1>10. CASE Drained
  BY <1>10 DEF Drained, streamVars, CallerInv, OwnVerdictUnlessAstray, VerdictsAwaited
<1>11. QED
  BY <1>1, <1>2, <1>3, <1>4, <1>5, <1>6, <1>7, <1>8, <1>9, <1>10

\* A caller calls when none of its replies is on the way.
LEMMA CallCaller ==
  ASSUME SingleCaller, WireInv, CallerInv, NEW c \in Caller,
         pre_exec_check(c) \/ Execute(c) \/ poll_hitl_decision(c)
  PROVE  CallerInv'
<1>1. PICK kind \in Kind : send_message(c, kind, wire)
  BY DEF pre_exec_check, Execute, poll_hitl_decision, Kind
<1>2. /\ UNCHANGED <<stream, arriving, astray>> /\ op[c] = None
      /\ verdict' = verdict \/ verdict' = [verdict EXCEPT ![c] = None]
  BY DEF pre_exec_check, Execute, poll_hitl_decision
<1>3. c \in Task /\ wire \in Seq(Message) /\ op \in [Task -> {None} \cup Message]
      /\ sends + 1 \in 1..MaxSends
  BY ClientAssumption, <1>1 DEF send_message, WireInv, ClientTypeOK, Task
<1>4. /\ wire' = Append(wire, [kind |-> kind, id |-> sends + 1])
      /\ op'[c] = [kind |-> kind, id |-> sends + 1]
  BY <1>1, <1>3 DEF send_message
<1>5. AllMine(stream, arriving, wire, None) =>
        AllMine(stream, arriving, Append(wire, [kind |-> kind, id |-> sends + 1]),
                [kind |-> kind, id |-> sends + 1])
  BY <1>3, SendMine
<1>6. \A d \in Caller : d = c
  BY DEF SingleCaller
<1>7. VerdictsAwaited'
  BY <1>2, <1>4, <1>5, <1>6 DEF CallerInv, VerdictsAwaited
<1>8. OwnVerdictUnlessAstray'
  BY <1>2 DEF WireInv, ClientTypeOK, CallerInv, OwnVerdictUnlessAstray
<1>9. QED
  BY <1>7, <1>8 DEF CallerInv

LEMMA BeatCaller ==
  ASSUME WireInv, CallerInv, send_heartbeat
  PROVE  CallerInv'
<1>1. send_message(Beat, "beat", wire) /\ UNCHANGED <<stream, arriving, verdict, astray>>
      /\ "beat" \in Kind
  BY DEF send_heartbeat, Kind
<1>2. wire \in Seq(Message) /\ sends + 1 \in 1..MaxSends
  BY ClientAssumption, <1>1 DEF send_message, WireInv, ClientTypeOK
<1>3. /\ wire' = Append(wire, [kind |-> "beat", id |-> sends + 1])
      /\ \A c \in Caller : op'[c] = op[c]
  BY ClientAssumption, <1>1 DEF send_message, WireInv, ClientTypeOK, Task
<1>4. ASSUME NEW c \in Caller, AllMine(stream, arriving, wire, op[c])
      PROVE  AllMine(stream, arriving, wire', op[c])
  <2>1. [kind |-> "beat", id |-> sends + 1] \in Message
    BY <1>1, <1>2 DEF Message
  <2>2. \A k \in DOMAIN wire' : \/ k \in DOMAIN wire /\ wire'[k] = wire[k]
                               \/ wire'[k] = [kind |-> "beat", id |-> sends + 1]
    BY <1>2, <1>3, <2>1, AppendElements
  <2>3. Mine([kind |-> "beat", id |-> sends + 1], op[c])
    BY DEF Mine
  <2>4. QED
    BY <1>4, <2>2, <2>3 DEF AllMine
<1>5. QED
  BY <1>1, <1>3, <1>4 DEF CallerInv, OwnVerdictUnlessAstray, VerdictsAwaited

LEMMA ConnectCaller ==
  ASSUME SingleCaller, WireInv, NEW c \in Caller, connect(c)
  PROVE  CallerInv'
<1>1. send_message(c, "hello", <<>>) /\ c \in Task /\ "hello" \in Kind
  BY DEF connect, Task, Kind
<1>2. stream' = <<>> /\ arriving' = None /\ verdict' = [d \in Caller |-> None]
  BY DEF connect
<1>3. <<>> \in Seq(Message) /\ sends + 1 \in 1..MaxSends
  BY ClientAssumption, <1>1 DEF send_message, WireInv
<1>4. wire' = Append(<<>>, [kind |-> "hello", id |-> sends + 1])
      /\ op'[c] = [kind |-> "hello", id |-> sends + 1]
  BY <1>1 DEF send_message, WireInv, ClientTypeOK
<1>5. AllMine(<<>>, None, <<>>, None)
  BY DEF AllMine
<1>6. AllMine(<<>>, None, wire', op'[c])
  BY <1>1, <1>3, <1>4, <1>5, SendMine
<1>7. VerdictsAwaited'
  BY <1>2, <1>6 DEF VerdictsAwaited, SingleCaller
<1>8. OwnVerdictUnlessAstray'
  BY <1>2 DEF OwnVerdictUnlessAstray
<1>9. QED
  BY <1>7, <1>8 DEF CallerInv

\* A step that takes a reply leaves the others.
LEMMA TookCaller ==
  ASSUME WireInv, CallerInv, NEW t \in Task, Body(t) # None, Took(t), Ends(t)
  PROVE  ~astray => \A c \in Caller :
           /\ AllMine(stream', arriving', wire', op[c])
           /\ t # c => op'[c] = op[c]
           /\ Mine(Body(t), op[c])
           /\ Body(t).kind \in {"pre", "poll"} => AllMine(stream', arriving', wire', None)
<1>1. /\ stream \in Seq(Part) /\ stream # <<>> /\ 1 \in DOMAIN stream
      /\ Body(t) = stream[1].reply /\ Body(t) \in Reply
  BY BodyIsHead DEF WireInv
<1>2. stream' = Tail(stream) /\ UNCHANGED <<wire, arriving>>
  BY DEF Took
<1>3. /\ \A i \in DOMAIN Tail(stream) :
           i + 1 \in DOMAIN stream /\ i + 1 # 1 /\ Tail(stream)[i] = stream[i + 1]
  BY <1>1, TailElements
<1> SUFFICES ASSUME ~astray, NEW c \in Caller
             PROVE  /\ AllMine(stream', arriving', wire', op[c])
                    /\ t # c => op'[c] = op[c]
                    /\ Mine(Body(t), op[c])
                    /\ Body(t).kind \in {"pre", "poll"} => AllMine(stream', arriving', wire', None)
  OBVIOUS
<1>4. AllMine(stream, arriving, wire, op[c])
  BY DEF CallerInv, VerdictsAwaited
<1>5. AllMine(stream', arriving', wire', op[c])
  BY <1>1, <1>2, <1>4, ReadKeeps
<1>6. t # c => op'[c] = op[c]
  BY DEF Ends, WireInv, ClientTypeOK, Task
<1>7. Mine(Body(t), op[c])
  BY <1>1, <1>4 DEF AllMine
<1>8. ASSUME Body(t).kind \in {"pre", "poll"} PROVE AllMine(stream', arriving', wire', None)
  <2>1. op[c].id = Body(t).id
    BY <1>7, <1>8 DEF Mine
  <2>2. /\ \A i \in DOMAIN Tail(stream) : Tail(stream)[i].reply # None => Tail(stream)[i].reply.id # Body(t).id
        /\ arriving # None => arriving.id # Body(t).id
        /\ \A k \in DOMAIN wire : wire[k].id # Body(t).id
    BY <1>1, <1>3 DEF WireInv, Distinct
  <2>3. \A f : Mine(f, op[c]) /\ f.id # op[c].id => Mine(f, None)
    BY DEF Mine
  <2>4. AllMine(Tail(stream), arriving, wire, op[c])
    BY <1>2, <1>5
  <2>5. AllMine(Tail(stream), arriving, wire, None)
    BY <2>1, <2>2, <2>3, <2>4 DEF AllMine
  <2>6. QED
    BY <1>2, <2>5
<1>9. QED
  BY <1>5, <1>6, <1>7, <1>8

\* What is of no call that is awaited is of none that returns a verdict.
LEMMA NotAwaited ==
  ASSUME NEW parts, NEW frame, NEW requests, NEW request,
         request = None \/ request.kind \notin {"pre", "poll"},
         AllMine(parts, frame, requests, request)
  PROVE  AllMine(parts, frame, requests, None)
<1>1. \A f : Mine(f, request) => Mine(f, None)
  BY DEF Mine
<1>2. QED
  BY <1>1 DEF AllMine

LEMMA AckCaller ==
  ASSUME WireInv, CallerInv, NEW t \in Task, TakeAck(t)
  PROVE  CallerInv'
<1>1. /\ Body(t) # None /\ Took(t) /\ Ends(t) /\ UNCHANGED <<verdict, astray>>
      /\ op[t].kind \in {"post", "beat"}
  BY DEF TakeAck
<1>2. ASSUME ~astray, NEW c \in Caller PROVE AllMine(stream', arriving', wire', op'[c])
  <2>1. AllMine(stream', arriving', wire', op[c]) /\ (t # c => op'[c] = op[c])
    BY <1>1, <1>2, TookCaller
  <2>2. CASE t = c
    <3>1. op'[c] = None
      BY <1>1, <2>2 DEF Ends, WireInv, ClientTypeOK
    <3>2. op[c].kind \notin {"pre", "poll"}
      BY <1>1, <2>2
    <3>3. QED
      BY <2>1, <3>1, <3>2, NotAwaited
  <2>3. QED
    BY <2>1, <2>2
<1>3. QED
  BY <1>1, <1>2 DEF CallerInv, OwnVerdictUnlessAstray, VerdictsAwaited

LEMMA ConnectingCaller ==
  ASSUME SingleCaller, WireInv, CallerInv, NEW c \in Caller,
         TakeRegistered(c) \/ TakeRefusal(c)
  PROVE  CallerInv'
<1>1. /\ Body(c) # None /\ Took(c) /\ Ends(c) /\ UNCHANGED <<verdict, astray>>
      /\ op[c].kind \in {"hello", "register"} /\ c \in Task
  BY DEF TakeRegistered, TakeRefusal, Task
<1>2. op'[c] = None
  BY <1>1 DEF Ends, WireInv, ClientTypeOK
<1>3. ~astray => AllMine(stream', arriving', wire', op[c])
  BY <1>1, TookCaller
<1>4. ~astray => AllMine(stream', arriving', wire', None)
  BY <1>1, <1>3, NotAwaited
<1>5. QED
  BY <1>1, <1>2, <1>4 DEF CallerInv, OwnVerdictUnlessAstray, VerdictsAwaited, SingleCaller

LEMMA HelloCaller ==
  ASSUME SingleCaller, WireInv, CallerInv, NEW c \in Caller, TakeHello(c)
  PROVE  CallerInv'
<1>1. /\ Body(c) # None /\ op[c].kind = "hello" /\ stream' = Tail(stream)
      /\ send_message(c, "register", wire) /\ UNCHANGED <<arriving, verdict, astray>>
      /\ c \in Task /\ "register" \in Kind
  BY DEF TakeHello, Task, Kind
<1>2. stream \in Seq(Part) /\ stream # <<>> /\ wire \in Seq(Message) /\ sends + 1 \in 1..MaxSends
  BY ClientAssumption, <1>1, BodyIsHead DEF WireInv, ClientTypeOK, send_message
<1>3. /\ wire' = Append(wire, [kind |-> "register", id |-> sends + 1])
      /\ op'[c] = [kind |-> "register", id |-> sends + 1]
  BY <1>1 DEF send_message, WireInv, ClientTypeOK
<1>4. ASSUME ~astray PROVE AllMine(stream', arriving', wire', op'[c])
  <2>1. AllMine(Tail(stream), arriving, wire, op[c])
    BY <1>2, <1>4, ReadKeeps DEF CallerInv, VerdictsAwaited
  <2>2. AllMine(Tail(stream), arriving, wire, None)
    BY <1>1, <2>1, NotAwaited
  <2>3. AllMine(Tail(stream), arriving, wire', op'[c])
    BY <1>1, <1>2, <1>3, <2>2, SendMine
  <2>4. QED
    BY <1>1, <2>3
<1>5. QED
  BY <1>1, <1>4 DEF CallerInv, OwnVerdictUnlessAstray, VerdictsAwaited, SingleCaller

\* A verdict is the reply to its own request: another of its type is not on the way.
LEMMA VerdictCaller ==
  ASSUME SingleCaller, WireInv, CallerInv, NEW c \in Caller, TakeVerdict(c)
  PROVE  CallerInv'
<1> DEFINE ok == Expected(op[c], Body(c))
           v  == [asked |-> op[c].id, got |-> Body(c).id, answer |-> Body(c).answer]
<1>1. /\ Body(c) # None /\ Took(c) /\ Ends(c) /\ op[c].kind \in {"pre", "poll"} /\ c \in Task
      /\ verdict' = [verdict EXCEPT ![c] = IF ok /\ Body(c).answer # "ERROR" THEN v ELSE None]
      /\ astray' = (astray \/ ~ok)
  BY DEF TakeVerdict, Task
<1>2. \A d \in Caller : d = c
  BY DEF SingleCaller
<1>3. op'[c] = None
  BY <1>1 DEF Ends, WireInv, ClientTypeOK
<1>4. ASSUME ~astray, ok
      PROVE  Body(c).id = op[c].id /\ AllMine(stream', arriving', wire', None)
  <2>1. Body(c).kind \in {"pre", "poll"}
    BY <1>1, <1>4 DEF Expected
  <2>2. Mine(Body(c), op[c]) /\ AllMine(stream', arriving', wire', None)
    BY <1>1, <1>4, <2>1, TookCaller
  <2>3. QED
    BY <2>1, <2>2 DEF Mine
<1>5. VerdictsAwaited'
  BY <1>1, <1>2, <1>3, <1>4 DEF VerdictsAwaited
<1>6. OwnVerdictUnlessAstray'
  <2>1. CASE ~astray'
    <3>1. ~astray /\ ok
      BY <1>1, <2>1
    <3>2. verdict'[c] = v \/ verdict'[c] = None
      BY <1>1 DEF WireInv, ClientTypeOK
    <3>3. v.got = v.asked
      BY <1>4, <3>1
    <3> HIDE DEF v
    <3>4. QED
      BY <1>2, <3>2, <3>3 DEF OwnVerdictUnlessAstray
  <2>2. CASE astray'
    BY <2>2 DEF OwnVerdictUnlessAstray
  <2>3. QED
    BY <2>1, <2>2
<1>7. QED
  BY <1>5, <1>6 DEF CallerInv

LEMMA NextCaller ==
  ASSUME SingleCaller, WireInv, CallerInv, [ClientNext]_clientVars
  PROVE  CallerInv'
BY QuietCaller, CallCaller, BeatCaller, ConnectCaller, AckCaller, ConnectingCaller, HelloCaller,
   VerdictCaller DEF ClientNext, Reads, Receives

-----------------------------------------------------------------------------
LEMMA InitWire ==
  ASSUME ClientInit
  PROVE  WireInv
<1>1. <<>> \in Seq(Message) /\ <<>> \in Seq(Part)
  OBVIOUS
<1>2. ClientTypeOK
  <2>1. /\ link \in {"closed", "open", "broken"} /\ connected \in BOOLEAN
        /\ wire \in Seq(Message) /\ arriving \in {None} \cup Reply /\ aligned \in BOOLEAN
        /\ stream \in Seq(Part) /\ waiter \in {None} \cup Task /\ (waiter # None => op[waiter] # None)
        /\ draining \subseteq Task /\ \A u \in draining : op[u] # None
    BY <1>1 DEF ClientInit
  <2>2. /\ op \in [Task -> {None} \cup Message] /\ want \in [Task -> {"length", "body"}]
        /\ verdict \in [Caller -> {None} \cup
             [asked : 1..MaxSends, got : 1..MaxSends, answer : {"ALLOW", "DENY", "HITL"}]]
    BY DEF ClientInit
  <2>3. QED
    BY <2>1, <2>2 DEF ClientTypeOK, Part
<1>3. Distinct(<<>>, None, <<>>, 0)
  BY DEF Distinct
<1>4. QED
  BY ClientAssumption, <1>2, <1>3 DEF ClientInit, WireInv

\* However many callers share the client, no two frames on the way are of one request
\* and the stream, its readers and their waiter stay well formed (receive_message).
THEOREM StreamTypeCorrect == ClientSpec => []WireInv
<1>1. ClientInit => WireInv
  BY InitWire
<1>2. WireInv /\ [ClientNext]_clientVars => WireInv'
  BY NextWire
<1>3. QED
  BY <1>1, <1>2, PTL DEF ClientSpec

\* With one caller, a verdict is the reply to its own request as long as no call of the
\* connection ended without its reply, although no identifier is compared and the
\* heartbeat reads the same stream (pre_exec_check, poll_hitl_decision).
THEOREM VerdictsAreOwn ==
  ASSUME SingleCaller
  PROVE  ClientSpec => []StreamInv
<1>1. ClientInit => WireInv /\ CallerInv
  <2>1. AllMine(<<>>, None, <<>>, None)
    BY DEF AllMine
  <2>2. QED
    BY <2>1, InitWire DEF ClientInit, CallerInv, OwnVerdictUnlessAstray, VerdictsAwaited, Task
<1>2. WireInv /\ CallerInv /\ [ClientNext]_clientVars => (WireInv /\ CallerInv)'
  BY NextWire, NextCaller
<1>3. WireInv /\ CallerInv => StreamInv
  BY DEF WireInv, CallerInv, StreamInv
<1>4. QED
  BY <1>1, <1>2, <1>3, PTL DEF ClientSpec
=============================================================================
