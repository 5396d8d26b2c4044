---------------------------- MODULE GovernedCall ----------------------------
(***************************************************************************)
(* Calls of tools decorated with @shackled (v2/daemon/client.py), through  *)
(* the daemon's /pre_exec, /hitl_wait and /post_exec (v2/daemon/daemon.py) *)
(* and the audit rows they leave (v2/daemon/audit.py), for one client, one *)
(* session and a daemon that may crash and be started again.               *)
(*                                                                         *)
(* The store and the broker are the abstract modules Capability and        *)
(* Approval, which PolicyStore and HitlBroker implement.  A call is named  *)
(* by the request id the client mints for it.  The client gives up on any  *)
(* POST after 30 s; the daemon's handler of it goes on.                    *)
(***************************************************************************)
EXTENDS Integers

CONSTANTS
  Nil,
  Request,
  Opaque,       \* which calls may be the ones held for a person
  Production,   \* SHACKLE_ENV
  MaxStarts     \* starts of the daemon

ASSUME CallAssumption ==
  /\ Nil \notin Request /\ Nil \notin {"ALLOW", "DENY", "HITL", "error"}
  /\ Nil \notin [id : Request, result : {"object", "none"}, error : BOOLEAN]
  /\ Opaque \subseteq SUBSET Request
  /\ Production \in BOOLEAN /\ MaxStarts \in Nat

VARIABLES
  stage,              \* of Capability: what the store knows of a request
  approval, granted,  \* of Approval: what the broker knows of it
  opaque,     \* the calls whose parameters are held for a person
  at,         \* where the wrapper of each call is
  handler,    \* where the daemon's handler of the call's latest POST is
  reply,      \* what that handler answered, until the client takes it
  report,     \* what /post_exec was sent: a request, a result, an error
  _request_id,  \* the client's latest request id
  seed,       \* whether a signing key is configured
  up, starts, key,   \* the daemon, its starts, and the key it signs with
  audit_log

store   == stage
broker  == <<approval, granted>>
client  == <<at, _request_id>>
daemon  == <<up, starts, key>>
config  == <<opaque, seed>>
posts   == <<handler, reply, report>>
vars    == <<store, broker, client, posts, config, daemon, audit_log>>

Capabilities == INSTANCE Capability
Approvals    == INSTANCE Approval

Report == [id : Request, result : {"object", "none"}, error : BOOLEAN]

Init ==
  /\ Capabilities!Init /\ Approvals!Init
  /\ opaque \in Opaque /\ seed \in BOOLEAN
  /\ at = [r \in Request |-> "idle"] /\ _request_id = Nil
  /\ handler = [r \in Request |-> "none"] /\ reply = [r \in Request |-> Nil]
  /\ report = [r \in Request |-> Nil]
  /\ up = FALSE /\ starts = 0 /\ key = Nil /\ audit_log = {}

At(r, where) == at' = [at EXCEPT ![r] = where]

-----------------------------------------------------------------------------
(***************************************************************************)
(* The audit trail.                                                        *)
(***************************************************************************)
\* A row keeps the fields of the signed record that the verifier puts back: those the
\* table has a value for that is not empty, nor zero.
Row(signed, kept) == [signed |-> signed, kept |-> kept, key |-> key]

\* log_decision.
DecisionRow == LET fields == {"decision", "reason", "metadata"} IN Row(fields, fields)

\* log_execution signs every field, empty or not; a call may have cost nothing.
ExecutionRow(r, free) ==
  LET fields == {"parameters", "result", "error", "cost", "metadata"} IN
  Row(fields, fields \ ((IF report[r].result = "none" THEN {"result"} ELSE {})
                           \cup (IF report[r].error THEN {} ELSE {"error"})
                           \cup (IF free THEN {"cost"} ELSE {})))

\* Every exception of a log call is logged and swallowed.
Logs(row) == audit_log' \in {audit_log, audit_log \cup {row}}

\* verify_log_integrity rebuilds the record from the fields that are there.
verify_log_integrity(row) == row.key = key /\ row.kept = row.signed

-----------------------------------------------------------------------------
(***************************************************************************)
(* The daemon's life.  The store outlives it; what was in memory does not. *)
(***************************************************************************)
MayStart == seed \/ ~Production

Start ==
  /\ ~up /\ MayStart /\ starts < MaxStarts  \* bound
  /\ up' = TRUE /\ starts' = starts + 1
  /\ key' = IF seed THEN 0 ELSE starts + 1  \* generated afresh
  /\ UNCHANGED <<store, broker, client, posts, config, audit_log>>

Crash ==
  /\ up /\ up' = FALSE
  /\ handler' = [r \in Request |-> "none"] /\ report' = [r \in Request |-> Nil]
  /\ approval' = [r \in Request |-> IF approval[r] = "none" THEN "none" ELSE "closed"]
  /\ UNCHANGED <<store, granted, client, reply, config, starts, key, audit_log>>

-----------------------------------------------------------------------------
(***************************************************************************)
(* The wrapper, up to the tool.                                            *)
(***************************************************************************)
\* A POST; what was answered to an earlier one has been taken.
Posts(r, endpoint) ==
  /\ handler' = [handler EXCEPT ![r] = endpoint]
  /\ reply' = [reply EXCEPT ![r] = Nil]

\* A cost that cannot be estimated, a call that is no JSON, and a daemon that is
\* not healthy now, whatever it was before, are denials; the rest is posted.
Ask(r) ==
  /\ at[r] = "idle"
  /\ \/ up /\ At(r, "asking") /\ Posts(r, "pre_exec")
     \/ At(r, "denied") /\ UNCHANGED <<handler, reply>>
  /\ UNCHANGED <<store, broker, report, _request_id, config, daemon, audit_log>>

\* Only an exact ALLOW lets the tool run.  An HTTP error is no decision.
Permits_unless_denied(decision) == decision # "DENY"  \* a slip
Permits(decision) == decision = "ALLOW"

\* The answer of /pre_exec; a held call is posted to /hitl_wait.
TakeDecision(r) ==
  /\ at[r] = "asking" /\ reply[r] # Nil
  /\ _request_id' = IF reply[r] = "error" THEN _request_id ELSE r
  /\ IF reply[r] = "HITL"
     THEN At(r, "waiting") /\ Posts(r, IF up THEN "hitl_wait" ELSE "none")
     ELSE At(r, IF Permits(reply[r]) THEN "running" ELSE "denied") /\ Posts(r, "none")
  /\ UNCHANGED <<store, broker, report, config, daemon, audit_log>>

\* The answer of /hitl_wait.
TakeApproval(r) ==
  /\ at[r] = "waiting" /\ reply[r] # Nil
  /\ At(r, IF Permits(reply[r]) THEN "running" ELSE "denied") /\ Posts(r, "none")
  /\ UNCHANGED <<store, broker, report, _request_id, config, daemon, audit_log>>

\* 30 s have passed, or the connection broke: a denial.  The handler goes on, and
\* what it answers reaches nobody.
GiveUp_never(r) == FALSE /\ UNCHANGED vars  \* a slip: no timeout
GiveUp(r) ==
  /\ at[r] \in {"asking", "waiting"} /\ At(r, "denied")
  /\ reply' = [reply EXCEPT ![r] = Nil]
  /\ UNCHANGED <<store, broker, handler, report, _request_id, config, daemon, audit_log>>

-----------------------------------------------------------------------------
(***************************************************************************)
(* /pre_exec.  Its handler survives the client's giving up.                *)
(***************************************************************************)
Handler(r, where) == handler' = [handler EXCEPT ![r] = where]

Answers(r, decision) ==
  /\ Handler(r, "none")
  /\ reply' = [reply EXCEPT ![r] = IF at[r] \in {"asking", "waiting"} THEN decision ELSE Nil]

\* Where the handler goes with a call that was admitted.
Admitted(r) == IF r \in opaque THEN "holding" ELSE "issuing"

\* evaluate_and_record up to decide(): refused, or admitted; whatever fails on the
\* way, before or after the money is held, is a denial.
Evaluate(r) ==
  /\ handler[r] = "pre_exec"
  /\ \/ Capabilities!Refuse(r) /\ Handler(r, "denying")
     \/ Capabilities!Admit(r) /\ Handler(r, Admitted(r))
     \/ Capabilities!Admit(r) /\ Handler(r, "denying")
     \/ UNCHANGED store /\ Handler(r, "denying")
  /\ UNCHANGED <<broker, client, reply, report, config, daemon, audit_log>>

Issue(r) ==
  /\ handler[r] = "issuing"
  /\ \/ Capabilities!Issue(r) /\ \E where \in {"allowing", "denying"} : Handler(r, where)
     \/ UNCHANGED store /\ Handler(r, "denying")
  /\ UNCHANGED <<broker, client, reply, report, config, daemon, audit_log>>

Decide(r) ==
  /\ handler[r] \in {"denying", "allowing"}
  /\ Logs(DecisionRow)
  /\ Answers(r, IF handler[r] = "allowing" THEN "ALLOW" ELSE "DENY")
  /\ UNCHANGED <<store, broker, client, report, config, daemon>>

\* _create_hitl_request, unless the queue is full; then the row.
Hold(r) ==
  /\ handler[r] = "holding"
  /\ \/ Approvals!Open(r) /\ Logs(DecisionRow) /\ Handler(r, "announcing") /\ UNCHANGED reply
     \/ Answers(r, "error") /\ UNCHANGED <<broker, audit_log>>
  /\ UNCHANGED <<store, client, report, config, daemon>>

\* broadcast_hitl_request: when it raises, the call is denied and the token stays.
Announce(r) ==
  /\ handler[r] = "announcing"
  /\ \E decision \in {"HITL", "DENY"} : Answers(r, decision)
  /\ UNCHANGED <<store, broker, client, report, config, daemon, audit_log>>

-----------------------------------------------------------------------------
(***************************************************************************)
(* /hitl_response and /hitl_wait.                                          *)
(***************************************************************************)
hitl_response(r, decision) ==
  /\ up /\ Approvals!Answer(r, decision)
  /\ UNCHANGED <<store, client, posts, config, daemon, audit_log>>

\* Approvals that nobody answered in time are swept by the other handlers.
Sweep ==
  /\ up /\ Approvals!Close
  /\ UNCHANGED <<store, client, posts, config, daemon, audit_log>>

\* The handler takes an answer, or finds none within its time.
hitl_wait(r) ==
  /\ handler[r] = "hitl_wait"
  /\ \/ Approvals!Take(r) /\ Handler(r, "granting") /\ UNCHANGED reply
     \/ /\ approval[r] = "DENY" /\ Answers(r, "DENY")
        /\ approval' = Approvals!Closed({r}) /\ UNCHANGED granted
     \/ /\ approval[r] # "DENY" /\ Answers(r, "error")
        /\ approval' = Approvals!Closed({r}) /\ UNCHANGED granted
  /\ UNCHANGED <<store, client, report, config, daemon, audit_log>>

\* grant_hitl_execution, and the answer that may fail to follow it.
Grant(r) ==
  /\ handler[r] = "granting" /\ Approvals!Grant(r)
  /\ \/ /\ r \in granted' /\ Capabilities!Issue(r)
        /\ \E decision \in {"ALLOW", "error"} : Answers(r, decision)
     \/ /\ r \notin granted' /\ UNCHANGED store
        /\ \E decision \in {"DENY", "error"} : Answers(r, decision)
  /\ UNCHANGED <<client, report, config, daemon, audit_log>>

-----------------------------------------------------------------------------
(***************************************************************************)
(* The tool, and /post_exec.                                               *)
(***************************************************************************)
Reported_latest(r) == _request_id  \* a slip: the client's latest request
Reported(r) == r

\* The tool returns an object or nothing, or raises, and the daemon, if it is ready,
\* is told once; or it returns what no report can carry, and nothing is told.  A
\* tool that is no coroutine raises when it has run: the wrapper awaits its result.
ToolEnds(r) ==
  /\ at[r] = "running"
  /\ \/ /\ up /\ At(r, "reporting") /\ Posts(r, "post_exec")
        /\ \E outcome \in {[result |-> "object", error |-> FALSE], [result |-> "none", error |-> FALSE],
                           [result |-> "none", error |-> TRUE]} :
             report' = [report EXCEPT ![r] = [id |-> Reported(r), result |-> outcome.result,
                                               error |-> outcome.error]]
     \/ At(r, "over") /\ UNCHANGED posts
  /\ UNCHANGED <<store, broker, _request_id, config, daemon, audit_log>>

\* The capability of the named request is used, if the named call is the same; a
\* store that fails may have done so.
SameCall(r, q) == r \in opaque <=> q \in opaque

post_exec(r) ==
  /\ handler[r] = "post_exec" /\ Answers(r, "ACK")
  /\ \/ /\ SameCall(r, report[r].id) /\ Capabilities!Settle(report[r].id)
        /\ \E free \in BOOLEAN : Logs(ExecutionRow(r, free))
     \/ UNCHANGED <<store, audit_log>>
  /\ report' = [report EXCEPT ![r] = Nil]
  /\ UNCHANGED <<broker, client, config, daemon>>

\* The wrapper hears of it, or no longer waits for it.
EndReport(r) ==
  /\ at[r] = "reporting" /\ At(r, "over")
  /\ UNCHANGED <<store, broker, posts, _request_id, config, daemon, audit_log>>

\* A request's keys live an hour, more than a client and its approval can take before
\* the tool runs.  It may run for longer.  The money the request reserved is not among
\* them: it is in the session's one counter, which lives on with the session's calls
\* (PolicyStore: reserved, QuietReleasesReserved).
Expirable(r) == at[r] \in {"denied", "running", "reporting", "over"}

Expire(r) ==
  /\ Expirable(r) /\ stage[r] # "new"
  /\ Capabilities!Expire
  /\ stage'[r] # stage[r] /\ \A q \in Request \ {r} : stage'[q] = stage[q]
  /\ UNCHANGED <<broker, client, posts, config, daemon, audit_log>>

-----------------------------------------------------------------------------
Step(r) ==
  \/ Evaluate(r) \/ Issue(r) \/ Decide(r) \/ Hold(r) \/ Announce(r)
  \/ hitl_wait(r) \/ Grant(r) \/ post_exec(r)

Next ==
  \/ Start \/ Crash \/ Sweep
  \/ \E r \in Request :
       \/ Ask(r) \/ TakeDecision(r) \/ TakeApproval(r) \/ GiveUp(r)
       \/ Step(r)
       \/ \E decision \in {"ALLOW", "DENY"} : hitl_response(r, decision)
       \/ ToolEnds(r) \/ EndReport(r)
       \/ Expire(r)

\* The client's event loop runs what is ready and its timeouts fire.  Nothing is assumed
\* of the daemon, its store and operators, and the tool.
Fairness ==
  \A r \in Request : WF_vars(TakeDecision(r) \/ TakeApproval(r) \/ GiveUp(r) \/ EndReport(r))

Spec == Init /\ [][Next]_vars /\ Fairness

-----------------------------------------------------------------------------
(***************************************************************************)
(* Properties.                                                             *)
(***************************************************************************)
Field == {"decision", "reason", "parameters", "result", "error", "cost", "metadata"}

TypeOK ==
  /\ stage \in [Request -> Capabilities!Stage]
  /\ approval \in [Request -> Approvals!State] /\ granted \subseteq Request
  /\ opaque \in Opaque /\ seed \in BOOLEAN
  /\ at \in [Request -> {"idle", "asking", "waiting", "running", "reporting", "over", "denied"}]
  /\ handler \in [Request -> {"none", "pre_exec", "issuing", "denying", "allowing", "holding",
                              "announcing", "hitl_wait", "granting", "post_exec"}]
  /\ \A r \in opaque : handler[r] \notin {"issuing", "allowing"}
  /\ reply \in [Request -> {Nil, "ALLOW", "DENY", "HITL", "error"}]
  /\ report \in [Request -> Report \cup {Nil}]
  /\ _request_id \in Request \cup {Nil}
  /\ up \in BOOLEAN /\ starts \in 0..MaxStarts /\ key \in 0..MaxStarts \cup {Nil}
  /\ \A row \in audit_log : row.signed \subseteq Field
                            /\ row.kept \subseteq Field /\ row.key \in 0..MaxStarts

Started == {"running", "reporting", "over"}

\* A tool that runs has an admission that was not used yet, unless it has been running
\* for as long as the store's keys live: never one that was refused, was
\* not issued its capability, or had it used by the report of another call.
RunningIsReserved ==
  \A r \in Request : at[r] = "running" => stage[r] \in {"allowed", "lapsed", "new"}

\* A capability is used only for a call whose tool has run: not for one that was denied
\* or given up while the daemon went on to allow it or a person to approve it.
BookedHasRun ==
  \A r \in Request : stage[r] = "settled" => at[r] \in {"reporting", "over"}

\* A call held for a person runs only if a person allowed that request and the
\* daemon granted it, through timeouts, crashes of the daemon and lost answers.
HeldRunsOnlyIfGranted == \A r \in opaque : at[r] \in Started => r \in granted

\* In production, the decisions on record verify, also those of a daemon that has
\* crashed since.
DecisionsVerifyInProduction ==
  Production => \A row \in audit_log : "decision" \in row.signed => verify_log_integrity(row)

\* Client, store and audit log agree on what has run, what is paid and what is signed.
CallInv == TypeOK /\ RunningIsReserved /\ BookedHasRun /\ DecisionsVerifyInProduction

\* Whoever calls a tool hears whether it may run and, once it has run, of it, even
\* if the daemon hangs, crashes or never starts.
CallsAreAnswered ==
  \A r \in Request :
    at[r] \in {"asking", "waiting", "reporting"} ~> at[r] \in {"running", "over", "denied"}
=============================================================================
