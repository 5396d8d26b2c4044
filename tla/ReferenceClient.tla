---------------------------- MODULE ReferenceClient ----------------------------
(***************************************************************************)
(* ShackleClient of v2/protocol/python-reference/client.py: one connection *)
(* to a daemon, on which every call writes a request and then reads the    *)
(* next frame of the stream.  Frames carry no number the client compares:  *)
(* which call gets which reply depends on the order of the reads.  The     *)
(* readers are the callers and the heartbeat task, all on one event loop;  *)
(* a frame is read in two steps, its length and its body.                  *)
(*                                                                         *)
(* The daemon is external: it accepts the connection and reads what is     *)
(* sent, now or later or never, answers the requests of a connection in    *)
(* their order, with any answer, or does not answer.                       *)
(***************************************************************************)
EXTENDS Integers, Sequences

CONSTANTS
  None,
  Caller, Beat,  \* the tasks that call the client, and heartbeat_loop
  MaxSends,      \* requests sent
  MaxBeats       \* heartbeats among them

Task == Caller \cup {Beat}
Kind == {"hello", "register", "pre", "post", "poll", "beat"}
Message == [kind : Kind, id : 1..MaxSends]
Reply   == [kind : Kind, id : 1..MaxSends, answer : {"ALLOW", "DENY", "HITL", "ERROR"}]

ASSUME ClientAssumption ==
  /\ Beat \notin Caller /\ None \notin Task \cup Message \cup Reply
  /\ MaxSends \in Nat /\ MaxBeats \in Nat

VARIABLES
  link,      \* the transport: "closed", "open", or "broken" by the peer
  connected, \* _connected, which nothing but connect and disconnect sets
  wire,      \* requests the daemon has not looked at
  stream,    \* parts of frames that have arrived, in order
  arriving,  \* a frame whose length has arrived and whose body has not
  aligned,   \* no reader has taken a body for a length
  waiter,    \* the task the stream wakes when more arrives
  op, want,  \* the request of each task, and the part it wants to read
  draining,  \* tasks that wait, untimed, until the daemon accepts or has read
  verdict,   \* what pre_exec_check or poll_hitl_decision returned to a caller
  sends, beats,
  astray     \* history: a call on this connection ended without its reply

streamVars == <<wire, stream, arriving, aligned>>
clientVars == <<link, connected, streamVars, waiter, op, want, draining, verdict, sends, beats, astray>>

ClientInit ==
  /\ link = "closed" /\ connected = FALSE
  /\ wire = <<>> /\ stream = <<>> /\ arriving = None /\ aligned = TRUE /\ waiter = None
  /\ op = [t \in Task |-> None] /\ want = [t \in Task |-> "length"]
  /\ draining = {} /\ verdict = [c \in Caller |-> None]
  /\ sends = 0 /\ beats = 0 /\ astray = FALSE

-----------------------------------------------------------------------------
(***************************************************************************)
(* The transport.                                                          *)
(***************************************************************************)
\* send_message: the frame goes into the buffer, and drain() lets t go on to its reply
\* at once, unless more is buffered than the transport likes: a large frame that the
\* daemon does not read, or one behind it.
send_message(t, kind, queue) ==
  /\ sends < MaxSends /\ sends' = sends + 1
  /\ wire' = Append(queue, [kind |-> kind, id |-> sends + 1])
  /\ op' = [op EXCEPT ![t] = [kind |-> kind, id |-> sends + 1]]
  /\ want' = [want EXCEPT ![t] = "length"]
  /\ \E full \in BOOLEAN :
       draining' = IF full \/ draining # {} THEN draining \cup {t} ELSE draining

\* A task whose call has ended wants nothing, and is woken by nothing.
Ends(t) ==
  /\ op' = [op EXCEPT ![t] = None] /\ draining' = draining \ {t}
  /\ waiter' = IF waiter = t THEN None ELSE waiter

\* connect, up to its first reply: a new stream, whatever the old one still held.  Its
\* open and its first drain() are one wait for the daemon, neither with a timeout.
connect(c) ==
  /\ ~connected /\ \A t \in Task : op[t] = None
  /\ sends + 2 <= MaxSends  \* bound: room for its two requests
  /\ link' = "open" /\ stream' = <<>> /\ arriving' = None /\ aligned' = TRUE
  /\ send_message(c, "hello", <<>>)
  /\ waiter' = None /\ astray' = FALSE
  /\ verdict' = [d \in Caller |-> None]
  /\ UNCHANGED <<connected, beats>>

\* disconnect, when the block that uses the client is left; the heartbeat task is
\* cancelled wherever it is.  (That wait_closed() may wait for a daemon that does not
\* read is left out: no call is under way.)
disconnect ==
  /\ connected /\ \A c \in Caller : op[c] = None
  /\ connected' = FALSE /\ link' = "closed"
  /\ Ends(Beat)
  /\ UNCHANGED <<streamVars, want, verdict, sends, beats, astray>>

\* The daemon (external) answers the oldest request, or passes over it; a frame's
\* length arrives before its body.
Answer ==
  /\ wire # <<>> /\ arriving = None /\ link = "open"
  /\ \A t \in draining : op[t] # Head(wire)
  /\ wire' = Tail(wire)
  /\ \/ \E answer \in {"ALLOW", "DENY", "HITL", "ERROR"} :
          /\ arriving' = [kind |-> Head(wire).kind, id |-> Head(wire).id, answer |-> answer]
          /\ stream' = Append(stream, [part |-> "length", reply |-> None])
          /\ waiter' = None
     \/ UNCHANGED <<arriving, stream, waiter>>
  /\ UNCHANGED <<link, connected, aligned, op, want, draining, verdict, sends, beats, astray>>

Arrive ==
  /\ arriving # None /\ link = "open"
  /\ stream' = Append(stream, [part |-> "body", reply |-> arriving])
  /\ arriving' = None /\ waiter' = None
  /\ UNCHANGED <<link, connected, wire, aligned, op, want, draining, verdict, sends, beats, astray>>

\* The daemon (external) accepts, or has read enough: every drain() returns.
Drained ==
  /\ draining # {} /\ link = "open" /\ draining' = {}
  /\ UNCHANGED <<link, connected, streamVars, waiter, op, want, verdict, sends, beats, astray>>

Break ==
  /\ link = "open" /\ link' = "broken"
  /\ UNCHANGED <<connected, streamVars, waiter, op, want, draining, verdict, sends, beats, astray>>

-----------------------------------------------------------------------------
(***************************************************************************)
(* receive_message.                                                        *)
(***************************************************************************)
\* Where a call reads: its request is out.
Reading(t) == op[t] # None /\ t \notin draining

\* The length, when the next part is one; a body taken for a length is a number so
\* large that no later read completes.
TakeLength(t) ==
  /\ Reading(t) /\ want[t] = "length" /\ aligned /\ stream # <<>>
  /\ stream' = Tail(stream) /\ aligned' = (Head(stream).part = "length")
  /\ want' = [want EXCEPT ![t] = "body"]
  /\ UNCHANGED <<link, connected, wire, arriving, waiter, op, draining, verdict, sends, beats, astray>>

Starved == stream = <<>> \/ ~aligned

\* No data: the first task to find none is woken by the next, any other is refused.
Block(t) ==
  /\ Reading(t) /\ Starved /\ link = "open" /\ waiter = None
  /\ waiter' = t
  /\ UNCHANGED <<link, connected, streamVars, op, want, draining, verdict, sends, beats, astray>>

\* A read that ends with nothing: refused because another task waits, or timed out,
\* or the peer is gone.  A length that was read stays read, and its body is left for
\* the next reader.
ReadFails(t) ==
  /\ Reading(t) /\ Ends(t) /\ astray' = TRUE
  /\ aligned' = (aligned /\ want[t] = "length")
  /\ UNCHANGED <<link, connected, wire, stream, arriving, want, verdict, sends, beats>>

\* A slip: only the length is read with a timeout.
Timeout_length(t) == link = "open" /\ want[t] = "length" /\ ReadFails(t)

Refused(t) == Starved /\ waiter \notin {None, t} /\ ReadFails(t)
Timeout(t) == link = "open" /\ ReadFails(t)
Eof(t)     == link = "broken" /\ Starved /\ ReadFails(t)

\* The connection is lost, or never came about: drain() or the open raises.
DrainFails(t) ==
  /\ t \in draining /\ link = "broken" /\ Ends(t) /\ astray' = TRUE
  /\ UNCHANGED <<link, connected, streamVars, want, verdict, sends, beats>>

\* A slip: the type of the reply is not looked at.
Expected_any(request, reply) == TRUE
Expected(request, reply) == reply.kind = request.kind

\* The reply t gets, whichever it is.
Body(t) ==
  IF Reading(t) /\ want[t] = "body" /\ aligned /\ stream # <<>> THEN Head(stream).reply ELSE None

Took(t) == stream' = Tail(stream) /\ UNCHANGED <<wire, arriving, aligned>>

\* pre_exec_check and poll_hitl_decision return a verdict; an ERROR, or another type,
\* raises.
TakeVerdict(c) ==
  /\ Body(c) # None /\ op[c].kind \in {"pre", "poll"} /\ Took(c) /\ Ends(c)
  /\ LET ok == Expected(op[c], Body(c)) IN
     /\ verdict' = [verdict EXCEPT ![c] =
          IF ok /\ Body(c).answer # "ERROR"
          THEN [asked |-> op[c].id, got |-> Body(c).id, answer |-> Body(c).answer] ELSE None]
     /\ astray' = (astray \/ ~ok)
  /\ UNCHANGED <<link, connected, want, sends, beats>>

\* post_exec_log and _send_heartbeat pass over a reply that is not theirs.
TakeAck(t) ==
  /\ Body(t) # None /\ op[t].kind \in {"post", "beat"} /\ Took(t) /\ Ends(t)
  /\ UNCHANGED <<link, connected, want, verdict, sends, beats, astray>>

\* connect's replies: after SERVER_HELLO it registers, after a successful
\* REGISTER_RESPONSE it is connected; anything else raises, with the link left open.
TakeHello(c) ==
  /\ Body(c) # None /\ op[c].kind = "hello" /\ waiter' = waiter
  /\ Expected(op[c], Body(c)) /\ Body(c).answer # "ERROR"
  /\ stream' = Tail(stream) /\ send_message(c, "register", wire)
  /\ UNCHANGED <<link, connected, arriving, aligned, verdict, beats, astray>>

TakeRegistered(c) ==
  /\ Body(c) # None /\ op[c].kind = "register" /\ Took(c) /\ Ends(c)
  /\ Expected(op[c], Body(c)) /\ Body(c).answer = "ALLOW" /\ connected' = TRUE
  /\ UNCHANGED <<link, want, verdict, sends, beats, astray>>

TakeRefusal(c) ==
  /\ Body(c) # None /\ op[c].kind \in {"hello", "register"} /\ Took(c) /\ Ends(c)
  /\ ~Expected(op[c], Body(c)) \/ Body(c).answer # "ALLOW"
  /\ UNCHANGED <<link, connected, want, verdict, sends, beats, astray>>

-----------------------------------------------------------------------------
(***************************************************************************)
(* The calls.  A write to a broken link raises and sends nothing.          *)
(***************************************************************************)
pre_exec_check(c) ==
  /\ connected /\ link = "open" /\ op[c] = None /\ verdict[c] = None
  /\ send_message(c, "pre", wire)
  /\ UNCHANGED <<link, connected, stream, arriving, aligned, waiter, verdict, beats, astray>>

\* example_usage: an ALLOW runs the operation and logs it, a HITL polls.
Execute(c) ==
  /\ connected /\ link = "open" /\ op[c] = None
  /\ verdict[c] # None /\ verdict[c].answer = "ALLOW"
  /\ verdict' = [verdict EXCEPT ![c] = None]
  /\ send_message(c, "post", wire)
  /\ UNCHANGED <<link, connected, stream, arriving, aligned, waiter, beats, astray>>

poll_hitl_decision(c) ==
  /\ connected /\ link = "open" /\ op[c] = None
  /\ verdict[c] # None /\ verdict[c].answer = "HITL"
  /\ verdict' = [verdict EXCEPT ![c] = None]
  /\ send_message(c, "poll", wire)
  /\ UNCHANGED <<link, connected, stream, arriving, aligned, waiter, beats, astray>>

\* A denied operation is not run, and one that cannot be logged is not taken further.
Drop(c) ==
  /\ op[c] = None /\ verdict[c] # None
  /\ verdict[c].answer = "DENY" \/ link # "open"
  /\ verdict' = [verdict EXCEPT ![c] = None]
  /\ UNCHANGED <<link, connected, streamVars, waiter, op, want, draining, sends, beats, astray>>

send_heartbeat ==
  /\ connected /\ link = "open" /\ op[Beat] = None /\ beats < MaxBeats
  /\ beats' = beats + 1
  /\ send_message(Beat, "beat", wire)
  /\ UNCHANGED <<link, connected, stream, arriving, aligned, waiter, verdict, astray>>

-----------------------------------------------------------------------------
Reads(t) ==
  \/ TakeLength(t) \/ Block(t) \/ Refused(t) \/ Timeout(t) \/ Eof(t) \/ DrainFails(t)
  \/ TakeAck(t)

Receives(c) == TakeHello(c) \/ TakeRegistered(c) \/ TakeRefusal(c) \/ TakeVerdict(c)

ClientNext ==
  \/ Answer \/ Arrive \/ Drained \/ Break \/ disconnect \/ send_heartbeat
  \/ \E t \in Task : Reads(t)
  \/ \E c \in Caller :
       \/ Receives(c) \/ connect(c) \/ pre_exec_check(c) \/ Execute(c)
       \/ poll_hitl_decision(c) \/ Drop(c)

\* The event loop runs tasks that can read, the timers of wait_for fire, and a lost
\* connection ends every read and every drain().  Nothing is assumed of the daemon.
ClientFairness ==
  /\ WF_clientVars(Reads(Beat))
  /\ \A c \in Caller : WF_clientVars(Reads(c) \/ Receives(c))

ClientSpec == ClientInit /\ [][ClientNext]_clientVars /\ ClientFairness

-----------------------------------------------------------------------------
ClientTypeOK ==
  /\ link \in {"closed", "open", "broken"} /\ connected \in BOOLEAN
  /\ wire \in Seq(Message) /\ arriving \in {None} \cup Reply /\ aligned \in BOOLEAN
  /\ stream \in Seq([part : {"length"}, reply : {None}] \cup [part : {"body"}, reply : Reply])
  /\ waiter \in {None} \cup Task /\ op \in [Task -> {None} \cup Message]
  /\ want \in [Task -> {"length", "body"}]
  /\ verdict \in [Caller -> {None} \cup
       [asked : 1..MaxSends, got : 1..MaxSends, answer : {"ALLOW", "DENY", "HITL"}]]
  /\ waiter # None => op[waiter] # None
  /\ draining \subseteq Task /\ \A t \in draining : op[t] # None

\* client.py:494-514 compare no identifier, and the heartbeat reads the same stream:
\* still, with one caller, a verdict is the reply to its own request as long as no
\* earlier call of the connection ended without its reply.
OwnVerdictUnlessAstray ==
  \A c \in Caller : verdict[c] # None => verdict[c].got = verdict[c].asked \/ astray

\* The stream and its readers, and whose reply was taken for whose.
StreamInv == ClientTypeOK /\ OwnVerdictUnlessAstray

\* Every call returns or raises, whatever the daemon answers and whoever else reads, if
\* the daemon does not stop reading for good with the link open (client.py:246-257,
\* 420-428, 563-572).
CallsEnd ==
  []<>(draining = {} \/ link = "broken") => \A t \in Task : op[t] # None ~> op[t] = None
=============================================================================
