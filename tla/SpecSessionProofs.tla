-------------------------- MODULE SpecSessionProofs --------------------------
(***************************************************************************)
(* What holds of every session that is governed by the second decision     *)
(* function and of the ledger it writes: the inductive invariant and the   *)
(* four properties that follow from it.                                    *)
(***************************************************************************)
EXTENDS SpecSession, FiniteSetTheorems, TLAPS

\* The ledger is well typed.
FileOK ==
  /\ file \in Seq(Line) /\ acknowledged \subseteq Hash
  /\ last_hash \in [Writer -> Hash \cup {Closed}]

\* What was acknowledged stands in a line that is complete, unless a line that
\* is complete cannot be read: neither ever changes again.
KeptOrTorn ==
  \/ \E i \in DOMAIN file : file[i].text = Torn /\ file[i].newline
  \/ \A h \in acknowledged : \E i \in DOMAIN file :
       file[i].newline /\ file[i].text # Torn /\ file[i].text.record_hash = h

\* A writer that is alone and was never cut short continues its own chain.
SoleWriterContinues ==
  ~overlap =>
    /\ \A v, w \in Live : v = w
    /\ ~crashed =>
         /\ verify_chain(file)
         /\ \A i \in DOMAIN file : file[i].newline
         /\ \A w \in Live : last_hash[w] = recover_last_hash(file)

\* A host that is down has no session left over.
DownIsEmpty(w) ==
  state[w] = Nil =>
    running[w] = 0 /\ repeats[w] = 0 /\ \A n \in Nonce : released[w][n] = 0

\* The nonces released without a human.
Used(w) == {n \in Nonce : released[w][n] > 0}

Left(s) ==
  IF s.budget_initial_usd - s.budget_spent_usd > 0
  THEN s.budget_initial_usd - s.budget_spent_usd ELSE 0

\* The session counts at least what the histories do.
CountsAgree(w) ==
  state[w] # Nil =>
    /\ state[w].last = Nil => repeats[w] = 0
    /\ state[w].last # Nil => repeats[w] <= state[w].repeat_counts[state[w].last.tool]
    /\ Used(w) \subseteq state[w].seen_nonces
    /\ IsFiniteSet(Used(w)) /\ Cardinality(Used(w)) <= state[w].total_calls

\* What is left is what was not spent, and while no human has released a call, the
\* calls that run can overspend by their own costs only.
MoneyAgrees(w) ==
  state[w] # Nil =>
    /\ state[w].budget_initial_usd = config.budget_usd
    /\ state[w].budget_remaining_usd = Left(state[w])
    /\ config.budget_usd > 0 /\ state[w].total_calls = Cardinality(Used(w)) =>
         state[w].budget_spent_usd + running[w] * MaxCost
           < state[w].budget_initial_usd + MaxRunning * MaxCost

HostInv(w) ==
  /\ DownIsEmpty(w) /\ CountsAgree(w) /\ MoneyAgrees(w)
  /\ running[w] <= MaxRunning
  /\ config.max_repeat_calls > 0 => repeats[w] <= config.max_repeat_calls
  /\ \A n \in Nonce : released[w][n] <= 1

LedgerInv ==
  /\ FileOK /\ KeptOrTorn /\ SoleWriterContinues
  /\ overlap \in BOOLEAN /\ crashed \in BOOLEAN

SessionsTyped ==
  /\ state \in [Host -> {Nil} \cup Session(Nonce, Transitions)]
  /\ running \in [Host -> Nat] /\ repeats \in [Host -> Nat]
  /\ released \in [Host -> [Nonce -> Nat]]
  /\ config \in Config /\ config \in GuardConfig

SessionsInv == SessionsTyped /\ \A w \in Host : HostInv(w)

\* A host has a session exactly while it has the ledger open.
Opened ==
  /\ held \subseteq Live \cap Host
  /\ Live \cap Host = {w \in Host : state[w] # Nil}

IInv == LedgerInv /\ SessionsInv /\ Opened

-----------------------------------------------------------------------------
(***************************************************************************)
(* The ledger.                                                             *)
(***************************************************************************)
\* Writing keeps every complete line, and makes the last one.
Extends(new, lines, text, newline) ==
  /\ new \in Seq(Line) /\ Len(new) \in DOMAIN new
  /\ \A i \in DOMAIN lines : lines[i].newline => i \in DOMAIN new /\ new[i] = lines[i]
  /\ new[Len(new)].newline = newline /\ new[Len(new)].text \in {text, Torn}
  /\ (\A i \in DOMAIN lines : lines[i].newline) =>
       new = Append(lines, [text |-> text, newline |-> newline])

LEMMA WrittenLines ==
  ASSUME NEW lines \in Seq(Line), NEW text \in {Torn} \cup Record, NEW newline \in BOOLEAN
  PROVE  Extends(Written(lines, text, newline), lines, text, newline)
<1> DEFINE new == Written(lines, text, newline)
<1> SUFFICES Extends(new, lines, text, newline)
  OBVIOUS
<1> DEFINE line == [text |-> text, newline |-> newline]
           torn == [text |-> Torn, newline |-> newline]
<1> HIDE DEF new
<1>1. line \in Line /\ torn \in Line
  BY DEF Line
<1>2. CASE lines # <<>> /\ ~lines[Len(lines)].newline
  <2>1. Len(lines) \in DOMAIN lines
    BY <1>2
  <2>2. new = [lines EXCEPT ![Len(lines)] = torn]
    BY <1>2 DEF Written, new
  <2>3. new \in Seq(Line) /\ Len(new) = Len(lines) /\ DOMAIN new = DOMAIN lines
    BY <1>1, <2>1, <2>2
  <2>4. new[Len(lines)] = torn
    BY <2>1, <2>2
  <2>5. \A i \in DOMAIN lines : lines[i].newline => new[i] = lines[i]
    BY <1>2, <2>1, <2>2
  <2>6. torn.newline = newline /\ torn.text = Torn
    OBVIOUS
  <2>7. QED
    BY <1>2, <2>1, <2>3, <2>4, <2>5, <2>6 DEF Extends
<1>3. CASE ~(lines # <<>> /\ ~lines[Len(lines)].newline)
  <2>1. new = Append(lines, line)
    BY <1>3 DEF Written, new
  <2>2. new \in Seq(Line) /\ Len(new) = Len(lines) + 1
    BY <1>1, <2>1
  <2>3. new[Len(new)] = line /\ \A i \in DOMAIN lines : i \in DOMAIN new /\ new[i] = lines[i]
    BY <1>1, <2>1, <2>2
  <2>4. QED
    BY <2>1, <2>2, <2>3 DEF Extends
<1>4. QED
  BY <1>2, <1>3

\* A line continues the one before it.
Links(lines, i) ==
  LET prev == IF i = 1 THEN GENESIS ELSE lines[i - 1].text.record_hash IN
  lines[i].text.prev_hash = prev /\ lines[i].text.record_hash = Append(prev, lines[i].text.event)

\* A chain verifies if every line does.
LEMMA ChainLinks ==
  ASSUME NEW lines \in Seq(Line)
  PROVE  verify_chain(lines) <=> Readable(lines) /\ \A i \in 1..Len(lines) : Links(lines, i)
<1> SUFFICES ASSUME Readable(lines)
             PROVE  verify_chain(lines) <=> \A i \in 1..Len(lines) : Links(lines, i)
  BY DEF verify_chain
<1> DEFINE parsed     == {i \in DOMAIN lines : lines[i].text # Torn}
           earlier(i) == {j \in parsed : j < i}
           prev(i)    == IF earlier(i) = {} THEN GENESIS ELSE lines[Max(earlier(i))].text.record_hash
<1>1. parsed = 1..Len(lines)
  BY DEF Readable
<1>2. ASSUME NEW i \in 1..Len(lines)
      PROVE  prev(i) = IF i = 1 THEN GENESIS ELSE lines[i - 1].text.record_hash
  <2>1. earlier(i) = {j \in 1..Len(lines) : j < i}
    BY <1>1
  <2>2. CASE i = 1
    BY <2>1, <2>2
  <2>3. CASE i # 1
    <3>1. i - 1 \in earlier(i) /\ \A j \in earlier(i) : j \in Int /\ i - 1 >= j
      BY <2>1, <2>3
    <3>2. Max(earlier(i)) = i - 1
      BY <3>1 DEF Max
    <3>3. QED
      BY <2>3, <3>1, <3>2
  <2>4. QED
    BY <2>2, <2>3
<1>3. verify_chain(lines) <=>
        \A i \in parsed : /\ lines[i].text.prev_hash = prev(i)
                          /\ lines[i].text.record_hash = Append(prev(i), lines[i].text.event)
  BY DEF verify_chain
<1> HIDE DEF parsed, prev
<1>4. QED
  BY <1>1, <1>2, <1>3 DEF Links

LEMMA BuiltRecord ==
  ASSUME NEW event \in Event, NEW prev \in Hash, NEW record, record = build_record(event, prev)
  PROVE  record \in Record /\ record # Torn /\ record.record_hash \in Hash
<1>1. Append(prev, event) \in Hash
  BY DEF Hash
<1>2. record \in Record /\ record.record_hash \in Hash
  BY <1>1 DEF build_record, Record
<1>3. "event" \in DOMAIN record /\ "event" \notin DOMAIN Torn
  BY DEF build_record, Torn
<1>4. QED
  BY <1>2, <1>3

LEMMA RecoveredIsHash ==
  ASSUME NEW lines \in Seq(Line)
  PROVE  recover_last_hash(lines) \in Hash
<1>1. CASE lines = <<>> \/ lines[Len(lines)].text = Torn
  BY <1>1 DEF recover_last_hash, Hash, GENESIS
<1>2. CASE lines # <<>> /\ lines[Len(lines)].text # Torn
  <2>1. lines[Len(lines)] \in Line
    BY <1>2
  <2>2. lines[Len(lines)].text \in Record
    BY <1>2, <2>1 DEF Line
  <2>3. QED
    BY <1>2, <2>2 DEF recover_last_hash, Record
<1>3. QED
  BY <1>1, <1>2

\* An instance that remembers the last hash of a chain continues it.
LEMMA ChainGrows ==
  ASSUME NEW lines \in Seq(Line), verify_chain(lines), NEW event \in Event, NEW record,
         record = build_record(event, recover_last_hash(lines)), NEW new,
         new = Append(lines, [text |-> record, newline |-> TRUE])
  PROVE  verify_chain(new) /\ recover_last_hash(new) = record.record_hash
<1> DEFINE n == Len(lines)
           last == recover_last_hash(lines)
<1>1. Readable(lines)
  BY DEF verify_chain
<1>3. last = IF n = 0 THEN GENESIS ELSE lines[n].text.record_hash
  BY <1>1 DEF recover_last_hash, Readable
<1>4. last \in Hash
  BY RecoveredIsHash
<1>5. record \in Record /\ record # Torn
  BY <1>4, BuiltRecord
<1>6. /\ new \in Seq(Line) /\ Len(new) = n + 1
      /\ new[n + 1].text = record /\ \A i \in 1..n : new[i] = lines[i]
  BY <1>5 DEF Line
<1>7. Readable(new)
  BY <1>1, <1>5, <1>6 DEF Readable
<1>8. ASSUME NEW i \in 1..(n + 1)
      PROVE  Links(new, i)
  <2>1. CASE i = n + 1
    <3>1. (IF i = 1 THEN GENESIS ELSE new[i - 1].text.record_hash) = last
      BY <1>3, <1>6, <2>1
    <3>2. record.prev_hash = last /\ record.record_hash = Append(last, record.event)
      BY DEF build_record
    <3>3. QED
      BY <1>6, <2>1, <3>1, <3>2 DEF Links
  <2>2. CASE i \in 1..n
    <3>1. new[i] = lines[i] /\ (i # 1 => new[i - 1] = lines[i - 1])
      BY <1>6, <2>2
    <3>2. Links(lines, i)
      BY <2>2, ChainLinks
    <3>3. QED
      BY <3>1, <3>2 DEF Links
  <2>3. QED
    BY <2>1, <2>2
<1>9. verify_chain(new)
  <2>1. \A i \in 1..Len(new) : Links(new, i)
    BY <1>6, <1>8
  <2>2. QED
    BY <1>6, <1>7, <2>1, ChainLinks
<1>10. new # <<>> /\ new[Len(new)].text # Torn
  BY <1>5, <1>6
<1>11. QED
  BY <1>6, <1>9, <1>10 DEF recover_last_hash

\* What an action does to the ledger.
Opens(w)   == w \in Writer /\ Open(w) /\ overlap' = (overlap \/ Live # {}) /\ UNCHANGED crashed
Appends(w) == w \in Writer /\ (\E event \in Event : append(w, event)) /\ UNCHANGED <<overlap, crashed>>
Dies(w)    == w \in Writer /\ Die(w) /\ UNCHANGED <<overlap, crashed>>
IsCut(w)   == w \in Writer /\ (\E event \in Event : DieWriting(w, event)) /\ UNCHANGED overlap /\ crashed' = TRUE

LEMMA OpensKeepsLedger == ASSUME LedgerInv, NEW w, Opens(w) PROVE LedgerInv'
<1> USE DEF Opens, Open
<1>1. FileOK'
  BY RecoveredIsHash DEF LedgerInv, FileOK
<1>2. KeptOrTorn'
  BY DEF LedgerInv, KeptOrTorn
<1>3. Live' = Live \cup {w}
  BY RecoveredIsHash, ClosedAssumption DEF LedgerInv, FileOK, Live
<1>4. SoleWriterContinues'
  <2>1. SUFFICES ASSUME ~overlap' PROVE SoleWriterContinues'
    BY DEF SoleWriterContinues
  <2>2. Live' = {w} /\ ~overlap
    BY <1>3, <2>1
  <2>3. last_hash'[w] = recover_last_hash(file')
    BY DEF LedgerInv, FileOK
  <2>4. QED
    BY <2>2, <2>3 DEF LedgerInv, SoleWriterContinues
<1>5. QED
  BY <1>1, <1>2, <1>4 DEF LedgerInv

LEMMA AppendsKeepsLedger == ASSUME LedgerInv, NEW w, Appends(w) PROVE LedgerInv'
<1>1. PICK event \in Event : append(w, event)
  BY DEF Appends
<1> DEFINE record == build_record(event, last_hash[w])
<1>2. w \in Writer /\ w \in Live /\ last_hash[w] \in Hash /\ UNCHANGED <<overlap, crashed>>
  BY <1>1 DEF Appends, append, LedgerInv, FileOK, Live
<1>3. record \in Record /\ record # Torn /\ record.record_hash \in Hash
  BY <1>2, BuiltRecord
<1>4. /\ file' = Written(file, record, TRUE)
      /\ last_hash' = [last_hash EXCEPT ![w] = record.record_hash]
      /\ acknowledged' = acknowledged \cup {record.record_hash}
  BY <1>1 DEF append
<1> HIDE DEF record
<1>5. /\ file' \in Seq(Line) /\ Len(file') \in DOMAIN file'
      /\ \A i \in DOMAIN file : file[i].newline => i \in DOMAIN file' /\ file'[i] = file[i]
      /\ file'[Len(file')].newline = TRUE /\ file'[Len(file')].text \in {record, Torn}
      /\ (\A i \in DOMAIN file : file[i].newline) =>
           file' = Append(file, [text |-> record, newline |-> TRUE])
  <2>1. record \in {Torn} \cup Record /\ TRUE \in BOOLEAN /\ file \in Seq(Line)
    BY <1>3 DEF LedgerInv, FileOK
  <2>2. Extends(file', file, record, TRUE)
    BY <1>4, <2>1, WrittenLines
  <2>3. QED
    BY <2>2 DEF Extends
<1>6. FileOK'
  BY <1>2, <1>3, <1>4, <1>5 DEF LedgerInv, FileOK
<1>7. KeptOrTorn'
  <2>1. CASE \E i \in DOMAIN file : file[i].text = Torn /\ file[i].newline
    BY <1>5, <2>1 DEF KeptOrTorn
  <2>2. CASE file'[Len(file')].text = Torn
    BY <1>5, <2>2 DEF KeptOrTorn
  <2>3. CASE /\ file'[Len(file')].text = record
             /\ \A h \in acknowledged : \E i \in DOMAIN file :
                  file[i].newline /\ file[i].text # Torn /\ file[i].text.record_hash = h
    <3>1. ASSUME NEW h \in acknowledged'
          PROVE  \E i \in DOMAIN file' :
                   file'[i].newline /\ file'[i].text # Torn /\ file'[i].text.record_hash = h
      <4>1. CASE h \in acknowledged
        BY <1>5, <2>3, <4>1
      <4>2. CASE h = record.record_hash
        BY <1>3, <1>5, <2>3, <4>2
      <4>3. QED
        BY <1>4, <3>1, <4>1, <4>2
    <3>2. QED
      BY <3>1 DEF KeptOrTorn
  <2>4. QED
    BY <1>5, <2>1, <2>2, <2>3 DEF LedgerInv, KeptOrTorn
<1>8. SoleWriterContinues'
  <2>1. Live' = Live
    BY <1>2, <1>3, <1>4, ClosedAssumption DEF Live, LedgerInv, FileOK
  <2>2. SUFFICES ASSUME ~overlap, ~crashed
                 PROVE  /\ verify_chain(file')
                        /\ \A i \in DOMAIN file' : file'[i].newline
                        /\ \A v \in Live' : last_hash'[v] = recover_last_hash(file')
    BY <1>2, <2>1 DEF LedgerInv, SoleWriterContinues
  <2>3. /\ verify_chain(file) /\ \A i \in DOMAIN file : file[i].newline
        /\ last_hash[w] = recover_last_hash(file) /\ \A v \in Live : v = w
    BY <1>2, <2>2 DEF LedgerInv, SoleWriterContinues
  <2>4. file' = Append(file, [text |-> record, newline |-> TRUE])
    BY <1>5, <2>3
  <2>5. verify_chain(file') /\ recover_last_hash(file') = record.record_hash
    BY <2>3, <2>4, ChainGrows DEF LedgerInv, FileOK, record
  <2>6. \A i \in DOMAIN file' : file'[i].newline
    BY <2>3, <2>4 DEF LedgerInv, FileOK
  <2>7. \A v \in Live' : last_hash'[v] = recover_last_hash(file')
    BY <1>2, <1>4, <2>1, <2>3, <2>5 DEF LedgerInv, FileOK
  <2>8. QED
    BY <2>5, <2>6, <2>7
<1>9. QED
  BY <1>2, <1>6, <1>7, <1>8 DEF LedgerInv

LEMMA DiesKeepsLedger == ASSUME LedgerInv, NEW w, Dies(w) PROVE LedgerInv'
<1> USE DEF Dies, Die
<1>1. FileOK' /\ KeptOrTorn'
  BY DEF LedgerInv, FileOK, KeptOrTorn
<1>2. Live' \subseteq Live /\ \A v \in Live' : last_hash'[v] = last_hash[v]
  BY DEF Live, LedgerInv, FileOK
<1>3. QED
  BY <1>1, <1>2 DEF LedgerInv, SoleWriterContinues

LEMMA IsCutKeepsLedger == ASSUME LedgerInv, NEW w, IsCut(w) PROVE LedgerInv'
<1>1. PICK event \in Event : DieWriting(w, event)
  BY DEF IsCut
<1> DEFINE record == build_record(event, last_hash[w])
<1>2. PICK text \in {Torn, record}, newline \in BOOLEAN : file' = Written(file, text, newline)
  BY <1>1 DEF DieWriting
<1>3. w \in Writer /\ last_hash[w] \in Hash
  BY <1>1 DEF IsCut, DieWriting, LedgerInv, FileOK
<1>4. record \in Record /\ newline \in BOOLEAN
  BY <1>2, <1>3, BuiltRecord
<1>5. /\ file' \in Seq(Line)
      /\ \A i \in DOMAIN file : file[i].newline => i \in DOMAIN file' /\ file'[i] = file[i]
  <2>1. text \in {Torn} \cup Record /\ file \in Seq(Line)
    BY <1>2, <1>4 DEF LedgerInv, FileOK
  <2>2. Extends(file', file, text, newline)
    BY <1>2, <2>1, WrittenLines
  <2>3. QED
    BY <2>2 DEF Extends
<1>6. last_hash' = [last_hash EXCEPT ![w] = Closed] /\ UNCHANGED acknowledged
  BY <1>1 DEF DieWriting
<1>7. FileOK'
  BY <1>5, <1>6 DEF LedgerInv, FileOK
<1>8. KeptOrTorn'
  BY <1>5, <1>6 DEF LedgerInv, KeptOrTorn
<1>9. Live' \subseteq Live
  BY <1>6 DEF Live, LedgerInv, FileOK
<1>10. QED
  BY <1>7, <1>8, <1>9 DEF LedgerInv, SoleWriterContinues, IsCut

-----------------------------------------------------------------------------
(***************************************************************************)
(* One decision, and what is applied after it.                             *)
(***************************************************************************)
\* What has no human behind it and is allowed got past every rule.
LEMMA AllowedByRules ==
  ASSUME NEW s, NEW call, NEW cfg, NEW rng,
         ~Resolves(s.pending_transition), decide(s, call, cfg, rng) = "ALLOW"
  PROVE  /\ ~s.circuit_tripped /\ ~Replayed(s, call) /\ call.params.canonical
         /\ ~Exhausted(cfg, s) /\ ~Threshold(cfg, s) /\ ~Overrun(cfg, s, call)
         /\ ~Repeated(cfg, s, call) /\ ~call.params.opaque /\ cfg.hitl_mode # "always"
BY DEF decide

LEMMA AppliedAllow ==
  ASSUME NEW s \in Session(Nonce, Transitions), NEW call \in Calls, NEW t, t = call.tool_name,
         NEW new, new = apply_allow(s, call)
  PROVE  /\ new \in Session(Nonce, Transitions)
         /\ new.budget_initial_usd = s.budget_initial_usd
         /\ new.budget_remaining_usd = s.budget_remaining_usd
         /\ new.budget_spent_usd = s.budget_spent_usd
         /\ new.total_calls = s.total_calls + 1
         /\ new.seen_nonces = s.seen_nonces \cup {call.nonce}
         /\ new.last # Nil /\ new.last.tool = t
         /\ new.repeat_counts[t] = IF SameAsLast(s, call) THEN s.repeat_counts[t] + 1 ELSE 1
<1>1. t \in Tool /\ call.params.digest \in Nat /\ call.nonce \in Nonce
  BY SessionAssumption DEF Calls, ToolCall, Parameters
<1> DEFINE counts  == [s.repeat_counts EXCEPT ![t] = IF SameAsLast(s, call) THEN @ + 1 ELSE 1]
           windows == [s.window_counts EXCEPT ![t] = @ + 1]
           last    == [tool |-> t, digest |-> call.params.digest]
<1>2. new = [s EXCEPT !.total_calls = @ + 1, !.seen_nonces = @ \cup {call.nonce},
                      !.repeat_counts = counts, !.window_counts = windows, !.last = last]
  BY DEF apply_allow, Session
<1>3. /\ counts \in [Tool -> Nat] /\ windows \in [Tool -> Nat] /\ last \in LastCall
      /\ counts[t] = IF SameAsLast(s, call) THEN s.repeat_counts[t] + 1 ELSE 1
  BY <1>1 DEF Session, LastCall
<1>4. last # Nil /\ last.tool = t
  BY <1>3, SessionAssumption
<1> HIDE DEF counts, windows, last
<1>5. s.total_calls + 1 \in Nat /\ s.seen_nonces \cup {call.nonce} \in SUBSET Nonce
  <2>1. s.total_calls \in Nat /\ s.seen_nonces \in SUBSET Nonce
    BY DEF Session
  <2>2. QED
    BY <1>1, <2>1
<1>6. new \in Session(Nonce, Transitions)
  BY <1>2, <1>3, <1>5 DEF Session
<1>7. /\ new.budget_initial_usd = s.budget_initial_usd
      /\ new.budget_remaining_usd = s.budget_remaining_usd
      /\ new.budget_spent_usd = s.budget_spent_usd
      /\ new.total_calls = s.total_calls + 1
      /\ new.seen_nonces = s.seen_nonces \cup {call.nonce}
      /\ new.last = last /\ new.repeat_counts = counts
  BY <1>2 DEF Session
<1>8. QED
  BY <1>3, <1>4, <1>6, <1>7

LEMMA AppliedDeny ==
  ASSUME NEW s \in Session(Nonce, Transitions), NEW new, new = apply_deny(s)
  PROVE  /\ new \in Session(Nonce, Transitions)
         /\ new.budget_initial_usd = s.budget_initial_usd
         /\ new.budget_remaining_usd = s.budget_remaining_usd
         /\ new.budget_spent_usd = s.budget_spent_usd
         /\ new.total_calls = s.total_calls /\ new.seen_nonces = s.seen_nonces
         /\ new.last = s.last /\ new.repeat_counts = s.repeat_counts
BY DEF apply_deny, Session

LEMMA AppliedCost ==
  ASSUME NEW s \in Session(Nonce, Transitions), NEW cost \in Nat,
         s.budget_remaining_usd = Left(s), NEW new, new = apply_post_exec(s, cost)
  PROVE  /\ new \in Session(Nonce, Transitions)
         /\ new.budget_initial_usd = s.budget_initial_usd
         /\ new.budget_remaining_usd = Left(new)
         /\ new.budget_spent_usd = s.budget_spent_usd + cost
         /\ new.total_calls = s.total_calls /\ new.seen_nonces = s.seen_nonces
         /\ new.last = s.last /\ new.repeat_counts = s.repeat_counts
<1>1. CASE cost <= 0
  BY <1>1 DEF apply_post_exec, Session
<1>2. CASE cost > 0
  <2> DEFINE left == s.budget_initial_usd - s.budget_spent_usd - cost
             rest == IF left > 0 THEN left ELSE 0
  <2>1. new = [s EXCEPT !.budget_spent_usd = @ + cost, !.budget_remaining_usd = rest]
    BY <1>2 DEF apply_post_exec
  <2>2. rest \in Nat
    BY DEF Session
  <2> HIDE DEF rest
  <2> DEFINE paid == s.budget_spent_usd + cost
  <2>3. paid \in Nat
    BY DEF Session
  <2>4. new = [s EXCEPT !.budget_spent_usd = paid, !.budget_remaining_usd = rest]
    BY <2>1 DEF Session
  <2> HIDE DEF paid
  <2>5. /\ new \in Session(Nonce, Transitions)
        /\ new.budget_initial_usd = s.budget_initial_usd
        /\ new.budget_remaining_usd = rest
        /\ new.budget_spent_usd = paid
        /\ new.total_calls = s.total_calls /\ new.seen_nonces = s.seen_nonces
        /\ new.last = s.last /\ new.repeat_counts = s.repeat_counts
    BY <2>2, <2>3, <2>4 DEF Session
  <2>6. Left(new) = rest
    BY <2>5 DEF Left, rest, paid, Session
  <2>7. QED
    BY <2>5, <2>6 DEF paid
<1>3. QED
  BY <1>1, <1>2

LEMMA NewSession ==
  ASSUME NEW cfg \in GuardConfig, NEW new, new = SessionState(cfg)
  PROVE  /\ new \in Session(Nonce, Transitions)
         /\ new.budget_initial_usd = cfg.budget_usd
         /\ new.budget_remaining_usd = Left(new) /\ new.budget_spent_usd = 0
         /\ new.total_calls = 0 /\ new.seen_nonces = {} /\ new.last = Nil
BY DEF SessionState, Session, GuardConfig, Left

-----------------------------------------------------------------------------
(***************************************************************************)
(* The sessions.                                                           *)
(***************************************************************************)
\* An action moves the session of one host.
Others(w) ==
  /\ config' = config
  /\ \A v \in Host \ {w} :
       /\ state'[v] = state[v] /\ running'[v] = running[v]
       /\ repeats'[v] = repeats[v] /\ released'[v] = released[v]

LEMMA OthersKeepHostInv ==
  ASSUME SessionsInv, NEW w \in Host, Others(w), HostInv(w)', SessionsTyped'
  PROVE  SessionsInv'
<1>1. ASSUME NEW v \in Host \ {w} PROVE HostInv(v)'
  <2>1. HostInv(v)
    BY DEF SessionsInv
  <2>2. /\ state'[v] = state[v] /\ running'[v] = running[v]
        /\ repeats'[v] = repeats[v] /\ released'[v] = released[v] /\ config' = config
    BY DEF Others
  <2>3. QED
    BY <2>1, <2>2 DEF HostInv, DownIsEmpty, CountsAgree, MoneyAgrees, Used
<1>2. QED
  BY <1>1 DEF SessionsInv

LEMMA Product == ASSUME NEW a \in Nat, NEW b \in Nat, NEW c \in Nat, a <= b PROVE a * c <= b * c
OBVIOUS

LEMMA StartKeepsSessions ==
  ASSUME SessionsInv, NEW w \in Host, state[w] = Nil,
         state' = [state EXCEPT ![w] = SessionState(config)],
         UNCHANGED <<config, running, repeats, released>>
  PROVE  SessionsInv'
<1> DEFINE s == state'[w]
<1>1. /\ s = SessionState(config) /\ s \in Session(Nonce, Transitions)
      /\ s.budget_initial_usd = config.budget_usd /\ s.budget_remaining_usd = Left(s)
      /\ s.budget_spent_usd = 0 /\ s.total_calls = 0 /\ s.last = Nil
  BY NewSession DEF SessionsInv, SessionsTyped
<1>2. SessionsTyped'
  BY <1>1 DEF SessionsInv, SessionsTyped
<1>3. HostInv(w) /\ running[w] = 0 /\ repeats[w] = 0 /\ \A n \in Nonce : released[w][n] = 0
  BY DEF SessionsInv, HostInv, DownIsEmpty
<1>4. Used(w)' = {} /\ IsFiniteSet({}) /\ Cardinality({}) = 0
  BY <1>3, FS_EmptySet DEF Used
<1>5. CountsAgree(w)'
  BY <1>1, <1>3, <1>4 DEF CountsAgree
<1>6. MoneyAgrees(w)'
  <2>1. config.budget_usd \in Nat /\ MaxRunning * MaxCost \in Nat
    BY SessionAssumption DEF SessionsInv, SessionsTyped, GuardConfig
  <2>2. QED
    BY <1>1, <1>3, <2>1, SessionAssumption DEF MoneyAgrees
<1>7. HostInv(w)'
  BY <1>1, <1>3, <1>5, <1>6, SessionAssumption DEF HostInv, DownIsEmpty
<1>8. QED
  BY <1>2, <1>7, OthersKeepHostInv DEF Others, SessionsInv, SessionsTyped

LEMMA LostKeepsSessions ==
  ASSUME SessionsInv, NEW w \in Host, Lost(w)
  PROVE  SessionsInv'
<1> USE DEF Lost
<1>1. SessionsTyped'
  BY DEF SessionsInv, SessionsTyped
<1>2. state'[w] = Nil /\ running'[w] = 0 /\ repeats'[w] = 0 /\ \A n \in Nonce : released'[w][n] = 0
  BY DEF SessionsInv, SessionsTyped
<1>3. config.max_repeat_calls \in Nat /\ config' = config
  BY DEF SessionsInv, SessionsTyped, GuardConfig
<1>4. HostInv(w)'
  BY <1>2, <1>3, SessionAssumption DEF HostInv, DownIsEmpty, CountsAgree, MoneyAgrees
<1>5. QED
  BY <1>1, <1>4, OthersKeepHostInv DEF Others, SessionsInv, SessionsTyped

LEMMA DecidedKeepsSessions ==
  ASSUME SessionsInv, NEW w \in Host, NEW p \in Transitions \cup {Nil}, Decided(w, p)
  PROVE  SessionsInv'
<1> DEFINE s == state[w]
           new == state'[w]
<1>1. /\ s # Nil /\ state' = [state EXCEPT ![w].pending_transition = p]
      /\ UNCHANGED <<config, running, repeats, released>>
  BY DEF Decided
<1>2. s \in Session(Nonce, Transitions) /\ new = [s EXCEPT !.pending_transition = p]
  BY <1>1 DEF SessionsInv, SessionsTyped
<1>3. /\ new \in Session(Nonce, Transitions)
      /\ new.budget_initial_usd = s.budget_initial_usd
      /\ new.budget_remaining_usd = s.budget_remaining_usd
      /\ new.budget_spent_usd = s.budget_spent_usd
      /\ new.total_calls = s.total_calls /\ new.seen_nonces = s.seen_nonces
      /\ new.last = s.last /\ new.repeat_counts = s.repeat_counts
  BY <1>2 DEF Session
<1>4. SessionsTyped'
  BY <1>1, <1>2, <1>3 DEF SessionsInv, SessionsTyped
<1>5. new # Nil
  BY <1>3, SessionAssumption
<1>6. HostInv(w)
  BY DEF SessionsInv
<1>7. HostInv(w)'
  BY <1>1, <1>3, <1>5, <1>6 DEF HostInv, DownIsEmpty, CountsAgree, MoneyAgrees, Used, Left
<1>8. QED
  BY <1>1, <1>4, <1>7, OthersKeepHostInv DEF Others, SessionsInv, SessionsTyped

LEMMA ReportKeepsSessions ==
  ASSUME SessionsInv, NEW w \in Host, NEW cost \in Cost, Report(w, cost)
  PROVE  SessionsInv'
<1> DEFINE s == state[w]
           new == state'[w]
<1>1. /\ s # Nil /\ running[w] > 0 /\ state' = [state EXCEPT ![w] = apply_post_exec(s, cost)]
      /\ running' = [running EXCEPT ![w] = @ - 1]
      /\ UNCHANGED <<config, repeats, released>>
  BY DEF Report
<1>2. s \in Session(Nonce, Transitions) /\ new = apply_post_exec(s, cost)
  BY <1>1 DEF SessionsInv, SessionsTyped
<1>3. HostInv(w) /\ s.budget_remaining_usd = Left(s) /\ cost \in Nat /\ cost <= MaxCost
  BY <1>1, SessionAssumption DEF SessionsInv, HostInv, MoneyAgrees
<1>4. /\ new \in Session(Nonce, Transitions)
      /\ new.budget_initial_usd = s.budget_initial_usd
      /\ new.budget_remaining_usd = Left(new)
      /\ new.budget_spent_usd = s.budget_spent_usd + cost
      /\ new.total_calls = s.total_calls /\ new.seen_nonces = s.seen_nonces
      /\ new.last = s.last /\ new.repeat_counts = s.repeat_counts
  BY <1>2, <1>3, AppliedCost
<1>5. running[w] \in Nat /\ running'[w] = running[w] - 1 /\ running'[w] \in Nat
  BY <1>1 DEF SessionsInv, SessionsTyped
<1>6. SessionsTyped'
  BY <1>1, <1>2, <1>4, <1>5 DEF SessionsInv, SessionsTyped
<1>7. new # Nil
  BY <1>4, SessionAssumption
<1>8. CountsAgree(w)'
  BY <1>1, <1>3, <1>4 DEF HostInv, CountsAgree, Used
<1>9. MoneyAgrees(w)'
  <2>1. s.budget_spent_usd \in Nat /\ s.budget_initial_usd \in Nat /\ Used(w)' = Used(w)
    BY <1>1, <1>2 DEF Session, Used
  <2>2. running'[w] * MaxCost + MaxCost = running[w] * MaxCost
    BY <1>5, SessionAssumption
  <2>3. /\ running'[w] * MaxCost \in Nat /\ running[w] * MaxCost \in Nat /\ MaxRunning * MaxCost \in Nat
        /\ MaxCost \in Nat
    BY <1>5, SessionAssumption
  <2>4. s.budget_initial_usd = config.budget_usd /\ config' = config
    BY <1>1, <1>3 DEF HostInv, MoneyAgrees
  <2>5. ASSUME config.budget_usd > 0, new.total_calls = Cardinality(Used(w)')
        PROVE  new.budget_spent_usd + running'[w] * MaxCost
                 < new.budget_initial_usd + MaxRunning * MaxCost
    <3>1. s.budget_spent_usd + running[w] * MaxCost < s.budget_initial_usd + MaxRunning * MaxCost
      BY <1>1, <1>3, <1>4, <2>1, <2>5 DEF HostInv, MoneyAgrees
    <3>2. QED
      BY <1>3, <1>4, <2>1, <2>2, <2>3, <3>1
  <2>6. QED
    BY <1>4, <2>4, <2>5 DEF MoneyAgrees
<1>10. HostInv(w)'
  BY <1>1, <1>3, <1>5, <1>7, <1>8, <1>9, SessionAssumption DEF HostInv, DownIsEmpty
<1>11. QED
  BY <1>1, <1>6, <1>10, OthersKeepHostInv DEF Others, SessionsInv, SessionsTyped

\* A verdict that releases nothing.
LEMMA HeldKeepsHost ==
  ASSUME SessionsInv, NEW w \in Host, NEW s, s = state[w], s # Nil, NEW new, new = state'[w],
         new \in Session(Nonce, Transitions),
         new.budget_initial_usd = s.budget_initial_usd,
         new.budget_remaining_usd = s.budget_remaining_usd,
         new.budget_spent_usd = s.budget_spent_usd,
         new.total_calls = s.total_calls, new.seen_nonces = s.seen_nonces,
         new.last = s.last, new.repeat_counts = s.repeat_counts, config' = config,
         running'[w] = running[w], repeats'[w] = repeats[w], released'[w] = released[w]
  PROVE  HostInv(w)'
<1>1. HostInv(w)
  BY DEF SessionsInv
<1>2. new # Nil
  BY SessionAssumption
<1>3. QED
  BY <1>1, <1>2 DEF HostInv, DownIsEmpty, CountsAgree, MoneyAgrees, Used, Left

\* A release: the counts grow with the histories, and money may be committed only
\* while some is left.
LEMMA ReleaseKeepsHost ==
  ASSUME SessionsInv, NEW w \in Host, NEW s, s = state[w], s # Nil, NEW new, new = state'[w],
         NEW call \in Calls, NEW rng, decide(s, call, config, rng) = "ALLOW",
         NEW human \in BOOLEAN, human = Resolves(s.pending_transition),
         new = apply_allow(s, call), config' = config,
         running[w] < MaxRunning, running'[w] = running[w] + 1,
         repeats'[w] = IF human THEN 0 ELSE IF SameAsLast(s, call) THEN repeats[w] + 1 ELSE 1,
         released'[w] = [released[w] EXCEPT ![call.nonce] = IF human THEN @ ELSE @ + 1]
  PROVE  HostInv(w)'
<1> DEFINE t == call.tool_name
           n == call.nonce
<1>1. /\ HostInv(w) /\ s \in Session(Nonce, Transitions) /\ config \in GuardConfig
      /\ running[w] \in Nat /\ repeats[w] \in Nat /\ released[w] \in [Nonce -> Nat]
  BY DEF SessionsInv, SessionsTyped
<1>2. t \in Tool /\ n \in Nonce
  BY SessionAssumption DEF Calls, ToolCall
<1>3. /\ new \in Session(Nonce, Transitions)
      /\ new.budget_initial_usd = s.budget_initial_usd
      /\ new.budget_remaining_usd = s.budget_remaining_usd
      /\ new.budget_spent_usd = s.budget_spent_usd
      /\ new.total_calls = s.total_calls + 1
      /\ new.seen_nonces = s.seen_nonces \cup {n}
      /\ new.last # Nil /\ new.last.tool = t
      /\ new.repeat_counts[t] = IF SameAsLast(s, call) THEN s.repeat_counts[t] + 1 ELSE 1
  BY <1>1, AppliedAllow
<1>4. new # Nil
  BY <1>3, SessionAssumption
<1>5. /\ s.total_calls \in Nat /\ s.budget_spent_usd \in Nat /\ s.budget_initial_usd \in Nat
      /\ s.repeat_counts \in [Tool -> Nat] /\ new.repeat_counts \in [Tool -> Nat]
  BY <1>1, <1>3 DEF Session
<1>6. SameAsLast(s, call) => s.last # Nil /\ s.last.tool = t
  <2>1. [tool |-> t, digest |-> call.params.digest] \in LastCall
    BY <1>2, SessionAssumption DEF LastCall, Calls, ToolCall, Parameters
  <2>2. QED
    BY <2>1, SessionAssumption DEF SameAsLast
<1>7. repeats'[w] <= new.repeat_counts[t]
  BY <1>1, <1>2, <1>3, <1>5, <1>6 DEF HostInv, CountsAgree
<1>8. ~human => n \notin s.seen_nonces /\ released[w][n] = 0
  <2>1. ~human => n \notin s.seen_nonces
    BY AllowedByRules DEF Replayed
  <2>2. n \notin s.seen_nonces => released[w][n] = 0
    BY <1>1, <1>2 DEF HostInv, CountsAgree, Used
  <2>3. QED
    BY <2>1, <2>2
<1>9. Used(w)' = IF human THEN Used(w) ELSE Used(w) \cup {n}
  BY <1>1, <1>2 DEF Used
<1>10. IsFiniteSet(Used(w)) /\ Cardinality(Used(w)) \in Nat /\ Cardinality(Used(w)) <= s.total_calls
  BY <1>1, FS_CardinalityType DEF HostInv, CountsAgree
<1>11. /\ IsFiniteSet(Used(w)')
       /\ Cardinality(Used(w)') = IF human THEN Cardinality(Used(w)) ELSE Cardinality(Used(w)) + 1
  <2>1. ~human => n \notin Used(w)
    BY <1>8 DEF Used
  <2>2. CASE human
    BY <1>9, <1>10, <2>2
  <2>3. CASE ~human
    BY <1>9, <1>10, <2>1, <2>3, FS_AddElement
  <2>4. QED
    BY <2>2, <2>3
<1>12. CountsAgree(w)'
  <2>1. Used(w)' \subseteq new.seen_nonces
    BY <1>1, <1>3, <1>9 DEF HostInv, CountsAgree
  <2>2. Cardinality(Used(w)') <= new.total_calls
    BY <1>3, <1>5, <1>10, <1>11
  <2>3. QED
    BY <1>3, <1>7, <1>11, <2>1, <2>2 DEF CountsAgree
<1>13. MoneyAgrees(w)'
  <2>1. /\ s.budget_initial_usd = config.budget_usd
        /\ s.budget_remaining_usd = Left(s) /\ new.budget_remaining_usd = Left(new)
    BY <1>1, <1>3 DEF HostInv, MoneyAgrees, Left
  <2>2. ASSUME config.budget_usd > 0, new.total_calls = Cardinality(Used(w)')
        PROVE  new.budget_spent_usd + running'[w] * MaxCost
                 < new.budget_initial_usd + MaxRunning * MaxCost
    <3>1. ~human
      BY <1>3, <1>5, <1>10, <1>11, <2>2
    <3>2. s.budget_spent_usd < s.budget_initial_usd
      BY <1>5, <2>1, <2>2, <3>1, AllowedByRules DEF Exhausted, Left
    <3>3. running'[w] \in Nat /\ running'[w] <= MaxRunning /\ MaxRunning \in Nat /\ MaxCost \in Nat
      BY <1>1, SessionAssumption
    <3>4. /\ running'[w] * MaxCost \in Nat /\ MaxRunning * MaxCost \in Nat
          /\ running'[w] * MaxCost <= MaxRunning * MaxCost
      BY <3>3, Product
    <3>5. QED
      BY <1>3, <1>5, <3>2, <3>4
  <2>3. QED
    BY <1>3, <2>1, <2>2 DEF MoneyAgrees
<1>14. config.max_repeat_calls > 0 => repeats'[w] <= config.max_repeat_calls
  <2>1. config.max_repeat_calls \in Nat
    BY <1>1 DEF GuardConfig
  <2>2. SUFFICES ASSUME config.max_repeat_calls > 0, ~human, SameAsLast(s, call)
                 PROVE  repeats[w] + 1 <= config.max_repeat_calls
    BY <1>1, <2>1
  <2>3. ~(s.repeat_counts[t] >= RepeatLimit(config, call))
    BY <2>2, AllowedByRules DEF Repeated
  <2>4. RepeatLimit(config, call) \in Nat /\ RepeatLimit(config, call) <= config.max_repeat_calls
    BY <2>1 DEF RepeatLimit
  <2>5. repeats[w] <= s.repeat_counts[t]
    BY <1>1, <1>6, <2>2 DEF HostInv, CountsAgree
  <2>6. QED
    BY <1>1, <1>2, <1>5, <2>1, <2>3, <2>4, <2>5
<1>15. \A m \in Nonce : released'[w][m] <= 1
  BY <1>1, <1>2, <1>8 DEF HostInv
<1>16. QED
  BY <1>1, <1>4, <1>12, <1>13, <1>14, <1>15, SessionAssumption DEF HostInv, DownIsEmpty

LEMMA EvaluateKeepsSessions ==
  ASSUME SessionsInv, NEW w \in Host, NEW call \in Calls, NEW rng \in Rng, Evaluate(w, call, rng)
  PROVE  SessionsInv'
<1> DEFINE s       == state[w]
           verdict == decide(s, call, config, rng)
           human   == Resolves(s.pending_transition)
<1>1. /\ s # Nil /\ s \in Session(Nonce, Transitions) /\ running[w] < MaxRunning
      /\ running[w] \in Nat /\ repeats[w] \in Nat /\ released[w] \in [Nonce -> Nat]
  BY DEF Evaluate, SessionsInv, SessionsTyped
<1>2. call.nonce \in Nonce /\ human \in BOOLEAN
  BY DEF Calls, ToolCall, Resolves
<1>3. verdict \in {"ALLOW", "DENY", "HITL"}
  BY DEF decide, Resolution
<1>4. /\ state' = [state EXCEPT ![w] = CASE verdict = "ALLOW" -> apply_allow(s, call)
                                         [] verdict = "DENY"  -> apply_deny(s)
                                         [] verdict = "HITL"  -> s]
      /\ running' = [running EXCEPT ![w] = IF verdict = "ALLOW" THEN @ + 1 ELSE @]
      /\ repeats' = [repeats EXCEPT ![w] =
                       IF verdict # "ALLOW" THEN @
                       ELSE IF human THEN 0 ELSE IF SameAsLast(s, call) THEN @ + 1 ELSE 1]
      /\ released' = [released EXCEPT ![w][call.nonce] =
                        IF verdict = "ALLOW" /\ ~human THEN @ + 1 ELSE @]
      /\ config' = config
  BY DEF Evaluate
<1> HIDE DEF verdict, human
<1>5. Others(w)
  BY <1>4 DEF Others, SessionsInv, SessionsTyped
<1>6. CASE verdict = "ALLOW"
  <2>1. /\ state'[w] = apply_allow(s, call) /\ state'[w] \in Session(Nonce, Transitions)
        /\ running'[w] = running[w] + 1
        /\ repeats'[w] = IF human THEN 0 ELSE IF SameAsLast(s, call) THEN repeats[w] + 1 ELSE 1
        /\ released'[w] = [released[w] EXCEPT ![call.nonce] = IF human THEN @ ELSE @ + 1]
    BY <1>1, <1>2, <1>4, <1>6, AppliedAllow DEF SessionsInv, SessionsTyped
  <2>2. HostInv(w)'
    BY <1>1, <1>2, <1>4, <1>6, <2>1, ReleaseKeepsHost DEF verdict, human
  <2>3. SessionsTyped'
    BY <1>1, <1>2, <1>4, <2>1 DEF SessionsInv, SessionsTyped
  <2>4. QED
    BY <1>5, <2>2, <2>3, OthersKeepHostInv
<1>7. CASE verdict \in {"DENY", "HITL"}
  <2>1. /\ state'[w] = IF verdict = "DENY" THEN apply_deny(s) ELSE s
        /\ running'[w] = running[w] /\ repeats'[w] = repeats[w] /\ released'[w] = released[w]
    BY <1>1, <1>2, <1>4, <1>7 DEF SessionsInv, SessionsTyped
  <2>2. /\ state'[w] \in Session(Nonce, Transitions)
        /\ state'[w].budget_initial_usd = s.budget_initial_usd
        /\ state'[w].budget_remaining_usd = s.budget_remaining_usd
        /\ state'[w].budget_spent_usd = s.budget_spent_usd
        /\ state'[w].total_calls = s.total_calls /\ state'[w].seen_nonces = s.seen_nonces
        /\ state'[w].last = s.last /\ state'[w].repeat_counts = s.repeat_counts
    BY <1>1, <2>1, AppliedDeny
  <2>3. HostInv(w)'
    BY <1>1, <1>4, <2>1, <2>2, HeldKeepsHost
  <2>4. SessionsTyped'
    BY <1>1, <1>2, <1>4, <1>7, <2>1, <2>2 DEF SessionsInv, SessionsTyped
  <2>5. QED
    BY <1>5, <2>3, <2>4, OthersKeepHostInv
<1>8. QED
  BY <1>3, <1>6, <1>7

-----------------------------------------------------------------------------
(***************************************************************************)
(* Both together.                                                          *)
(***************************************************************************)
LEMMA LiveAfter ==
  ASSUME LedgerInv, NEW w
  PROVE  /\ Opens(w) => w \notin Live /\ Live' = Live \cup {w}
         /\ Appends(w) => w \in Live /\ Live' = Live
         /\ Dies(w) \/ IsCut(w) => w \in Live /\ Live' = Live \ {w}
<1>1. last_hash \in [Writer -> Hash \cup {Closed}] /\ file \in Seq(Line)
  BY DEF LedgerInv, FileOK
<1>2. Opens(w) => w \notin Live /\ Live' = Live \cup {w}
  BY <1>1, RecoveredIsHash, ClosedAssumption DEF Opens, Open, Live
<1>3. ASSUME Appends(w) PROVE w \in Live /\ Live' = Live
  <2>1. PICK event \in Event : append(w, event)
    BY <1>3 DEF Appends
  <2>2. w \in Writer /\ last_hash[w] \in Hash
    BY <1>1, <1>3, <2>1 DEF Appends, append
  <2>3. build_record(event, last_hash[w]).record_hash \in Hash
    BY <2>2, BuiltRecord
  <2>4. QED
    BY <1>1, <2>1, <2>2, <2>3, ClosedAssumption DEF append, Live
<1>4. Dies(w) \/ IsCut(w) => w \in Live /\ Live' = Live \ {w}
  BY <1>1 DEF Dies, Die, IsCut, DieWriting, Live
<1>5. QED
  BY <1>2, <1>3, <1>4

LEMMA InitIInv == Init => IInv
<1> SUFFICES ASSUME Init PROVE IInv
  OBVIOUS
<1> USE DEF Init, LedgerInit
<1>1. FileOK /\ Live = {}
  BY DEF FileOK, Live
<1>2. KeptOrTorn
  BY DEF KeptOrTorn
<1>3. verify_chain(file) /\ \A i \in DOMAIN file : file[i].newline
  <2>1. file \in Seq(Line) /\ DOMAIN file = {} /\ Len(file) = 0
    OBVIOUS
  <2>2. Readable(file) /\ \A i \in 1..Len(file) : Links(file, i)
    BY <2>1 DEF Readable
  <2>3. QED
    BY <2>1, <2>2, ChainLinks
<1>4. LedgerInv
  BY <1>1, <1>2, <1>3 DEF LedgerInv, SoleWriterContinues
<1>5. SessionsTyped
  BY SessionAssumption DEF SessionsTyped
<1>6. \A w \in Host : HostInv(w)
  BY SessionAssumption DEF HostInv, DownIsEmpty, CountsAgree, MoneyAgrees, GuardConfig
<1>7. Opened
  BY <1>1 DEF Opened
<1>8. QED
  BY <1>4, <1>5, <1>6, <1>7 DEF IInv, SessionsInv

LEMMA StartKeepsIInv == ASSUME IInv, NEW w \in Host, Start(w) PROVE IInv'
<1>1. LedgerInv /\ SessionsInv /\ Opened
  BY DEF IInv
<1>2. Opens(w)
  BY SessionAssumption DEF Start, Opens
<1>3. w \notin Live /\ Live' = Live \cup {w}
  BY <1>1, <1>2, LiveAfter
<1>4. state[w] = Nil
  BY <1>1, <1>3 DEF Opened
<1>5. SessionsInv'
  BY <1>1, <1>4, StartKeepsSessions DEF Start
<1>6. state' = [state EXCEPT ![w] = SessionState(config)] /\ held' = held /\ SessionState(config) # Nil
  BY <1>1, NewSession, SessionAssumption DEF Start, SessionsInv, SessionsTyped
<1>7. Opened'
  BY <1>1, <1>3, <1>6 DEF Opened, SessionsInv, SessionsTyped
<1>8. QED
  BY <1>1, <1>2, <1>5, <1>7, OpensKeepsLedger DEF IInv

LEMMA EvaluateKeepsIInv ==
  ASSUME IInv, NEW w \in Host, NEW call \in Calls, NEW rng \in Rng, Evaluate(w, call, rng)
  PROVE  IInv'
<1>1. LedgerInv /\ SessionsInv /\ Opened
  BY DEF IInv
<1>2. Appends(w)
  BY SessionAssumption DEF Evaluate, Appends, Event
<1>3. w \in Live /\ Live' = Live
  BY <1>1, <1>2, LiveAfter
<1>4. SessionsInv'
  BY <1>1, EvaluateKeepsSessions
<1>5. held' \subseteq held \cup {w} /\ \A v \in Host \ {w} : state'[v] = state[v]
  BY <1>1 DEF Evaluate, SessionsInv, SessionsTyped
<1>6. state'[w] # Nil
  <2>1. state[w] # Nil /\ state[w] \in Session(Nonce, Transitions)
    BY <1>1, <1>3 DEF Opened, SessionsInv, SessionsTyped
  <2>2. /\ apply_allow(state[w], call) \in Session(Nonce, Transitions)
        /\ apply_deny(state[w]) \in Session(Nonce, Transitions)
    BY <2>1, AppliedAllow, AppliedDeny
  <2>3. decide(state[w], call, config, rng) \in {"ALLOW", "DENY", "HITL"}
    BY DEF decide, Resolution
  <2>4. state'[w] \in {apply_allow(state[w], call), apply_deny(state[w]), state[w]}
    BY <1>1, <2>3 DEF Evaluate, SessionsInv, SessionsTyped
  <2>5. QED
    BY <2>1, <2>2, <2>4, SessionAssumption
<1>7. Opened'
  BY <1>1, <1>3, <1>5, <1>6 DEF Opened
<1>8. QED
  BY <1>1, <1>2, <1>4, <1>7, AppendsKeepsLedger DEF IInv

LEMMA DecidedKeepsIInv ==
  ASSUME IInv, NEW w \in Host, NEW p \in Transitions \cup {Nil}, Decided(w, p)
  PROVE  IInv'
<1>1. LedgerInv /\ SessionsInv /\ Opened
  BY DEF IInv
<1>2. LedgerInv' /\ Live' = Live
  BY <1>1 DEF Decided, LedgerInv, ledgerVars, FileOK, KeptOrTorn, SoleWriterContinues, Live
<1>3. SessionsInv'
  BY <1>1, DecidedKeepsSessions
<1>4. /\ state[w] # Nil /\ state[w] \in Session(Nonce, Transitions)
      /\ state' = [state EXCEPT ![w].pending_transition = p] /\ held' = held \ {w}
  BY <1>1 DEF Decided, SessionsInv, SessionsTyped
<1>5. state'[w] # Nil /\ \A v \in Host \ {w} : state'[v] = state[v]
  <2>1. [state[w] EXCEPT !.pending_transition = p] \in Session(Nonce, Transitions)
    BY <1>4 DEF Session
  <2>2. QED
    BY <1>1, <1>4, <2>1, SessionAssumption DEF SessionsInv, SessionsTyped
<1>6. Opened'
  BY <1>1, <1>2, <1>4, <1>5 DEF Opened
<1>7. QED
  BY <1>2, <1>3, <1>6 DEF IInv

LEMMA ReportKeepsIInv ==
  ASSUME IInv, NEW w \in Host, NEW cost \in Cost, Report(w, cost)
  PROVE  IInv'
<1>1. LedgerInv /\ SessionsInv /\ Opened
  BY DEF IInv
<1>2. Appends(w)
  BY SessionAssumption DEF Report, Appends, Event
<1>3. w \in Live /\ Live' = Live
  BY <1>1, <1>2, LiveAfter
<1>4. SessionsInv'
  BY <1>1, ReportKeepsSessions
<1>5. /\ state[w] # Nil /\ state[w] \in Session(Nonce, Transitions) /\ held' = held
      /\ state' = [state EXCEPT ![w] = apply_post_exec(@, cost)]
  BY <1>1 DEF Report, SessionsInv, SessionsTyped
<1>6. state'[w] # Nil /\ \A v \in Host \ {w} : state'[v] = state[v]
  <2>1. state[w].budget_remaining_usd = Left(state[w]) /\ cost \in Nat
    BY <1>1, <1>5, SessionAssumption DEF SessionsInv, HostInv, MoneyAgrees
  <2>2. apply_post_exec(state[w], cost) \in Session(Nonce, Transitions)
    BY <1>5, <2>1, AppliedCost
  <2>3. QED
    BY <1>1, <1>5, <2>2, SessionAssumption DEF SessionsInv, SessionsTyped
<1>7. Opened'
  BY <1>1, <1>3, <1>5, <1>6 DEF Opened
<1>8. QED
  BY <1>1, <1>2, <1>4, <1>7, AppendsKeepsLedger DEF IInv

LEMMA CrashKeepsIInv ==
  ASSUME IInv, NEW w \in Host, Crash(w) \/ CrashWriting(w)
  PROVE  IInv'
<1>1. LedgerInv /\ SessionsInv /\ Opened
  BY DEF IInv
<1>2. Lost(w) /\ (Dies(w) \/ IsCut(w))
  BY SessionAssumption DEF Crash, CrashWriting, Lost, Dies, IsCut, Event
<1>3. LedgerInv' /\ Live' = Live \ {w}
  BY <1>1, <1>2, LiveAfter, DiesKeepsLedger, IsCutKeepsLedger
<1>4. SessionsInv'
  BY <1>1, <1>2, LostKeepsSessions
<1>5. Opened'
  BY <1>1, <1>2, <1>3 DEF Opened, Lost, SessionsInv, SessionsTyped
<1>6. QED
  BY <1>3, <1>4, <1>5 DEF IInv

LEMMA OtherKeepsIInv ==
  ASSUME IInv, NEW w \in Writer \ Host, Other(w)
  PROVE  IInv'
<1>1. LedgerInv /\ SessionsInv /\ Opened
  BY DEF IInv
<1>2. Opens(w) \/ Appends(w) \/ Dies(w)
  BY DEF Other, Opens, Appends, Dies, Event
<1>3. LedgerInv' /\ Live' \ {w} = Live \ {w}
  BY <1>1, <1>2, LiveAfter, OpensKeepsLedger, AppendsKeepsLedger, DiesKeepsLedger
<1>4. UNCHANGED sessionVars
  BY DEF Other
<1>5. SessionsInv'
  BY <1>1, <1>4 DEF SessionsInv, SessionsTyped, HostInv, DownIsEmpty, CountsAgree, MoneyAgrees,
                    Used, sessionVars
<1>6. Opened'
  <2>1. w \notin Host /\ Live' \cap Host = Live \cap Host
    BY <1>3
  <2>2. QED
    BY <1>1, <1>4, <2>1 DEF Opened, sessionVars
<1>7. QED
  BY <1>3, <1>5, <1>6 DEF IInv

LEMMA NextIInv == IInv /\ [Next]_vars => IInv'
<1> SUFFICES ASSUME IInv, [Next]_vars PROVE IInv'
  OBVIOUS
<1>1. CASE UNCHANGED vars
  <2>1. LedgerInv' /\ Opened'
    BY <1>1 DEF vars, sessionVars, ledgerVars, IInv, LedgerInv, FileOK, KeptOrTorn,
                SoleWriterContinues, Opened, Live
  <2>2. SessionsTyped'
    BY <1>1 DEF vars, sessionVars, IInv, SessionsInv, SessionsTyped
  <2>3. ASSUME NEW w \in Host PROVE HostInv(w)'
    <3>1. HostInv(w)
      BY DEF IInv, SessionsInv
    <3>2. QED
      BY <1>1, <3>1 DEF vars, sessionVars, HostInv, DownIsEmpty, CountsAgree, MoneyAgrees, Used
  <2>4. QED
    BY <2>1, <2>2, <2>3 DEF IInv, SessionsInv
<1>2. CASE \E w \in Writer \ Host : Other(w)
  BY <1>2, OtherKeepsIInv
<1>3. ASSUME NEW w \in Host, Start(w) \/ Crash(w) \/ CrashWriting(w) PROVE IInv'
  BY <1>3, StartKeepsIInv, CrashKeepsIInv
<1>4. ASSUME NEW w \in Host, NEW call \in Calls, NEW rng \in Rng, Evaluate(w, call, rng) PROVE IInv'
  BY <1>4, EvaluateKeepsIInv
<1>5. ASSUME NEW w \in Host, NEW p \in Transitions \cup {Nil}, Decided(w, p) PROVE IInv'
  BY <1>5, DecidedKeepsIInv
<1>6. ASSUME NEW w \in Host, NEW cost \in Cost, Report(w, cost) PROVE IInv'
  BY <1>6, ReportKeepsIInv
<1>7. QED
  BY <1>1, <1>2, <1>3, <1>4, <1>5, <1>6 DEF Next

LEMMA Invariance == Spec => []IInv
<1>1. Init => IInv
  BY InitIInv
<1>2. IInv /\ [Next]_vars => IInv'
  BY NextIInv
<1>3. QED
  BY <1>1, <1>2, PTL DEF Spec

-----------------------------------------------------------------------------
(***************************************************************************)
(* The properties.                                                         *)
(***************************************************************************)
\* A session of any length releases no call more often in a row than its limit, no
\* nonce twice, and overspends by no more than the calls that run together cost,
\* however calls, answers, reports and crashes interleave.
THEOREM SessionsKeepTheirLimits == Spec => []SessionInv
<1>1. IInv => SessionInv
  <2> SUFFICES ASSUME IInv PROVE SessionInv
    OBVIOUS
  <2>1. TypeOK
    BY DEF IInv, LedgerInv, SessionsInv, SessionsTyped, Opened, TypeOK
  <2>2. RepeatBound /\ NonceOnce
    BY DEF IInv, SessionsInv, HostInv, RepeatBound, NonceOnce
  <2>3. OverspendBounded
    BY DEF IInv, SessionsInv, HostInv, MoneyAgrees, Used, OverspendBounded
  <2>4. QED
    BY <2>1, <2>2, <2>3 DEF SessionInv
<1>2. QED
  BY <1>1, Invariance, PTL

\* The records append() returned are in every file that verifies, whatever writers
\* interleave and wherever they die.
THEOREM VerifiedIsComplete == Spec => []ValidHoldsAcknowledged
<1>1. IInv => ValidHoldsAcknowledged
  <2> SUFFICES ASSUME IInv, verify_chain(file), NEW h \in acknowledged
               PROVE  \E i \in {j \in DOMAIN file : file[j].text # Torn} : file[i].text.record_hash = h
    BY DEF ValidHoldsAcknowledged
  <2>1. \A i \in DOMAIN file : file[i].text # Torn
    BY DEF verify_chain, Readable
  <2>2. QED
    BY <2>1 DEF IInv, LedgerInv, KeptOrTorn
<1>2. QED
  BY <1>1, Invariance, PTL

\* One writer at a time that is never cut short leaves a file that verifies, across
\* any number of restarts.
THEOREM AloneVerifies == Spec => []SoleWriterVerifies
<1>1. IInv => SoleWriterVerifies
  BY DEF IInv, LedgerInv, SoleWriterContinues, SoleWriterVerifies
<1>2. QED
  BY <1>1, Invariance, PTL

\* A session that fits the core's size limit (canonicalization_error, which covers
\* the nonces): beyond it the core answers malformed_input.
NoncesFit == IsFiniteSet(Nonce) /\ Cardinality(Nonce) <= 1000

\* The core is an instance, whose FiniteSets has a Cardinality of its own.
LEMMA SameCardinality == ASSUME NEW S PROVE Core!Cardinality(S) = Cardinality(S)
BY DEF Core!Cardinality, Cardinality

\* What the certified core's check of its inputs asks, one field at a time.
Acceptable(cf, st, cl) ==
  /\ ~(cf.budget_usd \in {Nil, Bad}) /\ ~(cf.budget_usd < 0)
  /\ ~(cf.max_repeat_calls # Nil /\ (cf.max_repeat_calls = Bad \/ cf.max_repeat_calls < 0))
  /\ cf.hitl_mode \in {Nil, "never", "always", "on_threshold"}
  /\ cf.hitl_budget_threshold \in 0..100
  /\ ~(st.budget_initial_usd = Bad \/ st.budget_initial_usd < 0)
  /\ ~(st.budget_remaining_usd = Bad) /\ st.circuit_tripped = FALSE
  /\ ~(Bad \in {st.seen_nonces, st.pending_transition, st.last_tool_name})
  /\ ~(Core!Cardinality(st.seen_nonces) > 1000)
  /\ ~(st.repeat_count = Bad \/ st.repeat_count < 0)
  /\ ~(cl.tool_name = Bad) /\ ~(cl.digest = Bad)
  /\ ~(cl.estimated_cost_usd = Bad \/ cl.estimated_cost_usd < 0)

LEMMA CoreAccepts ==
  ASSUME NEW cf, NEW st, NEW cl, Acceptable(cf, st, cl)
  PROVE  ~Core!decision_input_error(cf, st, cl)
BY DEF Core!decision_input_error, Acceptable

LEMMA CoreAgrees ==
  ASSUME NoncesFit, IInv, NEW w \in Host, state[w] # Nil, ~Resolves(state[w].pending_transition),
         NEW call \in Calls, NEW rng \in Rng, decide(state[w], call, config, rng) = "ALLOW"
  PROVE  CoreVerdict(state[w], call) = IF ~call.params.core_canonical THEN "DENY"
                                       ELSE IF call.params.core_opaque THEN "HITL" ELSE "ALLOW"
<1> DEFINE s == state[w]
           t == call.tool_name
           max == config.max_repeat_calls
           cc == [budget_usd |-> config.budget_usd,
                  max_repeat_calls |-> IF max = 0 THEN Nil ELSE max,
                  hitl_mode |-> IF config.hitl_mode = "on_deny" THEN "never" ELSE config.hitl_mode,
                  hitl_budget_threshold |-> config.hitl_budget_threshold]
           cs == [budget_initial_usd |-> s.budget_initial_usd,
                  budget_remaining_usd |-> s.budget_remaining_usd,
                  circuit_tripped |-> s.circuit_tripped,
                  seen_nonces |-> s.seen_nonces, pending_transition |-> Nil,
                  last_tool_name |-> IF SameAsLast(s, call) THEN t ELSE Nil,
                  repeat_count |-> s.repeat_counts[t]]
           ck == [tool_name |-> t, digest |-> IF call.params.core_canonical THEN 1 ELSE Bad,
                  nonce |-> call.nonce, estimated_cost_usd |-> call.estimated_cost_usd,
                  opaque |-> call.params.core_opaque]
<1>1. /\ s \in Session(Nonce, Transitions) /\ config \in GuardConfig
      /\ s.budget_initial_usd = config.budget_usd
  BY DEF IInv, SessionsInv, SessionsTyped, HostInv, MoneyAgrees
<1>2. t \in Tool /\ call.nonce \in Nonce /\ call.estimated_cost_usd \in Nat
  BY SessionAssumption DEF Calls, ToolCall
<1>3. /\ ~s.circuit_tripped /\ ~Replayed(s, call) /\ call.params.canonical
      /\ ~Exhausted(config, s) /\ ~Threshold(config, s) /\ ~Overrun(config, s, call)
      /\ ~Repeated(config, s, call) /\ ~call.params.opaque /\ config.hitl_mode # "always"
  BY AllowedByRules
<1>4. /\ s.budget_initial_usd \in Nat /\ s.budget_remaining_usd \in Nat
      /\ s.repeat_counts[t] \in Nat /\ s.circuit_tripped = FALSE
      /\ s.seen_nonces \in SUBSET Nonce
  BY <1>1, <1>2, <1>3 DEF Session
<1>5. /\ config.budget_usd \in Nat /\ max \in Nat /\ config.hitl_budget_threshold \in 0..100
      /\ config.hitl_mode \in {"never", "on_deny", "on_threshold"}
  BY <1>1, <1>3 DEF GuardConfig
<1>6. Cardinality(s.seen_nonces) \in Nat /\ Cardinality(s.seen_nonces) <= 1000
  BY <1>4, FS_Subset, FS_CardinalityType DEF NoncesFit
<1>7. \A n \in Nat : n # Nil /\ n # Bad
  BY SessionAssumption
<1>8. /\ t # Bad /\ t # Nil /\ Nil # Bad /\ s.seen_nonces # Bad
  BY <1>2, <1>4, SessionAssumption
<1>9. call.params.core_canonical => ~Core!decision_input_error(cc, cs, ck)
  <2> SUFFICES ASSUME call.params.core_canonical PROVE ~Core!decision_input_error(cc, cs, ck)
    OBVIOUS
  <2>1. /\ ~(cc.budget_usd \in {Nil, Bad}) /\ ~(cc.budget_usd < 0)
        /\ ~(cc.max_repeat_calls # Nil /\ (cc.max_repeat_calls = Bad \/ cc.max_repeat_calls < 0))
        /\ cc.hitl_mode \in {Nil, "never", "always", "on_threshold"}
        /\ cc.hitl_budget_threshold \in 0..100
    BY <1>5, <1>7
  <2>2. /\ ~(cs.budget_initial_usd = Bad \/ cs.budget_initial_usd < 0)
        /\ ~(cs.budget_remaining_usd = Bad) /\ cs.circuit_tripped = FALSE
        /\ ~(Bad \in {cs.seen_nonces, cs.pending_transition, cs.last_tool_name})
        /\ ~(Cardinality(cs.seen_nonces) > 1000)
        /\ ~(cs.repeat_count = Bad \/ cs.repeat_count < 0)
    BY <1>4, <1>6, <1>7, <1>8
  <2>3. /\ ~(ck.tool_name = Bad) /\ ~(ck.digest = Bad)
        /\ ~(ck.estimated_cost_usd = Bad \/ ck.estimated_cost_usd < 0)
    BY <1>2, <1>3, <1>7, <1>8
  <2>4. ~(Core!Cardinality(cs.seen_nonces) > 1000)
    BY <2>2, SameCardinality
  <2> HIDE DEF cc, cs, ck
  <2>5. Acceptable(cc, cs, ck)
    BY <2>1, <2>2, <2>3, <2>4 DEF Acceptable
  <2>6. QED
    BY <2>5, CoreAccepts
<1>10. ~Core!Exhausted(cc, cs)
  BY <1>3, <1>4, <1>5 DEF Core!Exhausted, Exhausted
<1>11. ~Core!Overrun(cc, cs, ck)
  BY <1>2, <1>3, <1>4, <1>5, <1>7 DEF Core!Overrun, Core!estimated, Overrun
<1>12. ~Core!Repeated(cc, cs, ck)
  <2>1. RepeatLimit(config, call) \in Nat /\ RepeatLimit(config, call) <= max
    BY <1>5 DEF RepeatLimit
  <2>2. ~(max > 0 /\ SameAsLast(s, call) /\ s.repeat_counts[t] >= max)
    BY <1>3, <1>4, <1>5, <2>1 DEF Repeated
  <2>3. QED
    BY <1>5, <1>7, <1>8, <2>2 DEF Core!Repeated
<1>13. ~Core!BelowThreshold(cc, cs)
  BY <1>1, <1>3, <1>4, <1>5, <1>7 DEF Core!BelowThreshold, Threshold
<1>14. Core!AutomaticRules(cc, cs, ck)[1] = IF call.params.core_opaque THEN "HITL" ELSE "ALLOW"
  BY <1>3, <1>5, <1>10, <1>11, <1>12, <1>13 DEF Core!AutomaticRules, Core!Allow, Core!Hitl
<1>15. ~(ck.nonce \in cs.seen_nonces) /\ cs.circuit_tripped = FALSE /\ cs.pending_transition = Nil
  BY <1>3, <1>4 DEF Replayed
<1>16. ~call.params.core_canonical => Core!decision_input_error(cc, cs, ck)
  BY DEF Core!decision_input_error
<1> HIDE DEF cc, cs, ck
<1>17. CASE call.params.core_canonical
  <2>1. Core!decide(cc, cs, ck) = Core!AutomaticRules(cc, cs, ck)
    BY <1>9, <1>15, <1>17 DEF Core!decide
  <2>2. QED
    BY <1>14, <1>17, <2>1 DEF CoreVerdict, cc, cs, ck
<1>18. CASE ~call.params.core_canonical
  <2>1. Core!decide(cc, cs, ck)[1] = "DENY"
    BY <1>16, <1>18 DEF Core!decide, Core!Deny
  <2>2. QED
    BY <1>18, <2>1 DEF CoreVerdict, cc, cs, ck
<1>19. QED
  BY <1>17, <1>18

\* While a session fits the core's size limit, whatever this function allows by its
\* rules the certified core allows as well, but for parameters the core cannot
\* canonicalize, which it denies, and a context it finds opaque, which it holds for a
\* human: money, repeats, nonces, limits and thresholds never make the core stricter.
THEOREM CoreStricterOnlyOnParameters ==
  ASSUME NoncesFit PROVE Spec => []CoreDiffersOnlyOnParameters
<1>1. IInv => CoreDiffersOnlyOnParameters
  BY CoreAgrees DEF CoreDiffersOnlyOnParameters, AllowedByRule
<1>2. QED
  BY <1>1, Invariance, PTL
=============================================================================
