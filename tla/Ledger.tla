-------------------------------- MODULE Ledger --------------------------------
(***************************************************************************)
(* The append-only evidence ledger, v2/spec/ledger.py: one file of JSON    *)
(* lines, each chained to the one before it, and the instances of          *)
(* AuditLedger that have it open.  An instance reads the file when it is   *)
(* created and afterwards trusts the hash it remembers.                    *)
(*                                                                         *)
(* A hash is the sequence of the events it covers, which is what a         *)
(* collision-free hash of the event and the previous hash identifies.      *)
(***************************************************************************)
EXTENDS Integers, Sequences, FiniteSetsExt

CONSTANTS
  Closed,   \* what a process without an instance remembers
  Writer    \* processes that open the ledger

Event  == {"decision", "execution"}
Hash   == Seq(Event)
Record == [event : Event, prev_hash : Hash, record_hash : Hash]

ASSUME ClosedAssumption == Closed \notin Hash

VARIABLES
  file,        \* lines: a record, or Torn; and whether the newline was written
  last_hash,  \* of each live instance; Closed for a process that has none
  acknowledged \* history: hashes of the records append() returned

ledgerVars == <<file, last_hash, acknowledged>>

GENESIS == <<>>
Torn    == [torn |-> TRUE]  \* text that is not JSON
Line    == [text : {Torn} \cup Record, newline : BOOLEAN]

Live == {w \in Writer : last_hash[w] # Closed}

-----------------------------------------------------------------------------
\* build_record: the event, the hash it continues and the hash it has.
build_record(event, prev) ==
  [event |-> event, prev_hash |-> prev, record_hash |-> Append(prev, event)]

\* A slip: recovery starts every instance from the genesis.
recover_last_hash_never(lines) == GENESIS

\* recover_last_hash: the last line's, or the genesis if it does not parse.
recover_last_hash(lines) ==
  IF lines = <<>> \/ lines[Len(lines)].text = Torn THEN GENESIS
  ELSE lines[Len(lines)].text.record_hash

\* What the file holds after `text' was written to its end: a line without a
\* newline is continued, and two records on one line are not JSON.
Written(lines, text, newline) ==
  IF lines # <<>> /\ ~lines[Len(lines)].newline
  THEN [lines EXCEPT ![Len(lines)] = [text |-> Torn, newline |-> newline]]
  ELSE Append(lines, [text |-> text, newline |-> newline])

\* A slip: a line that does not parse is passed over.
Readable_always(lines) == TRUE

\* read_all: json.loads raises at a line that does not parse.
Readable(lines) == \A i \in DOMAIN lines : lines[i].text # Torn

\* verify_chain()["valid"]; a call that raises has not verified anything.
verify_chain(lines) ==
  LET parsed     == {i \in DOMAIN lines : lines[i].text # Torn}
      earlier(i) == {j \in parsed : j < i}
      prev(i)    == IF earlier(i) = {} THEN GENESIS ELSE lines[Max(earlier(i))].text.record_hash
  IN /\ Readable(lines)
     /\ \A i \in parsed :
          LET record == lines[i].text IN
          record.prev_hash = prev(i) /\ record.record_hash = Append(prev(i), record.event)

-----------------------------------------------------------------------------
LedgerInit ==
  /\ file = <<>> /\ last_hash = [w \in Writer |-> Closed] /\ acknowledged = {}

\* __init__.
Open(w) ==
  /\ last_hash[w] = Closed
  /\ last_hash' = [last_hash EXCEPT ![w] = recover_last_hash(file)]
  /\ UNCHANGED <<file, acknowledged>>

\* append: the line and its newline, then the remembered hash.
append(w, event) ==
  /\ last_hash[w] # Closed
  /\ LET record == build_record(event, last_hash[w]) IN
     /\ file' = Written(file, record, TRUE)
     /\ last_hash' = [last_hash EXCEPT ![w] = record.record_hash]
     /\ acknowledged' = acknowledged \cup {record.record_hash}

\* The process dies: between two calls, or in an append that has written nothing,
\* a part of the line, all of it but the newline, or all of it.
Die(w) ==
  /\ last_hash[w] # Closed
  /\ last_hash' = [last_hash EXCEPT ![w] = Closed]
  /\ UNCHANGED <<file, acknowledged>>

DieWriting(w, event) ==
  /\ last_hash[w] # Closed
  /\ LET record == build_record(event, last_hash[w]) IN
     \E text \in {Torn, record} : \E newline \in {text = record, FALSE} :
       file' = Written(file, text, newline)
  /\ last_hash' = [last_hash EXCEPT ![w] = Closed]
  /\ UNCHANGED acknowledged
=============================================================================
