----------------------------- MODULE Licensing -----------------------------
(***************************************************************************)
(* Licenses from their issue to their audit: the key generator             *)
(* (license_keygen.py), the license server with its SQLite tables          *)
(* (license_server.py) and the secret an exporter verifies the audit log   *)
(* with (audit_export.py).  The deployment's environment may be changed at *)
(* any time and is read when a process starts; the server may be killed    *)
(* anywhere, also between the two commits of one request, and a commit may *)
(* fail (a locked or full database).                                       *)
(*                                                                         *)
(* A handler awaits nothing, so requests are served one at a time.  A      *)
(* checksum and a signature are what they are computed from.  What leaves  *)
(* no trace (a 400, a 409, a 500) is not a step.                           *)
(***************************************************************************)
EXTENDS Naturals, Sequences, FiniteSets

CONSTANTS
  License,   \* license ids
  Secret, SigningKey, KeyId, Hardware,
  Meta,      \* the metadata of a license: when it expires, what it is bound to
  Env,       \* the environments the deployment goes through
  Preset,    \* what a process may be configured with before it starts up
  Nil,
  MaxTime, MaxRows, MaxKills   \* bounds: the clock, audit rows, kills

Key       == [id : License, meta : Meta, secret : Secret]
Signature == [lk : Key, meta : Meta, key : SigningKey]
Bundle    == [lk : Key, meta : Meta, sig : Signature, key_id : KeyId]
Row       == [lk : Key, meta : Meta, sig : Signature, status : {"active", "suspended"},
              secret : Secret, anchors : SUBSET SigningKey]
Handling  == [op : {"register", "validate"}, lk : Key, ok : BOOLEAN, at : Nat,
              hw : Hardware \cup {Nil}, found : BOOLEAN]

ASSUME LicensingAssumption ==
  /\ Nil \notin Row /\ Nil \notin Handling
  /\ Nil \notin Secret \cup SigningKey \cup Hardware \cup KeyId
  /\ Meta \subseteq [expires : Nat, binding : Hardware \cup {Nil}]
  /\ Env \cup Preset \subseteq [secret : Secret \cup {Nil}, trusted : [KeyId -> SigningKey \cup {Nil}],
                                private : SigningKey \cup {Nil}, key_id : KeyId]
  /\ MaxTime \in Nat /\ MaxRows \in Nat /\ MaxKills \in Nat

Ids(trusted) == {i \in KeyId : trusted[i] # Nil}
Anchors(trusted) == {trusted[i] : i \in Ids(trusted)}
NoAnchor == [i \in KeyId |-> Nil]

VARIABLES
  env, now,
  server,                              \* "down", "booting" or "up"
  MASTER_SECRET, TRUSTED_PUBLIC_KEYS,  \* the process's globals
  deployed,      \* history: the environment the process started up under
  issued,        \* the bundles that were generated
  licenses,      \* the table: a row or Nil
  audit_log,     \* the table, oldest row first
  handling,      \* the request between its first and its second commit
  answer,        \* the last answer a client got
  kills,         \* kills so far
  cut            \* history: registrations whose client got no answer

memory == <<MASTER_SECRET, TRUSTED_PUBLIC_KEYS, deployed>>
tables == <<licenses, audit_log>>
vars   == <<env, now, server, memory, issued, tables, handling, answer, kills, cut>>

-----------------------------------------------------------------------------
(***************************************************************************)
(* The generator.                                                          *)
(***************************************************************************)
license_key(id, meta, secret) == [id |-> id, meta |-> meta, secret |-> secret]
signature(lk, meta, key) == [lk |-> lk, meta |-> meta, key |-> key]

\* LicenseGenerator refuses to start without the secret and the issuer's key.
generate_license(id, meta) ==
  /\ env.secret # Nil /\ env.private # Nil
  /\ \A b \in issued : b.lk.id # id
  /\ LET lk == license_key(id, meta, env.secret)
     IN issued' = issued \cup {[lk |-> lk, meta |-> meta, sig |-> signature(lk, meta, env.private),
                                key_id |-> env.key_id]}
  /\ UNCHANGED <<env, now, server, memory, tables, handling, answer, kills, cut>>

-----------------------------------------------------------------------------
(***************************************************************************)
(* The process: what main or an embedding program sets, then startup().    *)
(***************************************************************************)

\* configure_trust overwrites what it is given, and nothing else.
configure_trust(secret, trusted) ==
  /\ MASTER_SECRET' = IF secret # Nil THEN secret ELSE MASTER_SECRET
  /\ TRUSTED_PUBLIC_KEYS' = IF Ids(trusted) # {} THEN trusted ELSE TRUSTED_PUBLIC_KEYS

licensing_ready == MASTER_SECRET # Nil /\ Ids(TRUSTED_PUBLIC_KEYS) # {}

Launch(preset) ==
  /\ server = "down"
  /\ server' = "booting"
  /\ MASTER_SECRET' = preset.secret /\ TRUSTED_PUBLIC_KEYS' = preset.trusted
  /\ UNCHANGED <<env, now, deployed, issued, tables, handling, answer, kills, cut>>

\* init_database keeps the tables there are; load_trust_from_env.
startup ==
  /\ server = "booting"
  /\ server' = "up"
  /\ configure_trust(env.secret, env.trusted)
  /\ deployed' = env
  /\ UNCHANGED <<env, now, issued, tables, handling, answer, kills, cut>>

\* The request being handled ends, and no answer says how.
Cut == cut' = IF handling # Nil /\ handling.op = "register" THEN cut \cup {handling.lk} ELSE cut

\* A kill, also in the middle of a request.
Kill ==
  /\ server # "down" /\ kills < MaxKills
  /\ server' = "down" /\ kills' = kills + 1
  /\ MASTER_SECRET' = Nil /\ TRUSTED_PUBLIC_KEYS' = NoAnchor /\ deployed' = Nil
  /\ Cut /\ handling' = Nil
  /\ UNCHANGED <<env, now, issued, tables, answer>>

\* The operator changes the environment, or a license's status in the table.
Redeploy(e) ==
  /\ e # env
  /\ env' = e
  /\ UNCHANGED <<now, server, memory, issued, tables, handling, answer, kills, cut>>

Suspend(id) ==
  /\ licenses[id] # Nil /\ handling = Nil
  /\ licenses' = [licenses EXCEPT ![id].status = "suspended"]
  /\ UNCHANGED <<env, now, server, memory, issued, audit_log, handling, answer, kills, cut>>

Tick ==
  /\ now < MaxTime
  /\ now' = now + 1
  /\ UNCHANGED <<env, server, memory, issued, tables, handling, answer, kills, cut>>

-----------------------------------------------------------------------------
(***************************************************************************)
(* Verification and the audit log.                                         *)
(***************************************************************************)
\* verify_checksum: the key was made of this metadata under the server's secret.
verify_checksum(lk, meta) == lk.secret = MASTER_SECRET /\ lk.meta = meta

\* A slip: the key that signed is taken from the request.
verify_signature_claimed(lk, meta, sig, key_id) == sig.lk = lk /\ sig.meta = meta

\* verify_signature: a key of the server's registry signed it, the one named if
\* one is named.
verify_signature(lk, meta, sig, key_id) ==
  /\ sig.lk = lk /\ sig.meta = meta
  /\ IF key_id # Nil THEN sig.key = TRUSTED_PUBLIC_KEYS[key_id]
                     ELSE sig.key \in Anchors(TRUSTED_PUBLIC_KEYS)

\* sign_audit_entry: a row is signed under the secret of the moment.
Entry(event, lk, result) ==
  [event |-> event, lk |-> lk, result |-> result, by |-> MASTER_SECRET, under |-> deployed]

\* A slip: only failures are logged.
log_audit_event_failures(event, lk, result) ==
  audit_log' = IF result = "failure" THEN Append(audit_log, Entry(event, lk, result)) ELSE audit_log

log_audit_event(event, lk, result) == audit_log' = Append(audit_log, Entry(event, lk, result))

\* audit_export.py and verify_jsonl_signatures, with the exporter's secret.
Verifies(row, secret) == row.by = secret

-----------------------------------------------------------------------------
(***************************************************************************)
(* Requests.                                                               *)
(***************************************************************************)
Idle == server = "up" /\ handling = Nil /\ Len(audit_log) < MaxRows

\* register_license, up to the commit of the row.  The key and the rest may come
\* from two bundles; the customer may leave out the key id.  A taken id is a 409.
register_license(b, c, key_id) ==
  /\ Idle /\ MASTER_SECRET # Nil
  /\ b \in issued /\ c \in issued /\ key_id \in {c.key_id, Nil}
  /\ verify_checksum(b.lk, c.meta)
  /\ verify_signature(b.lk, c.meta, c.sig, key_id)
  /\ licenses[b.lk.id] = Nil
  /\ licenses' = [licenses EXCEPT ![b.lk.id] =
       [lk |-> b.lk, meta |-> c.meta, sig |-> c.sig, status |-> "active",
        secret |-> MASTER_SECRET, anchors |-> Anchors(TRUSTED_PUBLIC_KEYS)]]
  /\ handling' = [op |-> "register", lk |-> b.lk, ok |-> TRUE, at |-> now, hw |-> Nil, found |-> TRUE]
  /\ UNCHANGED <<env, now, server, memory, issued, audit_log, answer, kills, cut>>

\* A slip: a license is refused at the instant it expires.
expired_early(meta) == now >= meta.expires

expired(meta) == now > meta.expires

mismatch(meta, hw) == meta.binding # Nil /\ hw # Nil /\ meta.binding # hw

\* validate_license, up to the commit of last_validated.  A registered license
\* is not verified again.
validate_license(lk, hw) ==
  /\ Idle
  /\ LET row == licenses[lk.id] found == row # Nil /\ row.lk = lk
     IN handling' = [op |-> "validate", lk |-> lk, at |-> now, hw |-> hw, found |-> found,
                     ok |-> found /\ ~expired(row.meta) /\ row.status = "active" /\ ~mismatch(row.meta, hw)]
  /\ UNCHANGED <<env, now, server, memory, issued, tables, answer, kills, cut>>

Event(h) == IF h.op = "register" THEN "LICENSE_REGISTERED"
            ELSE IF h.found THEN "LICENSE_VALIDATED" ELSE "VALIDATION_FAILED"

Signable == MASTER_SECRET # Nil

\* The audit row is committed, then the client is answered.
Finish ==
  /\ server = "up" /\ handling # Nil /\ Signable
  /\ log_audit_event(Event(handling), handling.lk, IF handling.ok THEN "success" ELSE "failure")
  /\ answer' = handling
  /\ handling' = Nil
  /\ UNCHANGED <<env, now, server, memory, issued, licenses, kills, cut>>

\* The audit row cannot be signed without a secret, and its commit may fail, after the
\* first one is done: a 500, and no audit row.
FinishFails ==
  /\ server = "up" /\ handling # Nil
  /\ Cut /\ handling' = Nil
  /\ UNCHANGED <<env, now, server, memory, issued, tables, answer, kills>>

-----------------------------------------------------------------------------
Init ==
  /\ env \in Env /\ now = 0
  /\ server = "down"
  /\ MASTER_SECRET = Nil /\ TRUSTED_PUBLIC_KEYS = NoAnchor /\ deployed = Nil
  /\ issued = {} /\ licenses = [id \in License |-> Nil] /\ audit_log = <<>>
  /\ handling = Nil /\ answer = Nil /\ kills = 0 /\ cut = {}

Next ==
  \/ \E id \in License, meta \in Meta : generate_license(id, meta)
  \/ \E p \in Preset : Launch(p)
  \/ startup \/ Kill \/ Tick
  \/ \E e \in Env : Redeploy(e)
  \/ \E id \in License : Suspend(id)
  \/ \E b, c \in issued : \E i \in {c.key_id, Nil} : register_license(b, c, i)
  \/ \E b \in issued, hw \in Hardware \cup {Nil} : validate_license(b.lk, hw)
  \/ Finish \/ FinishFails

Spec == Init /\ [][Next]_vars

-----------------------------------------------------------------------------
(***************************************************************************)
(* Properties.                                                             *)
(***************************************************************************)
TypeOK ==
  /\ env \in Env /\ now \in 0..MaxTime
  /\ server \in {"down", "booting", "up"}
  /\ server = "down" => MASTER_SECRET = Nil
  /\ server # "up" => handling = Nil
  /\ MASTER_SECRET \in Secret \cup {Nil}
  /\ TRUSTED_PUBLIC_KEYS \in [KeyId -> SigningKey \cup {Nil}]
  /\ deployed \in Env \cup {Nil}
  /\ issued \subseteq Bundle /\ licenses \in [License -> Row \cup {Nil}]
  /\ \A id \in License : licenses[id] # Nil => licenses[id].lk.id = id
  /\ handling \in Handling \cup {Nil} /\ answer \in Handling \cup {Nil}
  /\ Len(audit_log) <= MaxRows /\ \A i \in DOMAIN audit_log : audit_log[i].by \in Secret
  /\ kills \in 0..MaxKills

\* Whatever is in the table was issued as it stands: one bundle's key, metadata
\* and signature, made under the secret the server had when it was registered and
\* signed by a key the server trusted then, however the environment has changed
\* since and whatever the customer put together.
RegisteredIsGenuine ==
  \A id \in License : licenses[id] # Nil =>
    \E b \in issued :
      /\ b.lk = licenses[id].lk /\ b.meta = licenses[id].meta /\ b.sig = licenses[id].sig
      /\ b.lk.secret = licenses[id].secret
      /\ b.sig.key \in licenses[id].anchors

\* A customer's license is not lost: once registered, it is refused only because
\* it has expired, was suspended or is used on other hardware, and never because
\* of a rotation, a restart or a kill.
RefusedForAReason ==
  answer # Nil /\ answer.op = "validate" /\ answer.found /\ ~answer.ok =>
    \E b \in issued :
      /\ b.lk = answer.lk
      /\ \/ answer.at > b.meta.expires
         \/ b.meta.binding \notin {Nil, answer.hw} /\ answer.hw # Nil
         \/ licenses[b.lk.id].status = "suspended"

\* A registration that was answered has its audit row.  A license in the table without
\* one is being registered, or its customer got no answer: the server was killed or the
\* row's own commit failed after the license's (license_server.py:445-468, 370).  (It
\* stays without: to register again is a conflict.)
Audited(id) ==
  \E i \in DOMAIN audit_log : audit_log[i].event = "LICENSE_REGISTERED" /\ audit_log[i].lk.id = id

RegistrationIsAudited ==
  /\ answer # Nil /\ answer.op = "register" => Audited(answer.lk.id)
  /\ \A id \in License : licenses[id] # Nil =>
       \/ Audited(id)
       \/ licenses[id].lk \in cut
       \/ handling # Nil /\ handling.op = "register" /\ handling.lk.id = id

\* The secret of the environment a process started under verifies every audit
\* row that process signed, whatever was configured before.
DeploymentVerifiesAudit ==
  \A i \in DOMAIN audit_log :
    audit_log[i].under.secret # Nil => Verifies(audit_log[i], audit_log[i].under.secret)

\* The tables are typed, what was answered is in the audit trail, and its rows verify.
AuditInv == TypeOK /\ RegistrationIsAudited /\ DeploymentVerifiesAudit
=============================================================================
