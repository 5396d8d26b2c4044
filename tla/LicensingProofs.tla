-------------------------- MODULE LicensingProofs --------------------------
(***************************************************************************)
(* Theorems about Licensing, for any number of licenses, environments,     *)
(* rotations, kills and audit rows.                                        *)
(***************************************************************************)
EXTENDS Licensing, SequenceTheorems, TLAPS

\* A bundle is signed as it stands.
BundlesAgree ==
  \A b \in issued : b.meta = b.lk.meta /\ b.sig.lk = b.lk /\ b.sig.meta = b.meta

\* A process that is up has the secret it was deployed with, if with any.
SecretDeployed ==
  server = "up" =>
    deployed \in Env /\ (deployed.secret # Nil => MASTER_SECRET = deployed.secret)

\* A request between its two commits: there is room for its row, a registration has
\* the row in the table, and the secret to sign with does not go away.
HandlingAgrees ==
  handling # Nil =>
    /\ Len(audit_log) < MaxRows
    /\ handling.op = "register" => /\ MASTER_SECRET # Nil /\ handling.ok
                                   /\ licenses[handling.lk.id].lk = handling.lk

\* Why a request was refused.  A license that was suspended stays in the table.
Reason(h) ==
  \E b \in issued :
    /\ b.lk = h.lk
    /\ \/ h.at > b.meta.expires
       \/ b.meta.binding \notin {Nil, h.hw} /\ h.hw # Nil
       \/ licenses[b.lk.id] # Nil /\ licenses[b.lk.id].status = "suspended"

Refused(h) == h # Nil /\ h.op = "validate" /\ h.found /\ ~h.ok

ReasonsHold == (Refused(handling) => Reason(handling)) /\ (Refused(answer) => Reason(answer))

AuditRow ==
  [event : {"LICENSE_REGISTERED", "LICENSE_VALIDATED", "VALIDATION_FAILED"}, lk : Key,
   result : {"success", "failure"}, by : Secret, under : Env]

LogTyped == audit_log \in Seq(AuditRow)

IInv ==
  /\ TypeOK /\ LogTyped /\ BundlesAgree /\ SecretDeployed /\ HandlingAgrees /\ ReasonsHold
  /\ RegisteredIsGenuine /\ RegistrationIsAudited /\ DeploymentVerifiesAudit

-----------------------------------------------------------------------------
LEMMA InitIInv == Init => IInv
<1> SUFFICES ASSUME Init PROVE IInv
  OBVIOUS
<1>1. MaxTime \in Nat /\ MaxRows \in Nat /\ MaxKills \in Nat
  BY LicensingAssumption
<1>2. audit_log = <<>> /\ Len(audit_log) = 0 /\ DOMAIN audit_log = {}
  BY DEF Init
<1>3. TypeOK
  <2>1. TRUSTED_PUBLIC_KEYS \in [KeyId -> SigningKey \cup {Nil}]
    BY DEF Init, NoAnchor
  <2>2. licenses \in [License -> Row \cup {Nil}] /\ \A id \in License : licenses[id] = Nil
    BY DEF Init
  <2>3. QED
    BY <1>1, <1>2, <2>1, <2>2 DEF Init, TypeOK
<1>4. LogTyped
  BY <1>2 DEF LogTyped
<1>5. BundlesAgree /\ SecretDeployed /\ HandlingAgrees /\ ReasonsHold
  BY DEF Init, BundlesAgree, SecretDeployed, HandlingAgrees, ReasonsHold, Refused
<1>6. RegisteredIsGenuine /\ RegistrationIsAudited /\ DeploymentVerifiesAudit
  BY <1>2 DEF Init, RegisteredIsGenuine, RegistrationIsAudited, Audited, DeploymentVerifiesAudit
<1>7. QED
  BY <1>3, <1>4, <1>5, <1>6 DEF IInv

-----------------------------------------------------------------------------
(***************************************************************************)
(* The generator, the clock, the operator.                                 *)
(***************************************************************************)
\* A reason is none the less one when more bundles are issued.
LEMMA ReasonsKept ==
  ASSUME ReasonsHold, issued \subseteq issued', UNCHANGED <<licenses, handling, answer>>
  PROVE  ReasonsHold'
BY DEF ReasonsHold, Reason, Refused

\* What is said of the log and the table is not touched by anything else.
LEMMA RecordsKept ==
  ASSUME IInv, issued \subseteq issued', UNCHANGED <<licenses, audit_log, handling, answer, cut>>
  PROVE  LogTyped' /\ RegisteredIsGenuine' /\ RegistrationIsAudited' /\ DeploymentVerifiesAudit'
BY DEF IInv, LogTyped, RegisteredIsGenuine, RegistrationIsAudited, Audited, DeploymentVerifiesAudit, Verifies

LEMMA GenerateKeeps ==
  ASSUME IInv, NEW id \in License, NEW meta \in Meta, generate_license(id, meta)
  PROVE  IInv'
<1> DEFINE lk == license_key(id, meta, env.secret)
           b == [lk |-> lk, meta |-> meta, sig |-> signature(lk, meta, env.private),
                 key_id |-> env.key_id]
<1>1. /\ env.secret \in Secret /\ env.private \in SigningKey /\ env.key_id \in KeyId
  BY LicensingAssumption DEF IInv, TypeOK, generate_license
<1>2. /\ b \in Bundle /\ b.meta = b.lk.meta /\ b.sig.lk = b.lk /\ b.sig.meta = b.meta
      /\ issued' = issued \cup {b}
  BY <1>1 DEF generate_license, license_key, signature, Bundle, Key, Signature
<1> HIDE DEF b, lk
<1>3. TypeOK'
  BY <1>2 DEF IInv, TypeOK, generate_license, memory, tables
<1>4. BundlesAgree'
  BY <1>2 DEF IInv, BundlesAgree
<1>5. SecretDeployed' /\ HandlingAgrees'
  BY DEF IInv, SecretDeployed, HandlingAgrees, generate_license, memory, tables
<1>6. ReasonsHold'
  BY <1>2, ReasonsKept DEF IInv, generate_license, tables
<1>7. QED
  BY <1>2, <1>3, <1>4, <1>5, <1>6, RecordsKept DEF generate_license, tables, IInv

LEMMA RedeployKeeps == ASSUME IInv, NEW e \in Env, Redeploy(e) PROVE IInv'
<1>1. TypeOK'
  BY DEF IInv, TypeOK, Redeploy, memory, tables
<1>2. BundlesAgree' /\ SecretDeployed' /\ HandlingAgrees'
  BY DEF IInv, BundlesAgree, SecretDeployed, HandlingAgrees, Redeploy, memory, tables
<1>3. QED
  BY <1>1, <1>2, ReasonsKept, RecordsKept DEF IInv, Redeploy, tables

LEMMA TickKeeps == ASSUME IInv, Tick PROVE IInv'
<1>1. now' \in 0..MaxTime
  BY LicensingAssumption DEF IInv, TypeOK, Tick
<1>2. TypeOK'
  BY <1>1 DEF IInv, TypeOK, Tick, memory, tables
<1>3. BundlesAgree' /\ SecretDeployed' /\ HandlingAgrees'
  BY DEF IInv, BundlesAgree, SecretDeployed, HandlingAgrees, Tick, memory, tables
<1>4. QED
  BY <1>2, <1>3, ReasonsKept, RecordsKept DEF IInv, Tick, tables

LEMMA SuspendKeeps == ASSUME IInv, NEW id \in License, Suspend(id) PROVE IInv'
<1> DEFINE row == [licenses[id] EXCEPT !.status = "suspended"]
<1>1. licenses[id] \in Row /\ licenses[id] # Nil
  BY DEF IInv, TypeOK, Suspend
<1>2. /\ row \in Row /\ row.status = "suspended" /\ row.lk = licenses[id].lk
      /\ row.meta = licenses[id].meta /\ row.sig = licenses[id].sig
      /\ row.secret = licenses[id].secret /\ row.anchors = licenses[id].anchors
  BY <1>1 DEF Row
<1>3. /\ licenses' \in [License -> Row \cup {Nil}] /\ licenses'[id] = row
      /\ \A l \in License \ {id} : licenses'[l] = licenses[l]
      /\ row # Nil
  BY <1>2, LicensingAssumption DEF IInv, TypeOK, Suspend
<1> HIDE DEF row
<1>4. \A l \in License :
        /\ licenses'[l] # Nil <=> licenses[l] # Nil
        /\ licenses[l] # Nil =>
             /\ licenses'[l].lk = licenses[l].lk /\ licenses'[l].meta = licenses[l].meta
             /\ licenses'[l].sig = licenses[l].sig /\ licenses'[l].secret = licenses[l].secret
             /\ licenses'[l].anchors = licenses[l].anchors
             /\ licenses[l].status = "suspended" => licenses'[l].status = "suspended"
  BY <1>1, <1>2, <1>3
<1>5. TypeOK'
  BY <1>3, <1>4 DEF IInv, TypeOK, Suspend, memory
<1>6. BundlesAgree' /\ SecretDeployed' /\ HandlingAgrees' /\ LogTyped' /\ DeploymentVerifiesAudit'
  BY DEF IInv, BundlesAgree, SecretDeployed, HandlingAgrees, LogTyped, DeploymentVerifiesAudit,
     Verifies, Suspend, memory
<1>7. ReasonsHold'
  <2>1. \A b \in issued : b.lk.id \in License
    BY DEF IInv, TypeOK, Bundle, Key
  <2>2. QED
    BY <1>4, <2>1 DEF IInv, ReasonsHold, Reason, Refused, Suspend
<1>8. RegisteredIsGenuine' /\ RegistrationIsAudited'
  BY <1>4 DEF IInv, RegisteredIsGenuine, RegistrationIsAudited, Audited, Suspend
<1>9. QED
  BY <1>5, <1>6, <1>7, <1>8 DEF IInv

-----------------------------------------------------------------------------
(***************************************************************************)
(* The process.                                                            *)
(***************************************************************************)
LEMMA PresetTyped ==
  \A e \in Env \cup Preset :
    e.secret \in Secret \cup {Nil} /\ e.trusted \in [KeyId -> SigningKey \cup {Nil}]
BY LicensingAssumption

LEMMA LaunchKeeps == ASSUME IInv, NEW p \in Preset, Launch(p) PROVE IInv'
<1>1. /\ p.secret \in Secret \cup {Nil} /\ p.trusted \in [KeyId -> SigningKey \cup {Nil}]
      /\ handling = Nil
  BY PresetTyped DEF IInv, TypeOK, Launch
<1>2. TypeOK'
  BY <1>1 DEF IInv, TypeOK, Launch, tables
<1>3. BundlesAgree' /\ SecretDeployed' /\ HandlingAgrees'
  BY <1>1 DEF IInv, BundlesAgree, SecretDeployed, HandlingAgrees, Launch, tables
<1>4. QED
  BY <1>2, <1>3, ReasonsKept, RecordsKept DEF IInv, Launch, tables

LEMMA StartupKeeps == ASSUME IInv, startup PROVE IInv'
<1>1. /\ env \in Env /\ env.secret \in Secret \cup {Nil}
      /\ env.trusted \in [KeyId -> SigningKey \cup {Nil}] /\ handling = Nil
  BY PresetTyped DEF IInv, TypeOK, startup
<1>2. TypeOK'
  BY <1>1 DEF IInv, TypeOK, startup, configure_trust, tables
<1>3. BundlesAgree' /\ SecretDeployed' /\ HandlingAgrees'
  BY <1>1 DEF IInv, BundlesAgree, SecretDeployed, HandlingAgrees, startup, configure_trust, tables
<1>4. QED
  BY <1>2, <1>3, ReasonsKept, RecordsKept DEF IInv, startup, tables

LEMMA KillKeeps == ASSUME IInv, Kill PROVE IInv'
<1>1. kills' \in 0..MaxKills /\ NoAnchor \in [KeyId -> SigningKey \cup {Nil}]
  BY LicensingAssumption DEF IInv, TypeOK, Kill, NoAnchor
<1>2. TypeOK'
  BY <1>1 DEF IInv, TypeOK, Kill, tables
<1>3. BundlesAgree' /\ SecretDeployed' /\ HandlingAgrees' /\ LogTyped' /\ DeploymentVerifiesAudit'
      /\ RegisteredIsGenuine'
  BY DEF IInv, BundlesAgree, SecretDeployed, HandlingAgrees, LogTyped, DeploymentVerifiesAudit,
     RegisteredIsGenuine, Verifies, Kill, tables
<1>4. ReasonsHold'
  BY DEF IInv, ReasonsHold, Reason, Refused, Kill, tables
<1>5. RegistrationIsAudited'
  BY DEF IInv, RegistrationIsAudited, Audited, HandlingAgrees, Kill, Cut, tables
<1>6. QED
  BY <1>2, <1>3, <1>4, <1>5 DEF IInv

-----------------------------------------------------------------------------
(***************************************************************************)
(* Requests.                                                               *)
(***************************************************************************)
LEMMA RegisterKeeps ==
  ASSUME IInv, NEW b \in issued, NEW c \in issued, NEW key_id \in {c.key_id, Nil},
         register_license(b, c, key_id)
  PROVE  IInv'
<1> DEFINE row == [lk |-> b.lk, meta |-> c.meta, sig |-> c.sig, status |-> "active",
                   secret |-> MASTER_SECRET, anchors |-> Anchors(TRUSTED_PUBLIC_KEYS)]
           h == [op |-> "register", lk |-> b.lk, ok |-> TRUE, at |-> now, hw |-> Nil,
                 found |-> TRUE]
           id == b.lk.id
<1>1. /\ b.lk \in Key /\ id \in License /\ c.meta \in Meta /\ c.sig \in Signature
      /\ c.key_id \in KeyId /\ c.sig.key \in SigningKey /\ c.sig.key # Nil
      /\ MASTER_SECRET \in Secret /\ MASTER_SECRET # Nil
  BY LicensingAssumption DEF IInv, TypeOK, Bundle, Key, Signature, register_license
<1>2. /\ b.lk.secret = MASTER_SECRET /\ b.lk.meta = c.meta /\ c.sig.lk = b.lk
      /\ c.lk = b.lk
  BY DEF IInv, BundlesAgree, register_license, verify_checksum, verify_signature
<1>3. c.sig.key \in Anchors(TRUSTED_PUBLIC_KEYS)
  <2>1. CASE key_id = Nil
    BY <2>1 DEF register_license, verify_signature
  <2>2. CASE key_id # Nil
    <3>1. key_id \in KeyId /\ c.sig.key = TRUSTED_PUBLIC_KEYS[key_id]
      BY <1>1, <2>2 DEF register_license, verify_signature
    <3>2. QED
      BY <1>1, <3>1 DEF Anchors, Ids
  <2>3. QED
    BY <2>1, <2>2
<1>4. Anchors(TRUSTED_PUBLIC_KEYS) \in SUBSET SigningKey
  BY DEF IInv, TypeOK, Anchors, Ids
<1>5. /\ row \in Row /\ row.lk = b.lk /\ row.meta = c.meta /\ row.sig = c.sig
      /\ row.secret = MASTER_SECRET /\ row.anchors = Anchors(TRUSTED_PUBLIC_KEYS)
  BY <1>1, <1>4 DEF Row
<1>6. /\ h \in Handling /\ h # Nil /\ h.op = "register" /\ h.lk = b.lk /\ h.ok
  <2>1. now \in Nat
    BY LicensingAssumption DEF IInv, TypeOK
  <2>2. h \in Handling
    BY <1>1, <2>1 DEF Handling
  <2>3. QED
    BY <2>2, LicensingAssumption
<1>7. /\ licenses[id] = Nil /\ licenses' = [licenses EXCEPT ![id] = row] /\ handling' = h
      /\ handling = Nil
  BY DEF register_license, Idle
<1>8. UNCHANGED <<env, now, server, memory, issued, audit_log, answer, kills, cut>>
      /\ server = "up" /\ Len(audit_log) < MaxRows
  BY DEF register_license, Idle
<1> HIDE DEF row, h, id
<1>9. /\ licenses' \in [License -> Row \cup {Nil}] /\ licenses'[id] = row
      /\ \A l \in License \ {id} : licenses'[l] = licenses[l]
  BY <1>1, <1>5, <1>7 DEF IInv, TypeOK
<1>10. TypeOK'
  BY <1>1, <1>5, <1>6, <1>7, <1>8, <1>9 DEF IInv, TypeOK, memory, id
<1>11. BundlesAgree' /\ SecretDeployed' /\ LogTyped' /\ DeploymentVerifiesAudit'
  BY <1>8 DEF IInv, BundlesAgree, SecretDeployed, LogTyped, DeploymentVerifiesAudit, Verifies, memory
<1>12. HandlingAgrees'
  BY <1>1, <1>5, <1>6, <1>7, <1>8, <1>9 DEF HandlingAgrees, memory, id
<1>13. ReasonsHold'
  <2>1. ~Refused(h)
    BY <1>6 DEF Refused
  <2>2. \A a \in issued : a.lk.id \in License
    BY DEF IInv, TypeOK, Bundle, Key
  <2>3. QED
    BY <1>7, <1>8, <1>9, <2>1, <2>2 DEF IInv, ReasonsHold, Reason, Refused
<1>14. RegisteredIsGenuine'
  BY <1>1, <1>2, <1>3, <1>5, <1>8, <1>9 DEF IInv, RegisteredIsGenuine
<1>15. RegistrationIsAudited'
  BY <1>1, <1>5, <1>6, <1>7, <1>8, <1>9 DEF IInv, RegistrationIsAudited, Audited, id
<1>16. QED
  BY <1>10, <1>11, <1>12, <1>13, <1>14, <1>15 DEF IInv

LEMMA ValidateKeeps ==
  ASSUME IInv, NEW b \in issued, NEW hw \in Hardware \cup {Nil}, validate_license(b.lk, hw)
  PROVE  IInv'
<1> DEFINE row == licenses[b.lk.id]
           found == row # Nil /\ row.lk = b.lk
           ok == found /\ ~expired(row.meta) /\ row.status = "active" /\ ~mismatch(row.meta, hw)
           h == [op |-> "validate", lk |-> b.lk, at |-> now, hw |-> hw, found |-> found, ok |-> ok]
<1>1. b.lk \in Key /\ b.lk.id \in License /\ now \in Nat
  BY LicensingAssumption DEF IInv, TypeOK, Bundle, Key
<1>2. /\ handling' = h /\ handling = Nil
      /\ UNCHANGED <<env, now, server, memory, issued, tables, answer, kills, cut>>
      /\ server = "up" /\ Len(audit_log) < MaxRows
  BY DEF validate_license, Idle
<1>3. found \in BOOLEAN /\ ok \in BOOLEAN
  BY Zenon
<1>4. h \in Handling
  BY <1>1, <1>3 DEF Handling
<1>5. /\ h.op = "validate" /\ h.lk = b.lk /\ h.at = now /\ h.hw = hw
      /\ h.found = found /\ h.ok = ok
  OBVIOUS
<1>6. found /\ ~ok => \/ now > row.meta.expires
                      \/ row.meta.binding \notin {Nil, hw} /\ hw # Nil
                      \/ row.status = "suspended"
  BY <1>1 DEF expired, mismatch, IInv, TypeOK, Row
<1>7. Refused(h) => Reason(h)
  <2> SUFFICES ASSUME Refused(h) PROVE Reason(h)
    OBVIOUS
  <2>1. found /\ ~ok
    BY <1>5, Zenon DEF Refused
  <2>2. PICK a \in issued : a.lk = row.lk /\ a.meta = row.meta
    BY <1>1, <2>1 DEF IInv, RegisteredIsGenuine
  <2>3. QED
    BY <1>5, <1>6, <2>1, <2>2 DEF Reason
<1> HIDE DEF h, ok, found, row
<1>8. TypeOK'
  BY <1>2, <1>4 DEF IInv, TypeOK, memory, tables
<1>9. BundlesAgree' /\ SecretDeployed' /\ LogTyped' /\ DeploymentVerifiesAudit' /\ RegisteredIsGenuine'
  BY <1>2 DEF IInv, BundlesAgree, SecretDeployed, LogTyped, DeploymentVerifiesAudit, Verifies,
     RegisteredIsGenuine, memory, tables
<1>10. HandlingAgrees'
  BY <1>2, <1>5 DEF HandlingAgrees, tables
<1>11. ReasonsHold'
  BY <1>2, <1>7 DEF IInv, ReasonsHold, Reason, Refused, tables
<1>12. RegistrationIsAudited'
  BY <1>2 DEF IInv, RegistrationIsAudited, Audited, tables
<1>13. QED
  BY <1>8, <1>9, <1>10, <1>11, <1>12 DEF IInv

LEMMA FinishKeeps == ASSUME IInv, Finish PROVE IInv'
<1> DEFINE result == IF handling.ok THEN "success" ELSE "failure"
           e == Entry(Event(handling), handling.lk, result)
<1>1. /\ handling \in Handling /\ handling # Nil /\ handling.lk \in Key /\ Len(audit_log) < MaxRows
      /\ MASTER_SECRET \in Secret /\ deployed \in Env /\ server = "up"
      /\ deployed.secret # Nil => MASTER_SECRET = deployed.secret
  BY DEF IInv, TypeOK, HandlingAgrees, SecretDeployed, Finish, Signable, Handling
<1>2. e \in AuditRow
  BY <1>1 DEF Entry, Event, AuditRow
<1>3. /\ e.event = Event(handling) /\ e.lk = handling.lk /\ e.by = MASTER_SECRET
      /\ e.under = deployed
  BY DEF Entry
<1>4. /\ audit_log' = Append(audit_log, e) /\ answer' = handling /\ handling' = Nil
      /\ UNCHANGED <<env, now, server, memory, issued, licenses, kills, cut>>
  BY DEF Finish, log_audit_event
<1> HIDE DEF e, result
<1>5. /\ LogTyped' /\ Len(audit_log') = Len(audit_log) + 1
      /\ DOMAIN audit_log' = 1..Len(audit_log) + 1 /\ DOMAIN audit_log = 1..Len(audit_log)
      /\ audit_log'[Len(audit_log) + 1] = e
      /\ \A i \in DOMAIN audit_log : audit_log'[i] = audit_log[i]
      /\ Len(audit_log) \in Nat
  BY <1>2, <1>4 DEF IInv, LogTyped
<1>6. TypeOK'
  <2>1. Len(audit_log') <= MaxRows
    BY <1>1, <1>5, LicensingAssumption
  <2>2. \A i \in DOMAIN audit_log' : audit_log'[i].by \in Secret
    BY <1>1, <1>3, <1>5 DEF IInv, TypeOK
  <2>3. QED
    BY <1>1, <1>4, <2>1, <2>2 DEF IInv, TypeOK, memory
<1>7. BundlesAgree' /\ SecretDeployed' /\ HandlingAgrees' /\ RegisteredIsGenuine'
  BY <1>4 DEF IInv, BundlesAgree, SecretDeployed, HandlingAgrees, RegisteredIsGenuine, memory
<1>8. ReasonsHold'
  BY <1>4 DEF IInv, ReasonsHold, Reason, Refused
<1>9. DeploymentVerifiesAudit'
  BY <1>1, <1>3, <1>5 DEF IInv, DeploymentVerifiesAudit, Verifies
<1>10. \A id \in License : Audited(id) => Audited(id)'
  BY <1>5 DEF Audited
<1>11. \A id \in License : handling.op = "register" /\ handling.lk.id = id => Audited(id)'
  <2> SUFFICES ASSUME NEW id \in License, handling.op = "register", handling.lk.id = id
               PROVE  Audited(id)'
    OBVIOUS
  <2>1. e.event = "LICENSE_REGISTERED" /\ e.lk.id = id
    BY <1>3 DEF Event
  <2>2. Len(audit_log) + 1 \in DOMAIN audit_log'
    BY <1>5
  <2>3. QED
    BY <1>5, <2>1, <2>2 DEF Audited
<1>12. RegistrationIsAudited'
  <2>1. answer' # Nil /\ answer'.op = "register" => Audited(answer.lk.id)'
    <3> SUFFICES ASSUME handling.op = "register" PROVE Audited(answer.lk.id)'
      BY <1>4
    <3>1. PICK id \in License : id = handling.lk.id
      BY <1>1 DEF Key
    <3>2. Audited(id)'
      BY <1>11, <3>1
    <3>3. QED
      BY <1>4, <3>1, <3>2 DEF Audited
  <2>2. ASSUME NEW id \in License, licenses[id] # Nil, licenses[id].lk \notin cut
        PROVE  Audited(id)'
    <3>1. CASE handling.op = "register" /\ handling.lk.id = id
      BY <1>11, <3>1
    <3>2. CASE ~(handling.op = "register" /\ handling.lk.id = id)
      BY <1>10, <2>2, <3>2 DEF IInv, RegistrationIsAudited
    <3>3. QED
      BY <3>1, <3>2
  <2>3. QED
    BY <1>4, <2>1, <2>2 DEF RegistrationIsAudited
<1>13. QED
  BY <1>5, <1>6, <1>7, <1>8, <1>9, <1>12 DEF IInv

LEMMA FinishFailsKeeps == ASSUME IInv, FinishFails PROVE IInv'
<1>1. TypeOK'
  BY DEF IInv, TypeOK, FinishFails, memory, tables
<1>2. BundlesAgree' /\ SecretDeployed' /\ HandlingAgrees' /\ LogTyped' /\ DeploymentVerifiesAudit'
      /\ RegisteredIsGenuine'
  BY DEF IInv, BundlesAgree, SecretDeployed, HandlingAgrees, LogTyped, DeploymentVerifiesAudit,
     RegisteredIsGenuine, Verifies, FinishFails, memory, tables
<1>3. ReasonsHold'
  BY DEF IInv, ReasonsHold, Reason, Refused, FinishFails, tables
<1>4. RegistrationIsAudited'
  BY DEF IInv, RegistrationIsAudited, Audited, HandlingAgrees, FinishFails, Cut, tables
<1>5. QED
  BY <1>1, <1>2, <1>3, <1>4 DEF IInv

-----------------------------------------------------------------------------
LEMMA NextIInv == IInv /\ [Next]_vars => IInv'
<1> SUFFICES ASSUME IInv, [Next]_vars PROVE IInv'
  OBVIOUS
<1>1. CASE \E id \in License, meta \in Meta : generate_license(id, meta)
  BY <1>1, GenerateKeeps
<1>2. CASE startup \/ Kill \/ \E p \in Preset : Launch(p)
  BY <1>2, LaunchKeeps, StartupKeeps, KillKeeps
<1>3. CASE Tick \/ (\E e \in Env : Redeploy(e)) \/ (\E id \in License : Suspend(id))
  BY <1>3, TickKeeps, RedeployKeeps, SuspendKeeps
<1>4. CASE \E b, c \in issued : \E i \in {c.key_id, Nil} : register_license(b, c, i)
  BY <1>4, RegisterKeeps
<1>5. CASE \E b \in issued, hw \in Hardware \cup {Nil} : validate_license(b.lk, hw)
  BY <1>5, ValidateKeeps
<1>6. CASE Finish \/ FinishFails
  BY <1>6, FinishKeeps, FinishFailsKeeps
<1>7. CASE UNCHANGED vars
  <2>1. TypeOK'
    BY <1>7 DEF IInv, TypeOK, vars, memory, tables
  <2>2. BundlesAgree' /\ SecretDeployed' /\ HandlingAgrees'
    BY <1>7 DEF IInv, BundlesAgree, SecretDeployed, HandlingAgrees, vars, memory, tables
  <2>3. QED
    BY <1>7, <2>1, <2>2, ReasonsKept, RecordsKept DEF IInv, vars, tables
<1>8. QED
  BY <1>1, <1>2, <1>3, <1>4, <1>5, <1>6, <1>7 DEF Next

LEMMA Invariance == Spec => []IInv
<1>1. Init => IInv
  BY InitIInv
<1>2. IInv /\ [Next]_vars => IInv'
  BY NextIInv
<1>3. QED
  BY <1>1, <1>2, PTL DEF Spec

\* Whatever is registered is one issued bundle, made under the secret and signed by
\* a key the server trusted then: no mix of two bundles gets past register_license.
THEOREM RegisteredAreGenuine == Spec => []RegisteredIsGenuine
<1>1. IInv => RegisteredIsGenuine
  BY DEF IInv
<1>2. QED
  BY <1>1, Invariance, PTL

\* A registered license is refused only because it expired, was suspended or is used
\* on other hardware, through every rotation, restart and kill.
THEOREM RefusalsHaveReasons == Spec => []RefusedForAReason
<1>1. IInv => RefusedForAReason
  BY DEF IInv, ReasonsHold, Refused, Reason, RefusedForAReason
<1>2. QED
  BY <1>1, Invariance, PTL

\* Every registration that was answered has its audit row, a license in the table lacks
\* one only while it is registered or when its customer got no answer, and the secret of
\* the environment a process started under verifies every row that process signed.
THEOREM AnsweredIsAudited == Spec => []AuditInv
<1>1. IInv => AuditInv
  BY DEF IInv, AuditInv
<1>2. QED
  BY <1>1, Invariance, PTL
=============================================================================
