--------------------------- MODULE ApiKeys_proofs ---------------------------
(***************************************************************************)
(* Theorems about the API keys: the types and the uniqueness of secrets,   *)
(* the guard of the last active key, and the keys of the config at start.  *)
(***************************************************************************)
EXTENDS ApiKeys, TLAPS

SecretsUnique(table) ==
  \A id, other \in KeyId :
    table[id] # NoRow /\ table[other] # NoRow /\ table[id].secret = table[other].secret
      => id = other

(* Writing a row whose secret no other id has keeps secrets unique.        *)
LEMMA WriteKeepsUnique ==
  ASSUME NEW id \in KeyId, NEW row \in Row, rows \in [KeyId -> Row \cup {NoRow}],
         SecretsUnique(rows), ~Conflicts(id, row.secret)
  PROVE  SecretsUnique([rows EXCEPT ![id] = row])
BY DEF SecretsUnique, Conflicts, Stored

(* So does saveApiKey(), which also keeps the table well typed.            *)
LEMMA SaveKeepsUnique ==
  ASSUME NEW id \in KeyId, NEW row \in Row, rows \in [KeyId -> Row \cup {NoRow}],
         SecretsUnique(rows), Save(id, row)
  PROVE  rows' \in [KeyId -> Row \cup {NoRow}] /\ SecretsUnique(rows')
BY WriteKeepsUnique DEF Save

(* A step of a request whose effect on the table is known.                 *)
LEMMA ResumesTyped ==
  ASSUME TypeOK, NEW q \in Request, Resumes(q),
         rows' \in [KeyId -> Row \cup {NoRow}], SecretsUnique(rows')
  PROVE  TypeOK'
BY DEF TypeOK, Resumes, lifecycleVars, SecretsUnique, Stored

LEMMA TypeStep == TypeOK /\ [Next]_vars => TypeOK'
<1> SUFFICES ASSUME TypeOK, [Next]_vars PROVE TypeOK'
  OBVIOUS
<1> USE KeyAssumption
<1>0. /\ rows \in [KeyId -> Row \cup {NoRow}] /\ SecretsUnique(rows)
      /\ pending \in [Request -> Operation \cup {Idle}]
  BY DEF TypeOK, SecretsUnique, Stored
<1>1. ASSUME NEW c \in Configs, Start(c) PROVE TypeOK'
  <2>1. config' \in Configs /\ synced' = 0 /\ Len(config') \in Nat
    BY <1>1 DEF Start
  <2> QED
    BY <1>1, <2>1 DEF Start, TypeOK, Stored
<1>2. CASE SyncKey
  <2> DEFINE seed == config[synced + 1]
  <2>1. /\ config \in Seq(Seed) /\ synced + 1 \in 1..Len(config)
        /\ mode = "syncing" /\ config' = config
    BY <1>2 DEF SyncKey, TypeOK
  <2>2. seed \in Seed
    BY <2>1
  <2>3. AsConfigured(seed) \in Row /\ AsConfigured(seed).secret = seed.secret /\ seed.id \in KeyId
    BY <2>2 DEF AsConfigured, Row, Seed
  <2>4. CASE ~Conflicts(seed.id, seed.secret) /\ rows' = [rows EXCEPT ![seed.id] = AsConfigured(seed)]
                /\ synced' = synced + 1 /\ mode' = mode
    <3>1. rows' \in [KeyId -> Row \cup {NoRow}] /\ SecretsUnique(rows')
      BY <1>0, <2>3, <2>4, WriteKeepsUnique
    <3>2. synced' \in 0..Len(config')
      BY <2>1, <2>4
    <3> QED
      BY <1>2, <2>1, <2>4, <3>1, <3>2 DEF SyncKey, TypeOK, SecretsUnique, Stored
  <2>5. CASE mode' = "failed" /\ rows' = rows /\ synced' = synced
    BY <1>2, <2>1, <2>5 DEF SyncKey, TypeOK, Stored
  <2> QED
    BY <1>2, <2>4, <2>5 DEF SyncKey
<1>3. CASE Serve \/ Stop
  BY <1>3 DEF Serve, Stop, TypeOK, Stored
<1>4. CASE ProcessEnds
  BY <1>4 DEF ProcessEnds, TypeOK, Stored
<1>5. CASE Tick
  BY <1>5 DEF Tick, lifecycleVars, TypeOK, Stored
<1>6. ASSUME NEW q \in Request, NEW operation \in Operation, Authorize(q, operation)
      PROVE  TypeOK'
  BY <1>6 DEF Authorize, lifecycleVars, TypeOK, Stored
<1>7. ASSUME NEW q \in Request, BodyFails(q) PROVE TypeOK'
  BY <1>0, <1>7, ResumesTyped DEF BodyFails
<1>8. ASSUME NEW q \in Request, Create(q) PROVE TypeOK'
  <2> DEFINE row == [secret |-> pending[q].secret, enabled |-> pending[q].enabled,
                     expiresAt |-> pending[q].expiresAt, source |-> "managed"]
  <2>1. pending[q] \in Operation /\ pending[q].kind = "create"
    BY <1>0, <1>8 DEF Create
  <2>2. pending[q].id \in KeyId /\ row \in Row
    BY <2>1 DEF Operation, Row
  <2>3. Save(pending[q].id, row) /\ Resumes(q)
    BY <1>8 DEF Create
  <2> QED
    BY <1>0, <2>2, <2>3, SaveKeepsUnique, ResumesTyped
<1>9. ASSUME NEW q \in Request, Update(q) PROVE TypeOK'
  <2> DEFINE id == pending[q].id
             updated == Updated(pending[q])
  <2>1. Resumes(q) /\ (rows' = rows \/ (Stored(id) /\ Save(id, updated)))
    BY <1>9 DEF Update
  <2>2. pending[q] \in Operation /\ pending[q].kind = "update"
    BY <1>0, <1>9 DEF Update
  <2>3. /\ id \in KeyId
        /\ pending[q].enabled \in BOOLEAN /\ pending[q].expiresAt \in 0..Never
    BY <2>2 DEF Operation
  <2>4. ASSUME Stored(id) PROVE updated \in Row
    BY <1>0, <2>3, <2>4 DEF Updated, Stored, Row
  <2> QED
    BY <1>0, <2>1, <2>3, <2>4, SaveKeepsUnique, ResumesTyped
<1>10. ASSUME NEW q \in Request, Rotate(q) PROVE TypeOK'
  <2> DEFINE id == pending[q].id
             updated == [rows[id] EXCEPT !.secret = pending[q].secret]
  <2>1. Resumes(q) /\ (rows' = rows \/ (Stored(id) /\ Save(id, updated)))
    BY <1>10 DEF Rotate
  <2>2. pending[q] \in Operation /\ pending[q].kind = "rotate"
    BY <1>0, <1>10 DEF Rotate
  <2>3. id \in KeyId /\ pending[q].secret \in Secret
    BY <2>2 DEF Operation
  <2>4. ASSUME Stored(id) PROVE updated \in Row
    BY <1>0, <2>3, <2>4 DEF Stored, Row
  <2> QED
    BY <1>0, <2>1, <2>3, <2>4, SaveKeepsUnique, ResumesTyped
<1>11. ASSUME NEW id \in KeyId, Delete(id) PROVE TypeOK'
  <2>1. rows' \in [KeyId -> Row \cup {NoRow}] /\ SecretsUnique(rows')
    BY <1>0, <1>11 DEF Delete, SecretsUnique
  <2> QED
    BY <1>11, <2>1 DEF Delete, lifecycleVars, TypeOK, SecretsUnique, Stored
<1>12. CASE UNCHANGED vars
  BY <1>12 DEF vars, lifecycleVars, TypeOK, Stored
<1> QED
  BY <1>1, <1>2, <1>3, <1>4, <1>5, <1>6, <1>7, <1>8, <1>9, <1>10, <1>11, <1>12 DEF Next

(* Types, and a secret belongs to one key.                                 *)
THEOREM TypeCorrect == Spec => []TypeOK
<1>1. Init => TypeOK
  BY KeyAssumption DEF Init, TypeOK, Stored, Never
<1> QED
  BY <1>1, TypeStep, PTL DEF Spec

-----------------------------------------------------------------------------
(* The last active key.                                                    *)

(* A row that is written replaces one, and the other rows stay.            *)
LEMMA OthersStay ==
  ASSUME TypeOK, NEW id \in KeyId, NEW row, now' = now,
         rows' = [rows EXCEPT ![id] = row],
         Active(row) \/ AnotherActive(id)
  PROVE  SomeActive'
<1>1. CASE Active(row)
  <2>1. rows'[id] = row
    BY DEF TypeOK
  <2> QED
    BY <1>1, <2>1 DEF SomeActive, Active
<1>2. CASE AnotherActive(id)
  <2>1. PICK other \in KeyId \ {id} : Active(rows[other])
    BY <1>2 DEF AnotherActive
  <2>2. rows'[other] = rows[other]
    BY <2>1 DEF TypeOK
  <2> QED
    BY <2>1, <2>2 DEF SomeActive, Active
<1> QED
  BY <1>1, <1>2

(* A step that leaves the table and the clock alone.                       *)
LEMMA SameKeys ==
  ASSUME rows' = rows, now' = now, SomeActive
  PROVE  SomeActive'
BY DEF SomeActive, Active

(* No step but those of the clock and of the synchronisation takes the     *)
(* last active key away, if new keys have new ids.                         *)
LEMMA LastKeyStep ==
  ASSUME TypeOK, Next, SomeActive, now' = now, mode # "syncing",
         \A q \in Request : ~Overwrites(q)
  PROVE  SomeActive'
<1>1. CASE rows' = rows
  BY <1>1, SameKeys
<1>2. ASSUME NEW q \in Request, Create(q) PROVE SomeActive'
  <2> DEFINE id == pending[q].id
             row == [secret |-> pending[q].secret, enabled |-> pending[q].enabled,
                     expiresAt |-> pending[q].expiresAt, source |-> "managed"]
  <2>1. pending[q] \in Operation /\ pending[q].kind = "create"
    BY <1>2 DEF Create, TypeOK
  <2>2. id \in KeyId
    BY <2>1 DEF Operation
  <2>3. ~Stored(id) /\ (rows' = rows \/ rows' = [rows EXCEPT ![id] = row])
    BY <1>2 DEF Create, Save, Overwrites
  <2>4. AnotherActive(id)
    BY <2>2, <2>3 DEF SomeActive, Stored, Active, AnotherActive
  <2> QED
    BY <1>1, <2>2, <2>3, <2>4, OthersStay
<1>3. ASSUME NEW q \in Request, Update(q) PROVE SomeActive'
  <2> DEFINE id == pending[q].id
             updated == Updated(pending[q])
  <2>1. pending[q] \in Operation /\ pending[q].kind = "update"
    BY <1>3 DEF Update, TypeOK
  <2>2. id \in KeyId
    BY <2>1 DEF Operation
  <2>3. rows' = rows \/ (AnotherActive(id) /\ rows' = [rows EXCEPT ![id] = updated])
    BY <1>3 DEF Update, UpdateAllowed, Save
  <2> QED
    BY <1>1, <2>2, <2>3, OthersStay
<1>4. ASSUME NEW q \in Request, Rotate(q) PROVE SomeActive'
  <2> DEFINE id == pending[q].id
             updated == [rows[id] EXCEPT !.secret = pending[q].secret]
  <2>1. pending[q] \in Operation /\ pending[q].kind = "rotate"
    BY <1>4 DEF Rotate, TypeOK
  <2>2. id \in KeyId
    BY <2>1 DEF Operation
  <2>3. rows' = rows \/ (Stored(id) /\ rows' = [rows EXCEPT ![id] = updated])
    BY <1>4 DEF Rotate, Save
  <2>4. CASE Stored(id) /\ rows' = [rows EXCEPT ![id] = updated]
    <3>1. rows[id] \in Row
      BY <2>2, <2>4 DEF TypeOK, Stored
    <3>2. updated.enabled = rows[id].enabled /\ updated.expiresAt = rows[id].expiresAt
          /\ updated \in Row
      <4>1. pending[q].secret \in Secret
        BY <2>1 DEF Operation
      <4> QED
        BY <3>1, <4>1 DEF Row
    <3>3. Active(rows[id]) => Active(updated)
      BY <3>2, KeyAssumption DEF Active, Row
    <3>4. Active(updated) \/ AnotherActive(id)
      BY <3>3 DEF SomeActive, AnotherActive
    <3> QED
      BY <2>2, <2>4, <3>4, OthersStay
  <2> QED
    BY <1>1, <2>3, <2>4
<1>5. ASSUME NEW id \in KeyId, Delete(id) PROVE SomeActive'
  BY <1>5, OthersStay DEF Delete
<1>6. ASSUME NEW q \in Request, BodyFails(q) PROVE SomeActive'
  BY <1>1, <1>6 DEF BodyFails
<1>7. CASE \/ \E c \in Configs : Start(c)
           \/ Serve \/ Stop \/ ProcessEnds \/ Tick
           \/ \E q \in Request, operation \in Operation : Authorize(q, operation)
  BY <1>1, <1>7 DEF Start, Serve, Stop, ProcessEnds, Tick, Authorize
<1>8. ~SyncKey
  BY DEF SyncKey
<1> QED
  BY <1>2, <1>3, <1>4, <1>5, <1>6, <1>7, <1>8 DEF Next

(* No request takes the last active key away, unless it creates a key      *)
(* under an id in use.                                                     *)
THEOREM LastKeyStays == Spec => LastKeyGuarded
<1>1. TypeOK /\ [Next]_vars =>
        [SomeActive /\ ~SomeActive' =>
           now' # now \/ mode = "syncing" \/ \E q \in Request : Overwrites(q)]_vars
  <2> SUFFICES ASSUME TypeOK, Next, SomeActive, now' = now, mode # "syncing",
                      \A q \in Request : ~Overwrites(q)
               PROVE  SomeActive'
    OBVIOUS
  <2> QED
    BY LastKeyStep
<1> QED
  BY <1>1, TypeCorrect, PTL DEF Spec, LastKeyGuarded

-----------------------------------------------------------------------------
(* The configured keys.                                                    *)

\* The loop has saved the first `synced' keys, a later one of an id over an
\* earlier one, and nothing else has touched them.
SyncInv ==
  mode = "syncing" =>
    \A i \in 1..synced : LastOfItsId(i, synced) => rows[config[i].id] = AsConfigured(config[i])

LEMMA SyncStep == TypeOK /\ SyncInv /\ [Next]_vars => SyncInv'
<1> SUFFICES ASSUME TypeOK, SyncInv, [Next]_vars PROVE SyncInv'
  OBVIOUS
<1>1. CASE mode' # "syncing"
  BY <1>1 DEF SyncInv
<1>2. CASE mode' = mode /\ rows' = rows /\ config' = config /\ synced' = synced
  BY <1>2 DEF SyncInv, LastOfItsId
<1>3. ASSUME NEW c \in Configs, Start(c) PROVE SyncInv'
  BY <1>3 DEF Start, SyncInv
<1>4. CASE SyncKey
  <2> DEFINE seed == config[synced + 1]
  <2>1. /\ config' = config /\ mode = "syncing" /\ synced \in Nat /\ synced < Len(config)
        /\ config \in Seq(Seed) /\ synced + 1 \in 1..Len(config)
    BY <1>4, KeyAssumption DEF SyncKey, TypeOK
  <2>2. CASE mode' = "syncing"
    <3>1. rows' = [rows EXCEPT ![seed.id] = AsConfigured(seed)] /\ synced' = synced + 1
      BY <1>4, <2>2 DEF SyncKey
    <3>2. seed.id \in KeyId
      <4>1. seed \in Seed
        BY <2>1
      <4> QED
        BY <4>1 DEF Seed
    <3>3. rows'[seed.id] = AsConfigured(seed)
      BY <3>1, <3>2 DEF TypeOK
    <3>4. ASSUME NEW i \in 1..synced, LastOfItsId(i, synced + 1)
          PROVE  rows'[config[i].id] = AsConfigured(config[i])
      <4>1. i \in 1..Len(config) /\ synced + 1 \in i + 1..synced + 1
        BY <2>1
      <4>2. config[i].id # seed.id /\ LastOfItsId(i, synced)
        BY <2>1, <3>4, <4>1 DEF LastOfItsId
      <4>3. config[i].id \in KeyId
        <5>1. config[i] \in Seed
          BY <2>1, <4>1
        <5> QED
          BY <5>1 DEF Seed
      <4>4. rows'[config[i].id] = rows[config[i].id]
        BY <3>1, <4>2, <4>3 DEF TypeOK
      <4> QED
        BY <2>1, <4>2, <4>4 DEF SyncInv
    <3>5. \A i \in 1..synced' : i \in 1..synced \/ i = synced + 1
      BY <2>1, <3>1
    <3>6. ASSUME NEW i \in 1..synced', LastOfItsId(i, synced)'
          PROVE  rows'[config[i].id] = AsConfigured(config[i])
      <4>1. LastOfItsId(i, synced + 1)
        BY <2>1, <3>1, <3>6 DEF LastOfItsId
      <4> QED
        BY <3>3, <3>4, <3>5, <4>1
    <3> QED
      BY <2>1, <3>6 DEF SyncInv, AsConfigured
  <2> QED
    BY <1>1, <2>2
<1>5. CASE Serve \/ Stop \/ ProcessEnds
  BY <1>1, <1>5 DEF Serve, Stop, ProcessEnds
<1>6. CASE Tick \/ \E q \in Request, operation \in Operation : Authorize(q, operation)
  BY <1>2, <1>6 DEF Tick, Authorize, lifecycleVars
<1>7. CASE \E q \in Request : BodyFails(q) \/ Create(q) \/ Update(q) \/ Rotate(q)
  <2>1. mode # "syncing" /\ mode' = mode
    BY <1>7 DEF BodyFails, Create, Update, Rotate, Resumes, lifecycleVars
  <2> QED
    BY <1>1, <2>1
<1>8. CASE \E id \in KeyId : Delete(id)
  BY <1>1, <1>8 DEF Delete, lifecycleVars
<1> QED
  BY <1>2, <1>3, <1>4, <1>5, <1>6, <1>7, <1>8 DEF Next, vars, lifecycleVars

(* When the API begins to serve, every configured key that no later one of *)
(* its id follows is stored as configured, whatever the config repeats.    *)
THEOREM ConfiguredKeysServe == Spec => BootstrapKeysServe
<1>1. Init => SyncInv
  BY DEF Init, SyncInv
<1>2. TypeOK /\ SyncInv /\ [Next]_vars =>
        [mode = "syncing" /\ mode' = "serving" =>
           \A i \in 1..Len(config) :
             LastOfItsId(i, Len(config)) => rows[config[i].id] = AsConfigured(config[i])]_vars
  <2> SUFFICES ASSUME TypeOK, SyncInv, Next, mode = "syncing", mode' = "serving"
               PROVE  \A i \in 1..Len(config) :
                        LastOfItsId(i, Len(config)) =>
                          rows[config[i].id] = AsConfigured(config[i])
    OBVIOUS
  <2>1. Serve
    BY DEF Next, Start, SyncKey, Stop, ProcessEnds, Tick, Authorize, BodyFails, Create, Update,
           Rotate, Resumes, Delete, lifecycleVars
  <2> QED
    BY <2>1 DEF Serve, SyncInv
<1> QED
  BY <1>1, <1>2, SyncStep, TypeCorrect, PTL DEF Spec, BootstrapKeysServe

=============================================================================
