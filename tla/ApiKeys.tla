------------------------------ MODULE ApiKeys ------------------------------
(***************************************************************************)
(* The API keys of modules/runtime-api and the api_keys table of           *)
(* packages/storage-sqlite: the synchronisation of the configured keys at  *)
(* start, the requests that create, update, rotate and delete keys, and    *)
(* the rule that an active key must remain.                                *)
(*                                                                         *)
(* A request is authorized before its body is awaited; what it does to the *)
(* table happens after, in one block without an await.  Permissions are    *)
(* left out: the callers here hold keys:write.  hashApiKey is one-to-one,  *)
(* so a row carries the secret in place of the hash.                       *)
(***************************************************************************)
EXTENDS Integers, Sequences

CONSTANTS
  KeyId, Secret,
  NoRow,            \* the row of an id that has no key
  Idle,             \* a request not under way
  Configs,          \* values of config.api.keys the operator may start with
  MaxTime,          \* bound on the clock; keys expire at times up to it
  Request,          \* requests that may be under way at a time
  MaxStarts         \* bound on the number of starts

Never == MaxTime + 1

Seed == [id : KeyId, secret : Secret, enabled : BOOLEAN, expiresAt : 0..Never]

ASSUME KeyAssumption ==
  /\ MaxTime \in Nat /\ MaxStarts \in Nat
  /\ \A c \in Configs : c \in Seq(Seed) /\ c # <<>>
  /\ NoRow \notin [secret : Secret, enabled : BOOLEAN, expiresAt : 0..Never,
                   source : {"config", "managed"}]

VARIABLES
  mode,      \* "down", "syncing", "failed", "serving" or "stopped"
  config,    \* config.api.keys of the current kernel
  synced,    \* number of configured keys saved by the loop so far
  starts,    \* number of starts
  rows,      \* the SQLite table api_keys
  now,       \* the clock
  pending    \* requests that are authorized and wait for their body

lifecycleVars == <<mode, config, synced, starts>>
vars == <<lifecycleVars, rows, now, pending>>

Row == [secret : Secret, enabled : BOOLEAN, expiresAt : 0..Never,
        source : {"config", "managed"}]

Operation ==
  [kind : {"create"}, id : KeyId, secret : Secret, enabled : BOOLEAN, expiresAt : 0..Never]
    \cup [kind : {"update"}, id : KeyId, enabled : BOOLEAN, expiresAt : 0..Never]
    \cup [kind : {"rotate"}, id : KeyId, secret : Secret]

-----------------------------------------------------------------------------
(* Rows.                                                                   *)

Stored(id) == rows[id] # NoRow

\* Enabled and not expired: what authorizeRequest asks of a key, and what
\* ensureAtLeastOneActiveApiKey counts.
Active(row) == row # NoRow /\ row.enabled /\ row.expiresAt > now

\* key_hash is unique: saving a secret another id has throws.
Conflicts(id, secret) == \E other \in KeyId \ {id} : Stored(other) /\ rows[other].secret = secret

\* Defect: a conflicting secret is stored all the same.
SaveUnchecked(id, row) == rows' = [rows EXCEPT ![id] = row]

\* saveApiKey(), and its exception.
Save(id, row) ==
  rows' = IF Conflicts(id, row.secret) THEN rows ELSE [rows EXCEPT ![id] = row]

\* Defect: an expired key that is enabled counts as active.
AnotherEnabled(id) == \E other \in KeyId \ {id} : Stored(other) /\ rows[other].enabled

\* The active keys besides id.
AnotherActive(id) == \E other \in KeyId \ {id} : Active(rows[other])

Init ==
  /\ mode = "down"
  /\ config = <<>>
  /\ synced = 0
  /\ starts = 0
  /\ rows = [id \in KeyId |-> NoRow]
  /\ now = 0
  /\ pending = [q \in Request |-> Idle]

-----------------------------------------------------------------------------
(* Start and stop.                                                         *)

\* The start() of runtime-api begins its synchronisation; `restart' and reload
\* both read the config again.
Start(c) ==
  /\ mode \in {"down", "stopped"}
  /\ starts < MaxStarts
  /\ mode' = "syncing"
  /\ config' = c
  /\ synced' = 0
  /\ starts' = starts + 1
  /\ UNCHANGED <<rows, now, pending>>

\* The row syncConfiguredApiKeys saves.
AsConfigured(seed) == [secret |-> seed.secret, enabled |-> seed.enabled,
                       expiresAt |-> seed.expiresAt, source |-> "config"]

\* Defect: a configured key that is stored already is left as it is.
SyncKeyOnce ==
  /\ mode = "syncing"
  /\ synced < Len(config)
  /\ LET seed == config[synced + 1]
     IN  IF Stored(seed.id) \/ Conflicts(seed.id, seed.secret)
           THEN UNCHANGED rows
           ELSE rows' = [rows EXCEPT ![seed.id] = AsConfigured(seed)]
  /\ synced' = synced + 1
  /\ UNCHANGED <<mode, config, starts, now, pending>>

\* One turn of the loop over the configured keys.  An exception ends start()
\* with the keys before it saved.
SyncKey ==
  /\ mode = "syncing"
  /\ synced < Len(config)
  /\ LET seed == config[synced + 1]
     IN  \/ /\ ~Conflicts(seed.id, seed.secret)
            /\ rows' = [rows EXCEPT ![seed.id] = AsConfigured(seed)]
            /\ synced' = synced + 1
            /\ UNCHANGED mode
         \/ /\ Conflicts(seed.id, seed.secret)
            /\ mode' = "failed"
            /\ UNCHANGED <<rows, synced>>
  /\ UNCHANGED <<config, starts, now, pending>>

\* Bun.serve.
Serve ==
  /\ mode = "syncing"
  /\ synced = Len(config)
  /\ mode' = "serving"
  /\ UNCHANGED <<config, synced, starts, rows, now, pending>>

\* A reload: the server stops, the process lives on.  A failed start leaves the
\* process in the same way when it was part of a reload.
Stop ==
  /\ mode \in {"serving", "failed"}
  /\ mode' = "stopped"
  /\ UNCHANGED <<config, synced, starts, rows, now, pending>>

ProcessEnds ==
  /\ mode # "down"
  /\ mode' = "down"
  /\ pending' = [q \in Request |-> Idle]
  /\ UNCHANGED <<config, synced, starts, rows, now>>

Tick ==
  /\ now < MaxTime
  /\ now' = now + 1
  /\ UNCHANGED <<lifecycleVars, rows, pending>>

-----------------------------------------------------------------------------
(* Requests.                                                               *)

\* authorizeRequest() found an active key, and the body is awaited.
Authorize(q, operation) ==
  /\ mode = "serving"
  /\ pending[q] = Idle
  /\ \E id \in KeyId : Active(rows[id])
  /\ pending' = [pending EXCEPT ![q] = operation]
  /\ UNCHANGED <<lifecycleVars, rows, now>>

\* The event loop runs nothing else while keys are synchronised.
Resumes(q) ==
  /\ mode # "syncing"
  /\ pending[q] # Idle
  /\ pending' = [pending EXCEPT ![q] = Idle]
  /\ UNCHANGED <<lifecycleVars, now>>

\* The body does not come, or is not JSON.
BodyFails(q) == Resumes(q) /\ UNCHANGED rows

\* createManagedApiKey(): an id in use is replaced.
Create(q) ==
  /\ pending[q] # Idle /\ pending[q].kind = "create"
  /\ Save(pending[q].id, [secret |-> pending[q].secret, enabled |-> pending[q].enabled,
                          expiresAt |-> pending[q].expiresAt, source |-> "managed"])
  /\ Resumes(q)

\* ensureAtLeastOneActiveApiKey(updated, id) leaves the key itself out of the
\* count, also when the update would keep it active.
UpdateAllowed(id) == AnotherActive(id)

\* The row an update would store.
Updated(operation) == [rows[operation.id] EXCEPT !.enabled = operation.enabled,
                                                 !.expiresAt = operation.expiresAt]

\* updateApiKey(): throws for an unknown key, and when no other key is active.
Update(q) ==
  /\ pending[q] # Idle /\ pending[q].kind = "update"
  /\ LET id == pending[q].id
     IN  \/ Stored(id) /\ UpdateAllowed(id) /\ Save(id, Updated(pending[q]))
         \/ (Stored(id) => ~UpdateAllowed(id)) /\ UNCHANGED rows
  /\ Resumes(q)

Rotate(q) ==
  /\ pending[q] # Idle /\ pending[q].kind = "rotate"
  /\ LET id == pending[q].id
     IN  \/ Stored(id) /\ Save(id, [rows[id] EXCEPT !.secret = pending[q].secret])
         \/ ~Stored(id) /\ UNCHANGED rows
  /\ Resumes(q)

\* deleteApiKey(): no body, so authorized and done in one block.
Delete(id) ==
  /\ mode = "serving"
  /\ \E caller \in KeyId : Active(rows[caller])
  /\ Stored(id)
  /\ AnotherActive(id)
  /\ rows' = [rows EXCEPT ![id] = NoRow]
  /\ UNCHANGED <<lifecycleVars, now, pending>>

-----------------------------------------------------------------------------
Next ==
  \/ \E c \in Configs : Start(c)
  \/ SyncKey
  \/ Serve
  \/ Stop
  \/ ProcessEnds
  \/ Tick
  \/ \E q \in Request, operation \in Operation : Authorize(q, operation)
  \/ \E q \in Request : BodyFails(q) \/ Create(q) \/ Update(q) \/ Rotate(q)
  \/ \E id \in KeyId : Delete(id)

Spec == Init /\ [][Next]_vars

-----------------------------------------------------------------------------
(* Properties.                                                             *)

\* Besides the types: a secret belongs to one key, so that the key found by
\* getApiKeyByHash (limit 1) is the only one.
TypeOK ==
  /\ mode \in {"down", "syncing", "failed", "serving", "stopped"}
  /\ config \in Configs \cup {<<>>}
  /\ synced \in 0..Len(config)
  /\ starts \in 0..MaxStarts
  /\ rows \in [KeyId -> Row \cup {NoRow}]
  /\ now \in 0..MaxTime
  /\ pending \in [Request -> Operation \cup {Idle}]
  /\ \A id, other \in KeyId :
       Stored(id) /\ Stored(other) /\ rows[id].secret = rows[other].secret => id = other

SomeActive == \E id \in KeyId : Active(rows[id])

\* Request q creates a key under an id in use.
Overwrites(q) == Create(q) /\ Stored(pending[q].id)

\* No request, whatever came between its authorization and its body, takes the
\* last key away that can still call the API: the API may become unusable by
\* the clock, by a start with other configured keys, and by a client that creates
\* a key under an id in use, and by nothing else.
LastKeyGuarded ==
  [][SomeActive /\ ~SomeActive' =>
       now' # now \/ mode = "syncing" \/ \E q \in Request : Overwrites(q)]_vars

\* "At least one active API key must remain" (modules/runtime-api/src/index.ts:579):
\* no request of the API leaves it without an active key.
ActiveKeyRemains ==
  [][SomeActive /\ mode = "serving" /\ mode' = "serving" /\ now' = now => SomeActive']_vars

\* The seed at place i of the first n is the last of its id among them.
LastOfItsId(i, n) == \A j \in i + 1..n : config[j].id # config[i].id

\* When the API begins to serve, every configured key is stored as configured,
\* whatever was updated, rotated, deleted or created under its id before.  The
\* schema lets an id be configured twice: its last key is the one stored.
BootstrapKeysServe ==
  [][mode = "syncing" /\ mode' = "serving" =>
       \A i \in 1..Len(config) :
         LastOfItsId(i, Len(config)) => rows[config[i].id] = AsConfigured(config[i])]_vars

=============================================================================
