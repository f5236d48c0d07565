-------------------------- MODULE AccountSession --------------------------
(***************************************************************************)
(* The accounts of a kernel: packages/account-registry, start(), stop()    *)
(* and the client events of modules/runtime-whatsapp, and the rows of the  *)
(* SQLite table accounts, which is written as a whole after each change.   *)
(*                                                                         *)
(* An instance is one Kernel.  A reload constructs the next one while the  *)
(* previous one runs, stops the previous one and starts the next one;      *)
(* what the old clients still had under way goes on and writes the same    *)
(* table from the old registry.  phase[i] is where instance i is:          *)
(*   "unborn"       not constructed                                        *)
(*   "constructed"  registry filled, accounts saved, not started           *)
(*   "starting"     start() between two accounts of turn[i] on             *)
(*   "running"      Kernel.start() has returned                            *)
(*   "stopping"     stop() awaits a destroy() from turn[i] on              *)
(*   "stopped"      Kernel.stop() has returned                             *)
(*   "broken"       start() or stop() threw                                *)
(*   "gone"         its process has ended                                  *)
(* A stop() before start() has ended is left to DaemonLifecycle.           *)
(***************************************************************************)
EXTENDS Integers, Sequences, FiniteSets

CONSTANTS
  Account,           \* account ids
  AutoInitialize,    \* config.whatsapp.autoInitialize
  NoRecord,          \* an account the registry or the table does not hold
  MaxInstances,      \* bound on the number of kernels
  Environments       \* the circumstances the kernels may meet, each a record of
                     \*   configs: values of config.accounts, sequences of [id, enabled]
                     \*   storageFails: whether upsertAccounts() may throw
                     \*   destroyFails: whether client.destroy() may throw
                     \*   messages: whether messages arrive
                     \*   kernels: the number of kernels

DistinctIds(config) == \A m, n \in DOMAIN config : config[m].id = config[n].id => m = n

ASSUME AccountAssumption ==
  /\ AutoInitialize \in BOOLEAN
  /\ MaxInstances \in Nat
  /\ \A e \in Environments :
       /\ \A accounts \in e.configs :
            accounts \in Seq([id : Account, enabled : BOOLEAN]) /\ DistinctIds(accounts)
       /\ {e.storageFails, e.destroyFails, e.messages} \subseteq BOOLEAN
       /\ e.kernels \in 0..MaxInstances

\* The configs of all environments.
Configs == UNION {e.configs : e \in Environments}

State == {"created", "initializing", "qr_required", "authenticating", "ready",
          "disconnected", "stopped", "failed"}

\* qr and error: whether qrCode and lastError are set.
Record == [state : State, qr : BOOLEAN, error : BOOLEAN]

ASSUME NoRecordAssumption == NoRecord \notin Record

Instance == 1..MaxInstances

VARIABLES
  environment, \* which circumstances hold, from the beginning to the end
  instance,    \* number of kernels constructed
  config,      \* config[i]: config.accounts of instance i
  phase, turn,
  record,      \* record[i][a]: the account registry of instance i
  client,      \* client[i][a]: "none", "idle" (never initialized), "live" or "dead"
  opening,     \* clients whose initialize() has not settled
  handling,    \* clients with a message event between its two awaits
  table        \* the rows of the SQLite table accounts

lifecycleVars == <<environment, instance, config, phase, turn>>
clientVars == <<client, opening, handling>>
vars == <<lifecycleVars, record, clientVars, table>>

-----------------------------------------------------------------------------
(* Records and rows.                                                       *)

Listed(accounts) == {accounts[n].id : n \in DOMAIN accounts}

\* The constructor of AccountRegistry.
Fresh(accounts) ==
  [a \in Account |->
     IF a \in Listed(accounts)
       THEN [state |-> IF \E n \in DOMAIN accounts : accounts[n] = [id |-> a, enabled |-> TRUE]
                         THEN "created" ELSE "stopped",
             qr |-> FALSE, error |-> FALSE]
       ELSE NoRecord]

\* upsertAccounts(list()): a transaction over the accounts of one registry; the
\* rows of other accounts stay.
Rows(accounts, records) ==
  [a \in Account |-> IF a \in Listed(accounts) THEN records[a] ELSE table[a]]

Saved(i, records) == table' = Rows(config[i], records)

\* updateState(), setQrCode() and setLastError() of one account.
Patched(i, a, new) == [record[i] EXCEPT ![a] = new]

\* Defect: the accounts are saved before the record is patched.
SaveAndPatch(i, a, new) ==
  /\ record' = [record EXCEPT ![i] = Patched(i, a, new)]
  /\ \/ Saved(i, record[i])
     \/ environment.storageFails /\ UNCHANGED table

\* Patch the record and save all of them; when the save throws, the record stays
\* patched and the exception is logged or rejects a promise nobody awaits.
PatchAndSave(i, a, new) ==
  /\ record' = [record EXCEPT ![i] = Patched(i, a, new)]
  /\ \/ Saved(i, Patched(i, a, new))
     \/ environment.storageFails /\ UNCHANGED table

InState(i, a, state) == [record[i][a] EXCEPT !.state = state]

Failed(i, a) == [record[i][a] EXCEPT !.state = "failed", !.error = TRUE]

-----------------------------------------------------------------------------
Init ==
  /\ environment \in Environments
  /\ instance = 0
  /\ config = [i \in Instance |-> <<>>]
  /\ phase = [i \in Instance |-> "unborn"]
  /\ turn = [i \in Instance |-> 1]
  /\ record = [i \in Instance |-> [a \in Account |-> NoRecord]]
  /\ client = [i \in Instance |-> [a \in Account |-> "none"]]
  /\ opening = {}
  /\ handling = {}
  /\ table = [a \in Account |-> NoRecord]

-----------------------------------------------------------------------------
(* Kernels.                                                                *)

\* The constructor of Kernel, on a start or in a reload.  (When its save throws
\* there is no kernel.)
Construct(accounts) ==
  /\ instance < environment.kernels
  /\ accounts \in environment.configs
  /\ instance # 0 => phase[instance] \in {"running", "gone"}
  /\ instance' = instance + 1
  /\ config' = [config EXCEPT ![instance + 1] = accounts]
  /\ phase' = [phase EXCEPT ![instance + 1] = "constructed"]
  /\ record' = [record EXCEPT ![instance + 1] = Fresh(accounts)]
  /\ table' = Rows(accounts, Fresh(accounts))
  /\ UNCHANGED <<environment, turn, clientVars>>

\* Nothing runs of the kernels before the last one.
Free == \A i \in 1..(instance - 1) : phase[i] \in {"stopped", "gone"}

\* Defect: kernel.start() is called while the previous kernel stops.
BeginStartEarly ==
  /\ instance # 0
  /\ phase[instance] = "constructed"
  /\ \A i \in 1..(instance - 1) : phase[i] # "running"
  /\ phase' = [phase EXCEPT ![instance] = "starting"]
  /\ UNCHANGED <<environment, instance, config, turn, record, clientVars, table>>

\* kernel.start(), once the previous kernel has stopped.
BeginStart ==
  /\ instance # 0
  /\ phase[instance] = "constructed"
  /\ Free
  /\ phase' = [phase EXCEPT ![instance] = "starting"]
  /\ UNCHANGED <<environment, instance, config, turn, record, clientVars, table>>

\* The places of the accounts start() does not pass over.
Initialized(i) == {n \in DOMAIN config[i] : AutoInitialize /\ config[i][n].enabled}

\* n is the next of the places, counted from turn[i].
NextPlace(i, places, n) ==
  /\ n \in places
  /\ n >= turn[i]
  /\ \A m \in places : m >= turn[i] => n =< m

\* Both mkdir() calls returned: the client is made and initialize() is called.
ClientCreated(i, n) ==
  LET a == config[i][n].id
  IN  /\ client' = [client EXCEPT ![i][a] = "live"]
      /\ opening' = opening \cup {<<i, a>>}
      /\ record' = [record EXCEPT ![i] = Patched(i, a, InState(i, a, "initializing"))]
      /\ Saved(i, Patched(i, a, InState(i, a, "initializing")))
      /\ turn' = [turn EXCEPT ![i] = n + 1]
      /\ UNCHANGED <<phase, handling>>

\* Defect: the exception of one account leaves the loop.
AccountFailsAll(i, n) ==
  LET a == config[i][n].id
  IN  /\ record' = [record EXCEPT ![i] = Patched(i, a, Failed(i, a))]
      /\ Saved(i, Patched(i, a, Failed(i, a)))
      /\ turn' = [turn EXCEPT ![i] = Len(config[i]) + 1]
      /\ UNCHANGED <<phase, clientVars>>

\* The catch block: mkdir() threw, and there is no client, or the save threw, and
\* the client is in the map but never initialized.  If the save of the catch
\* block throws, start() does.
AccountFails(i, n) ==
  LET a == config[i][n].id
  IN  /\ \/ UNCHANGED client
         \/ environment.storageFails /\ client' = [client EXCEPT ![i][a] = "idle"]
      /\ record' = [record EXCEPT ![i] = Patched(i, a, Failed(i, a))]
      /\ \/ /\ Saved(i, Patched(i, a, Failed(i, a)))
            /\ turn' = [turn EXCEPT ![i] = n + 1]
            /\ UNCHANGED phase
         \/ /\ environment.storageFails
            /\ phase' = [phase EXCEPT ![i] = "broken"]
            /\ UNCHANGED <<turn, table>>
      /\ UNCHANGED <<opening, handling>>

StartAccount(i) ==
  /\ phase[i] = "starting"
  /\ \E n \in DOMAIN config[i] :
       /\ NextPlace(i, Initialized(i), n)
       /\ ClientCreated(i, n) \/ AccountFails(i, n)
  /\ UNCHANGED <<environment, instance, config>>

\* The end of Kernel.start() saves the accounts once more.
StartEnds(i) ==
  /\ phase[i] = "starting"
  /\ \A n \in Initialized(i) : n < turn[i]
  /\ \/ phase' = [phase EXCEPT ![i] = "running"] /\ Saved(i, record[i])
     \/ environment.storageFails /\ phase' = [phase EXCEPT ![i] = "broken"] /\ UNCHANGED table
  /\ turn' = [turn EXCEPT ![i] = 1]
  /\ UNCHANGED <<environment, instance, config, record, clientVars>>

BeginStop(i) ==
  /\ phase[i] = "running"
  /\ phase' = [phase EXCEPT ![i] = "stopping"]
  /\ UNCHANGED <<environment, instance, config, turn, record, clientVars, table>>

\* The places of the accounts with an entry in the map of clients.
WithClient(i) == {n \in DOMAIN config[i] : client[i][config[i][n].id] # "none"}

\* Defect: destroy() is not awaited.
DestroyClientUnawaited(i) ==
  /\ phase[i] = "stopping"
  /\ \E n \in DOMAIN config[i] :
       LET a == config[i][n].id
       IN  /\ NextPlace(i, WithClient(i), n)
           /\ record' = [record EXCEPT ![i] = Patched(i, a, InState(i, a, "stopped"))]
           /\ turn' = [turn EXCEPT ![i] = n + 1]
  /\ UNCHANGED <<environment, instance, config, phase, clientVars, table>>

\* Defect: nothing moves on to the next client.
DestroyClientInPlace(i) ==
  /\ phase[i] = "stopping"
  /\ \E n \in DOMAIN config[i] :
       LET a == config[i][n].id
       IN  /\ NextPlace(i, WithClient(i), n)
           /\ client' = [client EXCEPT ![i][a] = "dead"]
           /\ record' = [record EXCEPT ![i] = Patched(i, a, InState(i, a, "stopped"))]
  /\ UNCHANGED <<environment, instance, config, phase, turn, opening, handling, table>>

\* A destroy() returned, and the state says so in memory only; or it threw.
DestroyClient(i) ==
  /\ phase[i] = "stopping"
  /\ \E n \in DOMAIN config[i] :
       LET a == config[i][n].id
       IN  /\ NextPlace(i, WithClient(i), n)
           /\ \/ /\ client' = [client EXCEPT ![i][a] = "dead"]
                 /\ record' = [record EXCEPT ![i] = Patched(i, a, InState(i, a, "stopped"))]
                 /\ turn' = [turn EXCEPT ![i] = n + 1]
                 /\ UNCHANGED phase
              \/ /\ environment.destroyFails
                 /\ phase' = [phase EXCEPT ![i] = "broken"]
                 /\ UNCHANGED <<client, record, turn>>
  /\ UNCHANGED <<environment, instance, config, opening, handling, table>>

\* stop() of runtime-whatsapp and Kernel.stop() save the accounts and return.
StopEnds(i) ==
  /\ phase[i] = "stopping"
  /\ \A n \in WithClient(i) : n < turn[i]
  /\ \/ phase' = [phase EXCEPT ![i] = "stopped"] /\ Saved(i, record[i])
     \/ environment.storageFails /\ phase' = [phase EXCEPT ![i] = "broken"] /\ UNCHANGED table
  /\ UNCHANGED <<environment, instance, config, turn, record, clientVars>>

\* The process ends, with the work of all its kernels.
ProcessEnds ==
  /\ \E i \in Instance : phase[i] \notin {"unborn", "gone"}
  /\ phase' = [i \in Instance |-> IF phase[i] = "unborn" THEN "unborn" ELSE "gone"]
  /\ client' = [i \in Instance |->
                  [a \in Account |-> IF client[i][a] = "none" THEN "none" ELSE "dead"]]
  /\ opening' = {}
  /\ handling' = {}
  /\ UNCHANGED <<environment, instance, config, turn, record, table>>

-----------------------------------------------------------------------------
(* Clients.                                                                *)

\* initialize() settles: it returns, or it throws, also because the client was
\* destroyed in the meantime.
InitializeSettles(i, a) ==
  /\ <<i, a>> \in opening
  /\ opening' = opening \ {<<i, a>>}
  /\ \/ PatchAndSave(i, a, Failed(i, a))
     \/ UNCHANGED <<record, table>>
  /\ UNCHANGED <<lifecycleVars, client, handling>>

ClientEvent(i, a, new) ==
  /\ client[i][a] = "live"
  /\ PatchAndSave(i, a, new)
  /\ UNCHANGED <<lifecycleVars, clientVars>>

OnQr(i, a) ==
  ClientEvent(i, a, [record[i][a] EXCEPT !.state = "qr_required", !.qr = TRUE])

OnAuthenticated(i, a) ==
  ClientEvent(i, a, [record[i][a] EXCEPT !.state = "authenticating", !.error = FALSE])

\* Defect: the QR code stays.
OnReadyKeepsQr(i, a) == ClientEvent(i, a, InState(i, a, "ready"))

OnReady(i, a) ==
  ClientEvent(i, a, [record[i][a] EXCEPT !.state = "ready", !.qr = FALSE])

OnAuthFailure(i, a) == ClientEvent(i, a, Failed(i, a))

OnDisconnected(i, a) ==
  ClientEvent(i, a, [record[i][a] EXCEPT !.state = "disconnected", !.error = TRUE])

\* A message: normalizeMessage() awaits the media and the quoted message.
OnMessage(i, a) ==
  /\ environment.messages
  /\ client[i][a] = "live"
  /\ handling' = handling \cup {<<i, a>>}
  /\ UNCHANGED <<lifecycleVars, record, client, opening, table>>

\* Normalized, touched and saved, also after the client was destroyed; or the
\* normalization threw, or the save, and the event is given up.
MessageHandled(i, a) ==
  /\ <<i, a>> \in handling
  /\ handling' = handling \ {<<i, a>>}
  /\ Saved(i, record[i]) \/ UNCHANGED table
  /\ UNCHANGED <<lifecycleVars, record, client, opening>>

-----------------------------------------------------------------------------
LifecycleStep(i) == StartAccount(i) \/ StartEnds(i) \/ DestroyClient(i) \/ StopEnds(i)

Next ==
  \/ \E accounts \in Configs : Construct(accounts)
  \/ BeginStart
  \/ ProcessEnds
  \/ \E i \in Instance : LifecycleStep(i) \/ BeginStop(i)
  \/ \E i \in Instance, a \in Account :
       \/ InitializeSettles(i, a)
       \/ OnQr(i, a) \/ OnAuthenticated(i, a) \/ OnReady(i, a)
       \/ OnAuthFailure(i, a) \/ OnDisconnected(i, a)
       \/ OnMessage(i, a) \/ MessageHandled(i, a)

Spec == Init /\ [][Next]_vars

\* mkdir() and destroy() return or throw.
Fairness == \A i \in Instance : WF_vars(LifecycleStep(i))

FairSpec == Spec /\ Fairness

-----------------------------------------------------------------------------
(* Properties.                                                             *)

TypeOK ==
  /\ environment \in Environments
  /\ instance \in 0..MaxInstances
  /\ config \in [Instance -> Configs \cup {<<>>}]
  /\ phase \in [Instance -> {"unborn", "constructed", "starting", "running",
                             "stopping", "stopped", "broken", "gone"}]
  /\ \A i \in Instance : phase[i] = "unborn" <=> i > instance
  /\ turn \in [Instance -> Nat]
  /\ record \in [Instance -> [Account -> Record \cup {NoRecord}]]
  /\ \A i \in Instance, a \in Account :
       record[i][a] \in Record <=> a \in Listed(config[i])
  /\ client \in [Instance -> [Account -> {"none", "idle", "live", "dead"}]]
  /\ \A i \in Instance, a \in Account :
       client[i][a] # "none" => a \in Listed(config[i])
  /\ opening \in SUBSET {x \in Instance \X Account : client[x[1]][x[2]] \in {"live", "dead"}}
  /\ handling \in SUBSET {x \in Instance \X Account : client[x[1]][x[2]] \in {"live", "dead"}}
  /\ table \in [Account -> Record \cup {NoRecord}]

\* An account's fields tell one story, through any order of client events, late
\* failures of initialize() and failed saves: a failed or disconnected account has
\* its error, one that waits for a scan has its QR code, and one that is ready has
\* no QR code left for the login route to hand out.
FieldsAgree ==
  \A i \in Instance, a \in Account :
    record[i][a] # NoRecord =>
      /\ record[i][a].state \in {"failed", "disconnected"} => record[i][a].error
      /\ record[i][a].state = "authenticating" => ~record[i][a].error
      /\ record[i][a].state = "qr_required" => record[i][a].qr
      /\ record[i][a].state = "ready" => ~record[i][a].qr

\* "autoInitialize: immediately initialize enabled accounts on boot"
\* (docs/configuration.md): when start() is over every enabled account has its
\* client, or has failed and says so; the failure of one keeps no other back.
StartReachesAll ==
  \A i \in Instance : phase[i] \in {"running", "stopping", "stopped"} =>
    \A n \in Initialized(i) :
      LET a == config[i][n].id
      IN  client[i][a] = "none" => record[i][a].state = "failed"

\* A kernel that has stopped has no live client, and what an account of it says
\* afterwards is "stopped", or "failed" for an initialize() or a start that failed,
\* and nothing a late event could have brought.
StopIsFinal ==
  \A i \in Instance, a \in Account :
    phase[i] = "stopped" =>
      /\ client[i][a] \in {"none", "dead"}
      /\ client[i][a] = "dead" => record[i][a].state \in {"stopped", "failed"}

\* No kernel but the current one has work or clients left in this process.
Alone == \A i \in 1..(instance - 1) : phase[i] = "gone"

\* The accounts an operator finds in the database are those of the registry the API
\* shows: with working storage, and until a stop() begins, every change is saved
\* with it.  (After a reload the old kernel's late writes can break this.)
RowsFollowRegistry ==
  ~environment.storageFails /\ instance # 0 /\ Alone
    /\ phase[instance] \in {"constructed", "starting", "running", "stopped"} =>
      \A a \in Listed(config[instance]) : table[a] = record[instance][a]

\* Every start and every stop ends.
StartsAndStopsEnd ==
  \A i \in Instance : phase[i] \in {"starting", "stopping"} ~>
                      phase[i] \notin {"starting", "stopping"}

-----------------------------------------------------------------------------
(* The accounts keep to KernelSuccession.                                  *)

Stage ==
  IF instance = 0 THEN "none"
  ELSE IF phase[instance] = "constructed"
    THEN IF Free THEN "starting"
         ELSE IF phase[instance - 1] = "broken" THEN "over" ELSE "replacing"
  ELSE IF phase[instance] \in {"stopped", "broken"} THEN "over" ELSE phase[instance]

Succession == INSTANCE KernelSuccession
                WITH kernel <- instance, stage <- Stage,
                     holders <- {i \in Instance : \E a \in Account : client[i][a] = "live"}

\* No two kernels have live clients at a time, whatever throws and whenever it does:
\* clients are made by a kernel that starts, when those of the one before it are
\* destroyed, and none is left of a kernel that has stopped.
KeepsSuccession == Succession!Spec

=============================================================================
