# TLA+ models of wato

wato is a daemon that connects WhatsApp accounts to an HTTP API, to workflows
and to webhooks.  It is one Bun process: a single thread runs callbacks and
async functions from one `await` to the next, state lives in arrays and maps in
memory and in one SQLite file, and SQLite calls are synchronous.  What is hard
in such a program happens at the awaits, at timers, at signals, and when the
process ends between two writes.  These modules model that part; TLC checks them
on small instances, and TLAPS proves the invariants and the refinements for all
values of the constants, one of them from a fact about two fixed tables that TLC
evaluates.

Paths below are relative to `src/`.

## Inventory

| Component | State | Operations | Talks to |
|---|---|---|---|
| `apps/daemon` | `state`, `kernel`, `reloadPromise`, `stoppingPromise` | start, reload, stop, signal and error handlers, forced exit | creates and stops kernels |
| `packages/kernel` | registrations, status, capability map | constructor, start, stop, syncAccounts | starts modules in order, stops them in reverse |
| `packages/event-bus` | handler sets | publish, subscribe, unsubscribe | called by runtime-whatsapp; calls the kernel's saveEvent, the workflow and the webhook subscriber, in this order |
| `packages/storage-sqlite` | tables accounts, domain_events, workflows, workflow_executions, webhooks, webhook_deliveries, api_keys | upserts, lists, deletes | called by all the others |
| `packages/account-registry` | account records (state, QR code, last error) | updateState, setQrCode, setLastError, touch | runtime-whatsapp writes, the API reads |
| `modules/runtime-whatsapp` | clients per account, message id aliases | start, stop, 23 client events, gateway methods | whatsapp-web.js; publishes events |
| `modules/runtime-workflow` | array of workflows, provider types | register, upsert, validate, test, subscriber, stop | runs the engine, stores definitions |
| `packages/workflow-engine` | provider maps | execute, validateWorkflowDefinition | calls providers, stores executions |
| `modules/runtime-webhook` | array of webhooks, retry timers | register, upsert, remove, replayDelivery, subscriber, queueDelivery, stop | HTTP endpoints; stores deliveries |
| `modules/runtime-api` | the server; keys in the table api_keys | start (key synchronisation), stop, about 100 routes | calls the registries, the gateway and the system controller |
| `packages/config` | none | reads and merges files and environment | called by start and reload |
| `modules/action-message`, `packages/workflow-types` | none | actions on messages, chats, groups, ...; the values of tokens in their configuration | called by the engine; call the gateway of runtime-whatsapp |
| `modules/trigger-message`, `action-data` | none | matching, actions on data | providers of the engine |
| `packages/api-client` | none | one request per method | the routes of runtime-api |
| `apps/cli`, `packages/api-types`, `core`, `logging`, `module-graph`, `modules/runtime-health` | none | pure or read-only | |

Hard behaviours, and what makes each component correct:

- **Webhooks.**  Fetches are never cancelled, timers are cleared only by the
  `stop` of their instance, and the instance of a reload lives beside what the
  old one left.  Correct means: the stored history of a delivery has no gap and
  no repetition, a delivered event is not sent again, `nextRetryAt` is true, an
  event reaches a webhook once, the array and the table agree, every chain ends.
- **Daemon.**  start, reload and stop are three tasks over the same fields.
  Correct means: no two kernels on one session directory, "running" means
  serving, stop releases every kernel, nobody waits for ever.
- **Workflows.**  Runs are suspended inside a loop over an array that upsert
  changes; exceptions may leave the loop.  Correct means: each applicable
  workflow leaves exactly one row, whose status and steps tell what was done.
- **Accounts.**  Client events, a late `initialize()` failure, start, stop and
  a reload write the same records and rows.  Correct means: the fields of a
  record agree, no account keeps another from starting, stop leaves no client,
  rows follow the registry.
- **API keys.**  A request is authorized before its body is awaited; keys
  expire; the config overwrites stored keys at each start.  Correct means: the
  API never loses its last active key to a request, a secret has one key, the
  configured keys serve.
- **Events.**  The client's handlers await media and quoted messages, then
  publish; publishes overlap, one handler that throws ends its publish, and
  subscribers leave one by one while events still come.  Correct means: stored
  before told, told once, workflows before webhooks, order kept where nothing is
  fetched, a media path that leads to the message's own media.
- **Messages and their ids.**  The id that wato answers with is not the one that
  WhatsApp opens a message by; a map in memory leads from one to the other.
  Correct means: what was sent can be asked for, an operation touches the message
  it names, a token in a workflow leads to the message its action made.
- **Requests.**  Two tables of paths in two packages must agree; updates of
  settings are several awaited calls and interleave with each other and with
  reloads.  Correct means: every method reaches its handler, an answered update
  is not undone by one that was over before it.

`PROJECT.json` lists the hazards at their lines, with the properties that cover
them, and the one that no property covers.

## Modules

| Module | Models | Kind |
|---|---|---|
| `WebhookRuntime` | runtime-webhook, its tables, its view of the bus | component |
| `DefinitionTable` | the arrays and tables in which runtime-webhook and runtime-workflow keep their definitions | operators of the two components |
| `DeliveryPromise` | what a delivery is promised | abstract specification |
| `MCWebhookRuntime` | the instance for TLC | |
| `WebhookRuntime_proofs` | theorems | proofs |
| `DaemonLifecycle`, `MCDaemonLifecycle`, `DaemonLifecycle_proofs` | apps/daemon over Kernel.start/stop | component, instance, proofs |
| `KernelSuccession` | how kernels and their clients follow each other | abstract specification |
| `WorkflowRuntime`, `MCWorkflowRuntime`, `WorkflowRuntime_proofs` | runtime-workflow and workflow-engine | component, instance, proofs |
| `RunPromise` | what an event is promised by the workflows | abstract specification |
| `AccountSession`, `MCAccountSession`, `AccountSession_proofs` | account-registry and the account part of runtime-whatsapp | component, instance, proofs |
| `ApiKeys`, `MCApiKeys`, `ApiKeys_proofs` | the keys of runtime-api | component, instance, proofs |
| `EventFlow`, `MCEventFlow`, `EventFlow_proofs` | events from the client's handlers through the bus to its subscribers | composition, instance, proofs |
| `EventPromise` | what the bus promises its subscribers | abstract specification |
| `MessageGateway` | sending, message ids and the operations on messages in runtime-whatsapp | component |
| `WorkflowActions`, `MCWorkflowActions`, `WorkflowActions_proofs` | action-message and the tokens of workflow-types over `MessageGateway`, beside the API's clients | composition, instance, proofs |
| `ApiRoutes` | the routes of runtime-api and the requests of api-client | tables and dispatch |
| `ApiRequests`, `MCApiRequests`, `ApiRequests_proofs` | requests from the client to the gateway across reloads | composition, instance, proofs |

`WebhookRuntime`, `DaemonLifecycle`, `WorkflowRuntime`, `AccountSession` and
`ApiKeys` share no variables.  They are joined by what the daemon does to
all of them: each has a running number of instances (`register()` calls or
kernels), a stop that may come at any time, and `ProcessEnds` for a crash or
exit, which drops memory and keeps the tables.  `KernelSuccession` is what
justifies that pattern.  `DaemonLifecycle` implements it, and so shows in which
order kernels are made, stopped and started; `AccountSession`, which takes that
order for granted in the guard of `BeginStart`, implements it too, and so shows
that the clients of the accounts are where the daemon takes them to be.
The three compositions cut across them: `EventFlow` follows an event through
runtime-whatsapp, event-bus, kernel and both subscribers, `WorkflowActions` an
action through engine, action-message and gateway, `ApiRequests` a request
through api-client, runtime-api and gateway.

A rigid variable (`environment`, `faults`, `scenario`) is chosen in the initial
state and never changes.  It says what may fail, how many instances there are or
what is asked for, so that one run goes through several small worlds instead of
one large one.

Each module keeps a few definitions marked `Defect:`.  They are not part of the
specification: each is a plausible mistake in one mapped definition, kept to
show that a property would notice it.

### DefinitionTable

Both runtimes load an array from a table when they register, or take the array of
the config and save it, and their registries then change both.  The schema of
`packages/config` does not ask for distinct ids, so the array is a sequence in
which an id may occur twice, while the table has the id as its primary key:
`Seeded` is what the table holds after the array was saved, the last definition of
each id.  `Upserted` replaces the first definition of an id, as findIndex() finds
it, `Filtered` drops all of them, and `Listings` orders the rows by id, which is
why ids are numbers here.  `Mirrors` says what the two have in common while storage
works: every row is in the array, and a definition of the array is its row unless
the config repeats its id.  `Repeats` is that exception, and the only one.

### WebhookRuntime

`registry[i]` is the array `webhooks` of instance `i`, `table` the rows it is
saved to, `publishing` the publishes whose handler snapshot holds a subscriber
that has not had its turn, `records` the rows of webhook_deliveries.  A *chain* is a
call of
`queueDelivery` with attempt 1 and its retries; `phase`, `attempt` and `job` are
its closure and what it waits for, `job[c].place` the place of the array it was
opened for (`Closure`).  A fresh uuid per row is replaced by chain and
attempt.  `Succeed`, `Fail` and `Abort` are the three ways the body of `run()`
ends, with the catch block and what follows it as one step, since there is no
await in it.  `Fail` includes a 2xx answer whose row could not be saved: the
code's catch block covers the save.  `Stop` clears the timers of its instance
only, `Publish` still works after `Stop` (clients of the old kernel are
destroyed later than the webhook runtime is stopped), and fetches of a stopped
instance still end, and may arm timers.  `webhooks.enabled`, `maxAttempts` and the
endpoints are constants: a reload with another config is not modelled here.

### DeliveryPromise

A delivery is opened, tried at most `MaxAttempts` times, and delivered, given up
after the last permitted try or interrupted; closed deliveries stay closed.
`WebhookRuntime` implements it under `Outcome`, which forgets instances, timers,
rows and the registry (`KeepsPromise`, checked and proved).

### DaemonLifecycle

One task record per method (`startTask`, `reloadTask`, `stopTask`) with a `pc`
that names the await it is suspended at; `state` and `current` are the fields
`state` and `kernel`.  A kernel holds two resources: `server` (the port) and
`clients` (WhatsApp clients on the session directories).  `environment` is chosen
in the initial state and never changes: whether signals may come before start()
has finished, reloads during stop(), and configs, starts and destroys may fail.
One run goes through all 32 of them, and a property that holds only in some
names them in its premise (`Calm`: none of the five).

### KernelSuccession

Kernels are numbered; `stage` is where the last one is, and `holders` are the
kernels with live WhatsApp clients.  A new kernel is constructed while the one
before it runs ("replacing"), it is started when nobody holds clients any more, and
after a failure no kernel comes until the process ends.  Clients are made by the
kernel that starts only, and are all gone when one has stopped.

`DaemonLifecycle` implements it (`KeepsSuccession`) where neither a signal comes
before start() has ended nor a reload while stop() waits for one (`Orderly`): in
those two cases a kernel starts beside another, or is never stopped, which the runs
that end with "no" and the observations show.  Its `Stage` reads the stage off the
awaits of the three tasks.  Failing configs, starts and destroys are not excepted.
`AccountSession` implements it in every environment: there `Stage` is the phase of
the last kernel, or, before that one is started, whether those before it have
stopped (`Free`); `holders` are the kernels with a live client of any account.

### WorkflowRuntime

A run is one event in the subscriber, or one `test()`.  `queue[r]` is the array
as the subscriber finds it, with the definitions an upsert replaces later;
`chosen[r]` are the places of it that the filter and the conditions of the loop
let through, and `Ahead(r)` those the loop has still to come to.  Rows and
performed actions carry the place of the snapshot they belong to, which stands
for the fresh uuid of an execution and keeps two workflows of one id apart.  Each await of `execute()` is a step, and a provider answers in all ways
it can: match or not, true or false, ok or not, or an exception.  A missing
provider and a failing save throw; `Throws` ends the subscriber and the publish.

### RunPromise

The workflows of an event, or the one of a test, are a plan that is fixed once.
They are executed in the order of the plan, each place of it once, and each has its
row before the next begins; the run is finished when none is left, or cut for ever by an
exception or the end of the process, and no row is taken back.  `WorkflowRuntime`
implements it under `Plan`, `Left`, `Fate` and `Rows`, which forget the registry,
the awaits within an execution and the steps (`KeepsPromise`, checked and proved).

### AccountSession

`record[i]` is the account registry of kernel `i`, reduced to the state and to
whether a QR code and an error are set; `client[i]` the map of clients; `opening`
the `initialize()` promises nobody awaits; `handling` the message handlers
between their awaits.  Each event handler changes the record and saves all
records in one block without an await, so it is one step (`ClientEvent`); the
events that only publish change no account and are left out.  `start()` takes
one step per account, `stop()` one per `destroy()`.  whatsapp-web.js is external:
its events come in any order while a client lives, and `initialize()` returns
or throws at any time after it was called, also after the client was
destroyed.

### ApiKeys

`rows` is the table, with the secret for its hash.  `Authorize` is the part of a
request before the body is awaited and `Create`, `Update`, `Rotate` what happens
after it; `Delete` has no body and is one step.  `SyncKey` is one turn of the
loop over the configured keys, which has no await, so no request is handled in
it, but the process may end in it.  Nothing is assumed of the configured ids: a
later key of an id is saved over an earlier one (`LastOfItsId`), and one with a
secret that another id has ends the start.

### EventFlow

Events are numbered as the client emits them, and `stage[n]` is the await at which
the handler of event `n` is suspended: `downloadMedia()`, `writeFile()`,
`getQuotedMessage()`, or a workflow inside `publish()`.  What the code does
between two of these is one step; that includes the whole of `publish()` up to
the first handler that waits, the kernel's `saveEvent` before it, and for
`message.received` the save of the account.  `await`s of a value that is there
already only reorder microtasks of one step and are not modelled.  `todo[n]` is
the rest of the handler snapshot of the publish.  The file that a media goes to
is named by `media.filename`, so two messages may write to one.  writeFile()
empties the file when it begins, so `Downloaded` and `ReadOpens` leave it `Partial`
whatever it held, a path that was handed on before included; `Remains` is what a
write may leave besides its own media, when it fails or others write at the same
time (`Mixed`).  The gateway's reads of messages archive what they answer with:
`reading[r]` is the message that read `r` of the API is writing, of any age and at
any time.  `faults` says whether the storage, the download,
the disk and the workflow subscriber may throw.  `BeginStop`, `Unsubscribe` (once
per subscriber, the last one first) and `ClientsDestroyed` are `Kernel.stop()`,
which stops the modules in reverse.  Each event occurs once, `message_create`
before `message`, as whatsapp-web.js emits them; other events and messages come
in any order.

### EventPromise

Store an event; tell a subscriber of an event that is stored and that it was not
told of.  `EventFlow` implements it (`KeepsPromise`, checked and proved).

### MessageGateway

An id is `[of, message]`: `of` is an account when the id is serialized, `Short`
when not, and `message` is the message's short id.  `held` and `deleted` are
WhatsApp's side, `alias` the map `messageIdAliases` of the live kernel.  A call of
a gateway method is at one of its awaits (`stage`).  whatsapp-web.js may hand over a message without its serialized id
(`Unserialized`): its short id is answered all the same, and `Remember` then
remembers nothing.  `Resolution` is
`resolveMessageId()` up to its scan, `ScanEnds` the scan (recent messages only, so
it may miss), `Opens` is `getMessageById()`, `Performs` the operation; an edit may
give null, for a foreign message and for an own one that is too old.  A message
may have been sent although the call threw.  `Reload` begins with an empty map;
calls of the old kernel go on (`old`) and write into a map nobody reads.  Media,
contacts and channels that a send awaits first are one await (`Prepared`).

### WorkflowActions

`run[r]` is one execution in the engine.  `TargetOf` is how an action finds the
message it is about: a literal, a token of an earlier output, or the message that
triggered the run; `""` counts as a value for reply and react only.  `OutputOf` is
what an action returns, and says nothing of the message for `message.sendText`.
`made` is not in the code: it records which message an action really made, for
the property to compare with.  `BeginRequest` is a client of the API that calls
the same gateway.  The gateway's variables are shared through EXTENDS.

### ApiRoutes, ApiRequests

`ApiRoutes` holds the routes in the order in which the server tries them, and for
every method of api-client the request it makes; `Dispatch` is the first match.
`Id` has one id of every kind that the tables tell apart: an ordinary one, the empty
one, one with a slash, the two of dots, and every word that stands in a route.  The
client encodes them (`Url`); encodeURIComponent() leaves "." and ".." alone, and the
parser of URLs then removes them, ".." with the segment before it (`WithoutDots`).  `ApiRequests` sends such requests:
`opening` is the await of the body or of the chat, group or contact, `acting` that
of the call that does the work.  Three operations set their fields one awaited call each
(`updateGroupSettings`, `updateChannel`, `setAutoDownload`): `todo` is what is left,
`done` what WhatsApp has confirmed, `value[p]` the request that set field `p` last,
`after` the requests that were over when this one was sent.  `ServerStops`,
`ClientsDestroyed` and `NextKernel` are a reload.

## Runs

| Run | Question | Result |
|---|---|---|
| `webhook` | gapless histories, true retries, one chain per event, array and table, under upserts, reloads, crashes, failing writes and an id that is configured twice; every chain ends; the promise is kept | holds |
| `daemon_lifecycle` | one kernel with clients, running is ready, stop releases, stop and reload end, the process ends, in every environment; kernels follow each other | holds |
| `daemon_early_stop` | graceful shutdown on a signal during start? | no |
| `daemon_failed_reload_stop` | does a shutdown continue when the reload fails? | no |
| `workflow` | one row per workflow, right status, actions recorded, with failing writes, two runs, a reload with a missing provider, or an id that is configured twice; only invalid definitions abort; memory and table agree; runs end; the promise is kept | holds |
| `workflow_orphan` | does the loop survive every workflow failure? | no |
| `keys_requests` | unique secrets, the last active key, two requests; configured keys serve | holds |
| `keys_last` | can no request take the last key away? | no |
| `accounts` | fields agree, start reaches all, stop is final, rows follow the registry across kernels; starts and stops end; the clients pass from kernel to kernel | holds |
| `events` | stored before told, told once, workflows before webhooks, plain events in order, references true, with reads of messages, faults and a stop; without faults every event arrives | holds |
| `actions` | what was sent is remembered, operations open what they name, tokens lead to their message, with a client of the API and reloads | holds |
| `requests` | every client method reaches its handler, with every kind of id; an answered update is not undone by an earlier one, across a reload | holds |

The four runs that end with "no" each show a disagreement between the code and
one of its docs, comments or messages; `findings` in `PROJECT.json` quotes both.

Deadlock checking is off everywhere: with the counters at their bounds and the
process ended there is nothing left to do.

### Bounds

- *Chains* (2): two chains meet in every way two deliveries of one instance, of
  two instances, or an event and a replay can; a chain touches no other chain.
- *Instances* (2 for webhooks, workflows and accounts): one reload or restart;
  what an instance leaves behind is seen by the next one only.
- *MaxAttempts* (3): the first, a middle and the last attempt.
- *Kernels* (5, or 3 for the counterexamples, in `DaemonLifecycle`): a start and up
  to four reloads, some of which fail; 2 in
  `ApiRequests`: a request of an old kernel under a new one.
- *Runs* (2 interleaved, or 1 across two instances), *requests* (2 interleaved,
  and deletes between them), *starts* (2), *MaxTime* (1: keys that have expired,
  expire now, or never do).
- *Keys* (2 ids, 2 secrets): the key a request is about and the other one; two keys
  are configured, or one id twice.
- *Definitions*: one environment of `webhook` and one of `workflow` configure two
  definitions under one id, with a reload or a restart, after which the table
  decides.
- One message per client is under way at a time in `AccountSession`; more would
  save the same rows again.
- *Events* (3 in `EventFlow`: a photo sent as a reply, a text and its ack) and one
  read at a time: the photo's event with a text that overtakes it or is overtaken,
  and a read that writes the photo again, or a document of the same file name,
  before, while or after the event does; the proofs have no bound.
- *Messages* (one of each account, one of an outsider and one without a serialized
  id), one run and one client
  in `WorkflowActions`: another account's message under its short and its
  serialized id, tokens with and without a value, both error modes.
- *Requests* (3 updates in `ApiRequests`, or 1 of any method with any id of `Id`): one that
  is over, one that is answered, one that interleaves.
- Only `keys_requests` uses symmetry, of its requests, which are compared for
  equality only; it has no liveness property.

### Fairness

- `WebhookRuntime`: a fetch ends (Bun's client gives up on its own), and the
  event loop runs armed timers.  No fairness for publishes, stops or crashes.
- `DaemonLifecycle`: every await of start, reload and stop ends (a file is read, a
  client is created or destroyed, with or without an exception), and a process
  with nothing to do exits.  `ForcedExit` is not fair: it is never relied on.
- `WorkflowRuntime`: providers answer.  A provider that hangs hangs its run.
- `AccountSession`: mkdir() and destroy() return or throw.
- `EventFlow`: downloads, writes, quoted messages and workflows come to an end.
  `EventsArrive` says nothing of behaviours in which something may fail.
- `WorkflowActions` and `ApiRequests` state no liveness: an answer of WhatsApp may
  never come, and nothing in the code limits the wait.

## Proofs

The proof modules extend their component and TLAPS; constants have the
assumptions named in the component and no bound.

**WebhookRuntime_proofs.**  `IInv` is the conjunction of `TypeOK`,
`AttemptsGapless`, `DeliveredIsLast`, `RetryPromise` and `PhaseMatchesRows`.  The
last one is the strengthening: without it, a chain that is "sending" might have a
row for the attempt in flight already, and saving its row would break the other
three.  The step lemma has four parts: steps that open chains
(`QueueKeepsHistory`), steps that only end or cancel them
(`PhaseMoveKeepsHistory`), steps that add a row (`RowKeepsHistory`) and the
retry (`RetryKeepsHistory`).  From it follow `TypeCorrect`, `HistoryIsGapless`,
`DeliveredChainsRest`, `RetriesAsAnnounced` and, with a step-by-step simulation,
`ImplementsPromise`.  `RegistryIsStored` rests on an invariant of its own
(`RegistryInv`): besides the property, an array repeats an id only where the config
does.  That is what an upsert needs, since it replaces the first definition of an
id only (`UpsertMirrors`); there is a lemma for each operation on arrays and tables
(`UpsertedList`, `FilteredList`, `SeededRows`, `ListingIsTheTable`).  Nothing is
assumed of the configured ids.  `EventsReachOnce` needs a third (`BusInv`): an event is
published once, its publish is consumed by the subscriber, and chains exist only for
events whose publish is over; that different places have different ids, unless the
config repeats one, is `RegistryInv`.

**DaemonLifecycle_proofs.**  None of the three properties is inductive: they say
nothing of a task between two awaits.  `IInv` adds to the types that a process
that has exited holds nothing, that the state tells which tasks are under way
(`StateFollowsTasks`), and which one kernel may hold the port or clients, by
where start, reload and stop are suspended (`HolderFollowsTasks`): during
"stopOld" it is the previous kernel, during "booting" the new one, and
otherwise the one in the field `kernel`.  `StopFindsHolder` says that this is the
one stop() finds, if nothing fails.  From it follow `TypeCorrect`,
`SessionsHaveOneUser`, `RunningMeansReady` and `ShutdownReleases`, for any
number of kernels and under the premises that the properties name.

For `KernelsSucceed`, `SuccessionInv` adds what `IInv` leaves open: a kernel that
starts is the one constructed last, a reload has a kernel to replace, and stop() has
taken the one that alone holds clients.  `Orderliness` says which awaits of start,
reload and stop go together in an orderly environment, and `StepFollows` takes
the daemon's steps one by one; `SeenSteps` says of the abstract steps what has to be
shown for each.  `OrderlyDaemonsImplement` is the same as a refinement: the
environment never changes, so a behaviour that is orderly at first always is.

**AccountSession_proofs.**  `IInv` is the type invariant, `FieldsAgree`,
`RowsFollowRegistry` and four parts about the loops: where they begin
(`TurnInv`), that the accounts before the place of start() are reached and those
after it have no client yet (`StartInv`), that the accounts before the place
of stop() are at rest (`StopInv`), and that what went with its process does
nothing any more (`GoneInv`).  The second part of `StartInv` is why the first is inductive:
an event may only change an account whose client has been made.  A lemma for each
of the client's steps and for each step of the two loops says what it
changes, at one account of one kernel (`ClientOne`, `PatchOne`).
`ImplementsSuccession` needs one more, `OrderInv`: no kernel but the last one runs,
except its predecessor until it starts.  With `StopInv`, which has no live client
in a kernel that stops once the loop is over, it puts all live clients into the one
kernel that starts, runs or stops (`OnlyHolder`); there is a lemma for the steps that
move a kernel on (`PhaseSeen`), for those that make or destroy a client
(`ClientSeen`), and for each loop that does both.

**WorkflowRuntime_proofs.**  `IInv` has a part for the registries and the table
(`SurroundingsInv`), two for each run (`PlaceInv`: where in its snapshot it is;
`ExecutionInv`: what the steps so far tell about the workflow it is at), and
what ties them to the history: each row belongs to a chosen place before the
run's (`RowInv`), each such place has a row (`LeftBehindInv`), and only one
(`OneRowEach`), an action without a row is one of the execution under way
(`PerformedInv`).  Nothing of this needs the ids of a snapshot to be distinct, and
nothing is assumed of those of the config; `MemoryIsTheTable` rests on the same
lemmas about arrays and rows as `RegistryIsStored` above.  A step of one run leaves the
others alone (`OtherRuns`), so there is a lemma for each await of `execute()`, and
one for the row that ends it (`RowSaved`).  `ImplementsPromise` is a simulation on
top of it: `Subscriber` and `TestWorkflow` are `Begin`, the row that ends an execution
is `Execute` (`RowExecutes`; its place is the first that is left because `Ahead` is cut
at the run's place, and no row has it yet because rows are for places before), an
exception and `ProcessEnds` are `Cut`, and every other step stutters.

**ApiKeys_proofs.**  `TypeCorrect` (with the uniqueness of secrets),
`LastKeyStays` (an action property, from the type invariant alone: each request
either leaves another active key or keeps its own active, unless it creates a key
under an id in use; `keys_last` shows that this exception is real) and
`ConfiguredKeysServe` (the loop's invariant, `SyncInv`: of the first `synced`
configured keys, those that none of them follows under the same id are stored as
configured).

**EventFlow_proofs.**  `IInv` is the type invariant, `SeenInv` (the stage of an event
decides who has been told of it, and what workflows were told of is stored) and
`OrderInv` (only events for which something is fetched wait before they are
published).  Without the last one a plain event might be handed over late, and the
order would not be inductive.  `MediaInv` is for the references: only messages with
media download and write, and what the property says of a path that was handed on
holds of a file that is being written, too (`Sound`).  One lemma says what the
beginning of a write does to all files (`EmptiedKeeps`), one what its end does,
well or badly (`EndedKeeps`).  From these follow `WorkflowsFirst`,
`PlainEventsKeepOrder`, `ReferencesAreTrue`, and by simulation
`ImplementsPromise`.

**ApiRequests_proofs.**  `AnsweredUpdatesStay`: the property is not inductive, as it
speaks of answered requests only.  `HoldInv` says the same of a request in
progress, and `OverInv` that the requests in `after` were over and can set nothing
any more.  `RequestsReachTheirHandlers` has two parts.  That a request keeps the handler
it was given, and goes on only with one, is `RoutedInv`, for any requests and
reloads.  That the handler is the right one is `TablesAgree`, the theorem's
hypothesis, in which no variable occurs: the first of about 120 routes that takes
the request of each of about 120 methods, for each kind of id.  It is a computation over two
tables that the provers do not carry out, and TLC does: the run `requests` sends each method
with each id, so it evaluates every instance of `TablesAgree`.

**WorkflowActions_proofs.**  `GatewayInv` adds to the two properties of the gateway
that an alias is the message's sender or nothing (`AliasInv`), and which stages
go with which operations (`CallInv`).  `RunInv` adds that, in a run that failures
end, an output that should name a message does (`Progress`), and that the call
under way is that of the run's current action, with the id its configuration gave
(`Acting`).  There is a lemma for each step of a call and for each step
of a run.  `WorkflowAssumption` has a token name an earlier action of its workflow:
one that names a later action has no value in the code, falls back to the
trigger, and is left out of the model.

Only model-checked: liveness (`ChainsSettle`, `TasksEnd`, `ShutdownExits`,
`RunsEnd`, `StartsAndStopsEnd`, `EventsArrive`), which the prover does not reach,
and the instances of `TablesAgree`.

Only proved: the type invariants of `WebhookRuntime`, `DaemonLifecycle`,
`AccountSession`, `EventFlow` and `WorkflowActions`, which no run repeats.

## Observations without a run

Met while modelling, reproduced by the models, and not part of a checked
property:

- `docs/webhooks.md:48` has the delivery record created before the payload is
  sent; `queueDelivery` (`modules/runtime-webhook/src/index.ts:116`) saves it when
  the fetch has ended, so "pending" is never stored.
- A stored `nextRetryAt` is only a timer in memory: `stop()` (line 83 there) and a
  restart drop it, while `docs/webhooks.md:51` has retries scheduled.
- A reload that ends while `stop()` waits for it writes "running" over "stopping"
  (`apps/daemon/src/index.ts:72`), so the guard of line 46 lets another reload pass.
- `updateApiKey` never counts the updated key itself
  (`modules/runtime-api/src/index.ts:575`), so the only active key cannot be renamed.
- Handlers of an old kernel that outlive its `stop()` save the old registry over the
  rows of the new one (`modules/runtime-whatsapp/src/index.ts:786` and `:1040`);
  `RowsFollowRegistry` leaves that case out (`Alone`).
- During a stop the subscribers leave before the clients are destroyed
  (`packages/kernel/src/index.ts:105`): events of that time are stored and reach
  nobody.
- When archiving media throws (`modules/runtime-whatsapp/src/index.ts:1244`), the
  whole message event is lost, also for workflows that do not look at the media.
- Media files are named as their sender named them (line 1242 there): a later file
  of the same name replaces an earlier one, to which references were given out.
  `ReferencesHoldTheirMedia` leaves that case out.
- A message id alias is kept by the short id alone (line 845 there), so an account
  that asks for a message another account of wato has sent is given that
  account's id, and its operation fails although a scan would have found the
  message.  `OpensWhatIsAsked` names this exception.
- A token without a value makes an action on a message act on the message that
  triggered the run (`modules/action-message/src/index.ts:104`), a deletion too;
  `""` does so as well, except for reply and react.
- An update of a group, a channel or the downloads that throws leaves the fields
  it has set, and two updates at a time mix theirs.
- A contact with the id `blocked` is the list of blocked contacts.
- The ids "." and ".." are removed from the URL (`packages/api-client/src/index.ts:359`
  encodes neither).  Most requests with them are refused, but some reach another
  handler, which takes the literal segment that follows for the id: with ".",
  `clearChatMessages`, `unarchiveChat`, `unpinChat` and `unmuteChat` reach `deleteChat`,
  `unstarMessage` and `unpinMessage` reach `deleteMessage`, `unsubscribeFromChannel` and
  `unmuteChannel` reach `deleteChannel`, and reads reach that of the parent; with "..",
  `getChatsByLabel` reaches `listChats`, for example.  No id other than these two and
  `blocked` is given a wrong handler.
- The config may give one id to two webhooks, workflows or keys
  (`packages/config/src/index.ts:49`).  Of two webhooks or workflows both are in memory,
  and an event is delivered to, or run by, both, until a reload or a restart loads the
  table, which has only the last one; an upsert in between replaces the first.  Of two
  keys only the last one ever serves.
- Archiving a message again, by its second event or by a read of messages, empties
  its file first (`modules/runtime-whatsapp/src/index.ts:1244`), also when its path was
  handed on before: for the time of the write, and for good when it fails, the
  path leads to a file that is not whole.
- A message that whatsapp-web.js hands over without a serialized id is answered with
  its short id and not remembered (line 864 there), so asking for it needs a scan.
- `updateGroupSettings` and `updateChannel` take the body's fields after the ids of
  the path (`modules/runtime-api/src/index.ts:266` and `:309`), so a body with an
  id of its own updates that one.
- `POST /v1/system:reload` answers before the reload has ended.
- Removing the last webhook leaves an empty table, so the next start seeds the
  configured endpoints again; and a start that ends while it seeds leaves some of
  them, which the next one takes for all
  (`modules/runtime-webhook/src/index.ts:18` and `:20`).

## Not modelled

- The permission that a route asks for, the choice of a send by its payload, the form
  of answers, and the bodies and queries of the client.
- What read-only gateway methods return; the one retry of a pairing code.
- The actions of action-message on chats, groups, contacts and channels: one call of
  the gateway each, without a message id.
- Pure functions: config merge, message matching, command parsing, text around a
  token.
- Schema migration, logging, the CLI, health, module graph, the capability map: no
  state, or state written once.

## Plan

Pure functions as operators, checked against reference definitions:
`matchesPermission`, command parsing, config merge, payload selection.
