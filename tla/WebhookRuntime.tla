--------------------------- MODULE WebhookRuntime ---------------------------
(***************************************************************************)
(* modules/runtime-webhook: the registry of webhook definitions, the       *)
(* subscriber that turns published events into deliveries, the chain of    *)
(* attempts a delivery goes through, replay by delivery id, and what stop, *)
(* reload and the end of the process do to all of it.                      *)
(*                                                                         *)
(* A chain is one call of queueDelivery with attempt 1 and the retries     *)
(* that follow from it.  The closure (webhook, event, attempt) a chain     *)
(* carries is job[c] and attempt[c]; phase[c] says what the chain waits    *)
(* for:                                                                    *)
(*   "sending"    its fetch is in flight                                   *)
(*   "waiting"    its retry timer is armed                                 *)
(*   "delivered"  the endpoint answered 2xx and the row says so            *)
(*   "exhausted"  the last permitted attempt failed                        *)
(*   "aborted"    saving the row of a failed attempt threw, so no retry    *)
(*   "cancelled"  stop() cleared the retry timer                           *)
(*   "lost"       the process ended with the chain unfinished              *)
(* A runtime instance is one register() of the module.  A reload stops one *)
(* instance and registers the next in the same process, so fetches of the  *)
(* old instance go on beside the new one; job[c].owner is the instance     *)
(* whose timers set the chain uses.                                        *)
(***************************************************************************)
EXTENDS DefinitionTable

CONSTANTS
  WebhookId, Url, EventType, EventId, AccountId,
  NoAccount,         \* an event that belongs to no account
  NoJob,             \* the job of a chain not started yet
  Definition,        \* webhook definitions the config and clients may supply
  Event,             \* events that may be published
  WebhooksEnabled,   \* config.webhooks.enabled
  MaxAttempts,       \* config.webhooks.maxAttempts
  Chain,             \* identities of delivery chains (bounds their number)
  MaxInstances,      \* bound on the number of register() calls
  Environments       \* the circumstances the module may meet, each a record of
                     \*   endpoints: config.webhooks.endpoints, a sequence
                     \*   supplied: the definitions clients may supply
                     \*   storageFails: whether a write to SQLite may throw
                     \*   instances, chains: the number of register() calls, and the chains

ASSUME DataAssumption ==
  /\ WebhookId \subseteq Nat
  /\ Definition \subseteq [id : WebhookId, url : Url, enabled : BOOLEAN,
                           eventTypes : SUBSET (EventType \cup {"*"}),
                           accountIds : SUBSET AccountId]
  /\ Event \subseteq [id : EventId, type : EventType,
                      accountId : AccountId \cup {NoAccount}]
  /\ \A e \in Environments : e.endpoints \in Seq(Definition)
  /\ NoAccount \notin AccountId

ASSUME ConfigAssumption ==
  /\ WebhooksEnabled \in BOOLEAN
  /\ MaxAttempts \in Nat \ {0}
  /\ MaxInstances \in Nat
  /\ \A e \in Environments :
       /\ e.supplied \subseteq Definition /\ e.chains \subseteq Chain
       /\ e.storageFails \in BOOLEAN /\ e.instances \in 0..MaxInstances

VARIABLES
  environment, \* which circumstances hold, from the beginning to the end
  mode,        \* "down", "running" or "stopped" (process alive, module stopped)
  instance,    \* number of register() calls so far; the last one is current
  registry,    \* registry[i]: the webhooks array of instance i
  table,       \* the rows of the SQLite table webhooks
  events,      \* the rows of the SQLite table events
  publishing,  \* publishes whose snapshot holds a subscriber not yet called
  phase, attempt, job,
  records      \* the rows of the SQLite table webhook_deliveries

lifecycleVars == <<environment, mode, instance>>
definitionVars == <<registry, table>>
busVars == <<events, publishing>>
chainVars == <<phase, attempt, job>>
vars == <<lifecycleVars, definitionVars, busVars, chainVars, records>>

Instance == 1..MaxInstances

Phase == {"free", "sending", "waiting", "delivered", "exhausted",
          "aborted", "cancelled", "lost"}

Live == {"sending", "waiting"}

\* place is the place in the array at which the closure found its webhook.
Job == [definition : Definition, place : Nat, event : Event, owner : Instance,
        origin : {"event", "replay"}]

Publication == [event : Event, owner : Instance]

\* A row names its chain and attempt where the table has a fresh uuid; the
\* webhookId, eventId, eventType and accountId columns are those of job.
Record == [chain : Chain, attempt : 1..MaxAttempts,
           status : {"delivered", "failed"}, nextRetryAt : {"set", "undefined"}]

-----------------------------------------------------------------------------
(* Definitions.                                                            *)

MatchesWebhook(d, e) ==
  /\ d.enabled
  /\ "*" \in d.eventTypes \/ e.type \in d.eventTypes
  /\ d.accountIds # {} => e.accountId \in d.accountIds

-----------------------------------------------------------------------------
Init ==
  /\ environment \in Environments
  /\ mode = "down"
  /\ instance = 0
  /\ registry = [i \in Instance |-> <<>>]
  /\ table = {}
  /\ events = {}
  /\ publishing = {}
  /\ phase = [c \in Chain |-> "free"]
  /\ attempt = [c \in Chain |-> 0]
  /\ job = [c \in Chain |-> NoJob]
  /\ records = {}

-----------------------------------------------------------------------------
(* Lifecycle of the runtime instance.                                      *)

\* register(): load the stored definitions, or seed them from the config when
\* there are none, and subscribe to the bus.  `table' is read before it is seeded.
Register ==
  /\ mode # "running"
  /\ instance < environment.instances
  /\ mode' = "running"
  /\ instance' = instance + 1
  /\ \/ /\ table # {}
        /\ \E list \in Listings(table) : registry' = [registry EXCEPT ![instance + 1] = list]
        /\ UNCHANGED table
     \/ /\ table = {}
        /\ registry' = [registry EXCEPT ![instance + 1] = environment.endpoints]
        /\ table' = Seeded(environment.endpoints)
  /\ UNCHANGED <<environment, busVars, chainVars, records>>

\* A saveWebhook of the seeding loop throws, or the process dies in it: the
\* endpoints saved so far stay, and register() has not subscribed.
SeedInterrupted ==
  /\ mode # "running"
  /\ instance < environment.instances
  /\ environment.storageFails
  /\ table = {}
  /\ \E n \in 0..Len(environment.endpoints) : table' = Seeded(SubSeq(environment.endpoints, 1, n))
  /\ UNCHANGED <<lifecycleVars, registry, busVars, chainVars, records>>

ClearedByStop(c) == phase[c] = "waiting" /\ job[c].owner = instance

\* stop(): unsubscribe and clear the timers of this instance.  Fetches in
\* flight are not tracked, and snapshots already taken keep the subscriber.
Stop ==
  /\ mode = "running"
  /\ mode' = "stopped"
  /\ phase' = [c \in Chain |-> IF ClearedByStop(c) THEN "cancelled" ELSE phase[c]]
  /\ UNCHANGED <<environment, instance, definitionVars, busVars, attempt, job, records>>

\* A crash, a forced exit, or the exit after stop: timers, fetches and
\* publishes in flight are gone, the tables stay.
ProcessEnds ==
  /\ mode # "down"
  /\ mode' = "down"
  /\ publishing' = {}
  /\ phase' = [c \in Chain |-> IF phase[c] \in Live THEN "lost" ELSE phase[c]]
  /\ UNCHANGED <<environment, instance, definitionVars, events, attempt, job, records>>

-----------------------------------------------------------------------------
(* Registry operations, called by the API while the module runs.           *)

StorageOutcome == IF environment.storageFails THEN BOOLEAN ELSE {TRUE}

\* upsert(): the array first, then the row.
Upsert(d) ==
  /\ mode = "running"
  /\ d \in environment.supplied
  /\ registry' = [registry EXCEPT ![instance] = Upserted(@, d)]
  /\ \E saved \in StorageOutcome : table' = IF saved THEN Saved(table, d) ELSE table
  /\ UNCHANGED <<lifecycleVars, busVars, chainVars, records>>

\* Defect: remove() forgets the stored row.
DeletedRowsForgotten(id) == table

\* deleteWebhook() after the in-memory removal.
DeletedRows(id) == {r \in table : r.id # id}

RemoveWebhook(id) ==
  /\ mode = "running"
  /\ \E rest \in Filtered(registry[instance], id) :
       registry' = [registry EXCEPT ![instance] = rest]
  /\ \E saved \in StorageOutcome : table' = IF saved THEN DeletedRows(id) ELSE table
  /\ UNCHANGED <<lifecycleVars, busVars, chainVars, records>>

-----------------------------------------------------------------------------
(* From events to chains.                                                  *)

\* publish(): the handlers are snapshotted and the kernel's saveEvent, the
\* first of them, has run.  After stop() the old bus still takes events of
\* the WhatsApp clients, but the snapshot holds no webhook subscriber.
Publish(e) ==
  /\ mode # "down"
  /\ e \notin events
  /\ events' = events \cup {e}
  /\ publishing' = IF mode = "running"
                     THEN publishing \cup {[event |-> e, owner |-> instance]}
                     ELSE publishing
  /\ UNCHANGED <<lifecycleVars, definitionVars, chainVars, records>>

\* A subscriber called before this one (the workflow runtime) threw.
PublishAborted(p) ==
  /\ publishing' = publishing \ {p}
  /\ UNCHANGED <<lifecycleVars, definitionVars, events, chainVars, records>>

\* queueDelivery() with attempt 1 for every chain of `new': fetch is called
\* before the call returns.
QueueDeliveries(new, jobs) ==
  /\ new \subseteq {c \in Chain : phase[c] = "free"} \cap environment.chains
  /\ phase' = [c \in Chain |-> IF c \in new THEN "sending" ELSE phase[c]]
  /\ attempt' = [c \in Chain |-> IF c \in new THEN 1 ELSE attempt[c]]
  /\ job' = [c \in Chain |-> IF c \in new THEN jobs[c] ELSE job[c]]

\* The places of the array at which the loop does not pass on.
Matching(p) ==
  IF WebhooksEnabled
    THEN {i \in DOMAIN registry[p.owner] : MatchesWebhook(registry[p.owner][i], p.event)}
    ELSE {}

\* Defect: the publish calls the subscriber again.
HandlerCalledTwice(p) == publishing

HandlerDone(p) == publishing \ {p}

\* The closure a chain carries: the webhook at a place of an instance's array.
Closure(owner, place, event, origin) ==
  [definition |-> registry[owner][place], place |-> place, event |-> event,
   owner |-> owner, origin |-> origin]

\* The webhook subscriber's turn: one chain per place with a matching definition.
Subscriber(p) ==
  /\ \E new \in SUBSET {c \in Chain : phase[c] = "free"} :
       \E target \in Bijection(new, Matching(p)) :
         QueueDeliveries(new, [c \in new |-> Closure(p.owner, target[c], p.event, "event")])
  /\ publishing' = HandlerDone(p)
  /\ UNCHANGED <<lifecycleVars, definitionVars, events, records>>

\* replayDelivery(): a new chain for the event of a stored row and the first
\* definition that has its webhook's id now, whatever the filters say.
Replay(r) ==
  /\ mode = "running"
  /\ job[r.chain].event \in events
  /\ \E i \in FirstOf(registry[instance], job[r.chain].definition.id), c \in Chain :
       QueueDeliveries({c}, [x \in {c} |-> Closure(instance, i, job[r.chain].event, "replay")])
  /\ UNCHANGED <<lifecycleVars, definitionVars, busVars, records>>

-----------------------------------------------------------------------------
(* The attempts of a chain.                                                *)

Row(c, status, retryAt) ==
  [chain |-> c, attempt |-> attempt[c], status |-> status, nextRetryAt |-> retryAt]

\* Defect: one attempt too many.
RetryAllowedOnceMore(n) == n =< MaxAttempts

RetryAllowed(n) == n < MaxAttempts

\* Defect: nextRetryAt() tests attempt > maxAttempts.
NextRetryAtOnceMore(n) == IF n > MaxAttempts THEN "undefined" ELSE "set"

NextRetryAt(n) == IF n >= MaxAttempts THEN "undefined" ELSE "set"

\* Defect: the chain goes on after a 2xx answer.
SucceedAndRetry(c) ==
  /\ phase[c] = "sending"
  /\ phase' = [phase EXCEPT ![c] = IF RetryAllowed(attempt[c]) THEN "waiting" ELSE "delivered"]
  /\ records' = records \cup {Row(c, "delivered", "undefined")}
  /\ UNCHANGED <<lifecycleVars, definitionVars, busVars, attempt, job>>

\* The endpoint answered 2xx and the row was saved.
Succeed(c) ==
  /\ phase[c] = "sending"
  /\ phase' = [phase EXCEPT ![c] = "delivered"]
  /\ records' = records \cup {Row(c, "delivered", "undefined")}
  /\ UNCHANGED <<lifecycleVars, definitionVars, busVars, attempt, job>>

\* fetch threw, the answer was not 2xx, or saving the "delivered" row threw:
\* all three reach the catch block, which saves a "failed" row and arms the
\* retry timer, also when the instance has been stopped in the meantime.
Fail(c) ==
  /\ phase[c] = "sending"
  /\ phase' = [phase EXCEPT ![c] = IF RetryAllowed(attempt[c]) THEN "waiting" ELSE "exhausted"]
  /\ records' = records \cup {Row(c, "failed", NextRetryAt(attempt[c]))}
  /\ UNCHANGED <<lifecycleVars, definitionVars, busVars, attempt, job>>

\* Saving the "failed" row throws: no row, no timer, an unhandled rejection.
Abort(c) ==
  /\ environment.storageFails
  /\ phase[c] = "sending"
  /\ phase' = [phase EXCEPT ![c] = "aborted"]
  /\ UNCHANGED <<lifecycleVars, definitionVars, busVars, attempt, job, records>>

\* Defect: the retry repeats the attempt number.
TimerFiresSameAttempt(c) ==
  /\ phase[c] = "waiting"
  /\ phase' = [phase EXCEPT ![c] = "sending"]
  /\ UNCHANGED <<lifecycleVars, definitionVars, busVars, attempt, job, records>>

\* Defect: a timer armed after stop() is never run.
TimerFiresWhileRunning(c) ==
  /\ mode = "running"
  /\ phase[c] = "waiting"
  /\ phase' = [phase EXCEPT ![c] = "sending"]
  /\ attempt' = [attempt EXCEPT ![c] = @ + 1]
  /\ UNCHANGED <<lifecycleVars, definitionVars, busVars, job, records>>

\* The retry timer fires: queueDelivery() with attempt + 1 and the same job.
TimerFires(c) ==
  /\ phase[c] = "waiting"
  /\ phase' = [phase EXCEPT ![c] = "sending"]
  /\ attempt' = [attempt EXCEPT ![c] = @ + 1]
  /\ UNCHANGED <<lifecycleVars, definitionVars, busVars, job, records>>

FetchEnds(c) == Succeed(c) \/ Fail(c) \/ Abort(c)

-----------------------------------------------------------------------------
Next ==
  \/ Register
  \/ SeedInterrupted
  \/ Stop
  \/ ProcessEnds
  \/ \E d \in Definition : Upsert(d)
  \/ \E id \in WebhookId : RemoveWebhook(id)
  \/ \E e \in Event : Publish(e)
  \/ \E p \in publishing : PublishAborted(p)
  \/ \E p \in publishing : Subscriber(p)
  \/ \E r \in records : Replay(r)
  \/ \E c \in Chain : FetchEnds(c) \/ TimerFires(c)

Spec == Init /\ [][Next]_vars

\* A fetch ends one way or the other (the HTTP client gives up on its own) and
\* the event loop runs an armed timer.
Fairness == \A c \in Chain : WF_vars(FetchEnds(c)) /\ WF_vars(TimerFires(c))

FairSpec == Spec /\ Fairness

-----------------------------------------------------------------------------
(* Properties.                                                             *)

TypeOK ==
  /\ environment \in Environments
  /\ mode \in {"down", "running", "stopped"}
  /\ instance \in 0..MaxInstances
  /\ mode # "down" => instance # 0
  /\ registry \in [Instance -> Seq(Definition)]
  /\ table \in SUBSET Definition
  /\ events \in SUBSET Event
  /\ publishing \in SUBSET Publication
  /\ phase \in [Chain -> Phase]
  /\ attempt \in [Chain -> 0..MaxAttempts]
  /\ job \in [Chain -> Job \cup {NoJob}]
  /\ \A c \in Chain : phase[c] # "free" => job[c] \in Job
  /\ records \in SUBSET Record
  /\ \A r \in records : phase[r.chain] # "free"

Rows(c) == {r \in records : r.chain = c}

\* The delivery history of a chain has no gap and no repetition: one row for
\* every attempt but, at most, the one in progress, through any interleaving of
\* fetches, timers, stops and crashes (docs/webhooks.md, "delivery history").
AttemptsGapless ==
  \A c \in Chain :
    /\ \A r \in Rows(c) : r.attempt =< attempt[c]
    /\ \A n \in 1..(attempt[c] - 1) : \E r \in Rows(c) : r.attempt = n
    /\ \A r, s \in Rows(c) : r.attempt = s.attempt => r = s

\* Once a row says "delivered" its chain never sends again: no retry of what
\* the endpoint took and the runtime recorded as taken.
DeliveredIsLast ==
  \A r \in records :
    r.status = "delivered" => phase[r.chain] = "delivered" /\ r.attempt = attempt[r.chain]

\* nextRetryAt is the truth: a failed row that announces a retry is followed by
\* the next attempt or has its timer armed, unless stop() or the end of the
\* process took the timer away; a failed row that announces none is the last of
\* maxAttempts attempts.
RetryPromise ==
  \A r \in records : r.status = "failed" =>
    IF r.nextRetryAt = "set"
      THEN attempt[r.chain] > r.attempt \/ phase[r.chain] \in {"waiting", "cancelled", "lost"}
      ELSE r.attempt = MaxAttempts /\ phase[r.chain] = "exhausted"

\* What the three properties above rest on, for each phase of a chain: a free
\* chain has made no attempt, a waiting chain has its failure on record and an
\* attempt left, and a chain that is sending or was aborted has no row yet for
\* the attempt it is at.
PhaseMatchesRows ==
  \A c \in Chain :
    /\ phase[c] = "free" <=> attempt[c] = 0
    /\ phase[c] = "waiting" => attempt[c] < MaxAttempts
    /\ phase[c] = "waiting" => \E r \in Rows(c) : r.attempt = attempt[c]
    /\ phase[c] \in {"sending", "aborted"} => \A r \in Rows(c) : r.attempt # attempt[c]

FromEvent(c) == phase[c] # "free" /\ job[c].origin = "event"

\* An event reaches a webhook through at most one chain, replays aside, also when
\* the webhook is replaced by an upsert, or a reload replaces the instance, between
\* publish and delivery; two chains of an event under one webhook id stand for two
\* places of the array, and only an id the config lists twice has two.
OneChainPerMatch ==
  \A c1, c2 \in Chain :
    FromEvent(c1) /\ FromEvent(c2) /\ c1 # c2 /\ job[c1].event = job[c2].event
      => /\ job[c1].place # job[c2].place
         /\ job[c1].definition.id = job[c2].definition.id
              => Repeats(environment.endpoints, job[c1].definition.id)

\* What the API lists and delivers to is what a restart would load: while storage
\* works, the array in memory and the table hold the same definitions, one per id,
\* whatever was upserted, removed or seeded on the way.  Of an id the config lists
\* several times, the table has one definition, which is in the array as well.
RegistryMirrorsTable ==
  /\ UniqueIds(table)
  /\ mode = "running" /\ ~environment.storageFails
       => Mirrors(registry[instance], table, environment.endpoints)

\* Every chain ends: delivered, given up after maxAttempts, or interrupted, so
\* the retries left over by a stop cannot keep the process alive for ever.
ChainsSettle == \A c \in Chain : phase[c] \in Live ~> phase[c] \notin Live
-----------------------------------------------------------------------------
(* The runtime implements DeliveryPromise.                                 *)

Outcome(p) ==
  CASE p = "free" -> "none"
    [] p \in Live -> "open"
    [] p = "delivered" -> "delivered"
    [] p = "exhausted" -> "gaveUp"
    [] OTHER -> "interrupted"

Promise == INSTANCE DeliveryPromise
             WITH outcome <- [c \in Chain |-> Outcome(phase[c])], tries <- attempt

\* Seen through Outcome, every behaviour of the runtime is one of
\* DeliveryPromise: no step reopens, retries past the limit or loses a delivery
\* in a way the promise does not allow.
KeepsPromise == Promise!Spec

=============================================================================
