----------------------------- MODULE EventFlow -----------------------------
(***************************************************************************)
(* An event of a WhatsApp client on its way through one kernel: the        *)
(* handlers of modules/runtime-whatsapp, which normalize messages and      *)
(* archive their media, the publish() of packages/event-bus, and the       *)
(* subscribers: the kernel, which stores the event, runtime-workflow and   *)
(* runtime-webhook, in the order of their subscriptions.                   *)
(*                                                                         *)
(* Events are numbered in the order in which the client emitted them.      *)
(* Handlers run concurrently, and give way to each other only at an await  *)
(* that waits for something: what a handler does between two of these is   *)
(* one step.  The gateway's reads of messages (getMessage, searchMessages, *)
(* fetchChatMessages and the recent messages of the API) normalize, and so *)
(* archive, the messages they answer with, at any time and of any age;     *)
(* reading[r] is the message whose file read r is writing.  An answer with *)
(* several messages is several reads.  stage[n] is where event n is:       *)
(*   "none"         not emitted                                            *)
(*   "downloading"  downloadMedia() is awaited                             *)
(*   "writing"      writeFile() has truncated the file of the media        *)
(*   "quoting"      getQuotedMessage() is awaited                          *)
(*   "publishing"   workflows have the event, todo[n] will get it after    *)
(*   "done"         publish() has returned                                 *)
(*   "cut"          an exception has ended publish()                       *)
(*   "lost"         an exception came before publish()                     *)
(***************************************************************************)
EXTENDS Integers, Sequences, SequencesExt

CONSTANTS
  Message,      \* messages
  Media,        \* those with media, config.whatsapp.archiveMedia being set
  Quoting,      \* those that quote another message
  FileName,     \* FileName[m]: media.filename ?? `${message.id.id}.${extension}`
  Event,        \* the events that may occur: [message, kind]
  MaxEvents,    \* bound on the number of events
  Reader,       \* the gateway's reads of messages that may be under way at once
  NoMedia,      \* content of a file that does not exist, and message of no read
  Partial,      \* content of a file that was emptied and not written to the end
  Mixed,        \* content of a file that writes of two messages have mixed
  Faults        \* the sets of things that may fail

\* Events published as they come.
PlainKinds ==
  {"message.ack", "message.edit", "message.revoke_everyone", "message.revoke_me",
   "message.reaction", "poll.vote", "group.join", "group.leave", "group.admin_changed",
   "group.membership_request", "group.update", "chat.archived", "chat.removed",
   "contact.changed", "call.incoming", "message.media_uploaded"}

\* Events that carry a normalized message.
MessageKinds == {"message.received", "message.created"}

Subscriber == {"workflows", "webhooks"}

ASSUME EventAssumption ==
  /\ Event \subseteq [message : Message, kind : PlainKinds \cup MessageKinds]
  /\ Media \cup Quoting \subseteq Message
  /\ DOMAIN FileName = Message
  /\ MaxEvents \in Nat
  /\ Faults \subseteq SUBSET {"storage", "download", "disk", "workflow"}
  /\ {NoMedia, Partial, Mixed} \cap Message = {}
  /\ NoMedia # Partial /\ NoMedia # Mixed /\ Partial # Mixed

Number == 1..MaxEvents

VARIABLES
  phase,        \* "running", "stopping" or "stopped"
  subscribed,   \* the subscriptions to "*" that follow the kernel's own
  arrived,      \* the events emitted so far
  stage, todo,
  seen,         \* seen[s]: the numbers of the events handed to s, in their order
  rows,         \* the numbers of the events in the table domain_events
  file,         \* file[f]: what the file f of the account's media directory holds
  reading,      \* reading[r]: the message whose media read r is writing, or NoMedia
  referenced,   \* the messages published or answered with a mediaPath
  faults        \* what may fail, from the beginning to the end

kernelVars == <<phase, subscribed, faults>>
busVars == <<todo, seen, rows>>
mediaVars == <<file, reading, referenced>>
vars == <<kernelVars, arrived, stage, busVars, mediaVars>>

Names == {FileName[m] : m \in Message}

Init ==
  /\ phase = "running"
  /\ subscribed = <<"workflows", "webhooks">>
  /\ arrived = <<>>
  /\ stage = [n \in Number |-> "none"]
  /\ todo = [n \in Number |-> <<>>]
  /\ seen = [s \in Subscriber |-> <<>>]
  /\ rows = {}
  /\ file = [f \in Names |-> NoMedia]
  /\ reading = [r \in Reader |-> NoMedia]
  /\ referenced = {}
  /\ faults \in Faults

-----------------------------------------------------------------------------
(* publish().                                                              *)

\* The event passes to the first of the handlers.  Workflows are awaited; webhooks,
\* always the last, only open their deliveries, and publish() returns.
Handed(n, handlers) ==
  /\ IF handlers # <<>> /\ Head(handlers) = "workflows"
       THEN /\ stage' = [stage EXCEPT ![n] = "publishing"]
            /\ todo' = [todo EXCEPT ![n] = Tail(handlers)]
       ELSE /\ stage' = [stage EXCEPT ![n] = "done"]
            /\ todo' = [todo EXCEPT ![n] = <<>>]
  /\ seen' = [s \in Subscriber |->
                IF handlers # <<>> /\ s = Head(handlers) THEN Append(seen[s], n) ELSE seen[s]]

\* Defect: the handlers do not wait for the kernel to have saved the event.
PublishUnsaved(n, event) ==
  /\ Handed(n, subscribed)
  /\ \/ rows' = rows \cup {n}
     \/ "storage" \in faults /\ UNCHANGED rows

\* The normalized event is published: the handlers are copied, the kernel's, which
\* saves the event, comes first.  A received message saves its account before.
Publish(n, event) ==
  \/ /\ rows' = rows \cup {n}
     /\ Handed(n, subscribed)
  \/ /\ "storage" \in faults
     /\ stage' = [stage EXCEPT ![n] = "cut"]
     /\ UNCHANGED busVars
  \/ /\ "storage" \in faults
     /\ event.kind = "message.received"
     /\ stage' = [stage EXCEPT ![n] = "lost"]
     /\ UNCHANGED busVars

\* The workflows of the event have ended.
HandlerReturns(n) ==
  /\ stage[n] = "publishing"
  /\ Handed(n, todo[n])
  /\ UNCHANGED <<kernelVars, arrived, rows, mediaVars>>

\* The subscriber of runtime-workflow throws.
HandlerThrows(n) ==
  /\ "workflow" \in faults
  /\ stage[n] = "publishing"
  /\ stage' = [stage EXCEPT ![n] = "cut"]
  /\ todo' = [todo EXCEPT ![n] = <<>>]
  /\ UNCHANGED <<kernelVars, arrived, seen, rows, mediaVars>>

-----------------------------------------------------------------------------
(* The handlers of the client.                                             *)

\* Before anything is awaited, or after the media was: the quoted message is
\* fetched, when there is one.
QuoteOrPublish(n, event) ==
  \/ /\ event.message \in Quoting
     /\ stage' = [stage EXCEPT ![n] = "quoting"]
     /\ UNCHANGED busVars
  \/ event.message \notin Quoting /\ Publish(n, event)

\* Defect: a message without media is normalized behind an await as well.
NormalizesLate(n, event) ==
  /\ stage' = [stage EXCEPT ![n] = IF event.message \in Media THEN "downloading" ELSE "quoting"]
  /\ UNCHANGED busVars

Normalizes(n, event) ==
  \/ /\ event.message \in Media
     /\ stage' = [stage EXCEPT ![n] = "downloading"]
     /\ UNCHANGED busVars
  \/ event.message \notin Media /\ QuoteOrPublish(n, event)

\* Clients emit events until they are destroyed, message_create before message.
MayArrive(event) ==
  /\ phase \in {"running", "stopping"}
  /\ Len(arrived) < MaxEvents
  /\ ~Contains(arrived, event)
  /\ event.kind = "message.received" =>
       \A e \in Event : e = [event EXCEPT !.kind = "message.created"] => Contains(arrived, e)

Arrive(event) ==
  /\ MayArrive(event)
  /\ arrived' = Append(arrived, event)
  /\ LET n == Len(arrived) + 1
     IN  \/ event.kind \in MessageKinds /\ Normalizes(n, event)
         \/ event.kind \in PlainKinds /\ Publish(n, event)
  /\ UNCHANGED <<kernelVars, mediaVars>>

-----------------------------------------------------------------------------
(* writeFile() of archiveIncomingMedia(): the file of a message is emptied *)
(* and written again whenever the message is archived.                     *)

WrittenNow(m) ==
  \/ \E n \in Number : stage[n] = "writing" /\ arrived[n].message = m
  \/ \E r \in Reader : reading[r] = m

Sharing(m) == {k \in Media : FileName[k] = FileName[m]}

Emptied(m) == file' = [file EXCEPT ![FileName[m]] = Partial]

\* What the file may hold when a write of m has ended, besides m: what other writes
\* left there, or have not finished.  A write that fails may leave a gap in what
\* others write at the same time.
Remains(m) ==
  LET content == file[FileName[m]]
      others == {k \in Sharing(m) : WrittenNow(k)'}
  IN  {c \in {content, Partial, Mixed} :
         /\ c = Partial => others # {} \/ "disk" \in faults
         /\ c = Mixed => others \ {m} # {} \/ content \notin {m, Partial}}

\* The write has succeeded, and the path is handed on.
Completed(m) ==
  /\ \E content \in {m} \cup Remains(m) : file' = [file EXCEPT ![FileName[m]] = content]
  /\ referenced' = referenced \cup {m}

Abandoned(m) ==
  \E content \in Remains(m) : file' = [file EXCEPT ![FileName[m]] = content]

\* downloadMedia() gives the media, and writeFile() begins by emptying the file; or it
\* gives none, as it does once the clients are destroyed, and the message is published
\* without a reference.
Downloaded(n) ==
  /\ stage[n] = "downloading"
  /\ \/ /\ stage' = [stage EXCEPT ![n] = "writing"]
        /\ Emptied(arrived[n].message)
        /\ UNCHANGED <<busVars, reading, referenced>>
     \/ /\ "download" \in faults \/ phase = "stopped"
        /\ QuoteOrPublish(n, arrived[n])
        /\ UNCHANGED mediaVars
  /\ UNCHANGED <<kernelVars, arrived>>

\* Defect: the write is not awaited, and the file does not hold the media yet.
WrittenUnawaited(n) ==
  /\ stage[n] = "writing"
  /\ QuoteOrPublish(n, arrived[n])
  /\ referenced' = referenced \cup {arrived[n].message}
  /\ UNCHANGED <<kernelVars, arrived, reading, file>>

Written(n) ==
  /\ stage[n] = "writing"
  /\ QuoteOrPublish(n, arrived[n])
  /\ UNCHANGED <<kernelVars, arrived, reading>>
  /\ Completed(arrived[n].message)

\* mkdir() or writeFile() throws, and the exception is logged.
WriteFails(n) ==
  /\ "disk" \in faults
  /\ stage[n] \in {"downloading", "writing"}
  /\ stage' = [stage EXCEPT ![n] = "lost"]
  /\ UNCHANGED <<kernelVars, arrived, busVars, reading, referenced>>
  /\ \/ stage[n] = "downloading" /\ UNCHANGED file
     \/ stage[n] = "writing" /\ Abandoned(arrived[n].message)

\* Defect: the failure of getQuotedMessage() is not caught.
QuotedUncaught(n) ==
  /\ stage[n] = "quoting"
  /\ \/ Publish(n, arrived[n])
     \/ stage' = [stage EXCEPT ![n] = "lost"] /\ UNCHANGED busVars
  /\ UNCHANGED <<kernelVars, arrived, mediaVars>>

\* getQuotedMessage() answers or fails; either way the message is published.
Quoted(n) ==
  /\ stage[n] = "quoting"
  /\ Publish(n, arrived[n])
  /\ UNCHANGED <<kernelVars, arrived, mediaVars>>

-----------------------------------------------------------------------------
(* Reads of messages.  Those whose download gives nothing write nothing.   *)

ReadOpens(r, m) ==
  /\ reading[r] = NoMedia
  /\ reading' = [reading EXCEPT ![r] = m]
  /\ Emptied(m)
  /\ UNCHANGED <<kernelVars, arrived, stage, busVars, referenced>>

ReadWritten(r) ==
  /\ reading[r] # NoMedia
  /\ reading' = [reading EXCEPT ![r] = NoMedia]
  /\ UNCHANGED <<kernelVars, arrived, stage, busVars>>
  /\ Completed(reading[r])

ReadFails(r) ==
  /\ "disk" \in faults
  /\ reading[r] # NoMedia
  /\ reading' = [reading EXCEPT ![r] = NoMedia]
  /\ UNCHANGED <<kernelVars, arrived, stage, busVars, referenced>>
  /\ Abandoned(reading[r])

-----------------------------------------------------------------------------
(* Kernel.stop(): the modules stop in the reverse order of their           *)
(* registration, so the subscribers go before the clients are destroyed.   *)

BeginStop ==
  /\ phase = "running"
  /\ phase' = "stopping"
  /\ UNCHANGED <<subscribed, faults, arrived, stage, busVars, mediaVars>>

\* Defect: the modules stop in the order of their registration.
UnsubscribeFirst ==
  /\ phase = "stopping"
  /\ subscribed # <<>>
  /\ subscribed' = Tail(subscribed)
  /\ UNCHANGED <<phase, faults, arrived, stage, busVars, mediaVars>>

Unsubscribe ==
  /\ phase = "stopping"
  /\ subscribed # <<>>
  /\ subscribed' = Front(subscribed)
  /\ UNCHANGED <<phase, faults, arrived, stage, busVars, mediaVars>>

ClientsDestroyed ==
  /\ phase = "stopping"
  /\ subscribed = <<>>
  /\ phase' = "stopped"
  /\ UNCHANGED <<subscribed, faults, arrived, stage, busVars, mediaVars>>

-----------------------------------------------------------------------------
HandlerStep(n) ==
  \/ HandlerReturns(n) \/ HandlerThrows(n)
  \/ Downloaded(n) \/ Written(n) \/ WriteFails(n) \/ Quoted(n)

ReadStep(r) ==
  (\E m \in Media : ReadOpens(r, m)) \/ ReadWritten(r) \/ ReadFails(r)

Next ==
  \/ \E event \in Event : Arrive(event)
  \/ \E n \in Number : HandlerStep(n)
  \/ \E r \in Reader : ReadStep(r)
  \/ BeginStop \/ Unsubscribe \/ ClientsDestroyed

Spec == Init /\ [][Next]_vars

\* Downloads, writes, requests to WhatsApp and workflows come to an end.
FairSpec == Spec /\ \A n \in Number : WF_vars(HandlerStep(n))

-----------------------------------------------------------------------------
(* Properties.                                                             *)

Stages == {"none", "downloading", "writing", "quoting", "publishing", "done", "cut", "lost"}

TypeOK ==
  /\ phase \in {"running", "stopping", "stopped"}
  /\ subscribed \in {<<"workflows", "webhooks">>, <<"workflows">>, <<>>}
  /\ arrived \in Seq(Event) /\ Len(arrived) =< MaxEvents
  /\ stage \in [Number -> Stages]
  /\ \A n \in Number : stage[n] = "none" <=> n > Len(arrived)
  /\ todo \in [Number -> {<<>>, <<"webhooks">>}]
  /\ seen \in [Subscriber -> Seq(Number)]
  /\ rows \subseteq Number
  /\ file \in [Names -> Message \cup {NoMedia, Partial, Mixed}]
  /\ reading \in [Reader -> Media \cup {NoMedia}]
  /\ referenced \subseteq Message
  /\ faults \in Faults

\* What the bus promises its subscribers: an event is stored before a workflow or a
\* webhook has it, so that a replay finds it, and each has it at most once.
Promise == INSTANCE EventPromise
  WITH Event <- Number, told <- seen

KeepsPromise == Promise!Spec

\* An event that reaches the webhooks has been through the workflows, also when the
\* kernel stops while it is published.
WorkflowsBeforeWebhooks == ToSet(seen["webhooks"]) \subseteq ToSet(seen["workflows"])

Awaits(n) == arrived[n].kind \in MessageKinds /\ arrived[n].message \in Media \cup Quoting

\* Events for which nothing has to be fetched reach the workflows in the order in
\* which the client emitted them.  (The others may be overtaken, and the webhooks
\* get an event only when its workflows have ended.)
PlainEventsInOrder ==
  \A i, j \in DOMAIN seen["workflows"] :
    i < j /\ ~Awaits(seen["workflows"][i]) /\ ~Awaits(seen["workflows"][j]) =>
      seen["workflows"][i] < seen["workflows"][j]

\* "archiveMedia: persist media files and references when available"
\* (docs/configuration.md): a path that an event or an answer has handed on is that of
\* a file with the message's own media.  A file that is not whole is one that is being
\* written again or that a failed write has left; one with other contents has been
\* written for a message whose media has the same name.
ReferencesHoldTheirMedia ==
  \A m \in referenced :
    LET content == file[FileName[m]]
    IN  \/ content = m
        \/ content = Partial /\ ((\E k \in Sharing(m) : WrittenNow(k)) \/ "disk" \in faults)
        \/ \E k \in Sharing(m) \ {m} : content \in {k, Mixed}

\* When nothing fails, an event that arrives is published to the end.
EventsArrive ==
  \A n \in Number :
    stage[n] # "none" /\ faults = {} ~> stage[n] = "done"

=============================================================================
