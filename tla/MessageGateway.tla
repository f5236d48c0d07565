--------------------------- MODULE MessageGateway ---------------------------
(***************************************************************************)
(* The messages side of the gateway in modules/runtime-whatsapp: sending,  *)
(* and the operations on a message that is named by an id.                 *)
(*                                                                         *)
(* WhatsApp names a message twice: by a short id, message.id.id, the same  *)
(* for everybody who has the message, and by a serialized id, which is     *)
(* particular to the account that looks it up.  wato hands out short ids   *)
(* and finds the serialized one in a map that it fills with what it sent,  *)
(* or in the recent messages of the chats.  Only a serialized id opens a   *)
(* message.                                                                *)
(*                                                                         *)
(* A call is one invocation of a gateway method.  stage is where it is:    *)
(*   "idle"         not called                                             *)
(*   "preparing"    media, contacts or the channel are awaited             *)
(*   "sending"      the message it sends is awaited                        *)
(*   "scanning"     scanRecentChatsForMessageId() is awaited               *)
(*   "opening"      getMessageById(resolved) is awaited                    *)
(*   "performing"   the operation on the message is awaited                *)
(*   "ok", "failed" it has returned or thrown                              *)
(***************************************************************************)
EXTENDS FiniteSets

CONSTANTS
  Account,      \* accounts of this kernel
  Outsider,     \* everybody else
  Message,      \* messages, as their short ids name them
  Author,       \* Author[m]: who sends m
  Unserialized, \* messages that whatsapp-web.js hands over without a serialized id
  Short,        \* the account of an id that is not serialized
  NoMessage,    \* the message of an id that names none
  Caller,       \* calls that may be under way at a time
  Operations    \* the operations that are called

\* The methods that send into a chat.
ChatSends == {"sendText", "sendMedia", "sendContactCards", "sendLocation"}

\* createPoll() refuses an empty question and an empty list of options.
PollSends == {"createPoll"}

\* createScheduledEvent() refuses dates that are none.
EventSends == {"createScheduledEvent"}

ChannelSends == {"sendChannelMessage"}

Sends == ChatSends \cup PollSends \cup EventSends \cup ChannelSends

\* The sends that await media, contacts or the channel first.
PreparedSends == {"sendMedia", "sendContactCards"} \cup ChannelSends

\* The methods that begin with getMessage().
MessageOperations ==
  {"replyToMessage", "forwardMessage", "editMessage", "deleteMessage", "starMessage",
   "unstarMessage", "pinMessage", "unpinMessage", "getMessageInfo", "getMessageReactions",
   "getPollVotesForMessage", "reactToMessage", "voteInPoll", "getMessage"}

ASSUME GatewayAssumption ==
  /\ Outsider \notin Account /\ Short \notin Account
  /\ NoMessage \notin Message
  /\ Author \in [Message -> Account \cup {Outsider}]
  /\ Unserialized \subseteq Message
  /\ Operations \subseteq Sends \cup MessageOperations

Id == [of : {Short}, message : Message \cup {NoMessage}] \cup [of : Account, message : Message]

ShortId(m) == [of |-> Short, message |-> m]

Serialized(a, m) == [of |-> a, message |-> m]

VARIABLES
  held,      \* held[a]: the messages in a's chats, on WhatsApp's side
  deleted,   \* deleted[a]: the messages deleted from them
  alias,     \* alias[m]: the account of the serialized id remembered for m, or Short
  call       \* call[c]: the invocation c

gatewayVars == <<held, deleted, alias, call>>

Call ==
  [stage : {"idle", "preparing", "sending", "scanning", "opening", "performing", "ok", "failed"},
   op : Operations \cup {"none"}, account : Account \cup {Short},
   target : Id,                        \* the id in the request
   resolved : Id,                      \* what getMessageById() is given
   missed : BOOLEAN,                   \* whether a scan has found nothing
   made : Message \cup {NoMessage},    \* the messageId of the answer
   old : BOOLEAN]                      \* whether it belongs to a previous kernel

NoId == ShortId(NoMessage)

\* A call that is not under way; what it has made is left, its locals are gone.
Ended(stage, m) ==
  [stage |-> stage, op |-> "none", account |-> Short, target |-> NoId, resolved |-> NoId,
   missed |-> FALSE, made |-> m, old |-> FALSE]

Idle(c) == call[c].stage \in {"idle", "ok", "failed"}

GatewayInit ==
  /\ held = [a \in Account |-> {}]
  /\ deleted = [a \in Account |-> {}]
  /\ alias = [m \in Message |-> Short]
  /\ call = [c \in Caller |-> Ended("idle", NoMessage)]

-----------------------------------------------------------------------------
(* Ids.                                                                    *)

LooksSerialized(id) == id.of # Short

\* The map is looked up by the short id and gives the remembered serialized one.
Remembered(id) ==
  id.message \in Message /\ alias[id.message] # Short

\* resolveMessageId() up to its scan: what a call does next, with which id.
Resolution(id) ==
  IF LooksSerialized(id) THEN [stage |-> "opening", id |-> id]
  ELSE IF Remembered(id)
    THEN [stage |-> "opening", id |-> Serialized(alias[id.message], id.message)]
  ELSE [stage |-> "scanning", id |-> id]

\* Defect: remembers the messages that calls opened.
RememberOpened(c, m) ==
  alias' = IF call[c].old THEN alias
           ELSE [alias EXCEPT ![m] = call[c].account,
                              ![call[c].resolved.message] = call[c].account]

\* rememberMessageIdAlias(), in the map of the call's own kernel: nothing, when the
\* message has no serialized id.
Remember(c, m) ==
  alias' = IF call[c].old \/ m \in Unserialized THEN alias
           ELSE [alias EXCEPT ![m] = call[c].account]

-----------------------------------------------------------------------------
(* Calls.                                                                  *)

\* An invocation at its first await.
Invocation(stage, op, a, id, resolved) ==
  [stage |-> stage, op |-> op, account |-> a, target |-> id, resolved |-> resolved,
   missed |-> FALSE, made |-> NoMessage, old |-> FALSE]

\* A method is called: it resolves its id as far as it can and awaits its first
\* answer, or throws at once, as getClient() does for an account without a client.
BeginCall(c, op, a, id) ==
  /\ Idle(c)
  /\ \E new \in {Ended("failed", NoMessage),
                 IF op \in Sends
                   THEN Invocation(IF op \in PreparedSends THEN "preparing" ELSE "sending",
                                   op, a, NoId, NoId)
                   ELSE Invocation(Resolution(id).stage, op, a, id, Resolution(id).id)} :
       call' = [call EXCEPT ![c] = new]
  /\ UNCHANGED <<held, deleted, alias>>

\* The call as it returns or throws.
Returned(c, stage, m) == [call EXCEPT ![c] = [Ended(stage, m) EXCEPT !.old = call[c].old]]

\* The call changes nothing but its own course.
OnlyCall(new) ==
  /\ call' = new
  /\ UNCHANGED <<held, deleted, alias>>

GoesOn(c, stage) == OnlyCall([call EXCEPT ![c].stage = stage])

Fails(c) == OnlyCall(Returned(c, "failed", NoMessage))

Prepared(c) ==
  /\ call[c].stage = "preparing"
  /\ GoesOn(c, "sending") \/ Fails(c)

Fresh(a) == {m \in Message : Author[m] = a /\ \A b \in Account : m \notin held[b] \cup deleted[b]}

\* A message leaves the account; the answer is lost, or it is remembered and its
\* short id returned.
MessageSent(c, m) ==
  LET a == call[c].account
  IN  /\ m \in Fresh(a)
      /\ held' = [held EXCEPT ![a] = @ \cup {m}]
      /\ \/ /\ Remember(c, m)
            /\ call' = Returned(c, "ok", m)
         \/ call' = Returned(c, "failed", NoMessage) /\ UNCHANGED alias
      /\ UNCHANGED deleted

\* Defect: the message is not remembered.
SendEndsForgotten(c) ==
  /\ call[c].stage = "sending"
  /\ \/ \E m \in Fresh(call[c].account) :
          /\ held' = [held EXCEPT ![call[c].account] = @ \cup {m}]
          /\ call' = Returned(c, "ok", m)
          /\ UNCHANGED <<deleted, alias>>
     \/ Fails(c)

SendEnds(c) ==
  /\ call[c].stage = "sending"
  /\ (\E m \in Message : MessageSent(c, m)) \/ Fails(c)

\* The recent messages of every chat were looked through, those of chats that could
\* not be fetched excepted: the message was found in the account, with its serialized
\* id, or its id is left as it is.  Or the chats could not be listed.
ScanEnds(c) ==
  LET id == call[c].target
      found == Serialized(call[c].account, id.message)
  IN  /\ call[c].stage = "scanning"
      /\ \/ /\ id.message \in held[call[c].account] \ Unserialized
            /\ call' = [call EXCEPT ![c].stage = "opening", ![c].resolved = found]
         \/ call' = [call EXCEPT ![c].stage = "opening", ![c].missed = TRUE]
         \/ call' = Returned(c, "failed", NoMessage)
      /\ UNCHANGED <<held, deleted, alias>>

\* getMessageById() knows the serialized ids of the account's own messages; what it
\* gives for another id is no message, and the operation throws.
Opens(c) ==
  LET id == call[c].resolved
  IN  /\ call[c].stage = "opening"
      /\ \/ /\ id.of = call[c].account
            /\ id.message \in held[call[c].account]
            /\ GoesOn(c, "performing")
         \/ Fails(c)

\* WhatsApp edits own messages, as long as they can be edited, and gives null
\* otherwise; an edited message is remembered.
Edited(c) ==
  LET m == call[c].resolved.message
  IN  \/ /\ Author[m] = call[c].account
         /\ Remember(c, m)
         /\ call' = Returned(c, "ok", m)
         /\ UNCHANGED <<held, deleted>>
      \/ OnlyCall(Returned(c, "ok", NoMessage))

Deleted(c) ==
  LET a == call[c].account
      m == call[c].resolved.message
  IN  /\ held' = [held EXCEPT ![a] = @ \ {m}]
      /\ deleted' = [deleted EXCEPT ![a] = @ \cup {m}]
      /\ call' = Returned(c, "ok", NoMessage)
      /\ UNCHANGED alias

Performs(c) ==
  /\ call[c].stage = "performing"
  /\ \/ call[c].op = "replyToMessage" /\ \E m \in Message : MessageSent(c, m)
     \/ call[c].op = "editMessage" /\ Edited(c)
     \/ call[c].op = "deleteMessage" /\ Deleted(c)
     \/ call[c].op \notin {"replyToMessage", "editMessage", "deleteMessage"} /\ OnlyCall(Returned(c, "ok", NoMessage))
     \/ Fails(c)

-----------------------------------------------------------------------------
(* Everything around.                                                      *)

\* A message of an outsider, or of an account that has sent it, reaches a.
Arrives(a, m) ==
  /\ Author[m] # a
  /\ Author[m] \in Account => m \in held[Author[m]] \cup deleted[Author[m]]
  /\ m \notin held[a] \cup deleted[a]
  /\ held' = [held EXCEPT ![a] = @ \cup {m}]
  /\ UNCHANGED <<deleted, alias, call>>

\* A reload: the next kernel has no aliases yet, and what was under way belongs to
\* the previous one.
Reload ==
  /\ alias' = [m \in Message |-> Short]
  /\ call' = [c \in Caller |-> IF Idle(c) THEN Ended("idle", NoMessage)
                              ELSE [call[c] EXCEPT !.old = TRUE]]
  /\ UNCHANGED <<held, deleted>>

CallStep(c) == Prepared(c) \/ SendEnds(c) \/ ScanEnds(c) \/ Opens(c) \/ Performs(c)

-----------------------------------------------------------------------------
(* Properties.                                                             *)

GatewayTypeOK ==
  /\ held \in [Account -> SUBSET Message]
  /\ deleted \in [Account -> SUBSET Message]
  /\ alias \in [Message -> Account \cup {Short}]
  /\ call \in [Caller -> Call]

\* What wato answered with can be asked for: while its kernel lives, the id of a
\* message it has sent or edited is remembered, for the account that sent it, unless
\* WhatsApp told no serialized id that could be.
AnsweredSendsAreRemembered ==
  \A c \in Caller :
    call[c].made \notin Unserialized \cup {NoMessage} /\ ~call[c].old =>
      alias[call[c].made] = Author[call[c].made]

\* An operation asks WhatsApp for the very message its request names, in the chats of
\* its own account, unless the request has another account's serialized id, a scan
\* found nothing, or the message was sent by another account of this kernel, whose
\* id is the one that is remembered.
OpensWhatIsAsked ==
  \A c \in Caller :
    call[c].stage \in {"opening", "performing"} =>
      LET id == call[c].target
      IN  \/ call[c].resolved = Serialized(call[c].account, id.message)
          \/ call[c].resolved = id /\ (LooksSerialized(id) \/ call[c].missed)
          \/ /\ ~LooksSerialized(id)
             /\ Author[id.message] \in Account \ {call[c].account}
             /\ call[c].resolved = Serialized(Author[id.message], id.message)

=============================================================================
