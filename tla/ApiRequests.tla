----------------------------- MODULE ApiRequests -----------------------------
(***************************************************************************)
(* Requests to the HTTP API on their way through the routes to the gateway *)
(* of modules/runtime-whatsapp, while kernels replace each other.  Most    *)
(* operations are one call of the WhatsApp client.  Three are several: the *)
(* settings of a group, of a channel and of the downloads are set field by *)
(* field, each call being awaited.                                         *)
(*                                                                         *)
(* Requests are numbered in the order in which the API takes them; stage   *)
(* is where one is:                                                        *)
(*   "none"         not sent                                               *)
(*   "refused"      no route                                               *)
(*   "opening"      its body, its chat, group or contact is awaited        *)
(*   "acting"       a call of the client is awaited                        *)
(*   "ok", "failed" the handler has returned or thrown                     *)
(***************************************************************************)
EXTENDS ApiRoutes, SequencesExt

CONSTANTS
  Scenarios,     \* what the clients of a behaviour ask for, and how many requests they
                 \* make: [asks, requests], asks being a set of [op, id, fields]
  MaxRequests,   \* bound on the number of requests
  MaxKernels     \* bound on the number of kernels

Op == DOMAIN Methods

ASSUME RequestAssumption ==
  /\ MaxRequests \in Nat /\ MaxKernels \in Nat \ {0}
  /\ \A s \in Scenarios :
       /\ s.requests \in 0..MaxRequests
       /\ \A ask \in s.asks : ask.op \in Op /\ ask.id \in Id

Number == 1..MaxRequests

-----------------------------------------------------------------------------
(* The gateway's operations: what is awaited before the call that does the *)
(* work.                                                                   *)

\* "direct": nothing; "opened": getChatById(), or getContactById().
ChatOperations ==
  [direct |-> {"listMessages", "listChats", "listLabels", "getLabel", "getChatLabels",
               "getChatsByLabel", "updateChatLabels", "listBroadcasts", "getBroadcast", "getChat",
               "searchMessages", "archiveChat", "unarchiveChat", "pinChat", "unpinChat",
               "markChatUnread", "sendSeen", "syncHistory"},
   opened |-> {"fetchChatMessages", "sendTyping", "sendRecording", "clearChatState",
               "clearChatMessages", "deleteChat"}]

\* What is opened must be a group.
GroupOperations ==
  [direct |-> {"joinGroupByInvite", "getInviteInfo", "acceptGroupV4Invite", "createGroup",
               "approveGroupMembershipRequests", "rejectGroupMembershipRequests",
               "muteChat", "unmuteChat"},
   opened |-> {"getGroupInvite", "revokeGroupInvite", "updateGroupSettings", "leaveGroup",
               "addGroupParticipants", "kickGroupParticipants", "promoteGroupParticipants",
               "demoteGroupParticipants", "getGroupMembershipRequests"}]

ContactOperations ==
  [direct |-> {"getProfilePicture", "listContacts", "listBlockedContacts", "getCommonGroups",
               "getFormattedNumber", "getCountryCode", "isRegisteredUser", "getNumberId",
               "getContactDeviceCount", "saveAddressBookContact", "deleteAddressBookContact",
               "getContactLidAndPhone", "addCustomerNote", "getCustomerNote"},
   opened |-> {"blockContact", "unblockContact", "getContactInfo"}]

\* setProfilePicture() loads its media first, requestPairingCode() prepares the page.
AccountOperations ==
  [direct |-> {"setStatus", "revokeStatusMessage", "setDisplayName", "deleteProfilePicture",
               "sendPresence", "getState", "getWWebVersion", "setAutoDownload",
               "createCallLink", "respondToScheduledEvent"},
   opened |-> {"setProfilePicture", "requestPairingCode"}]

\* The chat of getChannel() and getGroupInfo() is itself what they return.
ChannelOperations ==
  [direct |-> {"getGroupInfo", "createChannel", "getChannel", "listChannels", "searchChannels",
               "getChannelByInvite", "subscribeToChannel", "unsubscribeFromChannel",
               "inviteChannelAdmin", "acceptChannelAdminInvite", "revokeChannelAdminInvite",
               "demoteChannelAdmin", "transferChannelOwnership", "deleteChannel"},
   opened |-> {"updateChannel", "getChannelSubscribers", "fetchChannelMessages",
               "muteChannel", "unmuteChannel", "sendSeenToChannel"}]

\* Those that MessageGateway models: getMessage() first.
OnMessages == DOMAIN MessageMethods \ {"listMessages", "sendMessage", "respondToScheduledEvent"}

Opened ==
  ChatOperations.opened \cup GroupOperations.opened \cup ContactOperations.opened
    \cup AccountOperations.opened \cup ChannelOperations.opened \cup OnMessages

\* What reads or changes wato's own registries and tables only.
Local == DOMAIN SystemMethods \cup DOMAIN RegistryMethods \cup {"accounts", "requireAccount", "loginQr"}

\* Handlers of POST, PUT and PATCH that do not parse a body.
Bodiless ==
  {"reload", "loginQr", "starMessage", "archiveChat", "pinChat", "sendSeen", "markChatUnread",
   "sendTyping", "clearChatState", "sendRecording", "syncHistory", "leaveGroup",
   "joinGroupByInvite", "subscribeToChannel", "muteChannel", "sendSeenToChannel", "blockContact",
   "replayDelivery"}

AwaitsFirst(method, handler) ==
  handler \in Opened \/ (method \in {"POST", "PUT", "PATCH"} /\ handler \notin Bodiless)

\* The fields an operation sets, in the order in which it does.
Fields(handler) ==
  CASE handler = "updateGroupSettings" ->
         <<"subject", "description", "messagesAdminsOnly", "infoAdminsOnly",
           "addMembersAdminsOnly">>
    [] handler = "updateChannel" ->
         <<"subject", "description", "reactionSetting", "profilePicture">>
    [] handler = "setAutoDownload" ->
         <<"audio", "documents", "photos", "videos", "backgroundSync">>
    [] OTHER -> <<>>

-----------------------------------------------------------------------------

VARIABLES
  phase,     \* of the kernel: "serving", "closed" (no API any more), "gone" (no clients)
  kernel,    \* its number
  request,   \* request[r]: the request of number r
  value,     \* value[p]: the request that has set the field p last, or 0
  scenario   \* what is asked for, from the beginning to the end

vars == <<phase, kernel, request, value, scenario>>

\* The fields on WhatsApp's side.
Place ==
  UNION {{[op |-> ask.op, id |-> ask.id, field |-> f] : f \in ask.fields} :
           ask \in UNION {s.asks : s \in Scenarios}}

NoRequest == [stage |-> "none", op |-> "none", id |-> "", handler |-> "none", kernel |-> 0,
              todo |-> <<>>, done |-> {}, after |-> {}]

Init ==
  /\ phase = "serving"
  /\ kernel = 1
  /\ request = [r \in Number |-> NoRequest]
  /\ value = [p \in Place |-> 0]
  /\ scenario \in Scenarios

\* The clients of the request's kernel have not been destroyed.
Alive(r) == request[r].kernel = kernel /\ phase # "gone"

\* Nobody waits for an answer of the request any more.
Over(r) ==
  \/ request[r].stage \in {"refused", "ok", "failed"}
  \/ request[r].stage # "none" /\ request[r].kernel # kernel

-----------------------------------------------------------------------------
(* Requests.                                                               *)

\* A client makes the request r of its method and its id, and the API finds the
\* handler.
Send(r, ask) ==
  LET method == Methods[ask.op].method
      handler == Dispatch(method, Url(Methods[ask.op].path, ask.id))
  IN  /\ phase = "serving"
      /\ request[r].stage = "none" /\ r =< scenario.requests
      /\ \A s \in 1..(r - 1) : request[s].stage # "none"
      /\ request' = [request EXCEPT ![r] =
           [stage |-> IF handler = "not found" THEN "refused"
                      ELSE IF AwaitsFirst(method, handler) THEN "opening" ELSE "acting",
            op |-> ask.op, id |-> ask.id, handler |-> handler, kernel |-> kernel,
            todo |-> SelectSeq(Fields(handler), LAMBDA f : f \in ask.fields),
            done |-> {}, after |-> {s \in Number : Over(s)}]]
      /\ UNCHANGED <<phase, kernel, value, scenario>>

Opens(r) ==
  /\ request[r].stage = "opening"
  /\ Alive(r) \/ request[r].handler \in Local
  /\ request' = [request EXCEPT ![r].stage = "acting"]
  /\ UNCHANGED <<phase, kernel, value, scenario>>

Field(r) == [op |-> request[r].op, id |-> request[r].id, field |-> Head(request[r].todo)]

\* The request after a field: with the last one it is answered.
FieldDone(r, set) ==
  LET rest == Tail(request[r].todo)
  IN  request' = [request EXCEPT ![r].todo = rest,
                                 ![r].done = @ \cup set,
                                 ![r].stage = IF rest = <<>> THEN "ok" ELSE "acting"]

\* Defect: the clients of a kernel that has stopped still do what they are asked.
SetsAlways(r) ==
  /\ request[r].stage = "acting" /\ request[r].todo # <<>>
  /\ value' = [value EXCEPT ![Field(r)] = r]
  /\ FieldDone(r, {Field(r)})
  /\ UNCHANGED <<phase, kernel, scenario>>

\* WhatsApp sets the next field, or does not and says so.
Sets(r) ==
  /\ request[r].stage = "acting" /\ request[r].todo # <<>>
  /\ Alive(r)
  /\ \/ value' = [value EXCEPT ![Field(r)] = r] /\ FieldDone(r, {Field(r)})
     \/ UNCHANGED value /\ FieldDone(r, {})
  /\ UNCHANGED <<phase, kernel, scenario>>

\* The only call has been answered, or there was none to make.
Answers(r) ==
  /\ request[r].stage = "acting" /\ request[r].todo = <<>>
  /\ Alive(r) \/ request[r].handler \in Local
  /\ request' = [request EXCEPT ![r].stage = "ok"]
  /\ UNCHANGED <<phase, kernel, value, scenario>>

\* What is awaited throws; the field that was being set may be set nevertheless.
Throws(r) ==
  /\ request[r].stage \in {"opening", "acting"}
  /\ request' = [request EXCEPT ![r].stage = "failed", ![r].todo = <<>>]
  /\ \/ UNCHANGED value
     \/ /\ request[r].stage = "acting" /\ request[r].todo # <<>> /\ Alive(r)
        /\ value' = [value EXCEPT ![Field(r)] = r]
  /\ UNCHANGED <<phase, kernel, scenario>>

-----------------------------------------------------------------------------
(* A reload: the API is the first to stop, server.stop(true) closes its    *)
(* connections, and the clients are destroyed before another kernel starts.*)
(* The handlers go on.                                                     *)

ServerStops ==
  /\ phase = "serving" /\ kernel < MaxKernels
  /\ phase' = "closed"
  /\ UNCHANGED <<kernel, request, value, scenario>>

ClientsDestroyed ==
  /\ phase = "closed"
  /\ phase' = "gone"
  /\ UNCHANGED <<kernel, request, value, scenario>>

NextKernel ==
  /\ phase = "gone"
  /\ phase' = "serving"
  /\ kernel' = kernel + 1
  /\ UNCHANGED <<request, value, scenario>>

RequestStep(r) == Opens(r) \/ Sets(r) \/ Answers(r) \/ Throws(r)

Next ==
  \/ \E r \in Number : (\E ask \in scenario.asks : Send(r, ask)) \/ RequestStep(r)
  \/ ServerStops \/ ClientsDestroyed \/ NextKernel

Spec == Init /\ [][Next]_vars

-----------------------------------------------------------------------------
(* Properties.                                                             *)

\* The handler a method of the client is for.
Meant(op) == IF op \in {"stopTyping", "stopRecording"} THEN "clearChatState" ELSE op

\* The client's table and the routes agree: the request that a method of the client
\* makes reaches the handler it is for, whatever its id, except that no route takes an
\* empty id, that a contact named "blocked" is the list of those who are, and that an
\* id of dots is no segment of the URL.
ClientReachesItsHandler ==
  \A r \in Number :
    LET asked == request[r]
    IN  asked.stage # "none" =>
          \/ asked.handler = Meant(asked.op)
          \/ asked.id = "" /\ asked.stage = "refused"
          \/ asked.op = "getContactInfo" /\ asked.id = "blocked"
          \/ IsDotSegment(Methods[asked.op].path, asked.id)

\* An update that was answered is in effect until a later one: what it has set holds
\* its value, or that of an update which was not over when it was sent.  Neither an
\* update that had failed nor one of a kernel that has stopped comes back over it.
AnsweredUpdatesHold ==
  \A r \in Number :
    request[r].stage = "ok" =>
      \A p \in Place \cap request[r].done :
        value[p] = r \/ value[p] \in Number \ request[r].after

=============================================================================
