------------------------------ MODULE ApiRoutes ------------------------------
(***************************************************************************)
(* The two tables that must agree on the HTTP API below /v1: the requests  *)
(* that the methods of packages/api-client make, and the routes by which   *)
(* modules/runtime-api finds what to call.  Handlers have the names of the *)
(* gateway methods and functions they call; so have the client's methods   *)
(* that ask for them.                                                      *)
(*                                                                         *)
(* A path is the sequence of its segments.  "*" is an id, "*:verb" an id   *)
(* with a verb.  In a route they stand for `[^/]+` and `[^/:]+`, which     *)
(* differ for segments that end in a verb only; "+" is a lone `[^/:]+`.    *)
(***************************************************************************)
EXTENDS Integers, Sequences, FiniteSetsExt, Functions, TLC

Account(rest) == <<"accounts", "*">> \o rest
Message(rest) == Account(<<"messages">> \o rest)
Chat(rest) == Account(<<"chats", "*">> \o rest)
Group(rest) == Account(<<"groups">> \o rest)
Channel(rest) == Account(<<"channels", "*">> \o rest)
Contact(rest) == Account(<<"contacts", "*">> \o rest)

-----------------------------------------------------------------------------
(* The routes, in their order; on[method] is the handler.                  *)

On(path, on) == <<[path |-> path, on |-> on]>>

SystemRoutes ==
  On(<<"system">>, [GET |-> "getStatus"])
  \o On(<<"system:reload">>, [POST |-> "reload"])
  \o On(<<"system", "keys">>, [GET |-> "listApiKeys", POST |-> "createManagedApiKey"])
  \o On(<<"system", "keys", "+">>,
        [GET |-> "requireApiKey", PATCH |-> "updateApiKey", DELETE |-> "deleteApiKey"])
  \o On(<<"system", "keys", "*:rotate">>, [POST |-> "rotateApiKey"])

AccountRoutes ==
  On(<<"accounts">>, [GET |-> "accounts"])
  \o On(Account(<<>>), [GET |-> "requireAccount"])
  \o On(Account(<<"login", "qr">>), [POST |-> "loginQr"])
  \o On(Account(<<"login", "pairing-code">>), [POST |-> "requestPairingCode"])
  \o On(Account(<<"profile", "status">>), [POST |-> "setStatus"])
  \o On(Account(<<"profile", "status", "*">>), [DELETE |-> "revokeStatusMessage"])
  \o On(Account(<<"profile", "name">>), [POST |-> "setDisplayName"])
  \o On(Account(<<"profile", "photo">>),
        [POST |-> "setProfilePicture", DELETE |-> "deleteProfilePicture"])
  \o On(Account(<<"presence">>), [POST |-> "sendPresence"])
  \o On(Account(<<"state">>), [GET |-> "getState"])
  \o On(Account(<<"version">>), [GET |-> "getWWebVersion"])
  \o On(Account(<<"settings", "auto-download">>), [PATCH |-> "setAutoDownload"])
  \o On(Account(<<"call-links">>), [POST |-> "createCallLink"])

MessageRoutes ==
  On(<<"messages">>, [GET |-> "listMessages"])
  \o On(Account(<<"messages:search">>), [GET |-> "searchMessages"])
  \o On(Message(<<"*">>),
        [GET |-> "getMessage", PATCH |-> "editMessage", DELETE |-> "deleteMessage"])
  \o On(Message(<<"*:reply">>), [POST |-> "replyToMessage"])
  \o On(Message(<<"*:forward">>), [POST |-> "forwardMessage"])
  \o On(Message(<<"*", "reaction">>),
        [GET |-> "getMessageReactions", PUT |-> "reactToMessage"])
  \o On(Message(<<"*", "star">>), [PUT |-> "starMessage", DELETE |-> "unstarMessage"])
  \o On(Message(<<"*", "pin">>), [PUT |-> "pinMessage", DELETE |-> "unpinMessage"])
  \o On(Message(<<"*", "poll-votes">>),
        [GET |-> "getPollVotesForMessage", POST |-> "voteInPoll"])
  \o On(Message(<<"*", "event-response">>), [POST |-> "respondToScheduledEvent"])

ChatRoutes ==
  On(Account(<<"chats">>), [GET |-> "listChats"])
  \o On(Chat(<<>>), [GET |-> "getChat", DELETE |-> "deleteChat"])
  \o On(Chat(<<"messages">>), [GET |-> "fetchChatMessages", POST |-> "sendMessage",
                               DELETE |-> "clearChatMessages"])
  \o On(Chat(<<"archive">>), [PUT |-> "archiveChat", DELETE |-> "unarchiveChat"])
  \o On(Chat(<<"pin">>), [PUT |-> "pinChat", DELETE |-> "unpinChat"])
  \o On(Chat(<<"mute">>), [PUT |-> "muteChat", DELETE |-> "unmuteChat"])
  \o On(Chat(<<"read:seen">>), [POST |-> "sendSeen"])
  \o On(Chat(<<"read:mark-unread">>), [POST |-> "markChatUnread"])
  \o On(Chat(<<"activity", "typing:start">>), [POST |-> "sendTyping"])
  \o On(Chat(<<"activity", "typing:stop">>), [POST |-> "clearChatState"])
  \o On(Chat(<<"activity", "recording:start">>), [POST |-> "sendRecording"])
  \o On(Chat(<<"activity", "recording:stop">>), [POST |-> "clearChatState"])
  \o On(Chat(<<"history:sync">>), [POST |-> "syncHistory"])

GroupRoutes ==
  On(Group(<<>>), [POST |-> "createGroup"])
  \o On(Group(<<"*">>), [GET |-> "getGroupInfo", PATCH |-> "updateGroupSettings"])
  \o On(Group(<<"*:leave">>), [POST |-> "leaveGroup"])
  \o On(Account(<<"group-invites", "+">>), [GET |-> "getInviteInfo"])
  \o On(Account(<<"group-invites", "*:join">>), [POST |-> "joinGroupByInvite"])
  \o On(Account(<<"group-invites", "*:private-accept">>), [POST |-> "acceptGroupV4Invite"])
  \o On(Group(<<"*", "invite-code">>), [GET |-> "getGroupInvite", DELETE |-> "revokeGroupInvite"])
  \o On(Group(<<"*", "membership-requests">>), [GET |-> "getGroupMembershipRequests"])
  \o On(Group(<<"*", "membership-requests:approve">>), [POST |-> "approveGroupMembershipRequests"])
  \o On(Group(<<"*", "membership-requests:reject">>), [POST |-> "rejectGroupMembershipRequests"])
  \o On(Group(<<"*", "participants:add">>), [POST |-> "addGroupParticipants"])
  \o On(Group(<<"*", "participants:remove">>), [POST |-> "kickGroupParticipants"])
  \o On(Group(<<"*", "participants:promote">>), [POST |-> "promoteGroupParticipants"])
  \o On(Group(<<"*", "participants:demote">>), [POST |-> "demoteGroupParticipants"])

ChannelRoutes ==
  On(Account(<<"channels">>), [GET |-> "listChannels", POST |-> "createChannel"])
  \o On(Account(<<"channels:search">>), [GET |-> "searchChannels"])
  \o On(Account(<<"channels:by-invite">>), [GET |-> "getChannelByInvite"])
  \o On(Channel(<<>>),
        [GET |-> "getChannel", PATCH |-> "updateChannel", DELETE |-> "deleteChannel"])
  \o On(Channel(<<"subscribers">>), [GET |-> "getChannelSubscribers"])
  \o On(Channel(<<"messages">>), [GET |-> "fetchChannelMessages", POST |-> "sendChannelMessage"])
  \o On(Channel(<<"subscription">>),
        [PUT |-> "subscribeToChannel", DELETE |-> "unsubscribeFromChannel"])
  \o On(Channel(<<"mute">>), [PUT |-> "muteChannel", DELETE |-> "unmuteChannel"])
  \o On(Channel(<<"read:seen">>), [POST |-> "sendSeenToChannel"])
  \o On(Channel(<<"admins:invite">>), [POST |-> "inviteChannelAdmin"])
  \o On(Channel(<<"admins:accept">>), [POST |-> "acceptChannelAdminInvite"])
  \o On(Channel(<<"admins:revoke-invite">>), [POST |-> "revokeChannelAdminInvite"])
  \o On(Channel(<<"admins:demote">>), [POST |-> "demoteChannelAdmin"])
  \o On(Channel(<<"ownership:transfer">>), [POST |-> "transferChannelOwnership"])

LabelRoutes ==
  On(Account(<<"labels">>), [GET |-> "listLabels"])
  \o On(Account(<<"labels", "*">>), [GET |-> "getLabel"])
  \o On(Account(<<"labels", "*", "chats">>), [GET |-> "getChatsByLabel"])
  \o On(Chat(<<"labels">>), [GET |-> "getChatLabels"])
  \o On(Account(<<"chat-labels">>), [PUT |-> "updateChatLabels"])
  \o On(Account(<<"broadcasts">>), [GET |-> "listBroadcasts"])
  \o On(Account(<<"broadcasts", "*">>), [GET |-> "getBroadcast"])

ContactRoutes ==
  On(Account(<<"contacts">>), [GET |-> "listContacts"])
  \o On(Account(<<"contacts", "blocked">>), [GET |-> "listBlockedContacts"])
  \o On(Contact(<<>>), [GET |-> "getContactInfo"])
  \o On(Contact(<<"block">>), [PUT |-> "blockContact", DELETE |-> "unblockContact"])
  \o On(Contact(<<"groups", "common">>), [GET |-> "getCommonGroups"])
  \o On(Account(<<"numbers:format">>), [GET |-> "getFormattedNumber"])
  \o On(Account(<<"numbers:country-code">>), [GET |-> "getCountryCode"])
  \o On(Account(<<"numbers:resolve-id">>), [GET |-> "getNumberId"])
  \o On(Contact(<<"registration">>), [GET |-> "isRegisteredUser"])
  \o On(Contact(<<"device-count">>), [GET |-> "getContactDeviceCount"])
  \o On(Contact(<<"photo">>), [GET |-> "getProfilePicture"])
  \o On(Account(<<"address-book", "*">>),
        [PUT |-> "saveAddressBookContact", DELETE |-> "deleteAddressBookContact"])
  \o On(Account(<<"identities:resolve-lid-phone">>), [POST |-> "getContactLidAndPhone"])
  \o On(Contact(<<"note">>), [PUT |-> "addCustomerNote", GET |-> "getCustomerNote"])

RegistryRoutes ==
  On(<<"workflows">>, [GET |-> "listWorkflows"])
  \o On(<<"workflows", "providers">>, [GET |-> "listProviderTypes"])
  \o On(<<"workflows", "executions">>, [GET |-> "listWorkflowExecutions"])
  \o On(<<"workflows:validate">>, [POST |-> "validateWorkflow"])
  \o On(<<"workflows">>, [PUT |-> "upsertWorkflow"])
  \o On(<<"workflows:test">>, [POST |-> "testWorkflow"])
  \o On(<<"webhooks">>, [GET |-> "listWebhooks"])
  \o On(<<"webhooks", "deliveries">>, [GET |-> "listWebhookDeliveries"])
  \o On(<<"webhooks", "*">>, [PUT |-> "upsertWebhook", DELETE |-> "removeWebhook"])
  \o On(<<"webhooks", "deliveries", "*:replay">>, [POST |-> "replayDelivery"])
  \o On(<<"webhooks", "events", "*:test">>, [POST |-> "publish"])

Routes ==
  SystemRoutes \o AccountRoutes \o MessageRoutes \o ChatRoutes \o GroupRoutes
    \o ChannelRoutes \o LabelRoutes \o ContactRoutes \o RegistryRoutes

-----------------------------------------------------------------------------
(* URLs.  What the tables make of an id depends on whether it is empty,    *)
(* has a slash in it, is a dot segment, or is a word that stands in a      *)
(* route; all others are alike.  A word with a colon is encoded, and is    *)
(* then none of those.                                                     *)

HasColon(word) == \E k \in 1..Len(word) : SubSeq(word, k, k) = ":"

Words == {word \in UNION {Range(Routes[n].path) : n \in DOMAIN Routes} : ~HasColon(word)} \ {"*", "+"}

Id == {"ordinary", "with/slash", "", ".", ".."} \cup Words

VerbParameters ==
  {"*:rotate", "*:reply", "*:forward", "*:leave", "*:join", "*:private-accept",
   "*:replay", "*:test"}

Parameters == {"*"} \cup VerbParameters

Segment(text, id) == [text |-> text, id |-> id]

\* A path names its account first, one with an ordinary name; the id is in the last of
\* its parameters.
LastParameter(path) == Max({0} \cup {k \in DOMAIN path : path[k] \in Parameters})

Segments(path, id) ==
  [k \in DOMAIN path |-> Segment(path[k], IF k = LastParameter(path) THEN id ELSE "ordinary")]

\* encodeURIComponent() leaves the dots of a dot segment as they are.
IsDotSegment(path, id) ==
  /\ id \in {".", ".."}
  /\ LastParameter(path) > 0 /\ path[LastParameter(path)] = "*"

\* Parsing the URL removes a dot segment, and ".." the segment before it too; an empty
\* segment is left at the end.
WithoutDots(path, id, segments) ==
  LET last == LastParameter(path)
      before == SubSeq(segments, 1, last - (IF id = "." THEN 1 ELSE 2))
  IN  IF ~IsDotSegment(path, id) THEN segments
      ELSE IF last = Len(path) THEN Append(before, Segment("*", ""))
      ELSE before \o SubSeq(segments, last + 1, Len(path))

\* Defect: the id is put into the URL as it is, and what follows its slash is a
\* segment of its own.
UrlUnencoded(path, id) ==
  LET last == LastParameter(path)
      segments == Segments(path, id)
  IN  IF id = "with/slash" /\ last > 0
        THEN SubSeq(segments, 1, last) \o SubSeq(segments, last, Len(path))
        ELSE WithoutDots(path, id, segments)

\* An encoded id is one segment, or part of one, and is decoded to itself.
Url(path, id) == WithoutDots(path, id, Segments(path, id))

\* Whether a segment of a URL matches one of a route.
SegmentFits(pattern, segment) ==
  CASE segment.text = "*" ->
         segment.id # "" /\ pattern \in {"*", "+", segment.id}
    [] segment.text \in VerbParameters ->
         pattern = "*" \/ (pattern = segment.text /\ segment.id # "")
    [] OTHER -> pattern \in {"*", "+", segment.text}

\* The first route that takes a request; what it calls.
Takes(route, method, url) ==
  /\ method \in DOMAIN route.on
  /\ Len(route.path) = Len(url)
  /\ \A k \in DOMAIN url : SegmentFits(route.path[k], url[k])

Dispatch(method, url) ==
  LET taking == {n \in DOMAIN Routes : Takes(Routes[n], method, url)}
  IN  IF taking = {} THEN "not found" ELSE Routes[Min(taking)].on[method]

-----------------------------------------------------------------------------
(* The methods of the client.                                              *)

Get(path) == [method |-> "GET", path |-> path]
Post(path) == [method |-> "POST", path |-> path]
Put(path) == [method |-> "PUT", path |-> path]
Patch(path) == [method |-> "PATCH", path |-> path]
Del(path) == [method |-> "DELETE", path |-> path]

SystemMethods ==
  LET key == <<"system", "keys", "*">>
  IN  [getStatus |-> Get(<<"system">>), reload |-> Post(<<"system:reload">>),
       listApiKeys |-> Get(<<"system", "keys">>), requireApiKey |-> Get(key),
       createManagedApiKey |-> Post(<<"system", "keys">>), updateApiKey |-> Patch(key),
       rotateApiKey |-> Post(<<"system", "keys", "*:rotate">>), deleteApiKey |-> Del(key)]

AccountMethods ==
  LET photo == Account(<<"profile", "photo">>)
  IN  [accounts |-> Get(<<"accounts">>), requireAccount |-> Get(Account(<<>>)),
       loginQr |-> Post(Account(<<"login", "qr">>)),
       requestPairingCode |-> Post(Account(<<"login", "pairing-code">>)),
       setStatus |-> Post(Account(<<"profile", "status">>)),
       revokeStatusMessage |-> Del(Account(<<"profile", "status", "*">>)),
       setDisplayName |-> Post(Account(<<"profile", "name">>)),
       setProfilePicture |-> Post(photo), deleteProfilePicture |-> Del(photo),
       sendPresence |-> Post(Account(<<"presence">>)), getState |-> Get(Account(<<"state">>)),
       getWWebVersion |-> Get(Account(<<"version">>)),
       setAutoDownload |-> Patch(Account(<<"settings", "auto-download">>)),
       createCallLink |-> Post(Account(<<"call-links">>))]

MessageMethods ==
  LET message == Message(<<"*">>)
  IN  [listMessages |-> Get(<<"messages">>), getMessage |-> Get(message),
       sendMessage |-> Post(Chat(<<"messages">>)),
       replyToMessage |-> Post(Message(<<"*:reply">>)),
       forwardMessage |-> Post(Message(<<"*:forward">>)),
       editMessage |-> Patch(message), deleteMessage |-> Del(message),
       reactToMessage |-> Put(message \o <<"reaction">>),
       getMessageReactions |-> Get(message \o <<"reaction">>),
       getPollVotesForMessage |-> Get(message \o <<"poll-votes">>),
       starMessage |-> Put(message \o <<"star">>), unstarMessage |-> Del(message \o <<"star">>),
       pinMessage |-> Put(message \o <<"pin">>), unpinMessage |-> Del(message \o <<"pin">>),
       voteInPoll |-> Post(message \o <<"poll-votes">>),
       respondToScheduledEvent |-> Post(message \o <<"event-response">>)]

\* sendTyping() and sendRecording() take whether the activity starts or stops.
ChatMethods ==
  [listChats |-> Get(Account(<<"chats">>)), getChat |-> Get(Chat(<<>>)),
   fetchChatMessages |-> Get(Chat(<<"messages">>)),
   searchMessages |-> Get(Account(<<"messages:search">>)),
   archiveChat |-> Put(Chat(<<"archive">>)), unarchiveChat |-> Del(Chat(<<"archive">>)),
   pinChat |-> Put(Chat(<<"pin">>)), unpinChat |-> Del(Chat(<<"pin">>)),
   muteChat |-> Put(Chat(<<"mute">>)), unmuteChat |-> Del(Chat(<<"mute">>)),
   markChatUnread |-> Post(Chat(<<"read:mark-unread">>)),
   sendSeen |-> Post(Chat(<<"read:seen">>)),
   sendTyping |-> Post(Chat(<<"activity", "typing:start">>)),
   stopTyping |-> Post(Chat(<<"activity", "typing:stop">>)),
   sendRecording |-> Post(Chat(<<"activity", "recording:start">>)),
   stopRecording |-> Post(Chat(<<"activity", "recording:stop">>)),
   clearChatMessages |-> Del(Chat(<<"messages">>)), deleteChat |-> Del(Chat(<<>>)),
   syncHistory |-> Post(Chat(<<"history:sync">>))]

GroupMethods ==
  LET code == Group(<<"*", "invite-code">>)
  IN  [createGroup |-> Post(Group(<<>>)), getGroupInfo |-> Get(Group(<<"*">>)),
       updateGroupSettings |-> Patch(Group(<<"*">>)), leaveGroup |-> Post(Group(<<"*:leave">>)),
       joinGroupByInvite |-> Post(Account(<<"group-invites", "*:join">>)),
       getInviteInfo |-> Get(Account(<<"group-invites", "*">>)),
       acceptGroupV4Invite |-> Post(Account(<<"group-invites", "*:private-accept">>)),
       getGroupInvite |-> Get(code), revokeGroupInvite |-> Del(code),
       getGroupMembershipRequests |-> Get(Group(<<"*", "membership-requests">>)),
       approveGroupMembershipRequests |-> Post(Group(<<"*", "membership-requests:approve">>)),
       rejectGroupMembershipRequests |-> Post(Group(<<"*", "membership-requests:reject">>)),
       addGroupParticipants |-> Post(Group(<<"*", "participants:add">>)),
       kickGroupParticipants |-> Post(Group(<<"*", "participants:remove">>)),
       promoteGroupParticipants |-> Post(Group(<<"*", "participants:promote">>)),
       demoteGroupParticipants |-> Post(Group(<<"*", "participants:demote">>))]

ChannelMethods ==
  [listChannels |-> Get(Account(<<"channels">>)),
   searchChannels |-> Get(Account(<<"channels:search">>)),
   createChannel |-> Post(Account(<<"channels">>)), getChannel |-> Get(Channel(<<>>)),
   getChannelByInvite |-> Get(Account(<<"channels:by-invite">>)),
   updateChannel |-> Patch(Channel(<<>>)),
   getChannelSubscribers |-> Get(Channel(<<"subscribers">>)),
   fetchChannelMessages |-> Get(Channel(<<"messages">>)),
   sendChannelMessage |-> Post(Channel(<<"messages">>)),
   subscribeToChannel |-> Put(Channel(<<"subscription">>)),
   unsubscribeFromChannel |-> Del(Channel(<<"subscription">>)),
   muteChannel |-> Put(Channel(<<"mute">>)), unmuteChannel |-> Del(Channel(<<"mute">>)),
   sendSeenToChannel |-> Post(Channel(<<"read:seen">>)),
   inviteChannelAdmin |-> Post(Channel(<<"admins:invite">>)),
   acceptChannelAdminInvite |-> Post(Channel(<<"admins:accept">>)),
   revokeChannelAdminInvite |-> Post(Channel(<<"admins:revoke-invite">>)),
   demoteChannelAdmin |-> Post(Channel(<<"admins:demote">>)),
   transferChannelOwnership |-> Post(Channel(<<"ownership:transfer">>)),
   deleteChannel |-> Del(Channel(<<>>))]

LabelMethods ==
  [listLabels |-> Get(Account(<<"labels">>)), getLabel |-> Get(Account(<<"labels", "*">>)),
   getChatsByLabel |-> Get(Account(<<"labels", "*", "chats">>)),
   getChatLabels |-> Get(Chat(<<"labels">>)),
   updateChatLabels |-> Put(Account(<<"chat-labels">>)),
   listBroadcasts |-> Get(Account(<<"broadcasts">>)),
   getBroadcast |-> Get(Account(<<"broadcasts", "*">>))]

ContactMethods ==
  LET entry == Account(<<"address-book", "*">>)
  IN  [listContacts |-> Get(Account(<<"contacts">>)),
       listBlockedContacts |-> Get(Account(<<"contacts", "blocked">>)),
       getContactInfo |-> Get(Contact(<<>>)), blockContact |-> Put(Contact(<<"block">>)),
       unblockContact |-> Del(Contact(<<"block">>)),
       getCommonGroups |-> Get(Contact(<<"groups", "common">>)),
       getFormattedNumber |-> Get(Account(<<"numbers:format">>)),
       getCountryCode |-> Get(Account(<<"numbers:country-code">>)),
       getNumberId |-> Get(Account(<<"numbers:resolve-id">>)),
       isRegisteredUser |-> Get(Contact(<<"registration">>)),
       getContactDeviceCount |-> Get(Contact(<<"device-count">>)),
       getProfilePicture |-> Get(Contact(<<"photo">>)),
       saveAddressBookContact |-> Put(entry), deleteAddressBookContact |-> Del(entry),
       getContactLidAndPhone |-> Post(Account(<<"identities:resolve-lid-phone">>)),
       addCustomerNote |-> Put(Contact(<<"note">>)), getCustomerNote |-> Get(Contact(<<"note">>))]

RegistryMethods ==
  [listWorkflows |-> Get(<<"workflows">>), listProviderTypes |-> Get(<<"workflows", "providers">>),
   listWorkflowExecutions |-> Get(<<"workflows", "executions">>),
   validateWorkflow |-> Post(<<"workflows:validate">>), upsertWorkflow |-> Put(<<"workflows">>),
   testWorkflow |-> Post(<<"workflows:test">>), listWebhooks |-> Get(<<"webhooks">>),
   listWebhookDeliveries |-> Get(<<"webhooks", "deliveries">>),
   upsertWebhook |-> Put(<<"webhooks", "*">>), removeWebhook |-> Del(<<"webhooks", "*">>),
   replayDelivery |-> Post(<<"webhooks", "deliveries", "*:replay">>),
   publish |-> Post(<<"webhooks", "events", "*:test">>)]

Methods ==
  SystemMethods @@ AccountMethods @@ MessageMethods @@ ChatMethods @@ GroupMethods
    @@ ChannelMethods @@ LabelMethods @@ ContactMethods @@ RegistryMethods

=============================================================================
