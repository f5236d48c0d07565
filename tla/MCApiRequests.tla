---------------------------- MODULE MCApiRequests ----------------------------
(* Either updates of one group, one channel and the downloads of an account,   *)
(* or one request of one of the client's methods.                              *)
EXTENDS ApiRequests

Asking(op, id, fields) == [op |-> op, id |-> id, fields |-> fields]

Updates ==
  {Asking("updateGroupSettings", "ordinary", {"subject", "description"}),
   Asking("updateGroupSettings", "ordinary", {"description", "infoAdminsOnly"})}

OtherUpdates ==
  {Asking("updateChannel", "ordinary", {"subject", "profilePicture"}),
   Asking("updateChannel", "ordinary", {"subject"}),
   Asking("setAutoDownload", "ordinary", {"audio", "backgroundSync"})}

MCScenarios ==
  {[asks |-> asks, requests |-> 3] : asks \in {Updates, OtherUpdates}}
    \cup [asks : {{Asking(op, id, {})} : op \in Op, id \in Id}, requests : {1}]
=============================================================================
