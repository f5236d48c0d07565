-------------------------- MODULE MCWebhookRuntime --------------------------
(* A small instance: two webhooks in several versions.  A1 takes every       *)
(* event, A2 replaces it and is limited to an account with no event, A3 has  *)
(* another url; B1 takes one type of event, BOff is B1 switched off.         *)
EXTENDS WebhookRuntime

MCWebhookId == {1, 2}
MCUrl == {"u1", "u2"}
MCEventType == {"message.received", "account.qr"}
MCEventId == {"e1"}
MCAccountId == {"default", "other"}

Hook(id, url, types, accounts) ==
  [id |-> id, url |-> url, enabled |-> TRUE, eventTypes |-> types, accountIds |-> accounts]

A1 == Hook(1, "u1", {"*"}, {})
A2 == Hook(1, "u2", {"message.received", "account.qr"}, {"other"})
B1 == Hook(2, "u1", {"message.received"}, {"default", "other"})
A3 == [A1 EXCEPT !.url = "u2"]
BOff == [B1 EXCEPT !.enabled = FALSE]

MCDefinition == {A1, A2, A3, B1, BOff}

E1 == [id |-> "e1", type |-> "message.received", accountId |-> "default"]

OneEvent == {E1}

\* Writes may throw; both webhooks match the event until one is switched off.
Faulty == [endpoints |-> <<A1, B1>>, supplied |-> {A1, B1, BOff}, storageFails |-> TRUE,
           instances |-> 1, chains |-> {1, 2}]

\* Writes may throw, with a reload or a restart under one chain.
Restarting == [endpoints |-> <<A1>>, supplied |-> {A1, B1, BOff}, storageFails |-> TRUE,
               instances |-> 2, chains |-> {1}]

\* Working storage, a reload or a restart, and a webhook replaced by another version.
Changing == [endpoints |-> <<A1>>, supplied |-> {A2, B1}, storageFails |-> FALSE,
             instances |-> 2, chains |-> {1, 2}]

\* One id for two endpoints of the config: one row, until a reload two in memory.
Repeating == [endpoints |-> <<A1, A3>>, supplied |-> {A2}, storageFails |-> FALSE,
              instances |-> 2, chains |-> {1, 2}]

AllEnvironments == {Faulty, Restarting, Changing, Repeating}
=============================================================================
