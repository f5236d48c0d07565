------------------------- MODULE MCWorkflowRuntime -------------------------
(* A small instance: workflow 2 in two versions, with either error mode, and  *)
(* workflow 1, limited to one account.  Orphan uses a condition whose module   *)
(* is not loaded any more.  Faulty: writes may throw.  Paired: two runs, and a *)
(* workflow replaced under them.  Changing: a reload or a restart with working *)
(* storage, the orphan configured, and a workflow switched off.  Repeating:    *)
(* both versions of workflow 2 configured, and a reload or a restart.          *)
EXTENDS WorkflowRuntime

MCKnownTriggers == {"message.received"}
MCKnownConditions == {"message.from"}
MCKnownActions == {"message.sendText", "data.assert"}

Send == [type |-> "message.sendText", id |-> "none"]
Check == [type |-> "data.assert", id |-> "check"]

AnyAccount == [mode |-> "all", accounts |-> {}]
Only(account) == [mode |-> "single", accounts |-> {account}]

Flow(id, version, scope, conditions, actions, errorMode) ==
  [id |-> id, version |-> version, enabled |-> TRUE, trigger |-> "message.received",
   scope |-> scope, conditions |-> conditions, actions |-> actions, errorMode |-> errorMode]

Careful == Flow(2, 1, AnyAccount, <<"message.from">>, <<Check, Send>>, "stop")
Stubborn == Flow(2, 2, AnyAccount, <<>>, <<Check, Send>>, "continue")
Local == Flow(1, 1, Only("default"), <<>>, <<Send>>, "stop")
LocalOff == [Local EXCEPT !.version = 2, !.enabled = FALSE]
Orphan == Flow(3, 1, AnyAccount, <<"crm.isCustomer">>, <<Send>>, "stop")

MCWorkflow == {Careful, Stubborn, Local, LocalOff, Orphan}

Faulty == [configured |-> <<Careful, Local>>, supplied |-> {Careful, Stubborn, Local},
           storageFails |-> TRUE, instances |-> 1, runs |-> {1}]
Paired == [configured |-> <<Careful>>, supplied |-> {Stubborn},
           storageFails |-> TRUE, instances |-> 1, runs |-> {1, 2}]
Changing == [configured |-> <<Orphan, Local>>, supplied |-> {Careful, Local, LocalOff, Orphan},
             storageFails |-> FALSE, instances |-> 2, runs |-> {1}]

Repeating == [configured |-> <<Careful, Stubborn>>, supplied |-> {Stubborn, Local},
              storageFails |-> FALSE, instances |-> 2, runs |-> {1}]

AllEnvironments == {Faulty, Paired, Changing, Repeating}
OnlyChanging == {Changing}

Message(account) == [type |-> "message.received", accountId |-> account]
OneEvent == {Message("default")}
=============================================================================
