--------------------------- MODULE WorkflowActions ---------------------------
(***************************************************************************)
(* Workflows at work on messages: the actions of modules/action-message    *)
(* read their configuration, in which packages/workflow-types has put the  *)
(* values of the tokens, and call the gateway; other callers, the API's    *)
(* clients, use it meanwhile.                                              *)
(*                                                                         *)
(* A run is one execution of a workflow for a message that its account has *)
(* received; its gateway calls are the calls of the caller of its name.    *)
(***************************************************************************)
EXTENDS MessageGateway, Integers, Sequences

CONSTANTS
  Run,         \* callers that are runs
  Workflow,    \* definitions: [actions, errorMode, accountScope]
  Request      \* what the clients of the API ask for: [op, account, id]

\* What a configuration says of the message an action is about.  "output" is a
\* token, `${actionsById.<id>.output.messageId}`, for the action at a place.
Target ==
  [kind : {"absent", "empty"}]
    \cup [kind : {"literal"}, message : Message]
    \cup [kind : {"output"}, place : Nat]

ASSUME WorkflowAssumption ==
  /\ Run \subseteq Caller /\ Account # {} /\ Workflow # {}
  /\ \A w \in Workflow :
       /\ w.errorMode \in {"stop", "continue"} /\ w.accountScope \subseteq Account
       /\ w.actions \in Seq([op : Operations, target : Target])
       /\ \A n \in DOMAIN w.actions :
            w.actions[n].target.kind = "output" => w.actions[n].target.place \in 1..(n - 1)
  /\ Request \subseteq [op : Operations, account : Account, id : Id]

VARIABLE
  run   \* run[r]: [stage, workflow, account, trigger, outputs, made]

\* outputs[n] is the messageId in the output of action n; made[n] the message that
\* action n has made, whether or not its output says so.
Outcome == Message \cup {NoMessage}

vars == <<gatewayVars, run>>

Init ==
  /\ GatewayInit
  /\ run = [r \in Run |-> [stage |-> "idle", workflow |-> CHOOSE w \in Workflow : TRUE,
                           account |-> CHOOSE a \in Account : TRUE,
                           trigger |-> NoMessage, outputs |-> <<>>, made |-> <<>>]]

-----------------------------------------------------------------------------
(* Configurations.                                                         *)

\* The value of the token: the path ends where the output has no messageId.
TokenValue(r, place) == run[r].outputs[place]

\* asOptionalString(config.messageId) ?? input.messageId.
IdOrTrigger(r, target) ==
  CASE target.kind = "literal" -> target.message
    [] target.kind = "output" /\ TokenValue(r, target.place) # NoMessage ->
         TokenValue(r, target.place)
    [] OTHER -> run[r].trigger

\* message.reply and message.react take any string, the empty one too.
AnyStringOrTrigger(r, target) ==
  IF target.kind = "empty" THEN NoMessage ELSE IdOrTrigger(r, target)

TargetOf(r, action) ==
  IF action.op \in {"replyToMessage", "reactToMessage"}
    THEN AnyStringOrTrigger(r, action.target)
    ELSE IdOrTrigger(r, action.target)

CurrentAction(r) == run[r].workflow.actions[Len(run[r].outputs) + 1]

\* message.sendText returns its text, the other sends, reply and edit the answer of
\* the gateway.
OutputOf(r) ==
  IF CurrentAction(r).op = "sendText" THEN NoMessage ELSE call[r].made

-----------------------------------------------------------------------------
(* Runs.                                                                   *)

ActionsLeft(r) == Len(run[r].outputs) < Len(run[r].workflow.actions)

\* A message has been received, and its event starts a run.
BeginRun(r, w, a, m) ==
  /\ run[r].stage \in {"idle", "ended"}
  /\ m \in held[a] /\ Author[m] # a
  /\ a \in w.accountScope
  /\ run' = [run EXCEPT ![r] = [stage |-> "ready", workflow |-> w, account |-> a,
                                trigger |-> m, outputs |-> <<>>, made |-> <<>>]]
  /\ UNCHANGED gatewayVars

\* The next action reads its configuration and calls the gateway.
BeginAction(r) ==
  /\ run[r].stage = "ready"
  /\ ActionsLeft(r)
  /\ LET action == CurrentAction(r)
     IN  BeginCall(r, action.op, run[r].account,
                   IF action.op \in Sends THEN NoId ELSE ShortId(TargetOf(r, action)))
  /\ run' = [run EXCEPT ![r].stage = "acting"]

\* Defect: the action's failure does not end the run.
ActionEndsAnyMode(r) ==
  /\ run[r].stage = "acting"
  /\ Idle(r)
  /\ run' = [run EXCEPT ![r].stage = "ready",
                        ![r].outputs = Append(@, OutputOf(r)),
                        ![r].made = Append(@, call[r].made)]
  /\ UNCHANGED gatewayVars

\* The gateway has answered: the result is recorded, and after a failure the run
\* goes on only in the mode "continue".
ActionEnds(r) ==
  /\ run[r].stage = "acting"
  /\ Idle(r)
  /\ LET ends == call[r].stage = "failed" /\ run[r].workflow.errorMode # "continue"
     IN  run' = [run EXCEPT ![r].stage = IF ends THEN "ended" ELSE "ready",
                            ![r].outputs = Append(@, OutputOf(r)),
                            ![r].made = Append(@, call[r].made)]
  /\ UNCHANGED gatewayVars

RunEnds(r) ==
  /\ run[r].stage = "ready"
  /\ ~ActionsLeft(r)
  /\ run' = [run EXCEPT ![r].stage = "ended"]
  /\ UNCHANGED gatewayVars

\* A request of a client of the API.
BeginRequest(c, request) ==
  /\ BeginCall(c, request.op, request.account, request.id)
  /\ UNCHANGED run

\* The kernel is replaced.  Runs go on in the previous one, but their clients are
\* destroyed, and nothing they call is done any more.
KernelReplaced ==
  /\ Reload
  /\ run' = [r \in Run |-> IF run[r].stage = "idle" THEN run[r]
                          ELSE [run[r] EXCEPT !.stage = "ended"]]

Next ==
  \/ \E r \in Run :
       \/ \E w \in Workflow, a \in Account, m \in Message : BeginRun(r, w, a, m)
       \/ BeginAction(r) \/ ActionEnds(r) \/ RunEnds(r)
  \/ \E c \in Caller \ Run, request \in Request : BeginRequest(c, request)
  \/ \E c \in Caller : CallStep(c) /\ UNCHANGED run
  \/ \E a \in Account, m \in Message : Arrives(a, m) /\ UNCHANGED run
  \/ KernelReplaced

Spec == Init /\ [][Next]_vars

-----------------------------------------------------------------------------
(* Properties.                                                             *)

TypeOK ==
  /\ GatewayTypeOK
  /\ run \in [Run -> [stage : {"idle", "ready", "acting", "ended"}, workflow : Workflow,
                      account : Account, trigger : Outcome,
                      outputs : Seq(Outcome), made : Seq(Outcome)]]
  /\ \A r \in Run : Len(run[r].outputs) = Len(run[r].made)

\* The sends whose output carries the id of the message, and the reply.
Announced == (Sends \ {"sendText"}) \cup {"replyToMessage"}

\* A token that names the output of a send or of a reply leads to the message that
\* action made, and to no other, as long as failures end the run.  (In the mode
\* "continue" it falls back to the message that triggered the run, and so it does in
\* both modes for message.sendText.)
TokensLeadToTheirMessage ==
  \A r \in Run :
    run[r].stage = "acting" /\ ~Idle(r) /\ run[r].workflow.errorMode = "stop" =>
      LET action == CurrentAction(r)
          place == action.target.place
      IN  /\ action.op \in MessageOperations
          /\ action.target.kind = "output"
          /\ run[r].workflow.actions[place].op \in Announced
          => /\ call[r].target.message = run[r].made[place]
             /\ run[r].made[place] # NoMessage

=============================================================================
