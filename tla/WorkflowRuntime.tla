-------------------------- MODULE WorkflowRuntime --------------------------
(***************************************************************************)
(* modules/runtime-workflow and packages/workflow-engine: the registry of  *)
(* workflow definitions, the subscriber that runs the matching workflows   *)
(* of an event one after the other, and execute(), which takes a workflow  *)
(* through its trigger, its conditions and its actions.                    *)
(*                                                                         *)
(* A run is one call of the subscriber, or one call of test() by the API.  *)
(* queue[r] is the snapshot of the workflows it goes through, chosen[r]    *)
(* the places in it that the loop does not pass over, pos[r] the place it  *)
(* has come to, and pc[r] the await it is suspended at:                    *)
(*   "published"  the handlers before the subscriber                       *)
(*   "next"       between two workflows                                    *)
(*   "trigger"    await trigger.match()                                    *)
(*   "condition"  await condition.evaluate() of conditions[at[r]]          *)
(*   "action"     await action.execute() of actions[at[r]]                 *)
(* or, at the end, "done", "aborted" (an exception left the subscriber) or *)
(* "lost" (the process ended).                                             *)
(***************************************************************************)
EXTENDS DefinitionTable

CONSTANTS
  Workflow,          \* definitions the config and clients may supply
  Event,             \* events that may be published
  NoAccount,         \* the accountId of an event that belongs to no account
  KnownTriggers, KnownConditions, KnownActions,  \* types with a provider
  NoActionId,        \* the id of an action that has none
  Run,               \* identities of runs (bounds their number)
  NoRun,             \* the event of a run that has not begun
  MaxInstances,      \* bound on the number of register() calls
  Environments       \* the circumstances the module may meet, each a record of
                     \*   configured: config.workflows, a sequence
                     \*   supplied: the definitions clients may supply
                     \*   storageFails: whether a write to SQLite may throw
                     \*   instances, runs: the number of register() calls, and the runs

ASSUME WorkflowAssumption ==
  /\ \A w \in Workflow :
       /\ w.id \in Nat /\ w.version \in Nat /\ w.enabled \in BOOLEAN
       /\ w.scope.mode \in {"all", "single", "set"}
       /\ w.errorMode \in {"stop", "continue"}
       /\ w.conditions \in Seq(STRING)
       /\ w.actions \in Seq([type : STRING, id : STRING])
  /\ MaxInstances \in Nat
  /\ \A e \in Environments :
       /\ e.configured \in Seq(Workflow)
       /\ e.storageFails \in BOOLEAN
       /\ e.instances \in 0..MaxInstances
       /\ e.supplied \subseteq Workflow /\ e.runs \subseteq Run

VARIABLES
  environment, \* which circumstances hold, from the beginning to the end
  mode,        \* "down", "running" or "stopped" (process alive, module stopped)
  instance,    \* number of register() calls so far; the last one is current
  registry,    \* registry[i]: the workflows array of instance i
  table,       \* the rows of the SQLite table workflows
  pc, event, owner, queue, chosen, pos, at,  \* the runs
  steps,       \* steps[r]: the steps of the actions run in this execution
  executions,  \* the rows of the SQLite table workflow_executions
  performed    \* the actions that were run, whatever became of the execution

definitionVars == <<environment, mode, instance, registry, table>>
subjectVars == <<event, owner, queue, chosen>>
runVars == <<pc, subjectVars, pos, at, steps>>
historyVars == <<executions, performed>>
vars == <<definitionVars, runVars, historyVars>>

Instance == 1..MaxInstances

Suspended == {"published", "next", "trigger", "condition", "action"}

-----------------------------------------------------------------------------
(* Definitions.                                                            *)

\* validateWorkflowDefinition() with the provider types of the registry, for
\* definitions that have an id and a name.
ValidWorkflow(w) ==
  /\ w.scope.mode # "all" => w.scope.accounts # {}
  /\ w.actions # <<>>
  /\ w.trigger \in KnownTriggers
  /\ \A i \in DOMAIN w.conditions : w.conditions[i] \in KnownConditions
  /\ \A i \in DOMAIN w.actions : w.actions[i].type \in KnownActions
  /\ \A i, j \in DOMAIN w.actions :
       w.actions[i].id = w.actions[j].id /\ w.actions[i].id # NoActionId => i = j

MatchesAccountScope(w, accountId) ==
  \/ w.scope.mode = "all"
  \/ accountId # NoAccount /\ accountId \in w.scope.accounts

Applies(w, e) ==
  /\ w.enabled
  /\ w.trigger = e.type
  /\ MatchesAccountScope(w, e.accountId)

-----------------------------------------------------------------------------
Init ==
  /\ environment \in Environments
  /\ mode = "down"
  /\ instance = 0
  /\ registry = [i \in Instance |-> <<>>]
  /\ table = {}
  /\ pc = [r \in Run |-> "free"]
  /\ event = [r \in Run |-> NoRun]
  /\ owner = [r \in Run |-> 0]
  /\ queue = [r \in Run |-> <<>>]
  /\ chosen = [r \in Run |-> {}]
  /\ pos = [r \in Run |-> 1]
  /\ at = [r \in Run |-> 1]
  /\ steps = [r \in Run |-> <<>>]
  /\ executions = {}
  /\ performed = {}

-----------------------------------------------------------------------------
(* Lifecycle and registry.                                                 *)

\* register(): load the stored definitions, or seed them from the config, which
\* is not validated, and subscribe.
Register ==
  /\ mode # "running"
  /\ instance < environment.instances
  /\ mode' = "running"
  /\ instance' = instance + 1
  /\ \/ /\ table # {}
        /\ \E list \in Listings(table) : registry' = [registry EXCEPT ![instance + 1] = list]
        /\ UNCHANGED table
     \/ /\ table = {}
        /\ registry' = [registry EXCEPT ![instance + 1] = environment.configured]
        /\ table' = Seeded(environment.configured)
  /\ UNCHANGED <<environment, runVars, historyVars>>

\* A saveWorkflow of the seeding loop throws: the first ones stay.
SeedInterrupted ==
  /\ mode # "running"
  /\ instance < environment.instances
  /\ environment.storageFails
  /\ table = {}
  /\ \E n \in 0..Len(environment.configured) : table' = Seeded(SubSeq(environment.configured, 1, n))
  /\ UNCHANGED <<environment, mode, instance, registry, runVars, historyVars>>

\* stop() unsubscribes; runs under way go on.
Stop ==
  /\ mode = "running"
  /\ mode' = "stopped"
  /\ UNCHANGED <<environment, instance, registry, table, runVars, historyVars>>

ProcessEnds ==
  /\ mode # "down"
  /\ mode' = "down"
  /\ pc' = [r \in Run |-> IF pc[r] \in Suspended THEN "lost" ELSE pc[r]]
  /\ UNCHANGED <<environment, instance, registry, table, subjectVars, pos, at, steps, historyVars>>

StorageOutcome == IF environment.storageFails THEN BOOLEAN ELSE {TRUE}

\* upsert() throws for an invalid definition; the array changes before the row.
Upsert(w) ==
  /\ mode = "running"
  /\ w \in environment.supplied
  /\ ValidWorkflow(w)
  /\ registry' = [registry EXCEPT ![instance] = Upserted(@, w)]
  /\ \E saved \in StorageOutcome : table' = IF saved THEN Saved(table, w) ELSE table
  /\ UNCHANGED <<environment, mode, instance, runVars, historyVars>>

-----------------------------------------------------------------------------
(* Runs.                                                                   *)

\* publish() while the subscription stands: the snapshot of the handlers holds
\* the subscriber, which is called after the kernel's own handler.
Publish(r, e) ==
  /\ mode = "running"
  /\ r \in environment.runs
  /\ pc[r] = "free"
  /\ pc' = [pc EXCEPT ![r] = "published"]
  /\ event' = [event EXCEPT ![r] = e]
  /\ owner' = [owner EXCEPT ![r] = instance]
  /\ UNCHANGED <<definitionVars, queue, chosen, pos, at, steps, historyVars>>

\* The subscriber: the array it goes through, and the places it does not pass over.
Subscriber(r) ==
  /\ pc[r] = "published"
  /\ pc' = [pc EXCEPT ![r] = "next"]
  /\ LET defs == registry[owner[r]]
     IN  /\ queue' = [queue EXCEPT ![r] = defs]
         /\ chosen' = [chosen EXCEPT ![r] = {i \in DOMAIN defs : Applies(defs[i], event[r])}]
  /\ UNCHANGED <<definitionVars, event, owner, pos, at, steps, historyVars>>

\* test(): one workflow, validated, whatever its scope or its enabled flag.
TestWorkflow(r, w, e) ==
  /\ mode = "running"
  /\ r \in environment.runs /\ w \in environment.supplied
  /\ pc[r] = "free"
  /\ ValidWorkflow(w)
  /\ pc' = [pc EXCEPT ![r] = "next"]
  /\ event' = [event EXCEPT ![r] = e]
  /\ owner' = [owner EXCEPT ![r] = instance]
  /\ queue' = [queue EXCEPT ![r] = <<w>>]
  /\ chosen' = [chosen EXCEPT ![r] = {1}]
  /\ UNCHANGED <<definitionVars, pos, at, steps, historyVars>>

\* The places the loop has still to come to.
Ahead(r) == {i \in chosen[r] : i >= pos[r]}

RunEnds(r) ==
  /\ pc[r] = "next"
  /\ Ahead(r) = {}
  /\ pc' = [pc EXCEPT ![r] = "done"]
  /\ UNCHANGED <<definitionVars, subjectVars, pos, at, steps, historyVars>>

-----------------------------------------------------------------------------
(* execute().                                                              *)

CurrentWorkflow(r) == queue[r][pos[r]]

\* An exception leaves execute(), the subscriber's loop and publish().
Throws(r) ==
  /\ pc' = [pc EXCEPT ![r] = "aborted"]
  /\ UNCHANGED <<definitionVars, subjectVars, pos, at, steps, executions>>

\* The row of the execution that ends; the place stands for the uuid it has.
Row(r, status, taken) ==
  [run |-> r, place |-> pos[r], workflow |-> CurrentWorkflow(r), status |-> status, steps |-> taken]

\* Defect: the loop returns after its first execution.
ExecutionEndsRun(r, status, taken) ==
  /\ executions' = executions \cup {Row(r, status, taken)}
  /\ pc' = [pc EXCEPT ![r] = "done"]
  /\ pos' = [pos EXCEPT ![r] = @ + 1]
  /\ at' = [at EXCEPT ![r] = 1]
  /\ steps' = [steps EXCEPT ![r] = <<>>]
  /\ UNCHANGED <<definitionVars, subjectVars>>

\* Defect: the loop takes the same workflow again.
ExecutionEndsInPlace(r, status, taken) ==
  /\ executions' = executions \cup {Row(r, status, taken)}
  /\ pc' = [pc EXCEPT ![r] = "next"]
  /\ at' = [at EXCEPT ![r] = 1]
  /\ steps' = [steps EXCEPT ![r] = <<>>]
  /\ UNCHANGED <<definitionVars, subjectVars, pos>>

\* saveWorkflowExecution() and the return to the loop, or its exception.
ExecutionEnds(r, status, taken) ==
  \/ /\ executions' = executions \cup {Row(r, status, taken)}
     /\ pc' = [pc EXCEPT ![r] = "next"]
     /\ pos' = [pos EXCEPT ![r] = @ + 1]
     /\ at' = [at EXCEPT ![r] = 1]
     /\ steps' = [steps EXCEPT ![r] = <<>>]
     /\ UNCHANGED <<definitionVars, subjectVars>>
  \/ environment.storageFails /\ Throws(r)

Step(kind, type) == [kind |-> kind, type |-> type]

\* Defect: the loop takes the places that apply in any order.
ExecuteBeginsAnywhere(r) ==
  /\ pc[r] = "next"
  /\ \E n \in Ahead(r) :
       /\ pos' = [pos EXCEPT ![r] = n]
       /\ pc' = [pc EXCEPT ![r] = IF queue[r][n].trigger \in KnownTriggers THEN "trigger"
                                                                           ELSE "aborted"]
  /\ UNCHANGED <<definitionVars, subjectVars, at, steps, historyVars>>

ExecuteBegins(r) ==
  /\ pc[r] = "next"
  /\ \E n \in Ahead(r) :
       /\ \A m \in Ahead(r) : n =< m
       /\ pos' = [pos EXCEPT ![r] = n]
       /\ pc' = [pc EXCEPT ![r] = IF queue[r][n].trigger \in KnownTriggers THEN "trigger"
                                                                           ELSE "aborted"]
  /\ UNCHANGED <<definitionVars, subjectVars, at, steps, historyVars>>

\* The provider's match() returns or throws.
TriggerAnswers(r) ==
  /\ pc[r] = "trigger"
  /\ \/ /\ pc' = [pc EXCEPT ![r] = "condition"]
        /\ UNCHANGED <<definitionVars, subjectVars, pos, at, steps, executions>>
     \/ ExecutionEnds(r, "skipped", <<Step("trigger_not_matched", "")>>)
     \/ ExecutionEnds(r, "failed", <<Step("trigger_error", CurrentWorkflow(r).trigger)>>)
  /\ UNCHANGED performed

\* Defect: an exception of evaluate() is not caught.
ConditionAnswersUncaught(r) ==
  /\ pc[r] = "condition"
  /\ at[r] \in DOMAIN CurrentWorkflow(r).conditions
  /\ LET type == CurrentWorkflow(r).conditions[at[r]]
     IN  \/ /\ at' = [at EXCEPT ![r] = @ + 1]
            /\ UNCHANGED <<definitionVars, pc, subjectVars, pos, steps, executions>>
         \/ ExecutionEnds(r, "skipped", <<Step("condition_failed", type)>>)
         \/ Throws(r)
  /\ UNCHANGED performed

\* evaluate(), or the interpolation of its config, returns or throws.
ConditionAnswers(r) ==
  /\ pc[r] = "condition"
  /\ at[r] \in DOMAIN CurrentWorkflow(r).conditions
  /\ LET type == CurrentWorkflow(r).conditions[at[r]]
     IN  \/ /\ type \in KnownConditions
            /\ at' = [at EXCEPT ![r] = @ + 1]
            /\ UNCHANGED <<definitionVars, pc, subjectVars, pos, steps, executions>>
         \/ /\ type \in KnownConditions
            /\ \/ ExecutionEnds(r, "skipped", <<Step("condition_failed", type)>>)
               \/ ExecutionEnds(r, "failed", <<Step("condition_error", type)>>)
         \/ type \notin KnownConditions /\ Throws(r)
  /\ UNCHANGED performed

\* Defect: the actions are counted on from where the conditions ended.
ConditionsHoldCountedOn(r) ==
  /\ pc[r] = "condition"
  /\ at[r] \notin DOMAIN CurrentWorkflow(r).conditions
  /\ pc' = [pc EXCEPT ![r] = "action"]
  /\ UNCHANGED <<definitionVars, subjectVars, pos, at, steps, historyVars>>

ConditionsHold(r) ==
  /\ pc[r] = "condition"
  /\ at[r] \notin DOMAIN CurrentWorkflow(r).conditions
  /\ pc' = [pc EXCEPT ![r] = "action"]
  /\ at' = [at EXCEPT ![r] = 1]
  /\ UNCHANGED <<definitionVars, subjectVars, pos, steps, historyVars>>

\* Defect: a failed action ends the execution without a row.
ActionEndsUnsaved(r, taken, ok) ==
  IF ok \/ CurrentWorkflow(r).errorMode = "continue"
    THEN /\ at' = [at EXCEPT ![r] = @ + 1]
         /\ steps' = [steps EXCEPT ![r] = taken]
         /\ UNCHANGED <<definitionVars, pc, subjectVars, pos, executions>>
    ELSE /\ pc' = [pc EXCEPT ![r] = "next"]
         /\ pos' = [pos EXCEPT ![r] = @ + 1]
         /\ at' = [at EXCEPT ![r] = 1]
         /\ steps' = [steps EXCEPT ![r] = <<>>]
         /\ UNCHANGED <<definitionVars, subjectVars, executions>>

\* Defect: the error mode is not looked at.
ActionEndsAnyMode(r, taken, ok) ==
  /\ at' = [at EXCEPT ![r] = @ + 1]
  /\ steps' = [steps EXCEPT ![r] = taken]
  /\ UNCHANGED <<definitionVars, pc, subjectVars, pos, executions>>

\* A failed action ends the execution unless the policy says "continue".
ActionEnds(r, taken, ok) ==
  IF ok \/ CurrentWorkflow(r).errorMode = "continue"
    THEN /\ at' = [at EXCEPT ![r] = @ + 1]
         /\ steps' = [steps EXCEPT ![r] = taken]
         /\ UNCHANGED <<definitionVars, pc, subjectVars, pos, executions>>
    ELSE ExecutionEnds(r, "failed", taken)

Performed(r) == [run |-> r, place |-> pos[r], workflow |-> CurrentWorkflow(r), action |-> at[r]]

\* The provider's execute() returns a result; an exception counts as a failure.
ActionAnswers(r) ==
  /\ pc[r] = "action"
  /\ at[r] \in DOMAIN CurrentWorkflow(r).actions
  /\ LET type == CurrentWorkflow(r).actions[at[r]].type
     IN  \/ /\ type \in KnownActions
            /\ \E ok \in BOOLEAN :
                 ActionEnds(r, Append(steps[r], Step(IF ok THEN "action_ok" ELSE "action_failed", type)), ok)
            /\ performed' = performed \cup {Performed(r)}
         \/ type \notin KnownActions /\ Throws(r) /\ UNCHANGED performed

ActionsEnd(r) ==
  /\ pc[r] = "action"
  /\ at[r] \notin DOMAIN CurrentWorkflow(r).actions
  /\ ExecutionEnds(r, "completed", steps[r])
  /\ UNCHANGED performed

RunStep(r) ==
  \/ Subscriber(r) \/ RunEnds(r) \/ ExecuteBegins(r) \/ TriggerAnswers(r)
  \/ ConditionAnswers(r) \/ ConditionsHold(r) \/ ActionAnswers(r) \/ ActionsEnd(r)

-----------------------------------------------------------------------------
Next ==
  \/ Register
  \/ SeedInterrupted
  \/ Stop
  \/ ProcessEnds
  \/ \E w \in Workflow : Upsert(w)
  \/ \E r \in Run, e \in Event : Publish(r, e)
  \/ \E r \in Run, w \in Workflow, e \in Event : TestWorkflow(r, w, e)
  \/ \E r \in Run : RunStep(r)

Spec == Init /\ [][Next]_vars

\* Providers answer: WhatsApp calls and regular expressions end.
Fairness == \A r \in Run : WF_vars(RunStep(r))

FairSpec == Spec /\ Fairness

-----------------------------------------------------------------------------
(* Properties.                                                             *)

Kinds == {"trigger_not_matched", "trigger_error", "condition_failed", "condition_error",
          "action_ok", "action_failed"}

TypeOK ==
  /\ environment \in Environments
  /\ mode \in {"down", "running", "stopped"}
  /\ instance \in 0..MaxInstances
  /\ mode # "down" => instance # 0
  /\ DOMAIN registry = Instance
  /\ \A i \in Instance : registry[i] \in Seq(Workflow)
  /\ table \in SUBSET Workflow
  /\ pc \in [Run -> Suspended \cup {"free", "done", "aborted", "lost"}]
  /\ event \in [Run -> Event \cup {NoRun}]
  /\ owner \in [Run -> 0..MaxInstances]
  /\ \A r \in Run :
       /\ queue[r] \in Seq(Workflow)
       /\ pos[r] \in 1..(Len(queue[r]) + 1)
       /\ chosen[r] \subseteq DOMAIN queue[r]
       /\ pc[r] \in {"trigger", "condition", "action"} => pos[r] \in chosen[r]
       /\ pc[r] = "condition" => at[r] \in 1..(Len(CurrentWorkflow(r).conditions) + 1)
       /\ pc[r] = "action" => /\ at[r] \in 1..(Len(CurrentWorkflow(r).actions) + 1)
                              /\ Len(steps[r]) = at[r] - 1
  /\ \A x \in executions : x.run \in Run /\ x.workflow \in Workflow

RowsOf(r) == {x \in executions : x.run = r}

\* Every workflow a run has left behind has one row in the execution history, in
\* the version it had when the event came, and no other workflow has: neither an
\* upsert, a stop or a reload in the middle of a run, nor the failure of an
\* earlier workflow makes one run twice, not at all, or in two versions.  A place
\* of the array counts as a workflow: an id the config lists twice is run twice.
HistoryComplete ==
  \A r \in Run :
    /\ {x.place : x \in RowsOf(r)} = {i \in chosen[r] : i < pos[r]}
    /\ \A x \in RowsOf(r) : x.workflow = queue[r][x.place]
    /\ \A x, y \in RowsOf(r) : x.place = y.place => x = y
    /\ pc[r] = "done" => Ahead(r) = {}

ActionTypes(w) == [i \in DOMAIN w.actions |-> w.actions[i].type]

StepTypes(taken) == [i \in DOMAIN taken |-> taken[i].type]

Failures(taken) == {i \in DOMAIN taken : taken[i].kind = "action_failed"}

TellsSteps(x) ==
  LET taken == x.steps
      kind == taken[1].kind
      acted == StepTypes(taken) = SubSeq(ActionTypes(x.workflow), 1, Len(taken))
  IN  CASE x.status = "skipped" ->
             Len(taken) = 1 /\ kind \in {"trigger_not_matched", "condition_failed"}
        [] x.status = "failed" ->
             \/ Len(taken) = 1 /\ kind \in {"trigger_error", "condition_error"}
             \/ /\ acted /\ Failures(taken) = {Len(taken)}
                /\ x.workflow.errorMode = "stop"
        [] x.status = "completed" ->
             /\ acted /\ Len(taken) = Len(x.workflow.actions)
             /\ x.workflow.errorMode = "stop" => Failures(taken) = {}

\* docs/workflows.md "Error handling", as one relation between the status, the
\* steps and the definition: mismatches are skipped; trigger and condition
\* errors are failed executions without actions; actions run in their order up
\* to the first failure, or all of them under errorMode "continue".
StatusTellsSteps == \A x \in executions : TellsSteps(x)

Recorded(p) ==
  \E x \in RowsOf(p.run) : /\ x.place = p.place /\ x.workflow = p.workflow
                           /\ p.action \in DOMAIN x.steps
                           /\ x.steps[p.action].kind \in {"action_ok", "action_failed"}

\* The history tells what was done to the WhatsApp account: every action that was
\* run is a step of a row, or its execution is still under way, or an exception
\* or the end of the process took it.
ActionsAreRecorded ==
  \A p \in performed :
    \/ Recorded(p)
    \/ /\ p.place = pos[p.run] /\ p.place \in chosen[p.run]
       /\ CurrentWorkflow(p.run) = p.workflow
       /\ pc[p.run] \in {"action", "aborted", "lost"}

\* Validation covers all that execute() throws for: with working storage, an
\* exception can leave a run only for a definition validateWorkflowDefinition()
\* would refuse.
OnlyInvalidAbort ==
  ~environment.storageFails => \A r \in Run : pc[r] = "aborted" => ~ValidWorkflow(CurrentWorkflow(r))

\* The definitions in memory are the stored ones, one per id; of an id the config
\* lists several times, the table has one, which is in memory as well.
RegistryMirrorsTable ==
  /\ UniqueIds(table)
  /\ mode = "running" /\ ~environment.storageFails
       => Mirrors(registry[instance], table, environment.configured)

\* The runs as their promise sees them: what is to be executed, what is left of it,
\* how the run stands, and the rows without their steps.
Plan == [r \in Run |-> [i \in chosen[r] |-> queue[r][i]]]

Left == [r \in Run |-> Ahead(r)]

Standing(place) ==
  CASE place \in {"free", "published"} -> "none"
    [] place \in {"next", "trigger", "condition", "action"} -> "open"
    [] place = "done" -> "finished"
    [] place \in {"aborted", "lost"} -> "cut"

Fate == [r \in Run |-> Standing(pc[r])]

Rows == {[run |-> x.run, place |-> x.place, workflow |-> x.workflow, status |-> x.status] :
           x \in executions}

Promise == INSTANCE RunPromise WITH plan <- Plan, left <- Left, fate <- Fate, rows <- Rows

\* The workflows of an event are executed one after the other, in the order of the
\* array as it was when the event came, each once and with its row before the next
\* begins; a run that an exception or the end of the process has cut is not resumed.
KeepsPromise == Promise!Spec

\* "workflow failures captured as execution failures instead of crashing the
\* loop" (docs/architecture.md:174): no failure ends the loop over the workflows.
LoopSurvives == \A r \in Run : pc[r] # "aborted"

\* Every run ends, whatever its providers answer.
RunsEnd == \A r \in Run : pc[r] \in Suspended ~> pc[r] \notin Suspended

=============================================================================
