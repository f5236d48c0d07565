----------------------- MODULE WorkflowActions_proofs -----------------------
(***************************************************************************)
(* Messages, their ids and the workflows that work on them, for any        *)
(* accounts, messages, calls and definitions.                              *)
(*                                                                         *)
(* The inductive invariant adds what the map of aliases is: it holds for a *)
(* message nothing, or the account that sent it.  And it says of a call    *)
(* where it can be with which operation, and of a run what the outputs     *)
(* say of the messages its actions have made.                              *)
(***************************************************************************)
EXTENDS WorkflowActions, TLAPS

AliasInv == \A m \in Message : alias[m] # Short => alias[m] = Author[m]

CallInv ==
  \A c \in Caller :
    /\ call[c].stage \notin {"idle", "ok", "failed"} => call[c].account \in Account
    /\ call[c].stage = "scanning" => call[c].resolved = call[c].target
    /\ call[c].stage = "performing" => call[c].resolved.message \in Message
    /\ call[c].stage \in {"preparing", "sending"} => call[c].op \in Sends
    /\ call[c].stage \in {"scanning", "opening", "performing"} => call[c].op \notin Sends

GatewayInv ==
  /\ GatewayTypeOK /\ AliasInv /\ CallInv
  /\ AnsweredSendsAreRemembered /\ OpensWhatIsAsked

-----------------------------------------------------------------------------
(* The gateway.                                                            *)

LEMMA EndedType ==
  ASSUME NEW stage \in {"idle", "ok", "failed"}, NEW m \in Message \cup {NoMessage},
         NEW old \in BOOLEAN
  PROVE  /\ [Ended(stage, m) EXCEPT !.old = old] \in Call
         /\ Ended(stage, m) \in Call
         /\ [Ended(stage, m) EXCEPT !.old = old].stage = stage
         /\ [Ended(stage, m) EXCEPT !.old = old].made = m
         /\ [Ended(stage, m) EXCEPT !.old = old].old = old
  BY DEF Ended, Call, NoId, ShortId, Id

LEMMA GatewayInit_Inv == GatewayInit => GatewayInv
<1> SUFFICES ASSUME GatewayInit PROVE GatewayInv
  OBVIOUS
<1>1. \A c \in Caller : call[c] = Ended("idle", NoMessage)
  BY DEF GatewayInit
<1>2. Ended("idle", NoMessage) \in Call
  BY EndedType
<1>3. GatewayTypeOK
  BY <1>2, GatewayAssumption DEF GatewayInit, GatewayTypeOK
<1>4. AliasInv
  BY DEF GatewayInit, AliasInv
<1>5. CallInv /\ AnsweredSendsAreRemembered /\ OpensWhatIsAsked
  BY <1>1 DEF Ended, CallInv, AnsweredSendsAreRemembered, OpensWhatIsAsked
<1> QED
  BY <1>3, <1>4, <1>5 DEF GatewayInv

\* The state of a call c that has its part in the invariant.
CallOK(c, new, aliases) ==
  /\ new \in Call
  /\ new.stage \notin {"idle", "ok", "failed"} => new.account \in Account
  /\ new.stage = "scanning" => new.resolved = new.target
  /\ new.stage = "performing" => new.resolved.message \in Message
  /\ new.stage \in {"preparing", "sending"} => new.op \in Sends
  /\ new.stage \in {"scanning", "opening", "performing"} => new.op \notin Sends
  /\ new.made \notin Unserialized \cup {NoMessage} /\ ~new.old =>
       aliases[new.made] = Author[new.made]
  /\ new.stage \in {"opening", "performing"} =>
       \/ new.resolved = Serialized(new.account, new.target.message)
       \/ new.resolved = new.target /\ (LooksSerialized(new.target) \/ new.missed)
       \/ /\ ~LooksSerialized(new.target)
          /\ Author[new.target.message] \in Account \ {new.account}
          /\ new.resolved = Serialized(Author[new.target.message], new.target.message)

\* The aliases are as they were, or a message's sender is remembered.
AliasesGrow ==
  \/ alias' = alias
  \/ \E m \in Message : Author[m] \in Account /\ alias' = [alias EXCEPT ![m] = Author[m]]

LEMMA OneCallChanges ==
  ASSUME GatewayInv, NEW c \in Caller, NEW new,
         call' = [call EXCEPT ![c] = new],
         held' \in [Account -> SUBSET Message], deleted' \in [Account -> SUBSET Message],
         AliasesGrow, CallOK(c, new, alias')
  PROVE  GatewayInv'
<1> USE DEF GatewayInv
<1>1. alias' \in [Message -> Account \cup {Short}]
  BY DEF AliasesGrow, GatewayTypeOK
<1>2. GatewayTypeOK'
  BY <1>1 DEF GatewayTypeOK, CallOK
<1>3. AliasInv'
  BY DEF AliasesGrow, AliasInv, GatewayTypeOK
<1>4. CallInv'
  BY DEF CallInv, CallOK, GatewayTypeOK
<1>5. ASSUME NEW d \in Caller, call'[d].made \notin Unserialized \cup {NoMessage}, ~call'[d].old
      PROVE  alias'[call'[d].made] = Author[call'[d].made]
  <2>1. CASE d = c
    BY <1>5, <2>1 DEF CallOK, GatewayTypeOK
  <2>2. CASE d # c
    <3>1. call'[d] = call[d] /\ call[d] \in Call
      BY <2>2 DEF GatewayTypeOK
    <3>2. alias[call[d].made] = Author[call[d].made] /\ call[d].made \in Message
      BY <1>5, <3>1 DEF AnsweredSendsAreRemembered, Call
    <3> QED
      BY <3>1, <3>2 DEF AliasesGrow, GatewayTypeOK
  <2> QED
    BY <2>1, <2>2
<1>6. AnsweredSendsAreRemembered'
  BY <1>5 DEF AnsweredSendsAreRemembered
<1>7. OpensWhatIsAsked'
  BY DEF OpensWhatIsAsked, CallOK, GatewayTypeOK, Serialized, LooksSerialized
<1> QED
  BY <1>2, <1>3, <1>4, <1>6, <1>7

\* A call that returns or throws, with a message that is remembered.
LEMMA ReturnedOK ==
  ASSUME GatewayInv, NEW c \in Caller, NEW stage \in {"ok", "failed"},
         NEW m \in Message \cup {NoMessage}, NEW aliases,
         m \notin Unserialized \cup {NoMessage} /\ ~call[c].old => aliases[m] = Author[m]
  PROVE  CallOK(c, [Ended(stage, m) EXCEPT !.old = call[c].old], aliases)
<1>1. call[c].old \in BOOLEAN
  BY DEF GatewayInv, GatewayTypeOK, Call
<1> QED
  BY <1>1, EndedType DEF CallOK

LEMMA OnlyReturns ==
  ASSUME GatewayInv, NEW c \in Caller, NEW stage \in {"ok", "failed"},
         OnlyCall(Returned(c, stage, NoMessage))
  PROVE  GatewayInv'
<1>1. CallOK(c, [Ended(stage, NoMessage) EXCEPT !.old = call[c].old], alias')
  BY ReturnedOK
<1>2. call' = [call EXCEPT ![c] = [Ended(stage, NoMessage) EXCEPT !.old = call[c].old]]
  BY DEF OnlyCall, Returned
<1>3. /\ held' \in [Account -> SUBSET Message] /\ deleted' \in [Account -> SUBSET Message]
      /\ AliasesGrow
  BY DEF OnlyCall, AliasesGrow, GatewayInv, GatewayTypeOK
<1> QED
  BY <1>1, <1>2, <1>3, OneCallChanges

LEMMA MessageSentKeeps ==
  ASSUME GatewayInv, NEW c \in Caller, NEW m \in Message, MessageSent(c, m),
         call[c].account \in Account
  PROVE  GatewayInv'
<1>1. /\ Author[m] = call[c].account
      /\ held' = [held EXCEPT ![call[c].account] = @ \cup {m}]
      /\ deleted' = deleted
  BY DEF MessageSent, Fresh
<1>2. /\ held' \in [Account -> SUBSET Message] /\ deleted' \in [Account -> SUBSET Message]
  BY <1>1 DEF GatewayInv, GatewayTypeOK
<1>3. CASE Remember(c, m) /\ call' = Returned(c, "ok", m)
  <2>1. AliasesGrow
    BY <1>1, <1>3 DEF AliasesGrow, Remember
  <2>2. m \notin Unserialized \cup {NoMessage} /\ ~call[c].old => alias'[m] = Author[m]
    BY <1>1, <1>3 DEF Remember, GatewayInv, GatewayTypeOK
  <2>3. CallOK(c, [Ended("ok", m) EXCEPT !.old = call[c].old], alias')
    BY <2>2, ReturnedOK
  <2>4. call' = [call EXCEPT ![c] = [Ended("ok", m) EXCEPT !.old = call[c].old]]
    BY <1>3 DEF Returned
  <2> QED
    BY <1>2, <2>1, <2>3, <2>4, OneCallChanges
<1>4. CASE call' = Returned(c, "failed", NoMessage) /\ UNCHANGED alias
  <2>1. CallOK(c, [Ended("failed", NoMessage) EXCEPT !.old = call[c].old], alias')
    BY ReturnedOK
  <2>2. call' = [call EXCEPT ![c] = [Ended("failed", NoMessage) EXCEPT !.old = call[c].old]]
    BY <1>4 DEF Returned
  <2>3. AliasesGrow
    BY <1>4 DEF AliasesGrow
  <2> QED
    BY <1>2, <2>1, <2>2, <2>3, OneCallChanges
<1> QED
  BY <1>3, <1>4 DEF MessageSent

-----------------------------------------------------------------------------
(* The steps of a call.                                                    *)

\* A call that goes on keeps what it has.
LEMMA GoesOnKeeps ==
  ASSUME GatewayInv, NEW c \in Caller, NEW stage, GoesOn(c, stage),
         \/ call[c].stage = "preparing" /\ stage = "sending"
         \/ call[c].stage = "opening" /\ stage = "performing"
            /\ call[c].resolved.message \in Message
  PROVE  GatewayInv'
<1>1. call[c] \in Call
  BY DEF GatewayInv, GatewayTypeOK
<1>2. CallOK(c, [call[c] EXCEPT !.stage = stage], alias')
  <2>1. [call[c] EXCEPT !.stage = stage] \in Call
    BY <1>1 DEF Call
  <2> QED
    BY <1>1, <2>1 DEF CallOK, Call, GoesOn, OnlyCall, GatewayInv, CallInv,
                      AnsweredSendsAreRemembered, OpensWhatIsAsked
<1>3. call' = [call EXCEPT ![c] = [call[c] EXCEPT !.stage = stage]]
  BY DEF GoesOn, OnlyCall
<1>4. /\ held' \in [Account -> SUBSET Message] /\ deleted' \in [Account -> SUBSET Message]
      /\ AliasesGrow
  BY DEF GoesOn, OnlyCall, AliasesGrow, GatewayInv, GatewayTypeOK
<1> QED
  BY <1>2, <1>3, <1>4, OneCallChanges

LEMMA PreparedKeeps ==
  ASSUME GatewayInv, NEW c \in Caller, Prepared(c)
  PROVE  GatewayInv'
  BY GoesOnKeeps, OnlyReturns DEF Prepared, Fails

LEMMA SendEndsKeeps ==
  ASSUME GatewayInv, NEW c \in Caller, SendEnds(c)
  PROVE  GatewayInv'
<1>1. call[c].account \in Account
  BY DEF SendEnds, GatewayInv, CallInv
<1> QED
  BY <1>1, MessageSentKeeps, OnlyReturns DEF SendEnds, Fails

LEMMA ScanEndsKeeps ==
  ASSUME GatewayInv, NEW c \in Caller, ScanEnds(c)
  PROVE  GatewayInv'
<1> DEFINE a == call[c].account
           id == call[c].target
<1>1. call[c] \in Call /\ call[c].stage = "scanning" /\ a \in Account
  BY DEF ScanEnds, GatewayInv, GatewayTypeOK, CallInv
<1>2. call[c].resolved = id /\ call[c].op \notin Sends
  BY <1>1 DEF GatewayInv, CallInv
<1>3. /\ held' \in [Account -> SUBSET Message] /\ deleted' \in [Account -> SUBSET Message]
      /\ AliasesGrow
  BY DEF ScanEnds, AliasesGrow, GatewayInv, GatewayTypeOK
<1>4. call[c].made \notin Unserialized \cup {NoMessage} /\ ~call[c].old =>
        alias'[call[c].made] = Author[call[c].made]
  BY DEF ScanEnds, GatewayInv, AnsweredSendsAreRemembered
<1>5. CASE /\ id.message \in held[a]
           /\ call' = [call EXCEPT ![c].stage = "opening",
                                   ![c].resolved = Serialized(a, id.message)]
  <2> DEFINE new == [call[c] EXCEPT !.stage = "opening", !.resolved = Serialized(a, id.message)]
  <2>1. id.message \in Message
    BY <1>1, <1>5 DEF GatewayInv, GatewayTypeOK
  <2>2. new \in Call
    BY <1>1, <2>1 DEF Call, Serialized, Id
  <2>3. CallOK(c, new, alias')
    BY <1>1, <1>2, <1>4, <2>2 DEF CallOK, Call
  <2>4. call' = [call EXCEPT ![c] = new]
    BY <1>5
  <2> QED
    BY <1>3, <2>3, <2>4, OneCallChanges
<1>6. CASE call' = [call EXCEPT ![c].stage = "opening", ![c].missed = TRUE]
  <2> DEFINE new == [call[c] EXCEPT !.stage = "opening", !.missed = TRUE]
  <2>1. new \in Call
    BY <1>1 DEF Call
  <2>2. CallOK(c, new, alias')
    BY <1>1, <1>2, <1>4, <2>1 DEF CallOK, Call
  <2>3. call' = [call EXCEPT ![c] = new]
    BY <1>6
  <2> QED
    BY <1>3, <2>2, <2>3, OneCallChanges
<1>7. CASE call' = Returned(c, "failed", NoMessage)
  BY <1>7, OnlyReturns DEF OnlyCall, ScanEnds
<1> QED
  BY <1>5, <1>6, <1>7 DEF ScanEnds

LEMMA OpensKeeps ==
  ASSUME GatewayInv, NEW c \in Caller, Opens(c)
  PROVE  GatewayInv'
<1>1. call[c].resolved.of = call[c].account /\ call[c].resolved.message \in held[call[c].account]
      => call[c].resolved.message \in Message
  BY DEF Opens, GatewayInv, GatewayTypeOK, CallInv
<1> QED
  BY <1>1, GoesOnKeeps, OnlyReturns DEF Opens, Fails

LEMMA EditedKeeps ==
  ASSUME GatewayInv, NEW c \in Caller, call[c].stage = "performing", Edited(c)
  PROVE  GatewayInv'
<1> DEFINE m == call[c].resolved.message
<1>1. call[c] \in Call /\ call[c].account \in Account /\ m \in Message
  BY DEF GatewayInv, GatewayTypeOK, CallInv
<1>2. CASE /\ Author[m] = call[c].account /\ Remember(c, m)
           /\ call' = Returned(c, "ok", m) /\ UNCHANGED <<held, deleted>>
  <2>1. AliasesGrow
    BY <1>1, <1>2 DEF AliasesGrow, Remember
  <2>2. m \notin Unserialized \cup {NoMessage} /\ ~call[c].old => alias'[m] = Author[m]
    BY <1>1, <1>2 DEF Remember, GatewayInv, GatewayTypeOK
  <2>3. CallOK(c, [Ended("ok", m) EXCEPT !.old = call[c].old], alias')
    BY <1>1, <2>2, ReturnedOK
  <2>4. call' = [call EXCEPT ![c] = [Ended("ok", m) EXCEPT !.old = call[c].old]]
    BY <1>2 DEF Returned
  <2>5. held' \in [Account -> SUBSET Message] /\ deleted' \in [Account -> SUBSET Message]
    BY <1>2 DEF GatewayInv, GatewayTypeOK
  <2> QED
    BY <2>1, <2>3, <2>4, <2>5, OneCallChanges
<1>3. CASE OnlyCall(Returned(c, "ok", NoMessage))
  BY <1>3, OnlyReturns
<1> QED
  BY <1>2, <1>3 DEF Edited

LEMMA DeletedKeeps ==
  ASSUME GatewayInv, NEW c \in Caller, call[c].stage = "performing", Deleted(c)
  PROVE  GatewayInv'
<1>1. call[c].account \in Account /\ call[c].resolved.message \in Message
  BY DEF GatewayInv, CallInv
<1>2. CallOK(c, [Ended("ok", NoMessage) EXCEPT !.old = call[c].old], alias')
  BY ReturnedOK
<1>3. call' = [call EXCEPT ![c] = [Ended("ok", NoMessage) EXCEPT !.old = call[c].old]]
  BY DEF Deleted, Returned
<1>4. /\ held' \in [Account -> SUBSET Message] /\ deleted' \in [Account -> SUBSET Message]
      /\ AliasesGrow
  BY <1>1 DEF Deleted, AliasesGrow, GatewayInv, GatewayTypeOK
<1> QED
  BY <1>2, <1>3, <1>4, OneCallChanges

LEMMA PerformsKeeps ==
  ASSUME GatewayInv, NEW c \in Caller, Performs(c)
  PROVE  GatewayInv'
<1>1. call[c].stage = "performing" /\ call[c].account \in Account
  BY DEF Performs, GatewayInv, CallInv
<1> QED
  BY <1>1, MessageSentKeeps, EditedKeeps, DeletedKeeps, OnlyReturns DEF Performs, Fails

LEMMA CallStepKeeps ==
  ASSUME GatewayInv, NEW c \in Caller, CallStep(c)
  PROVE  GatewayInv'
  BY PreparedKeeps, SendEndsKeeps, ScanEndsKeeps, OpensKeeps, PerformsKeeps DEF CallStep

\* The id that a call begins with is the one it is asked for, or the alias.
LEMMA ResolutionIsFaithful ==
  ASSUME GatewayInv, NEW id \in Id, NEW a \in Account
  PROVE  /\ Resolution(id).stage \in {"opening", "scanning"}
         /\ Resolution(id).id \in Id
         /\ Resolution(id).stage = "scanning" => Resolution(id).id = id
         /\ Resolution(id).stage = "opening" =>
              \/ Resolution(id).id = Serialized(a, id.message)
              \/ Resolution(id).id = id /\ LooksSerialized(id)
              \/ /\ ~LooksSerialized(id)
                 /\ Author[id.message] \in Account \ {a}
                 /\ Resolution(id).id = Serialized(Author[id.message], id.message)
<1>1. CASE LooksSerialized(id)
  BY <1>1 DEF Resolution
<1>2. CASE ~LooksSerialized(id) /\ Remembered(id)
  <2>1. /\ id.message \in Message /\ alias[id.message] = Author[id.message]
        /\ alias[id.message] \in Account
    BY <1>2 DEF Remembered, GatewayInv, GatewayTypeOK, AliasInv
  <2>2. Resolution(id) = [stage |-> "opening", id |-> Serialized(Author[id.message], id.message)]
    BY <1>2, <2>1 DEF Resolution
  <2>3. Serialized(Author[id.message], id.message) \in Id
    BY <2>1 DEF Serialized, Id
  <2> QED
    BY <1>2, <2>1, <2>2, <2>3
<1>3. CASE ~LooksSerialized(id) /\ ~Remembered(id)
  BY <1>3 DEF Resolution
<1> QED
  BY <1>1, <1>2, <1>3

LEMMA BeginCallKeeps ==
  ASSUME GatewayInv, NEW c \in Caller, NEW op \in Operations, NEW a \in Account,
         NEW id \in Id, BeginCall(c, op, a, id)
  PROVE  GatewayInv'
<1>1. /\ held' \in [Account -> SUBSET Message] /\ deleted' \in [Account -> SUBSET Message]
      /\ AliasesGrow
  BY DEF BeginCall, AliasesGrow, GatewayInv, GatewayTypeOK
<1>2. NoId \in Id
  BY DEF NoId, ShortId, Id
<1>3. CallOK(c, Ended("failed", NoMessage), alias')
  <2>1. Ended("failed", NoMessage) \in Call
    BY EndedType
  <2> QED
    BY <2>1 DEF CallOK, Ended
<1>4. ASSUME NEW stage \in {"preparing", "sending"}, op \in Sends
      PROVE  CallOK(c, Invocation(stage, op, a, NoId, NoId), alias')
  BY <1>2, <1>4 DEF CallOK, Invocation, Call
<1>5. ASSUME op \notin Sends
      PROVE  CallOK(c, Invocation(Resolution(id).stage, op, a, id, Resolution(id).id), alias')
  BY <1>5, ResolutionIsFaithful DEF CallOK, Invocation, Call
<1>6. PICK new \in {Ended("failed", NoMessage),
                    IF op \in Sends
                      THEN Invocation(IF op \in PreparedSends THEN "preparing" ELSE "sending",
                                      op, a, NoId, NoId)
                      ELSE Invocation(Resolution(id).stage, op, a, id, Resolution(id).id)} :
        call' = [call EXCEPT ![c] = new]
  BY DEF BeginCall
<1>7. CallOK(c, new, alias')
  BY <1>3, <1>4, <1>5, <1>6
<1> QED
  BY <1>1, <1>6, <1>7, OneCallChanges

LEMMA ArrivesKeeps ==
  ASSUME GatewayInv, NEW a \in Account, NEW m \in Message, Arrives(a, m)
  PROVE  GatewayInv'
  BY DEF Arrives, GatewayInv, GatewayTypeOK, AliasInv, CallInv, AnsweredSendsAreRemembered,
         OpensWhatIsAsked, Serialized, LooksSerialized

LEMMA GatewayUndisturbed ==
  ASSUME GatewayInv, UNCHANGED gatewayVars
  PROVE  GatewayInv'
  BY DEF gatewayVars, GatewayInv, GatewayTypeOK, AliasInv, CallInv, AnsweredSendsAreRemembered,
         OpensWhatIsAsked, Serialized, LooksSerialized

LEMMA ReloadKeeps ==
  ASSUME GatewayInv, Reload
  PROVE  GatewayInv'
<1>0. call \in [Caller -> Call]
  BY DEF GatewayInv, GatewayTypeOK
<1>1. ASSUME NEW c \in Caller
      PROVE  /\ call'[c] \in Call
             /\ \/ call'[c] = Ended("idle", NoMessage)
                \/ call'[c] = [call[c] EXCEPT !.old = TRUE]
  <2>1. Ended("idle", NoMessage) \in Call
    BY EndedType
  <2>2. [call[c] EXCEPT !.old = TRUE] \in Call
    BY <1>0 DEF Call
  <2> QED
    BY <2>1, <2>2 DEF Reload
<1>2. GatewayTypeOK'
  BY <1>1 DEF Reload, GatewayInv, GatewayTypeOK
<1>3. AliasInv'
  BY DEF Reload, AliasInv
<1>4. ASSUME NEW c \in Caller
      PROVE  \/ call'[c].stage = "idle" /\ call'[c].made = NoMessage
             \/ /\ call'[c].old
                /\ call'[c].stage = call[c].stage /\ call'[c].op = call[c].op
                /\ call'[c].account = call[c].account /\ call'[c].target = call[c].target
                /\ call'[c].resolved = call[c].resolved /\ call'[c].missed = call[c].missed
  <2>1. CASE call'[c] = Ended("idle", NoMessage)
    BY <2>1 DEF Ended
  <2>2. CASE call'[c] = [call[c] EXCEPT !.old = TRUE]
    BY <1>0, <2>2 DEF Call
  <2> QED
    BY <1>1, <2>1, <2>2
<1>5. CallInv' /\ AnsweredSendsAreRemembered' /\ OpensWhatIsAsked'
  BY <1>4 DEF GatewayInv, CallInv, AnsweredSendsAreRemembered, OpensWhatIsAsked,
              Serialized, LooksSerialized
<1> QED
  BY <1>2, <1>3, <1>5 DEF GatewayInv

-----------------------------------------------------------------------------
(* The runs.                                                               *)

RunState ==
  [stage : {"idle", "ready", "acting", "ended"}, workflow : Workflow, account : Account,
   trigger : Outcome, outputs : Seq(Outcome), made : Seq(Outcome)]

\* What a run in progress may build on: where it is in its workflow, and, when
\* failures end it, that an action before it has made what its output names.
Progress(state) ==
  state.stage \in {"ready", "acting"} =>
    /\ Len(state.outputs) <= Len(state.workflow.actions)
    /\ state.stage = "acting" => Len(state.outputs) < Len(state.workflow.actions)
    /\ state.workflow.errorMode = "stop" =>
         \A n \in 1..Len(state.outputs) :
           state.workflow.actions[n].op \in Announced =>
             state.outputs[n] = state.made[n] /\ state.made[n] # NoMessage

\* The gateway call of an acting run is the one its action made.
Acting(r) ==
  run[r].stage = "acting" =>
    /\ call[r].stage # "idle"
    /\ call[r].stage = "ok" /\ CurrentAction(r).op \in Announced => call[r].made # NoMessage
    /\ ~Idle(r) =>
         /\ call[r].op = CurrentAction(r).op
         /\ call[r].op \in MessageOperations =>
              call[r].target = ShortId(TargetOf(r, CurrentAction(r)))

RunInv ==
  /\ run \in [Run -> RunState]
  /\ \A r \in Run : Len(run[r].outputs) = Len(run[r].made) /\ Progress(run[r]) /\ Acting(r)

Inv == GatewayInv /\ RunInv

LEMMA OperationKinds ==
  /\ Announced \cap MessageOperations = {"replyToMessage"}
  /\ Sends \cap MessageOperations = {}
  /\ "sendText" \notin Announced
  /\ Announced \subseteq Sends \cup {"replyToMessage"}
  /\ "editMessage" \notin Sends /\ "deleteMessage" \notin Sends
  BY DEF Announced, MessageOperations, Sends, ChatSends, PollSends, EventSends, ChannelSends

LEMMA Init_Inv == Init => Inv
<1> SUFFICES ASSUME Init PROVE Inv
  OBVIOUS
<1>1. GatewayInv
  BY GatewayInit_Inv DEF Init
<1>2. /\ (CHOOSE w \in Workflow : TRUE) \in Workflow
      /\ (CHOOSE a \in Account : TRUE) \in Account
  BY WorkflowAssumption
<1>3. RunInv
  BY <1>2 DEF Init, RunInv, RunState, Outcome, Progress, Acting
<1> QED
  BY <1>1, <1>3 DEF Inv

\* The action of a run that has actions left.
LEMMA CurrentActionType ==
  ASSUME RunInv, NEW r \in Run, ActionsLeft(r)
  PROVE  /\ CurrentAction(r).op \in Operations
         /\ CurrentAction(r).target \in Target
         /\ CurrentAction(r).target.kind = "output" =>
              CurrentAction(r).target.place \in 1..Len(run[r].outputs)
         /\ TargetOf(r, CurrentAction(r)) \in Outcome
<1> DEFINE w == run[r].workflow
           n == Len(run[r].outputs) + 1
           target == CurrentAction(r).target
<1>1. run[r] \in RunState
  BY DEF RunInv
<1>2. /\ w.actions \in Seq([op : Operations, target : Target])
      /\ \A k \in DOMAIN w.actions :
           w.actions[k].target.kind = "output" => w.actions[k].target.place \in 1..(k - 1)
  BY <1>1, WorkflowAssumption DEF RunState
<1>3. n \in DOMAIN w.actions /\ n - 1 = Len(run[r].outputs)
  BY <1>1, <1>2 DEF RunState, ActionsLeft
<1> DEFINE Action == [op : Operations, target : Target]
<1>4. CurrentAction(r) \in Action
  <2>1. w.actions \in Seq(Action) /\ n \in 1..Len(w.actions)
    BY <1>2, <1>3
  <2> HIDE DEF Action
  <2> QED
    BY <2>1 DEF CurrentAction
<1>5. target.kind = "output" => target.place \in 1..Len(run[r].outputs)
  <2>1. w.actions[n].target.kind = "output" => w.actions[n].target.place \in 1..(n - 1)
    BY <1>2, <1>3
  <2> QED
    BY <1>3, <2>1 DEF CurrentAction
<1>6. target.kind = "output" => TokenValue(r, target.place) \in Outcome
  BY <1>1, <1>5 DEF TokenValue, RunState
<1>7. target.kind = "literal" => target.message \in Outcome
  BY <1>4 DEF Target, Outcome
<1>8. IdOrTrigger(r, target) \in Outcome
  BY <1>1, <1>6, <1>7 DEF IdOrTrigger, RunState
<1>9. TargetOf(r, CurrentAction(r)) \in Outcome
  BY <1>8 DEF TargetOf, AnyStringOrTrigger, Outcome
<1> QED
  BY <1>4, <1>5, <1>9

\* What a step of a call does to it, as its run sees it.
LEMMA CallStepCourse ==
  ASSUME GatewayInv, NEW c \in Caller, CallStep(c)
  PROVE  /\ \A d \in Caller \ {c} : call'[d] = call[d]
         /\ ~Idle(c)
         /\ \/ call'[c].op = call[c].op /\ call'[c].target = call[c].target
               /\ call'[c].stage \notin {"idle", "ok", "failed"}
            \/ call'[c].stage = "failed"
            \/ /\ call'[c].stage = "ok"
               /\ call[c].op \in Announced => call'[c].made # NoMessage
<1>0. call \in [Caller -> Call] /\ call[c] \in Call
  BY DEF GatewayInv, GatewayTypeOK
<1>1. \A m : \A stage \in {"ok", "failed"} :
        call' = Returned(c, stage, m) =>
          /\ \A d \in Caller \ {c} : call'[d] = call[d]
          /\ call'[c].stage = stage /\ call'[c].made = m
  BY <1>0 DEF Returned, Ended
<1>2. \A m \in Message : MessageSent(c, m) =>
        /\ \A d \in Caller \ {c} : call'[d] = call[d]
        /\ \/ call'[c].stage = "failed"
           \/ call'[c].stage = "ok" /\ call'[c].made # NoMessage
  BY <1>1, GatewayAssumption DEF MessageSent
<1>3. CASE Prepared(c)
  BY <1>0, <1>1, <1>3 DEF Prepared, GoesOn, OnlyCall, Fails, Idle, Call
<1>4. CASE SendEnds(c)
  BY <1>1, <1>2, <1>4 DEF SendEnds, OnlyCall, Fails, Idle
<1>5. CASE ScanEnds(c)
  <2>1. CASE call' = Returned(c, "failed", NoMessage)
    BY <1>1, <1>5, <2>1 DEF ScanEnds, Idle
  <2>2. CASE \/ call' = [call EXCEPT ![c].stage = "opening", ![c].missed = TRUE]
             \/ call' = [call EXCEPT ![c].stage = "opening",
                          ![c].resolved = Serialized(call[c].account, call[c].target.message)]
    BY <1>0, <1>5, <2>2 DEF ScanEnds, Idle, Call
  <2> QED
    BY <1>5, <2>1, <2>2 DEF ScanEnds
<1>6. CASE Opens(c)
  BY <1>0, <1>1, <1>6 DEF Opens, GoesOn, OnlyCall, Fails, Idle, Call
<1>7. CASE Performs(c)
  <2>1. call[c].stage = "performing" /\ ~Idle(c) /\ call[c].op \notin Sends
    BY <1>7 DEF Performs, Idle, GatewayInv, CallInv
  <2>2. CASE \E m \in Message : MessageSent(c, m)
    BY <1>2, <2>1, <2>2
  <2>3. CASE call[c].op = "editMessage" /\ Edited(c)
    BY <1>1, <2>1, <2>3, OperationKinds DEF Edited, OnlyCall
  <2>4. CASE call[c].op = "deleteMessage" /\ Deleted(c)
    BY <1>1, <2>1, <2>4, OperationKinds DEF Deleted
  <2>5. CASE call[c].op # "replyToMessage" /\ OnlyCall(Returned(c, "ok", NoMessage))
    BY <1>1, <2>1, <2>5, OperationKinds DEF OnlyCall
  <2>6. CASE Fails(c)
    BY <1>1, <2>1, <2>6 DEF Fails, OnlyCall
  <2> QED
    BY <1>7, <2>2, <2>3, <2>4, <2>5, <2>6 DEF Performs
<1> QED
  BY <1>3, <1>4, <1>5, <1>6, <1>7 DEF CallStep

-----------------------------------------------------------------------------
(* The steps of the runs.                                                  *)

\* A run that nothing concerns.
LEMMA Undisturbed ==
  ASSUME RunInv, NEW r \in Run, run'[r] = run[r], call'[r] = call[r]
  PROVE  Acting(r)'
  BY DEF RunInv, Acting, Idle, CurrentAction, TargetOf, AnyStringOrTrigger, IdOrTrigger, TokenValue

\* One run changes, to a state that has its part in the invariant.
LEMMA OneRunChanges ==
  ASSUME RunInv, NEW r \in Run, NEW state \in RunState, run' = [run EXCEPT ![r] = state],
         Len(state.outputs) = Len(state.made), Progress(state), Acting(r)',
         \A d \in Run \ {r} : call'[d] = call[d]
  PROVE  RunInv'
<1>1. run' \in [Run -> RunState]
  BY DEF RunInv
<1>2. \A d \in Run \ {r} : run'[d] = run[d] /\ Acting(d)'
  BY Undisturbed DEF RunInv
<1>3. run'[r] = state
  BY DEF RunInv
<1> QED
  BY <1>1, <1>2, <1>3 DEF RunInv

LEMMA BeginRunKeeps ==
  ASSUME RunInv, NEW r \in Run, NEW w \in Workflow, NEW a \in Account, NEW m \in Message,
         BeginRun(r, w, a, m)
  PROVE  RunInv'
<1> DEFINE state == [stage |-> "ready", workflow |-> w, account |-> a, trigger |-> m,
                     outputs |-> <<>>, made |-> <<>>]
<1>1. state \in RunState
  BY DEF RunState, Outcome
<1>2. run' = [run EXCEPT ![r] = state]
  BY DEF BeginRun
<1>3. Len(state.outputs) = Len(state.made) /\ Progress(state)
  <2>1. w.actions \in Seq([op : Operations, target : Target])
    BY WorkflowAssumption
  <2> QED
    BY <2>1 DEF Progress
<1>4. Acting(r)'
  BY <1>2 DEF RunInv, Acting
<1>5. \A d \in Run \ {r} : call'[d] = call[d]
  BY DEF BeginRun, gatewayVars
<1> HIDE DEF state
<1> QED
  BY <1>1, <1>2, <1>3, <1>4, <1>5, OneRunChanges

LEMMA BeginActionKeeps ==
  ASSUME Inv, NEW r \in Run, BeginAction(r)
  PROVE  Inv'
<1> DEFINE action == CurrentAction(r)
           id == IF action.op \in Sends THEN NoId ELSE ShortId(TargetOf(r, action))
           state == [run[r] EXCEPT !.stage = "acting"]
<1>1. /\ r \in Caller /\ run[r] \in RunState /\ call \in [Caller -> Call]
      /\ run[r].account \in Account
  BY WorkflowAssumption DEF Inv, RunInv, RunState, GatewayInv, GatewayTypeOK
<1>2. /\ action.op \in Operations /\ TargetOf(r, action) \in Outcome
      /\ BeginCall(r, action.op, run[r].account, id)
      /\ run' = [run EXCEPT ![r] = state]
  BY CurrentActionType DEF BeginAction, Inv
<1>3. id \in Id
  BY <1>2 DEF NoId, ShortId, Id, Outcome
<1>4. GatewayInv'
  BY <1>1, <1>2, <1>3, BeginCallKeeps DEF Inv
<1>5. /\ state \in RunState /\ state.stage = "acting"
      /\ state.workflow = run[r].workflow /\ state.outputs = run[r].outputs
      /\ state.made = run[r].made /\ state.trigger = run[r].trigger
      /\ run'[r] = state
  BY <1>1, <1>2 DEF RunState, Inv, RunInv
<1>6. Len(state.outputs) = Len(state.made) /\ Progress(state)
  BY <1>5 DEF Inv, RunInv, Progress, BeginAction, ActionsLeft
<1>7. /\ \A d \in Run \ {r} : call'[d] = call[d]
      /\ \/ call'[r].stage = "failed"
         \/ /\ call'[r].stage \notin {"idle", "ok", "failed"}
            /\ call'[r].op = action.op
            /\ action.op \notin Sends => call'[r].target = id
  <2>1. PICK new \in {Ended("failed", NoMessage),
                      IF action.op \in Sends
                        THEN Invocation(IF action.op \in PreparedSends THEN "preparing" ELSE "sending",
                                        action.op, run[r].account, NoId, NoId)
                        ELSE Invocation(Resolution(id).stage, action.op, run[r].account, id,
                                        Resolution(id).id)} :
          call' = [call EXCEPT ![r] = new]
    BY <1>2 DEF BeginCall
  <2>2. Resolution(id).stage \in {"opening", "scanning"}
    BY DEF Resolution
  <2>3. \A d \in Run \ {r} : call'[d] = call[d]
    BY <1>1, <2>1, WorkflowAssumption
  <2>4. call'[r] = new
    BY <1>1, <2>1
  <2> HIDE DEF id, action
  <2> QED
    BY <2>1, <2>2, <2>3, <2>4 DEF Ended, Invocation
<1>8. CurrentAction(r)' = action /\ TargetOf(r, action)' = TargetOf(r, action)
  BY <1>5 DEF CurrentAction, TargetOf, AnyStringOrTrigger, IdOrTrigger, TokenValue
<1>9. Acting(r)'
  <2>1. action.op \in MessageOperations => action.op \notin Sends
    BY OperationKinds
  <2>2. action.op \notin Sends => id = ShortId(TargetOf(r, action))
    OBVIOUS
  <2>3. (CurrentAction(r) = action /\ TargetOf(r, CurrentAction(r)) = TargetOf(r, action))'
    BY <1>8
  <2> QED
    BY <1>7, <1>8, <2>1, <2>2 DEF Acting, Idle
<1>10. RunInv'
  <2> HIDE DEF state
  <2> QED
    BY <1>2, <1>5, <1>6, <1>7, <1>9, OneRunChanges DEF Inv
<1> QED
  BY <1>4, <1>10 DEF Inv

LEMMA ActionEndsKeeps ==
  ASSUME Inv, NEW r \in Run, ActionEnds(r)
  PROVE  RunInv'
<1> DEFINE ends == call[r].stage = "failed" /\ run[r].workflow.errorMode # "continue"
           state == [run[r] EXCEPT !.stage = IF ends THEN "ended" ELSE "ready",
                                   !.outputs = Append(@, OutputOf(r)),
                                   !.made = Append(@, call[r].made)]
           w == run[r].workflow
           n == Len(run[r].outputs)
<1>1. /\ r \in Caller /\ run[r] \in RunState /\ call[r] \in Call
      /\ n = Len(run[r].made) /\ Progress(run[r]) /\ Acting(r)
      /\ run \in [Run -> RunState]
  BY WorkflowAssumption DEF Inv, RunInv, GatewayInv, GatewayTypeOK
<1>2. /\ run[r].stage = "acting" /\ Idle(r) /\ run' = [run EXCEPT ![r] = state]
      /\ call' = call
  BY <1>1 DEF ActionEnds, gatewayVars
<1>3. OutputOf(r) \in Outcome /\ call[r].made \in Outcome
  BY <1>1 DEF OutputOf, Outcome, Call
<1>4. /\ state \in RunState
      /\ state.stage = IF ends THEN "ended" ELSE "ready"
      /\ state.workflow = w
      /\ state.outputs = Append(run[r].outputs, OutputOf(r))
      /\ state.made = Append(run[r].made, call[r].made)
  <2>1. /\ Append(run[r].outputs, OutputOf(r)) \in Seq(Outcome)
        /\ Append(run[r].made, call[r].made) \in Seq(Outcome)
    BY <1>1, <1>3 DEF RunState
  <2> QED
    BY <1>1, <2>1 DEF RunState
<1>5. run[r].outputs \in Seq(Outcome) /\ run[r].made \in Seq(Outcome)
  BY <1>1 DEF RunState
<1>6. Len(state.outputs) = n + 1 /\ Len(state.made) = n + 1 /\ n \in Nat
  BY <1>1, <1>4, <1>5
<1>7. Progress(state)
  <2>1. n < Len(w.actions) /\ Len(w.actions) \in Nat
    <3>1. w.actions \in Seq([op : Operations, target : Target])
      BY <1>1, WorkflowAssumption DEF RunState
    <3> QED
      BY <1>1, <1>2, <3>1 DEF Progress
  <2>2. ASSUME w.errorMode = "stop", ~ends, NEW k \in 1..(n + 1), w.actions[k].op \in Announced
        PROVE  state.outputs[k] = state.made[k] /\ state.made[k] # NoMessage
    <3>1. CASE k # n + 1
      <4>1. k \in 1..n /\ run[r].outputs[k] = run[r].made[k] /\ run[r].made[k] # NoMessage
        BY <1>1, <1>2, <1>6, <2>2, <3>1 DEF Progress
      <4>2. state.outputs[k] = run[r].outputs[k] /\ state.made[k] = run[r].made[k]
        BY <1>1, <1>3, <1>4, <1>5, <4>1
      <4> QED
        BY <4>1, <4>2
    <3>2. CASE k = n + 1
      <4>1. CurrentAction(r).op \in Announced /\ CurrentAction(r).op # "sendText"
        BY <2>2, <3>2, OperationKinds DEF CurrentAction
      <4>2. call[r].stage = "ok"
        BY <1>1, <1>2, <2>2 DEF Acting, Idle
      <4>3. call[r].made # NoMessage /\ OutputOf(r) = call[r].made
        BY <1>1, <1>2, <4>1, <4>2 DEF Acting, OutputOf
      <4>4. state.outputs[k] = OutputOf(r) /\ state.made[k] = call[r].made
        BY <1>1, <1>3, <1>4, <1>5, <1>6, <3>2
      <4> QED
        BY <4>3, <4>4
    <3> QED
      BY <3>1, <3>2
  <2> HIDE DEF ends, state, w, n
  <2> QED
    BY <1>4, <1>6, <2>1, <2>2 DEF Progress
<1>8. Acting(r)'
  BY <1>1, <1>2, <1>4 DEF Acting
<1> HIDE DEF state
<1> QED
  BY <1>2, <1>4, <1>6, <1>7, <1>8, OneRunChanges DEF Inv

LEMMA RunEndsKeeps ==
  ASSUME RunInv, NEW r \in Run, RunEnds(r)
  PROVE  RunInv'
<1> DEFINE state == [run[r] EXCEPT !.stage = "ended"]
<1>1. /\ state \in RunState /\ state.stage = "ended"
      /\ state.outputs = run[r].outputs /\ state.made = run[r].made
  BY DEF RunInv, RunState
<1>2. run' = [run EXCEPT ![r] = state] /\ call' = call
  BY DEF RunEnds, gatewayVars
<1>3. Len(state.outputs) = Len(state.made) /\ Progress(state)
  BY <1>1 DEF RunInv, Progress
<1>4. Acting(r)'
  BY <1>1, <1>2 DEF Acting, RunInv
<1> HIDE DEF state
<1> QED
  BY <1>1, <1>2, <1>3, <1>4, OneRunChanges

\* The runs stay, and the calls they make go on or end.
LEMMA CallStepKeepsRuns ==
  ASSUME Inv, NEW c \in Caller, CallStep(c), UNCHANGED run
  PROVE  RunInv'
<1>1. ASSUME NEW r \in Run PROVE Acting(r)'
  <2>1. CASE r # c
    BY <2>1, CallStepCourse, Undisturbed, WorkflowAssumption DEF Inv
  <2>2. CASE r = c
    <3>1. /\ Acting(r) /\ ~Idle(r)
          /\ CurrentAction(r)' = CurrentAction(r)
          /\ TargetOf(r, CurrentAction(r))' = TargetOf(r, CurrentAction(r))
      BY <2>2, CallStepCourse DEF Inv, RunInv, CurrentAction, TargetOf, AnyStringOrTrigger,
                                  IdOrTrigger, TokenValue
    <3>2. \/ /\ call'[r].op = call[r].op /\ call'[r].target = call[r].target
             /\ call'[r].stage \notin {"idle", "ok", "failed"}
          \/ call'[r].stage = "failed"
          \/ call'[r].stage = "ok" /\ (call[r].op \in Announced => call'[r].made # NoMessage)
      BY <2>2, CallStepCourse DEF Inv
    <3> QED
      BY <3>1, <3>2 DEF Acting, Idle
  <2> QED
    BY <2>1, <2>2
<1> QED
  BY <1>1 DEF Inv, RunInv

LEMMA KernelReplacedKeepsRuns ==
  ASSUME RunInv, KernelReplaced
  PROVE  RunInv'
<1>1. ASSUME NEW r \in Run
      PROVE  /\ run'[r] \in RunState /\ run'[r].stage \in {"idle", "ended"}
             /\ Len(run'[r].outputs) = Len(run'[r].made)
  BY DEF KernelReplaced, RunInv, RunState
<1>2. \A r \in Run : Progress(run'[r]) /\ Acting(r)'
  BY <1>1 DEF Progress, Acting
<1>3. run' \in [Run -> RunState]
  BY <1>1 DEF KernelReplaced
<1> QED
  BY <1>1, <1>2, <1>3 DEF RunInv

-----------------------------------------------------------------------------
(* The specification.                                                      *)

LEMMA Next_Inv ==
  ASSUME Inv, Next
  PROVE  Inv'
<1>1. ASSUME NEW r \in Run, NEW w \in Workflow, NEW a \in Account, NEW m \in Message,
             BeginRun(r, w, a, m)
      PROVE  Inv'
  <2>1. GatewayInv'
    BY <1>1, GatewayUndisturbed DEF Inv, BeginRun
  <2> QED
    BY <1>1, <2>1, BeginRunKeeps DEF Inv
<1>2. ASSUME NEW r \in Run, BeginAction(r) PROVE Inv'
  BY <1>2, BeginActionKeeps
<1>3. ASSUME NEW r \in Run, ActionEnds(r) PROVE Inv'
  BY <1>3, ActionEndsKeeps, GatewayUndisturbed DEF Inv, ActionEnds
<1>4. ASSUME NEW r \in Run, RunEnds(r) PROVE Inv'
  BY <1>4, RunEndsKeeps, GatewayUndisturbed DEF Inv, RunEnds
<1>5. ASSUME NEW c \in Caller \ Run, NEW request \in Request, BeginRequest(c, request)
      PROVE  Inv'
  <2>1. /\ request.op \in Operations /\ request.account \in Account /\ request.id \in Id
        /\ BeginCall(c, request.op, request.account, request.id) /\ run' = run
    BY <1>5, WorkflowAssumption DEF BeginRequest
  <2>2. GatewayInv'
    BY <2>1, BeginCallKeeps DEF Inv
  <2>3. \A r \in Run : call'[r] = call[r]
    BY <2>1, WorkflowAssumption DEF BeginCall, Inv, GatewayInv, GatewayTypeOK
  <2>4. RunInv'
    BY <2>1, <2>3, Undisturbed DEF Inv, RunInv
  <2> QED
    BY <2>2, <2>4 DEF Inv
<1>6. ASSUME NEW c \in Caller, CallStep(c), UNCHANGED run PROVE Inv'
  BY <1>6, CallStepKeeps, CallStepKeepsRuns DEF Inv
<1>7. ASSUME NEW a \in Account, NEW m \in Message, Arrives(a, m), UNCHANGED run PROVE Inv'
  <2>1. GatewayInv'
    BY <1>7, ArrivesKeeps DEF Inv
  <2>2. call' = call /\ run' = run
    BY <1>7 DEF Arrives
  <2>3. RunInv'
    BY <2>2, Undisturbed DEF Inv, RunInv
  <2> QED
    BY <2>1, <2>3 DEF Inv
<1>8. ASSUME KernelReplaced PROVE Inv'
  BY <1>8, ReloadKeeps, KernelReplacedKeepsRuns DEF Inv, KernelReplaced
<1> QED
  BY <1>1, <1>2, <1>3, <1>4, <1>5, <1>6, <1>7, <1>8 DEF Next

LEMMA Stutter_Inv ==
  ASSUME Inv, UNCHANGED vars
  PROVE  Inv'
<1>1. GatewayInv' /\ run' = run /\ call' = call
  BY GatewayUndisturbed DEF Inv, vars, gatewayVars
<1>2. RunInv'
  BY <1>1, Undisturbed DEF Inv, RunInv
<1> QED
  BY <1>1, <1>2 DEF Inv

LEMMA Spec_Inv == Spec => []Inv
<1>1. Inv /\ [Next]_vars => Inv'
  BY Next_Inv, Stutter_Inv
<1> QED
  BY Init_Inv, <1>1, PTL DEF Spec

\* The state of the gateway and of the runs, in every state, is of its type.
THEOREM TypeCorrect == Spec => []TypeOK
<1>1. Inv => TypeOK
  BY DEF Inv, GatewayInv, RunInv, RunState, TypeOK
<1> QED
  BY <1>1, Spec_Inv, PTL

\* Whatever is sent, edited and replied to, by however many runs and clients at a
\* time, and however often the kernel is replaced: the answer of a call of the live
\* kernel names a message that this kernel remembers for the account that sent it.
THEOREM SendsAreRemembered == Spec => []AnsweredSendsAreRemembered
<1>1. Inv => AnsweredSendsAreRemembered
  BY DEF Inv, GatewayInv
<1> QED
  BY <1>1, Spec_Inv, PTL

\* An operation that names a message by its short id is never given another message,
\* and is given its message as another account has it only when that account has
\* sent it.
THEOREM AskedMessagesAreOpened == Spec => []OpensWhatIsAsked
<1>1. Inv => OpensWhatIsAsked
  BY DEF Inv, GatewayInv
<1> QED
  BY <1>1, Spec_Inv, PTL

LEMMA Inv_Tokens == Inv => TokensLeadToTheirMessage
<1> SUFFICES ASSUME Inv, NEW r \in Run, run[r].stage = "acting", ~Idle(r),
                    run[r].workflow.errorMode = "stop",
                    CurrentAction(r).op \in MessageOperations,
                    CurrentAction(r).target.kind = "output",
                    run[r].workflow.actions[CurrentAction(r).target.place].op \in Announced
             PROVE  /\ call[r].target.message = run[r].made[CurrentAction(r).target.place]
                    /\ run[r].made[CurrentAction(r).target.place] # NoMessage
  BY DEF TokensLeadToTheirMessage
<1> DEFINE action == CurrentAction(r)
           place == action.target.place
<1>1. RunInv /\ Progress(run[r]) /\ Acting(r)
  BY DEF Inv, RunInv
<1>2. ActionsLeft(r)
  BY <1>1 DEF Progress, ActionsLeft
<1>3. place \in 1..Len(run[r].outputs)
  BY <1>1, <1>2, CurrentActionType
<1>4. run[r].outputs[place] = run[r].made[place] /\ run[r].made[place] # NoMessage
  BY <1>1, <1>3 DEF Progress
<1>5. TargetOf(r, action) = run[r].outputs[place]
  BY <1>4 DEF TargetOf, AnyStringOrTrigger, IdOrTrigger, TokenValue
<1>6. call[r].target = ShortId(TargetOf(r, action))
  BY <1>1 DEF Acting
<1> QED
  BY <1>4, <1>5, <1>6 DEF ShortId

\* In a workflow that failures end, the token of an output leads to the message its
\* action made, whatever else the workflow does and the clients do meanwhile.
THEOREM TokensLead == Spec => []TokensLeadToTheirMessage
BY Inv_Tokens, Spec_Inv, PTL

=============================================================================
