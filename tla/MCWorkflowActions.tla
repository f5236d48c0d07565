-------------------------- MODULE MCWorkflowActions --------------------------
(* Two accounts that may write to each other, an outsider, one message whose   *)
(* id comes without its serialized form, one run and one client of the API.    *)
EXTENDS WorkflowActions, TLC

CONSTANTS default, ops, outsider, hello, fromDefault, fromOps, bare, run1, api

MCAccount == {default, ops}
MCMessage == {hello, fromDefault, fromOps, bare}
MCAuthor == (hello :> outsider) @@ (fromDefault :> default) @@ (fromOps :> ops)
            @@ (bare :> default)
MCUnserialized == {bare}

Act(op, target) == [op |-> op, target |-> target]
Absent == [kind |-> "absent"]
OutputOfFirst == [kind |-> "output", place |-> 1]
Flow(errorMode, scope, actions) ==
  [errorMode |-> errorMode, accountScope |-> scope, actions |-> actions]

MCWorkflow ==
  {Flow("stop", {default}, <<Act("sendMedia", Absent), Act("deleteMessage", OutputOfFirst)>>),
   Flow("continue", {default}, <<Act("sendText", Absent), Act("editMessage", OutputOfFirst)>>),
   Flow("stop", {ops}, <<Act("replyToMessage", [kind |-> "empty"])>>),
   Flow("stop", {ops}, <<Act("replyToMessage", Absent), Act("editMessage", OutputOfFirst)>>),
   Flow("stop", {default}, <<Act("starMessage", [kind |-> "literal", message |-> fromOps])>>)}

Ask(op, a, id) == [op |-> op, account |-> a, id |-> id]

MCRequest ==
  {Ask("createPoll", ops, NoId),
   Ask("starMessage", ops, Serialized(default, fromDefault)),
   Ask("editMessage", default, ShortId(fromOps)),
   Ask("deleteMessage", ops, ShortId(fromDefault))}
=============================================================================
