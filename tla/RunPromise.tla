----------------------------- MODULE RunPromise -----------------------------
(***************************************************************************)
(* What an event, or a test, is promised by the workflows: the definitions *)
(* to execute are fixed once, in an order; each is executed in its turn,   *)
(* leaves its row at once and is not executed again; the run is finished   *)
(* when none is left, or cut short for ever, and no row is taken back.     *)
(***************************************************************************)
EXTENDS Naturals

CONSTANTS Run, Workflow

VARIABLES
  plan,    \* plan[r]: the definitions of run r, by their places
  left,    \* left[r]: the places whose turn has not come
  fate,    \* fate[r]: "none", "open", "finished" or "cut"
  rows     \* the rows left behind

promiseVars == <<plan, left, fate, rows>>

Status == {"skipped", "failed", "completed"}

Init ==
  /\ plan = [r \in Run |-> [n \in {} |-> n]]
  /\ left = [r \in Run |-> {}]
  /\ fate = [r \in Run |-> "none"]
  /\ rows = {}

IsPlan(p) == DOMAIN p \subseteq Nat /\ \A n \in DOMAIN p : p[n] \in Workflow

Begin(r) ==
  /\ fate[r] = "none"
  /\ fate' = [fate EXCEPT ![r] = "open"]
  /\ IsPlan(plan'[r])
  /\ plan' = [plan EXCEPT ![r] = plan'[r]]
  /\ left' = [left EXCEPT ![r] = DOMAIN plan'[r]]
  /\ UNCHANGED rows

\* The first place that is left has no row of this run yet, and gets one.
Execute(r, n, status) ==
  /\ fate[r] = "open"
  /\ n \in left[r]
  /\ \A m \in left[r] : n =< m
  /\ \A row \in rows : row.run = r => row.place # n
  /\ rows' = rows \cup {[run |-> r, place |-> n, workflow |-> plan[r][n], status |-> status]}
  /\ left' = [left EXCEPT ![r] = @ \ {n}]
  /\ UNCHANGED <<plan, fate>>

Finish(r) ==
  /\ fate[r] = "open"
  /\ left[r] = {}
  /\ fate' = [fate EXCEPT ![r] = "finished"]
  /\ UNCHANGED <<plan, left, rows>>

\* An exception ends one run, the end of the process all that are under way.
Cut(runs) ==
  /\ \A r \in runs : fate[r] \in {"none", "open"}
  /\ fate' = [r \in Run |-> IF r \in runs THEN "cut" ELSE fate[r]]
  /\ UNCHANGED <<plan, left, rows>>

Next ==
  \/ \E r \in Run : Begin(r) \/ Finish(r)
  \/ \E r \in Run : \E n \in left[r], status \in Status : Execute(r, n, status)
  \/ \E runs \in SUBSET Run : Cut(runs)

Spec == Init /\ [][Next]_promiseVars

=============================================================================
