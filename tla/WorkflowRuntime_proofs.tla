----------------------- MODULE WorkflowRuntime_proofs -----------------------
(***************************************************************************)
(* The workflow runtime keeps its promises whatever the workflows, the     *)
(* events, the number of runs and the answers of the providers: the        *)
(* history tells what was done, once per workflow and in the version it    *)
(* had when the event came; memory and table agree; and only a definition  *)
(* that validation refuses makes execute() throw.                          *)
(***************************************************************************)
EXTENDS WorkflowRuntime, WellFoundedInduction, TLAPS

Places == Suspended \cup {"free", "done", "aborted", "lost"}

Steps == [kind : Kinds, type : STRING]

ActionKinds == {"action_ok", "action_failed"}

\* An array repeats an id only if the config does.
NewIdsRepeatNone ==
  \A i \in Instance, w \in Workflow :
    Repeats(registry[i], w.id) => Repeats(environment.configured, w.id)

\* What surrounds the runs: the environment, the registries and the table.
SurroundingsInv ==
  /\ environment \in Environments
  /\ mode \in {"down", "running", "stopped"}
  /\ instance \in 0..MaxInstances
  /\ mode # "down" => instance # 0
  /\ registry \in [Instance -> Seq(Workflow)]
  /\ NewIdsRepeatNone
  /\ table \subseteq Workflow
  /\ RegistryMirrorsTable

\* The variables of the runs are functions.
RunsInv ==
  /\ pc \in [Run -> Places]
  /\ event \in [Run -> Event \cup {NoRun}]
  /\ owner \in [Run -> 0..MaxInstances]
  /\ queue \in [Run -> Seq(Workflow)]
  /\ chosen \in [Run -> SUBSET Nat]
  /\ pos \in [Run -> Nat]
  /\ at \in [Run -> Nat]
  /\ steps \in [Run -> Seq(Steps)]

\* Where run r has come to in its snapshot.
PlaceInv(r) ==
  /\ pc[r] = "published" => owner[r] # 0
  /\ chosen[r] \subseteq 1..Len(queue[r])
  /\ pos[r] \in 1..(Len(queue[r]) + 1)
  /\ pc[r] \in {"free", "published"} => pos[r] = 1
  /\ pc[r] \in {"trigger", "condition", "action"} => pos[r] \in chosen[r]
  /\ pc[r] = "done" => Ahead(r) = {}

\* taken is what the first actions of w left, none of which ended it.
ActedSoFar(w, taken) ==
  /\ Len(taken) =< Len(w.actions)
  /\ \A i \in 1..Len(taken) :
       /\ taken[i].type = w.actions[i].type
       /\ taken[i].kind \in ActionKinds
       /\ w.errorMode = "stop" => taken[i].kind # "action_failed"

\* Where run r has come to in the execution of its current workflow.
ExecutionInv(r) ==
  /\ pc[r] \in {"free", "published", "next", "trigger"} => at[r] = 1
  /\ pc[r] \in {"free", "published", "next", "trigger", "condition"} => steps[r] = <<>>
  /\ pc[r] = "condition" => at[r] \in 1..(Len(CurrentWorkflow(r).conditions) + 1)
  /\ pc[r] = "action" => /\ at[r] = Len(steps[r]) + 1
                         /\ ActedSoFar(CurrentWorkflow(r), steps[r])

\* The rows of a run are those of the workflows it has left behind.
RowInv(x) ==
  /\ x.run \in Run
  /\ x.workflow \in Workflow
  /\ x.place \in chosen[x.run] /\ x.place < pos[x.run]
  /\ x.workflow = queue[x.run][x.place]

LeftBehindInv(r) ==
  \A i \in chosen[r] : i < pos[r] => \E x \in executions : x.run = r /\ x.place = i

OneRowEach == \A x, y \in executions : x.run = y.run /\ x.place = y.place => x = y

\* An action whose step no row holds yet is one of the execution under way.
UnderWay(p) ==
  /\ p.place = pos[p.run] /\ pos[p.run] \in chosen[p.run]
  /\ CurrentWorkflow(p.run) = p.workflow
  /\ pc[p.run] \in {"action", "aborted", "lost"}
  /\ pc[p.run] = "action" => p.action \in 1..Len(steps[p.run])

PerformedInv(p) == p.run \in Run /\ (Recorded(p) \/ UnderWay(p))

\* An aborted run stays as it is, so the definition it aborted at can be named.
IInv ==
  /\ SurroundingsInv
  /\ RunsInv
  /\ \A r \in Run : PlaceInv(r) /\ ExecutionInv(r) /\ LeftBehindInv(r)
  /\ \A x \in executions : RowInv(x)
  /\ OneRowEach
  /\ StatusTellsSteps
  /\ \A p \in performed : PerformedInv(p)
  /\ OnlyInvalidAbort

-----------------------------------------------------------------------------
(* Lists of definitions.                                                   *)

LEMMA ActionKindsAreKinds == ActionKinds \subseteq Kinds
BY DEF ActionKinds, Kinds

(* A set of numbers that has an element has a least one.                    *)
LEMMA LeastNumber ==
  ASSUME NEW N \in SUBSET Nat, NEW n \in N
  PROVE  \E m \in N : \A k \in N : m =< k
<1>1. IsWellFoundedOn(OpToRel(<, Nat), Nat)
  BY NatLessThanWellFounded
<1>2. PICK m \in N : \A k \in N : ~(<<k, m>> \in OpToRel(<, Nat))
  BY <1>1, WFMin
<1>3. \A k \in N : ~(k < m)
  BY <1>2 DEF OpToRel
<1> QED
  BY <1>3

(* find() finds a definition of the id when there is one.                   *)
LEMMA FirstIsFound ==
  ASSUME NEW S, NEW list \in Seq(S), NEW i \in DOMAIN list
  PROVE  \E m \in FirstOf(list, list[i].id) : m \in DOMAIN list
<1> DEFINE N == {j \in DOMAIN list : list[j].id = list[i].id}
<1>1. N \subseteq Nat /\ i \in N
  OBVIOUS
<1>2. PICK m \in N : \A k \in N : m =< k
  BY <1>1, LeastNumber
<1> QED
  BY <1>2 DEF FirstOf

(* A definition that is upserted replaces the first of its id, or comes     *)
(* last: no place but its own changes, and no id is repeated by it.         *)
LEMMA UpsertedList ==
  ASSUME NEW S, NEW list \in Seq(S), NEW d \in S
  PROVE  /\ Upserted(list, d) \in Seq(S)
         /\ d \in ToSet(Upserted(list, d))
         /\ \A r \in ToSet(list) : r.id # d.id => r \in ToSet(Upserted(list, d))
         /\ \A r \in ToSet(Upserted(list, d)) : r = d \/ r \in ToSet(list)
         /\ \A i, j \in DOMAIN Upserted(list, d) :
              Upserted(list, d)[i].id = Upserted(list, d)[j].id /\ i # j
                => Repeats(list, Upserted(list, d)[i].id)
<1> DEFINE new == Upserted(list, d)
           n == Len(list)
<1>0. n \in Nat /\ DOMAIN list = 1..n
  OBVIOUS
<1>1. CASE \E i \in 1..n : list[i].id = d.id
  <2>1. PICK m \in FirstOf(list, d.id) : m \in 1..n
    BY <1>0, <1>1, FirstIsFound
  <2>2. d.id \in IdsOf(ToSet(list))
    BY <1>0, <1>1 DEF IdsOf, ToSet
  <2>3. new = [i \in 1..n |-> IF i \in FirstOf(list, d.id) THEN d ELSE list[i]]
    BY <1>0, <2>2 DEF Upserted
  <2>4. new \in Seq(S) /\ DOMAIN new = 1..n
    BY <1>0, <2>3
  <2>5. new[m] = d
    BY <2>1, <2>3
  <2>6. \A i \in 1..n : new[i].id = list[i].id /\ (new[i] = d \/ new[i] = list[i])
                        /\ (list[i].id # d.id => new[i] = list[i])
    BY <1>0, <2>3 DEF FirstOf
  <2> HIDE DEF new
  <2>7. d \in ToSet(new) /\ \A r \in ToSet(list) : r.id # d.id => r \in ToSet(new)
    BY <1>0, <2>1, <2>4, <2>5, <2>6 DEF ToSet
  <2>8. \A r \in ToSet(new) : r = d \/ r \in ToSet(list)
    BY <1>0, <2>4, <2>6 DEF ToSet
  <2>9. \A i, j \in DOMAIN new : new[i].id = new[j].id /\ i # j => Repeats(list, new[i].id)
    BY <1>0, <2>4, <2>6 DEF Repeats
  <2> QED
    BY <2>4, <2>7, <2>8, <2>9 DEF new
<1>2. CASE ~\E i \in 1..n : list[i].id = d.id
  <2>1. d.id \notin IdsOf(ToSet(list))
    BY <1>0, <1>2 DEF IdsOf, ToSet
  <2>2. new = Append(list, d)
    BY <2>1 DEF Upserted
  <2>3. /\ new \in Seq(S) /\ DOMAIN new = 1..(n + 1) /\ new[n + 1] = d
        /\ \A i \in 1..n : new[i] = list[i]
    BY <1>0, <2>2
  <2> HIDE DEF new
  <2>4. d \in ToSet(new) /\ \A r \in ToSet(list) : r \in ToSet(new)
    BY <1>0, <2>3 DEF ToSet
  <2>5. \A r \in ToSet(new) : r = d \/ r \in ToSet(list)
    BY <1>0, <2>3 DEF ToSet
  <2>6. \A i, j \in DOMAIN new : new[i].id = new[j].id /\ i # j => Repeats(list, new[i].id)
    BY <1>0, <1>2, <2>3 DEF Repeats
  <2> QED
    BY <2>3, <2>4, <2>5, <2>6 DEF new
<1> QED
  BY <1>1, <1>2

(* Every listing of the rows has them all, and repeats no id.               *)
LEMMA ListingIsTheTable ==
  ASSUME NEW S, NEW rows \in SUBSET S, \A r \in rows : r.id \in Nat,
         NEW list \in Listings(rows)
  PROVE  list \in Seq(S) /\ ToSet(list) = rows /\ \A id : ~Repeats(list, id)
<1>1. PICK m \in 0..Cardinality(rows) : list \in [1..m -> rows]
  BY DEF Listings, SeqOf
<1>2. /\ ToSet(list) = rows
      /\ \A i, j \in DOMAIN list : i < j => list[i].id < list[j].id
  BY DEF Listings
<1>3. m \in Nat
  BY <1>1
<1>4. list \in Seq(S) /\ DOMAIN list = 1..m
  BY <1>1, <1>3
<1>5. \A i \in 1..m : list[i].id \in Nat
  BY <1>1
<1>6. \A i, j \in 1..m : i # j => list[i].id # list[j].id
  BY <1>2, <1>3, <1>4, <1>5
<1>7. \A id : ~Repeats(list, id)
  BY <1>4, <1>6 DEF Repeats
<1> QED
  BY <1>2, <1>4, <1>7

(* The rows seeded from a list: definitions of the list, one for every id.  *)
LEMMA SeededRows ==
  ASSUME NEW S, NEW list \in Seq(S)
  PROVE  /\ Seeded(list) \subseteq ToSet(list)
         /\ UniqueIds(Seeded(list))
         /\ \A d \in ToSet(list) : \E r \in Seeded(list) :
              r.id = d.id /\ (r = d \/ Repeats(list, d.id))
<1> DEFINE n == Len(list)
<1>0. n \in Nat /\ DOMAIN list = 1..n
  OBVIOUS
<1>1. Seeded(list) \subseteq ToSet(list)
  BY <1>0 DEF Seeded, ToSet
<1>2. UniqueIds(Seeded(list))
  <2> SUFFICES ASSUME NEW r1 \in Seeded(list), NEW r2 \in Seeded(list), r1.id = r2.id
               PROVE  r1 = r2
    BY DEF UniqueIds
  <2>1. PICK i \in 1..n : r1 = list[i] /\ \A j \in 1..n : i < j => list[j].id # list[i].id
    BY <1>0 DEF Seeded
  <2>2. PICK k \in 1..n : r2 = list[k] /\ \A j \in 1..n : k < j => list[j].id # list[k].id
    BY <1>0 DEF Seeded
  <2> QED
    BY <1>0, <2>1, <2>2
<1>3. ASSUME NEW i \in 1..n
      PROVE  \E r \in Seeded(list) : r.id = list[i].id /\ (r = list[i] \/ Repeats(list, list[i].id))
  <2> DEFINE N == {k \in Nat : \A j \in 1..n : list[j].id = list[i].id => j =< k}
  <2>1. N \subseteq Nat /\ n \in N
    BY <1>0
  <2>2. PICK m \in N : \A k \in N : m =< k
    BY <2>1, LeastNumber
  <2>3. m \in Nat /\ (\A j \in 1..n : list[j].id = list[i].id => j =< m) /\ m >= 1
    BY <1>0, <2>2
  <2>4. m - 1 \notin N
    BY <2>2, <2>3
  <2>5. PICK j \in 1..n : list[j].id = list[i].id /\ ~(j =< m - 1)
    BY <2>3, <2>4
  <2>6. j = m
    BY <1>0, <2>3, <2>5
  <2>7. \A k \in 1..n : j < k => list[k].id # list[j].id
    BY <1>0, <2>3, <2>5, <2>6
  <2>8. list[j] \in Seeded(list)
    BY <1>0, <2>7 DEF Seeded
  <2>9. i # j => Repeats(list, list[i].id)
    BY <1>0, <2>5 DEF Repeats
  <2> QED
    BY <2>5, <2>8, <2>9
<1>4. \A d \in ToSet(list) : \E i \in 1..n : d = list[i]
  BY <1>0 DEF ToSet
<1> QED
  BY <1>1, <1>2, <1>3, <1>4

(* Array and table after a definition was upserted, both of them.           *)
LEMMA UpsertMirrors ==
  ASSUME NEW S, NEW list \in Seq(S), NEW d \in S, NEW rows, NEW configured,
         Mirrors(list, rows, configured),
         \A r \in ToSet(list) : Repeats(list, r.id) => Repeats(configured, r.id)
  PROVE  Mirrors(Upserted(list, d), Saved(rows, d), configured)
<1> DEFINE new == Upserted(list, d)
<1>1. /\ new \in Seq(S) /\ d \in ToSet(new)
      /\ \A r \in ToSet(list) : r.id # d.id => r \in ToSet(new)
      /\ \A r \in ToSet(new) : r = d \/ r \in ToSet(list)
      /\ \A i, j \in DOMAIN new : new[i].id = new[j].id /\ i # j => Repeats(list, new[i].id)
  BY UpsertedList
<1> HIDE DEF new
<1>2. Saved(rows, d) \subseteq ToSet(new)
  BY <1>1 DEF Mirrors, Saved
<1>3. ASSUME NEW x \in ToSet(new)
      PROVE  \E r \in Saved(rows, d) : r.id = x.id /\ (r = x \/ Repeats(configured, x.id))
  <2>1. CASE x = d
    BY <2>1 DEF Saved
  <2>2. CASE x # d /\ x.id # d.id
    BY <1>1, <2>2 DEF Mirrors, Saved
  <2>3. CASE x # d /\ x.id = d.id
    <3>1. PICK i \in DOMAIN new, j \in DOMAIN new : new[i] = x /\ new[j] = d
      BY <1>1 DEF ToSet
    <3>2. Repeats(list, x.id)
      BY <1>1, <2>3, <3>1
    <3> QED
      BY <1>1, <2>3, <3>2 DEF Saved
  <2> QED
    BY <2>1, <2>2, <2>3
<1> QED
  BY <1>2, <1>3 DEF Mirrors, new

(* A binding of an action has a type.                                       *)
LEMMA BindingsHaveTypes ==
  ASSUME NEW list \in Seq([type : STRING, id : STRING]), NEW i \in 1..Len(list)
  PROVE  list[i].type \in STRING
<1> DEFINE Binding == [type : STRING, id : STRING]
<1>1. list \in Seq(Binding)
  OBVIOUS
<1> HIDE DEF Binding
<1>2. list[i] \in Binding
  BY <1>1
<1> QED
  BY <1>2 DEF Binding

(* The steps of the first actions tell the types of those actions.          *)
LEMMA ActedTells ==
  ASSUME NEW w \in Workflow, NEW taken \in Seq(Steps), Len(taken) =< Len(w.actions),
         \A i \in 1..Len(taken) : taken[i].type = w.actions[i].type
  PROVE  StepTypes(taken) = SubSeq(ActionTypes(w), 1, Len(taken))
<1> DEFINE n == Len(taken)
           types == ActionTypes(w)
<1>1. w.actions \in Seq([type : STRING, id : STRING])
  BY WorkflowAssumption
<1>2. n \in Nat /\ Len(w.actions) \in Nat
  BY <1>1
<1>3. types = [i \in 1..Len(w.actions) |-> w.actions[i].type]
  BY <1>1 DEF ActionTypes
<1>4. types \in Seq(STRING) /\ Len(types) = Len(w.actions)
  <2>1. \A i \in 1..Len(w.actions) : w.actions[i].type \in STRING
    BY <1>1, BindingsHaveTypes
  <2>2. types \in [1..Len(w.actions) -> STRING]
    BY <1>3, <2>1
  <2> HIDE DEF types
  <2> QED
    BY <1>2, <2>2
<1>5. StepTypes(taken) = [i \in 1..n |-> taken[i].type]
  BY DEF StepTypes
<1>6. SubSeq(types, 1, n) = [i \in 1..n |-> types[i]]
  BY <1>2, <1>4
<1>7. \A i \in 1..n : types[i] = taken[i].type
  BY <1>2, <1>3
<1> HIDE DEF types
<1> QED
  BY <1>5, <1>6, <1>7 DEF types

-----------------------------------------------------------------------------
(* A step of run s leaves the others alone.                                *)

OthersStay(s) ==
  \A r \in Run \ {s} :
    /\ pc'[r] = pc[r] /\ owner'[r] = owner[r] /\ queue'[r] = queue[r]
    /\ chosen'[r] = chosen[r] /\ pos'[r] = pos[r] /\ at'[r] = at[r] /\ steps'[r] = steps[r]

LEMMA OtherRuns ==
  ASSUME IInv, NEW s \in Run, OthersStay(s), executions \subseteq executions',
         NEW r \in Run \ {s}
  PROVE  /\ PlaceInv(r)'
         /\ ExecutionInv(r)'
         /\ LeftBehindInv(r)'
<1>1. /\ pc'[r] = pc[r] /\ owner'[r] = owner[r] /\ queue'[r] = queue[r]
      /\ chosen'[r] = chosen[r] /\ pos'[r] = pos[r] /\ at'[r] = at[r] /\ steps'[r] = steps[r]
  BY DEF OthersStay
<1>2. PlaceInv(r) /\ ExecutionInv(r) /\ LeftBehindInv(r)
  BY DEF IInv
<1>3. Ahead(r)' = Ahead(r) /\ CurrentWorkflow(r)' = CurrentWorkflow(r)
  BY <1>1 DEF Ahead, CurrentWorkflow
<1>4. PlaceInv(r)'
  BY <1>1, <1>2, <1>3 DEF PlaceInv
<1>5. ExecutionInv(r)'
  BY <1>1, <1>2, <1>3 DEF ExecutionInv
<1>6. LeftBehindInv(r)'
  BY <1>1, <1>2 DEF LeftBehindInv
<1> QED
  BY <1>4, <1>5, <1>6

(* A row stays the row of a workflow that its run has left behind.          *)
LEMMA OldRows ==
  ASSUME IInv, NEW s \in Run, OthersStay(s),
         \/ pos[s] = 1
         \/ queue'[s] = queue[s] /\ chosen'[s] = chosen[s] /\ pos'[s] \in Nat /\ pos'[s] >= pos[s],
         NEW x \in executions
  PROVE  RowInv(x)'
<1>1. RowInv(x)
  BY DEF IInv
<1>2. PICK i \in chosen[x.run] : /\ i = x.place /\ i < pos[x.run]
                                /\ x.workflow = queue[x.run][i]
  BY <1>1 DEF RowInv
<1>3. CASE x.run # s
  BY <1>1, <1>2, <1>3 DEF RowInv, OthersStay
<1>4. CASE x.run = s
  <2>1. pos[s] \in Nat /\ i \in 1..Len(queue[s]) /\ i < pos[s]
    BY <1>2, <1>4 DEF IInv, PlaceInv, RunsInv
  <2>2. i < pos'[s] /\ i \in chosen'[s] /\ queue'[s][i] = queue[s][i]
    BY <1>2, <1>4, <2>1
  <2> QED
    BY <1>1, <1>2, <1>4, <2>2 DEF RowInv
<1> QED
  BY <1>3, <1>4

(* An action stays recorded, or under way, when its run does not move on.   *)
LEMMA OldPerformed ==
  ASSUME IInv, NEW s \in Run, OthersStay(s), executions \subseteq executions',
         NEW p \in performed,
         \/ pc[s] \notin {"action", "aborted", "lost"}
         \/ p.run # s
         \/ /\ queue'[s] = queue[s] /\ chosen'[s] = chosen[s] /\ pos'[s] = pos[s]
            /\ pc'[s] \in {"action", "aborted", "lost"}
            /\ pc'[s] = "action" => /\ pc[s] = "action"
                                    /\ \A n \in 1..Len(steps[s]) : n \in 1..Len(steps'[s])
  PROVE  PerformedInv(p)'
<1>1. p.run \in Run /\ (Recorded(p) \/ UnderWay(p))
  BY DEF IInv, PerformedInv
<1>2. CASE Recorded(p)
  <2>1. Recorded(p)'
    BY <1>2 DEF Recorded, RowsOf
  <2> QED
    BY <1>1, <2>1 DEF PerformedInv
<1>3. CASE UnderWay(p) /\ p.run # s
  <2>1. UnderWay(p)'
    BY <1>1, <1>3 DEF UnderWay, OthersStay, CurrentWorkflow
  <2> QED
    BY <1>1, <2>1 DEF PerformedInv
<1>4. CASE UnderWay(p) /\ p.run = s
  <2>1. UnderWay(p)'
    BY <1>4 DEF UnderWay, CurrentWorkflow
  <2> QED
    BY <1>1, <2>1 DEF PerformedInv
<1> QED
  BY <1>1, <1>2, <1>3, <1>4

(* What has to be shown of a step of run s.                                 *)
LEMMA StepOfOneRun ==
  ASSUME IInv, NEW s \in Run, UNCHANGED definitionVars, OthersStay(s),
         executions \subseteq executions',
         RunsInv', PlaceInv(s)', ExecutionInv(s)', LeftBehindInv(s)',
         \A x \in executions' : RowInv(x)',
         OneRowEach', StatusTellsSteps',
         \A p \in performed' : PerformedInv(p)',
         pc'[s] = "aborted" /\ ~environment.storageFails => ~ValidWorkflow(CurrentWorkflow(s)')
  PROVE  IInv'
<1>1. SurroundingsInv'
  BY DEF IInv, SurroundingsInv, NewIdsRepeatNone, RegistryMirrorsTable, definitionVars
<1>2. \A r \in Run : PlaceInv(r)' /\ ExecutionInv(r)' /\ LeftBehindInv(r)'
  BY OtherRuns
<1>3. OnlyInvalidAbort'
  <2> SUFFICES ASSUME ~environment'.storageFails, NEW r \in Run, pc'[r] = "aborted"
               PROVE  ~ValidWorkflow(CurrentWorkflow(r)')
    BY DEF OnlyInvalidAbort
  <2>1. environment' = environment
    BY DEF definitionVars
  <2>2. CASE r = s
    BY <2>1, <2>2
  <2>3. CASE r # s
    <3>1. pc[r] = "aborted" /\ CurrentWorkflow(r)' = CurrentWorkflow(r)
      BY <2>3 DEF OthersStay, CurrentWorkflow
    <3> QED
      BY <2>1, <3>1 DEF IInv, OnlyInvalidAbort
  <2> QED
    BY <2>2, <2>3
<1> QED
  BY <1>1, <1>2, <1>3 DEF IInv

-----------------------------------------------------------------------------
(* The steps that write no row.                                             *)

LEMMA QuietStep ==
  ASSUME IInv, NEW s \in Run, UNCHANGED <<definitionVars, executions>>, OthersStay(s),
         RunsInv', PlaceInv(s)', ExecutionInv(s)', LeftBehindInv(s)',
         \/ pos[s] = 1
         \/ queue'[s] = queue[s] /\ chosen'[s] = chosen[s] /\ pos'[s] >= pos[s],
         \A p \in performed' \ performed : PerformedInv(p)',
         \/ pc[s] \notin {"action", "aborted", "lost"}
         \/ /\ queue'[s] = queue[s] /\ chosen'[s] = chosen[s] /\ pos'[s] = pos[s]
            /\ pc'[s] \in {"action", "aborted", "lost"}
            /\ pc'[s] = "action" => /\ pc[s] = "action"
                                    /\ \A n \in 1..Len(steps[s]) : n \in 1..Len(steps'[s]),
         pc'[s] = "aborted" /\ ~environment.storageFails => ~ValidWorkflow(CurrentWorkflow(s)')
  PROVE  IInv'
<1>1. executions' = executions
  OBVIOUS
<1>2. pos'[s] \in Nat
  BY DEF RunsInv
<1>3. \A x \in executions' : RowInv(x)'
  BY <1>1, <1>2, OldRows
<1>4. OneRowEach'
  BY <1>1 DEF IInv, OneRowEach
<1>5. StatusTellsSteps'
  BY <1>1 DEF IInv, StatusTellsSteps
<1>6. \A p \in performed' : PerformedInv(p)'
  BY <1>1, OldPerformed
<1> QED
  BY <1>1, <1>3, <1>4, <1>5, <1>6, StepOfOneRun

LEMMA PublishKeeps ==
  ASSUME IInv, NEW s \in Run, NEW e \in Event, Publish(s, e)
  PROVE  IInv'
<1>1. /\ pc[s] = "free"
      /\ mode = "running"
      /\ pc' = [pc EXCEPT ![s] = "published"]
      /\ event' = [event EXCEPT ![s] = e]
      /\ owner' = [owner EXCEPT ![s] = instance]
      /\ queue' = queue /\ chosen' = chosen /\ pos' = pos /\ at' = at /\ steps' = steps
      /\ UNCHANGED <<definitionVars, executions, performed>>
  BY DEF Publish, historyVars
<1>2. RunsInv /\ PlaceInv(s) /\ ExecutionInv(s) /\ LeftBehindInv(s)
  BY DEF IInv
<1>3. instance \in 0..MaxInstances /\ instance # 0
  BY <1>1 DEF IInv, SurroundingsInv
<1>4. OthersStay(s) /\ pc'[s] = "published" /\ owner'[s] = instance
  BY <1>1, <1>2 DEF RunsInv, OthersStay
<1>5. RunsInv'
  BY <1>1, <1>2, <1>3 DEF RunsInv, Places, Suspended
<1>6. PlaceInv(s)'
  BY <1>1, <1>2, <1>3, <1>4 DEF PlaceInv
<1>7. ExecutionInv(s)'
  BY <1>1, <1>2, <1>4 DEF ExecutionInv
<1>8. LeftBehindInv(s)'
  BY <1>1, <1>2 DEF LeftBehindInv
<1>9. pos[s] = 1
  BY <1>1, <1>2 DEF PlaceInv
<1> QED
  BY <1>1, <1>4, <1>5, <1>6, <1>7, <1>8, <1>9, QuietStep

(* A run gets the snapshot it goes through.                                 *)
LEMMA SnapshotKeeps ==
  ASSUME IInv, NEW s \in Run, pc[s] \in {"free", "published"},
         NEW defs \in Seq(Workflow), NEW places \in SUBSET (1..Len(defs)),
         NEW o \in 0..MaxInstances, NEW e \in Event \cup {NoRun},
         pc' = [pc EXCEPT ![s] = "next"],
         event' = [event EXCEPT ![s] = e],
         owner' = [owner EXCEPT ![s] = o],
         queue' = [queue EXCEPT ![s] = defs],
         chosen' = [chosen EXCEPT ![s] = places],
         UNCHANGED <<definitionVars, pos, at, steps, executions, performed>>
  PROVE  IInv'
<1>1. RunsInv /\ PlaceInv(s) /\ ExecutionInv(s)
  BY DEF IInv
<1>2. OthersStay(s)
  BY <1>1 DEF RunsInv, OthersStay
<1>3. /\ pc'[s] = "next" /\ queue'[s] = defs /\ chosen'[s] = places
      /\ pos'[s] = 1 /\ at'[s] = 1 /\ steps'[s] = <<>> /\ pos[s] = 1
  BY <1>1 DEF RunsInv, PlaceInv, ExecutionInv
<1>4. RunsInv'
  <2>1. places \subseteq Nat
    OBVIOUS
  <2> QED
    BY <1>1, <2>1 DEF RunsInv, Places, Suspended
<1>5. PlaceInv(s)'
  <2>1. 1 \in 1..(Len(defs) + 1)
    OBVIOUS
  <2>2. chosen'[s] \subseteq 1..Len(queue'[s]) /\ pos'[s] \in 1..(Len(queue'[s]) + 1)
    BY <1>3, <2>1
  <2> QED
    BY <1>3, <2>2 DEF PlaceInv
<1>6. ExecutionInv(s)'
  BY <1>3 DEF ExecutionInv
<1>7. LeftBehindInv(s)'
  <2>1. \A i \in places : ~(i < 1)
    OBVIOUS
  <2> QED
    BY <1>3, <2>1 DEF LeftBehindInv
<1> QED
  BY <1>2, <1>3, <1>4, <1>5, <1>6, <1>7, QuietStep

LEMMA SubscriberKeeps ==
  ASSUME IInv, NEW s \in Run, Subscriber(s)
  PROVE  IInv'
<1> DEFINE defs == registry[owner[s]]
           places == {i \in DOMAIN defs : Applies(defs[i], event[s])}
<1>1. /\ pc[s] = "published"
      /\ pc' = [pc EXCEPT ![s] = "next"]
      /\ queue' = [queue EXCEPT ![s] = defs]
      /\ chosen' = [chosen EXCEPT ![s] = places]
      /\ event' = event /\ owner' = owner
      /\ UNCHANGED <<definitionVars, pos, at, steps, executions, performed>>
  BY DEF Subscriber, historyVars
<1>2. owner \in [Run -> 0..MaxInstances] /\ owner[s] # 0
  BY <1>1 DEF IInv, RunsInv, PlaceInv
<1>3. owner[s] \in Instance
  BY <1>2, WorkflowAssumption DEF Instance
<1>4. defs \in Seq(Workflow)
  BY <1>3 DEF IInv, SurroundingsInv
<1>5. places \in SUBSET (1..Len(defs))
  BY <1>4
<1>6. event = [event EXCEPT ![s] = event[s]] /\ owner = [owner EXCEPT ![s] = owner[s]]
  BY DEF IInv, RunsInv
<1>7. event[s] \in Event \cup {NoRun} /\ owner[s] \in 0..MaxInstances
  BY DEF IInv, RunsInv
<1> HIDE DEF defs, places
<1>8. event' = [event EXCEPT ![s] = event[s]] /\ owner' = [owner EXCEPT ![s] = owner[s]]
  BY <1>1, <1>6
<1> QED
  BY <1>1, <1>4, <1>5, <1>7, <1>8, SnapshotKeeps

LEMMA TestWorkflowKeeps ==
  ASSUME IInv, NEW s \in Run, NEW w \in Workflow, NEW e \in Event, TestWorkflow(s, w, e)
  PROVE  IInv'
<1>1. /\ pc[s] = "free"
      /\ pc' = [pc EXCEPT ![s] = "next"]
      /\ event' = [event EXCEPT ![s] = e]
      /\ owner' = [owner EXCEPT ![s] = instance]
      /\ queue' = [queue EXCEPT ![s] = <<w>>]
      /\ chosen' = [chosen EXCEPT ![s] = {1}]
      /\ UNCHANGED <<definitionVars, pos, at, steps, executions, performed>>
  BY DEF TestWorkflow, historyVars
<1>2. <<w>> \in Seq(Workflow) /\ {1} \in SUBSET (1..Len(<<w>>))
  OBVIOUS
<1>3. instance \in 0..MaxInstances
  BY DEF IInv, SurroundingsInv
<1> QED
  BY <1>1, <1>2, <1>3, SnapshotKeeps

LEMMA RunEndsKeeps ==
  ASSUME IInv, NEW s \in Run, RunEnds(s)
  PROVE  IInv'
<1>1. /\ pc[s] = "next" /\ Ahead(s) = {}
      /\ pc' = [pc EXCEPT ![s] = "done"]
      /\ UNCHANGED <<definitionVars, executions, performed>>
      /\ event' = event /\ owner' = owner /\ queue' = queue /\ chosen' = chosen
      /\ pos' = pos /\ at' = at /\ steps' = steps
  BY DEF RunEnds, subjectVars, historyVars
<1>2. RunsInv /\ PlaceInv(s) /\ ExecutionInv(s) /\ LeftBehindInv(s)
  BY DEF IInv
<1>3. OthersStay(s) /\ pc'[s] = "done"
  BY <1>1, <1>2 DEF RunsInv, OthersStay
<1>4. RunsInv'
  BY <1>1, <1>2 DEF RunsInv, Places
<1>5. Ahead(s)' = {}
  BY <1>1 DEF Ahead
<1>6. PlaceInv(s)'
  BY <1>1, <1>2, <1>3, <1>5 DEF PlaceInv
<1>7. ExecutionInv(s)'
  BY <1>3 DEF ExecutionInv
<1>8. LeftBehindInv(s)'
  BY <1>1, <1>2 DEF LeftBehindInv
<1>9. pos'[s] >= pos[s]
  BY <1>1, <1>2 DEF RunsInv
<1> QED
  BY <1>1, <1>3, <1>4, <1>6, <1>7, <1>8, <1>9, QuietStep

(* The loop passes over the places that are not chosen.                     *)
LEMMA ExecuteBeginsKeeps ==
  ASSUME IInv, NEW s \in Run, ExecuteBegins(s)
  PROVE  IInv'
<1>1. PICK n \in Ahead(s) :
        /\ \A m \in Ahead(s) : n =< m
        /\ pos' = [pos EXCEPT ![s] = n]
        /\ pc' = [pc EXCEPT ![s] = IF queue[s][n].trigger \in KnownTriggers THEN "trigger"
                                                                            ELSE "aborted"]
  BY DEF ExecuteBegins
<1>2. /\ pc[s] = "next"
      /\ UNCHANGED <<definitionVars, executions, performed>>
      /\ event' = event /\ owner' = owner /\ queue' = queue /\ chosen' = chosen
      /\ at' = at /\ steps' = steps
  BY DEF ExecuteBegins, subjectVars, historyVars
<1>3. RunsInv /\ PlaceInv(s) /\ ExecutionInv(s) /\ LeftBehindInv(s)
  BY DEF IInv
<1>4. OthersStay(s) /\ pos'[s] = n
  BY <1>1, <1>2, <1>3 DEF RunsInv, OthersStay
<1>5. /\ pc'[s] \in {"trigger", "aborted"}
      /\ pc'[s] = "aborted" => queue[s][n].trigger \notin KnownTriggers
  BY <1>1, <1>3 DEF RunsInv
<1>6. n \in chosen[s] /\ n >= pos[s] /\ n \in 1..Len(queue[s])
  BY <1>3 DEF Ahead, PlaceInv
<1>7. pos[s] \in Nat /\ Len(queue[s]) \in Nat /\ chosen[s] \subseteq Nat
  BY <1>3 DEF RunsInv
<1>8. RunsInv'
  BY <1>1, <1>2, <1>3, <1>5, <1>6 DEF RunsInv, Places, Suspended
<1>9. PlaceInv(s)'
  BY <1>2, <1>3, <1>4, <1>5, <1>6, <1>7 DEF PlaceInv
<1>10. ExecutionInv(s)'
  BY <1>2, <1>3, <1>5 DEF ExecutionInv
<1>11. LeftBehindInv(s)'
  <2>1. \A i \in chosen[s] : i < n => i < pos[s]
    BY <1>1, <1>6, <1>7 DEF Ahead
  <2> QED
    BY <1>2, <1>3, <1>4, <2>1 DEF LeftBehindInv
<1>12. pc'[s] = "aborted" => ~ValidWorkflow(CurrentWorkflow(s)')
  <2>1. CurrentWorkflow(s)' = queue[s][n]
    BY <1>2, <1>4 DEF CurrentWorkflow
  <2> QED
    BY <1>5, <2>1 DEF ValidWorkflow
<1> QED
  BY <1>2, <1>4, <1>6, <1>8, <1>9, <1>10, <1>11, <1>12, QuietStep

(* A step from one await of an execution to the next, before any action.    *)
LEMMA AwaitKeeps ==
  ASSUME IInv, NEW s \in Run, NEW c \in {"condition", "action"}, NEW n \in Nat \ {0},
         pc[s] \in {"trigger", "condition"},
         pc' = [pc EXCEPT ![s] = c],
         at' = [at EXCEPT ![s] = n],
         c = "condition" => n \in 1..(Len(CurrentWorkflow(s).conditions) + 1),
         c = "action" => n = 1,
         UNCHANGED <<definitionVars, subjectVars, pos, steps, executions, performed>>
  PROVE  IInv'
<1>1. /\ UNCHANGED <<definitionVars, executions, performed>>
      /\ event' = event /\ owner' = owner /\ queue' = queue /\ chosen' = chosen
      /\ pos' = pos /\ steps' = steps
  BY DEF subjectVars
<1>2. RunsInv /\ PlaceInv(s) /\ ExecutionInv(s) /\ LeftBehindInv(s)
  BY DEF IInv
<1>3. OthersStay(s) /\ pc'[s] = c /\ at'[s] = n
  BY <1>1, <1>2 DEF RunsInv, OthersStay
<1>4. RunsInv'
  BY <1>1, <1>2 DEF RunsInv, Places, Suspended
<1>5. PlaceInv(s)'
  BY <1>1, <1>2, <1>3 DEF PlaceInv
<1>6. CurrentWorkflow(s)' = CurrentWorkflow(s)
  BY <1>1 DEF CurrentWorkflow
<1>7. ExecutionInv(s)'
  <2>1. steps'[s] = <<>>
    BY <1>1, <1>2 DEF ExecutionInv
  <2>2. ASSUME c = "action" PROVE /\ at'[s] = Len(steps'[s]) + 1
                                  /\ ActedSoFar(CurrentWorkflow(s), steps'[s])
    <3>1. queue[s][pos[s]] \in Workflow
      BY <1>2 DEF PlaceInv, RunsInv
    <3>2. Len(CurrentWorkflow(s).actions) \in Nat
      BY <3>1, WorkflowAssumption DEF CurrentWorkflow
    <3> QED
      BY <1>3, <2>1, <2>2, <3>2 DEF ActedSoFar
  <2>3. /\ c = "action" => /\ at'[s] = Len(steps'[s]) + 1
                           /\ ActedSoFar(CurrentWorkflow(s)', steps'[s])
        /\ c = "condition" => at'[s] \in 1..(Len(CurrentWorkflow(s)'.conditions) + 1)
    BY <1>3, <1>6, <2>2
  <2> QED
    BY <1>3, <2>1, <2>3 DEF ExecutionInv, ActedSoFar
<1>8. LeftBehindInv(s)'
  BY <1>1, <1>2 DEF LeftBehindInv
<1>9. pos'[s] >= pos[s]
  BY <1>1, <1>2 DEF RunsInv
<1> QED
  BY <1>1, <1>3, <1>4, <1>5, <1>7, <1>8, <1>9, QuietStep

(* An exception: of a write that fails, or at a definition that is not valid. *)
LEMMA ThrowKeeps ==
  ASSUME IInv, NEW s \in Run, pc[s] \in {"trigger", "condition", "action"}, Throws(s),
         \A p \in performed' \ performed : /\ p.run = s /\ p.place = pos[s]
                                           /\ p.workflow = CurrentWorkflow(s),
         environment.storageFails \/ ~ValidWorkflow(CurrentWorkflow(s))
  PROVE  IInv'
<1>1. /\ pc' = [pc EXCEPT ![s] = "aborted"]
      /\ UNCHANGED <<definitionVars, executions>>
      /\ event' = event /\ owner' = owner /\ queue' = queue /\ chosen' = chosen
      /\ pos' = pos /\ at' = at /\ steps' = steps
  BY DEF Throws, subjectVars
<1>2. RunsInv /\ PlaceInv(s) /\ ExecutionInv(s) /\ LeftBehindInv(s)
  BY DEF IInv
<1>3. OthersStay(s) /\ pc'[s] = "aborted"
  BY <1>1, <1>2 DEF RunsInv, OthersStay
<1>4. RunsInv'
  BY <1>1, <1>2 DEF RunsInv, Places
<1>5. PlaceInv(s)'
  BY <1>1, <1>2, <1>3 DEF PlaceInv
<1>6. ExecutionInv(s)'
  BY <1>3 DEF ExecutionInv
<1>7. LeftBehindInv(s)'
  BY <1>1, <1>2 DEF LeftBehindInv
<1>8. pos'[s] >= pos[s]
  BY <1>1, <1>2 DEF RunsInv
<1>9. CurrentWorkflow(s)' = CurrentWorkflow(s)
  BY <1>1 DEF CurrentWorkflow
<1>10. \A p \in performed' \ performed : PerformedInv(p)'
  <2>1. ASSUME NEW p \in performed' \ performed PROVE PerformedInv(p)'
    <3>1. pos[s] \in chosen[s]
      BY <1>2 DEF PlaceInv
    <3>2. UnderWay(p)'
      BY <1>1, <1>3, <1>9, <3>1 DEF UnderWay
    <3> QED
      BY <3>2 DEF PerformedInv
  <2> QED
    BY <2>1
<1> QED
  BY <1>1, <1>3, <1>4, <1>5, <1>6, <1>7, <1>8, <1>9, <1>10, QuietStep

(* One more action that answered: its step comes last.                      *)
LEMMA OneMoreStep ==
  ASSUME NEW w \in Workflow, NEW before \in Seq(Steps), ActedSoFar(w, before),
         NEW n \in 1..Len(w.actions), n = Len(before) + 1, NEW kind \in ActionKinds
  PROVE  LET taken == Append(before, Step(kind, w.actions[n].type))
         IN  /\ taken \in Seq(Steps) /\ Len(taken) = n
             /\ \A i \in 1..Len(before) : taken[i] = before[i]
             /\ taken[n] = Step(kind, w.actions[n].type)
             /\ \A i \in 1..n : taken[i].type = w.actions[i].type /\ taken[i].kind \in ActionKinds
<1> DEFINE one == Step(kind, w.actions[n].type)
           taken == Append(before, one)
<1>1. w.actions \in Seq([type : STRING, id : STRING])
  BY WorkflowAssumption
<1>2. one \in Steps
  BY <1>1, BindingsHaveTypes, ActionKindsAreKinds DEF Step, Steps
<1>3. one.type = w.actions[n].type /\ one.kind = kind
  BY DEF Step
<1> HIDE DEF one
<1>4. /\ taken \in Seq(Steps) /\ Len(taken) = n /\ Len(before) \in Nat
      /\ \A i \in 1..Len(before) : taken[i] = before[i]
      /\ taken[n] = one
  <2> HIDE DEF Steps
  <2> QED
    BY <1>2
<1> HIDE DEF taken
<1>5. \A i \in 1..n : taken[i].type = w.actions[i].type /\ taken[i].kind \in ActionKinds
  <2> SUFFICES ASSUME NEW i \in 1..n
               PROVE  taken[i].type = w.actions[i].type /\ taken[i].kind \in ActionKinds
    OBVIOUS
  <2>1. CASE i \in 1..Len(before)
    BY <1>4, <2>1 DEF ActedSoFar
  <2>2. CASE i = n
    BY <1>3, <1>4, <2>2
  <2> QED
    BY <1>4, <2>1, <2>2
<1> QED
  BY <1>4, <1>5 DEF taken, one

(* An action that was run, or the step of run s that writes its row.        *)
LEMMA ActionGoesOn ==
  ASSUME IInv, NEW s \in Run, pc[s] = "action",
         at[s] \in 1..Len(CurrentWorkflow(s).actions),
         NEW kind \in ActionKinds,
         kind = "action_failed" => CurrentWorkflow(s).errorMode = "continue",
         at' = [at EXCEPT ![s] = @ + 1],
         steps' = [steps EXCEPT ![s] = Append(@, Step(kind, CurrentWorkflow(s).actions[at[s]].type))],
         UNCHANGED <<definitionVars, pc, subjectVars, pos, executions>>,
         performed' = performed \cup {Performed(s)}
  PROVE  IInv'
<1> DEFINE w == CurrentWorkflow(s)
           type == w.actions[at[s]].type
           taken == Append(steps[s], Step(kind, type))
<1>1. /\ UNCHANGED <<definitionVars, executions>>
      /\ event' = event /\ owner' = owner /\ queue' = queue /\ chosen' = chosen
      /\ pc' = pc /\ pos' = pos
  BY DEF subjectVars
<1>2. RunsInv /\ PlaceInv(s) /\ ExecutionInv(s) /\ LeftBehindInv(s)
  BY DEF IInv
<1>3. at[s] = Len(steps[s]) + 1 /\ ActedSoFar(w, steps[s]) /\ steps[s] \in Seq(Steps)
  BY <1>2 DEF ExecutionInv, RunsInv
<1>4. w \in Workflow /\ w.actions \in Seq([type : STRING, id : STRING])
  <2>1. queue[s][pos[s]] \in Workflow
    BY <1>2 DEF PlaceInv, RunsInv
  <2> QED
    BY <2>1, WorkflowAssumption DEF CurrentWorkflow
<1>5. at[s] \in 1..Len(w.actions)
  OBVIOUS
<1>6. /\ taken \in Seq(Steps) /\ Len(taken) = at[s]
      /\ \A i \in 1..Len(steps[s]) : taken[i] = steps[s][i]
      /\ taken[at[s]] = Step(kind, type)
      /\ \A i \in 1..at[s] : taken[i].type = w.actions[i].type /\ taken[i].kind \in ActionKinds
      /\ Len(steps[s]) \in Nat
  BY <1>3, <1>4, <1>5, OneMoreStep
<1> HIDE DEF taken
<1>7. steps' = [steps EXCEPT ![s] = taken]
  BY DEF taken
<1>8. /\ OthersStay(s)
      /\ pc'[s] = "action" /\ at'[s] = at[s] + 1 /\ steps'[s] = taken
  BY <1>1, <1>2, <1>7 DEF RunsInv, OthersStay
<1>9. RunsInv'
  <2>1. at[s] + 1 \in Nat
    BY <1>2 DEF RunsInv
  <2>2. at' \in [Run -> Nat] /\ steps' \in [Run -> Seq(Steps)]
    BY <1>2, <1>6, <1>7, <2>1 DEF RunsInv
  <2> QED
    BY <1>1, <1>2, <2>2 DEF RunsInv
<1>10. PlaceInv(s)'
  BY <1>1, <1>2, <1>8 DEF PlaceInv
<1>11. ActedSoFar(w, taken)
  <2>1. Len(taken) =< Len(w.actions)
    BY <1>3, <1>6
  <2>2. ASSUME NEW i \in 1..Len(taken)
        PROVE  /\ taken[i].type = w.actions[i].type
               /\ taken[i].kind \in ActionKinds
               /\ w.errorMode = "stop" => taken[i].kind # "action_failed"
    <3>1. CASE i \in 1..Len(steps[s])
      BY <1>3, <1>6, <3>1 DEF ActedSoFar
    <3>2. CASE i = Len(steps[s]) + 1
      BY <1>3, <1>6, <3>2 DEF Step
    <3> QED
      BY <1>3, <1>6, <3>1, <3>2
  <2> QED
    BY <2>1, <2>2 DEF ActedSoFar
<1>12. CurrentWorkflow(s)' = w
  BY <1>1 DEF CurrentWorkflow
<1>13. ExecutionInv(s)'
  <2>1. ActedSoFar(CurrentWorkflow(s), steps[s])'
    BY <1>8, <1>11, <1>12 DEF ActedSoFar
  <2> QED
    BY <1>3, <1>6, <1>8, <2>1 DEF ExecutionInv
<1>14. LeftBehindInv(s)'
  BY <1>1, <1>2 DEF LeftBehindInv
<1>15. \A p \in performed' \ performed : PerformedInv(p)'
  <2>1. ASSUME NEW p \in performed' \ performed PROVE PerformedInv(p)'
    <3>1. p.run = s /\ p.place = pos[s] /\ p.workflow = w /\ p.action = at[s]
      BY <2>1 DEF Performed
    <3>2. pos[s] \in chosen[s]
      BY <1>2 DEF PlaceInv
    <3>3. p.action \in 1..Len(taken)
      BY <1>3, <1>6, <3>1
    <3>4. UnderWay(p)'
      BY <1>1, <1>8, <1>12, <3>1, <3>2, <3>3 DEF UnderWay
    <3> QED
      BY <3>1, <3>4 DEF PerformedInv
  <2> QED
    BY <2>1
<1>16. pos'[s] >= pos[s]
  BY <1>1, <1>2 DEF RunsInv
<1>17. \A n \in 1..Len(steps[s]) : n \in 1..Len(steps'[s])
  BY <1>6, <1>8
<1> QED
  BY <1>1, <1>8, <1>9, <1>10, <1>13, <1>14, <1>15, <1>16, <1>17, QuietStep

-----------------------------------------------------------------------------
(* The step that writes the row of an execution.                            *)

LEMMA RowSaved ==
  ASSUME IInv, NEW s \in Run, pc[s] \in {"trigger", "condition", "action"},
         NEW row, row.run = s, row.place = pos[s], row.workflow = CurrentWorkflow(s),
         TellsSteps(row),
         executions' = executions \cup {row},
         pc' = [pc EXCEPT ![s] = "next"],
         pos' = [pos EXCEPT ![s] = @ + 1],
         at' = [at EXCEPT ![s] = 1],
         steps' = [steps EXCEPT ![s] = <<>>],
         UNCHANGED <<definitionVars, subjectVars>>,
         pc[s] = "action" => /\ \A n \in 1..Len(steps[s]) : n \in DOMAIN row.steps
                             /\ \A n \in DOMAIN row.steps : row.steps[n].kind \in ActionKinds,
         \A p \in performed' \ performed : /\ pc[s] = "action" /\ p.run = s /\ p.place = pos[s]
                                           /\ p.workflow = CurrentWorkflow(s)
                                           /\ p.action \in DOMAIN row.steps,
         performed \subseteq performed'
  PROVE  IInv'
<1>1. /\ UNCHANGED definitionVars
      /\ event' = event /\ owner' = owner /\ queue' = queue /\ chosen' = chosen
  BY DEF subjectVars
<1>2. RunsInv /\ PlaceInv(s) /\ ExecutionInv(s) /\ LeftBehindInv(s)
  BY DEF IInv
<1>3. /\ OthersStay(s)
      /\ pc'[s] = "next" /\ pos'[s] = pos[s] + 1 /\ at'[s] = 1 /\ steps'[s] = <<>>
  BY <1>1, <1>2 DEF RunsInv, OthersStay
<1>4. pos[s] \in Nat /\ pos[s] \in chosen[s] /\ pos[s] \in 1..Len(queue[s])
  BY <1>2 DEF RunsInv, PlaceInv
<1>5. Len(queue[s]) \in Nat /\ chosen[s] \subseteq Nat
  BY <1>2 DEF RunsInv
<1>6. RunsInv'
  <2>1. pos' \in [Run -> Nat] /\ at' \in [Run -> Nat]
    BY <1>2, <1>4 DEF RunsInv
  <2>2. <<>> \in Seq(Steps)
    OBVIOUS
  <2>3. steps' \in [Run -> Seq(Steps)]
    BY <1>2, <2>2 DEF RunsInv
  <2>4. pc' \in [Run -> Places]
    BY <1>2 DEF RunsInv, Places, Suspended
  <2> QED
    BY <1>1, <1>2, <2>1, <2>3, <2>4 DEF RunsInv
<1>7. PlaceInv(s)'
  BY <1>1, <1>2, <1>3, <1>4, <1>5 DEF PlaceInv
<1>8. ExecutionInv(s)'
  BY <1>3 DEF ExecutionInv
<1>9. row.workflow = queue[s][pos[s]] /\ row.workflow \in Workflow
  BY <1>2, <1>4 DEF CurrentWorkflow, RunsInv
<1>10. LeftBehindInv(s)'
  <2>1. ASSUME NEW i \in chosen[s], i < pos[s] + 1
        PROVE  \E x \in executions' : x.run = s /\ x.place = i
    <3>1. CASE i < pos[s]
      BY <1>2, <3>1 DEF LeftBehindInv
    <3>2. CASE i = pos[s]
      BY <3>2
    <3> QED
      BY <1>4, <1>5, <2>1, <3>1, <3>2
  <2> QED
    BY <1>1, <1>3, <2>1 DEF LeftBehindInv
<1>11. \A x \in executions' : RowInv(x)'
  <2>1. pos'[s] \in Nat /\ pos'[s] >= pos[s]
    BY <1>3, <1>4
  <2>2. \A x \in executions : RowInv(x)'
    BY <1>1, <1>3, <2>1, OldRows
  <2>3. RowInv(row)'
    BY <1>1, <1>3, <1>4, <1>9 DEF RowInv
  <2> QED
    BY <2>2, <2>3
<1>12. OneRowEach'
  <2>1. \A x \in executions : x.run = s => x.place # row.place
    BY <1>4, <1>5 DEF IInv, RowInv
  <2> QED
    BY <2>1 DEF IInv, OneRowEach
<1>13. StatusTellsSteps'
  BY DEF IInv, StatusTellsSteps, TellsSteps
<1>14. \A p \in performed' : PerformedInv(p)'
  <2>1. ASSUME pc[s] = "action", NEW p, p.run = s, p.place = row.place,
               p.workflow = CurrentWorkflow(s), p.action \in DOMAIN row.steps
        PROVE  PerformedInv(p)'
    <3>1. Recorded(p)'
      BY <2>1 DEF Recorded, RowsOf, ActionKinds
    <3> QED
      BY <2>1, <3>1 DEF PerformedInv
  <2>2. ASSUME NEW p \in performed, Recorded(p) \/ p.run # s \/ pc[s] # "action"
        PROVE  PerformedInv(p)'
    <3>1. CASE Recorded(p)
      <4>1. Recorded(p)'
        BY <3>1 DEF Recorded, RowsOf
      <4> QED
        BY <4>1 DEF PerformedInv, IInv
    <3>2. CASE p.run # s \/ pc[s] # "action"
      BY <1>3, <3>2, OldPerformed
    <3> QED
      BY <2>2, <3>1, <3>2
  <2>3. ASSUME NEW p \in performed, ~Recorded(p), p.run = s, pc[s] = "action"
        PROVE  PerformedInv(p)'
    <3>1. UnderWay(p)
      BY <2>3 DEF IInv, PerformedInv
    <3>2. /\ p.place = row.place /\ p.workflow = CurrentWorkflow(s)
          /\ p.action \in DOMAIN row.steps
      BY <2>3, <3>1 DEF UnderWay
    <3> QED
      BY <2>1, <2>3, <3>2
  <2> QED
    BY <2>1, <2>2, <2>3
<1> QED
  BY <1>1, <1>3, <1>6, <1>7, <1>8, <1>10, <1>11, <1>12, <1>13, <1>14, StepOfOneRun

(* The end of an execution: its row is written, or the write fails.         *)
LEMMA ExecutionEndsKeeps ==
  ASSUME IInv, NEW s \in Run, pc[s] \in {"trigger", "condition", "action"},
         NEW status, NEW taken, ExecutionEnds(s, status, taken),
         TellsSteps(Row(s, status, taken)),
         pc[s] = "action" => /\ \A n \in 1..Len(steps[s]) : n \in DOMAIN taken
                             /\ \A n \in DOMAIN taken : taken[n].kind \in ActionKinds,
         \A p \in performed' \ performed : /\ pc[s] = "action" /\ p.run = s /\ p.place = pos[s]
                                           /\ p.workflow = CurrentWorkflow(s)
                                           /\ p.action \in DOMAIN taken,
         performed \subseteq performed'
  PROVE  IInv'
<1> DEFINE row == Row(s, status, taken)
<1>1. CASE environment.storageFails /\ Throws(s)
  BY <1>1, ThrowKeeps
<1>2. CASE ~(environment.storageFails /\ Throws(s))
  <2>1. /\ executions' = executions \cup {row}
        /\ pc' = [pc EXCEPT ![s] = "next"]
        /\ pos' = [pos EXCEPT ![s] = @ + 1]
        /\ at' = [at EXCEPT ![s] = 1]
        /\ steps' = [steps EXCEPT ![s] = <<>>]
        /\ UNCHANGED <<definitionVars, subjectVars>>
    BY <1>2 DEF ExecutionEnds
  <2>2. /\ row.run = s /\ row.place = pos[s] /\ row.workflow = CurrentWorkflow(s)
        /\ row.steps = taken /\ TellsSteps(row)
    BY DEF Row
  <2> HIDE DEF row
  <2> QED
    BY <2>1, <2>2, RowSaved
<1> QED
  BY <1>1, <1>2

(* An execution that ends before its first action.                          *)
LEMMA MismatchOrErrorKeeps ==
  ASSUME IInv, NEW s \in Run, pc[s] \in {"trigger", "condition"},
         NEW status, NEW kind, NEW type, ExecutionEnds(s, status, <<Step(kind, type)>>),
         \/ status = "skipped" /\ kind \in {"trigger_not_matched", "condition_failed"}
         \/ status = "failed" /\ kind \in {"trigger_error", "condition_error"},
         performed' = performed
  PROVE  IInv'
<1> DEFINE taken == <<Step(kind, type)>>
           row == Row(s, status, taken)
<1>1. Len(taken) = 1 /\ taken[1].kind = kind
  BY DEF Step
<1>2. row.status = status /\ row.steps = taken
  BY DEF Row
<1>3. TellsSteps(row)
  <2> HIDE DEF taken, row
  <2> QED
    BY <1>1, <1>2 DEF TellsSteps
<1> QED
  BY <1>3, ExecutionEndsKeeps

(* The workflow of an execution under way.                                  *)
LEMMA CurrentIsWorkflow ==
  ASSUME IInv, NEW s \in Run, pc[s] \in {"trigger", "condition", "action"}
  PROVE  /\ CurrentWorkflow(s) \in Workflow
         /\ CurrentWorkflow(s).conditions \in Seq(STRING)
         /\ CurrentWorkflow(s).actions \in Seq([type : STRING, id : STRING])
         /\ CurrentWorkflow(s).errorMode \in {"stop", "continue"}
<1>1. queue[s][pos[s]] \in Workflow
  BY DEF IInv, PlaceInv, RunsInv
<1> QED
  BY <1>1, WorkflowAssumption DEF CurrentWorkflow

LEMMA TriggerAnswersKeeps ==
  ASSUME IInv, NEW s \in Run, TriggerAnswers(s)
  PROVE  IInv'
<1>1. pc[s] = "trigger" /\ performed' = performed
  BY DEF TriggerAnswers
<1>2. CASE /\ pc' = [pc EXCEPT ![s] = "condition"]
           /\ UNCHANGED <<definitionVars, subjectVars, pos, at, steps, executions>>
  <2>1. at = [at EXCEPT ![s] = 1]
    BY <1>1 DEF IInv, RunsInv, ExecutionInv
  <2>2. at' = [at EXCEPT ![s] = 1]
    BY <1>2, <2>1
  <2>3. Len(CurrentWorkflow(s).conditions) \in Nat
    BY <1>1, CurrentIsWorkflow
  <2>4. 1 \in 1..(Len(CurrentWorkflow(s).conditions) + 1) /\ 1 \in Nat \ {0}
    BY <2>3
  <2>5. UNCHANGED <<definitionVars, subjectVars, pos, steps, executions, performed>>
    BY <1>1, <1>2
  <2> QED
    BY <1>1, <1>2, <2>2, <2>4, <2>5, AwaitKeeps
<1>3. CASE ExecutionEnds(s, "skipped", <<Step("trigger_not_matched", "")>>)
  BY <1>1, <1>3, MismatchOrErrorKeeps
<1>4. CASE ExecutionEnds(s, "failed", <<Step("trigger_error", CurrentWorkflow(s).trigger)>>)
  BY <1>1, <1>4, MismatchOrErrorKeeps
<1> QED
  BY <1>2, <1>3, <1>4 DEF TriggerAnswers

LEMMA ConditionAnswersKeeps ==
  ASSUME IInv, NEW s \in Run, ConditionAnswers(s)
  PROVE  IInv'
<1> DEFINE type == CurrentWorkflow(s).conditions[at[s]]
<1>1. /\ pc[s] = "condition" /\ performed' = performed
      /\ at[s] \in DOMAIN CurrentWorkflow(s).conditions
  BY DEF ConditionAnswers
<1>2. CASE /\ at' = [at EXCEPT ![s] = @ + 1]
           /\ UNCHANGED <<definitionVars, pc, subjectVars, pos, steps, executions>>
  <2>1. Len(CurrentWorkflow(s).conditions) \in Nat /\ at[s] \in 1..Len(CurrentWorkflow(s).conditions)
    BY <1>1, CurrentIsWorkflow
  <2>2. at[s] + 1 \in Nat \ {0} /\ at[s] + 1 \in 1..(Len(CurrentWorkflow(s).conditions) + 1)
    BY <2>1
  <2>3. pc' = [pc EXCEPT ![s] = "condition"]
    BY <1>1, <1>2 DEF IInv, RunsInv
  <2>4. at' = [at EXCEPT ![s] = at[s] + 1]
    BY <1>2
  <2>5. UNCHANGED <<definitionVars, subjectVars, pos, steps, executions, performed>>
    BY <1>1, <1>2
  <2> QED
    BY <1>1, <2>2, <2>3, <2>4, <2>5, AwaitKeeps
<1>3. CASE ExecutionEnds(s, "skipped", <<Step("condition_failed", type)>>)
  BY <1>1, <1>3, MismatchOrErrorKeeps
<1>4. CASE ExecutionEnds(s, "failed", <<Step("condition_error", type)>>)
  BY <1>1, <1>4, MismatchOrErrorKeeps
<1>5. CASE type \notin KnownConditions /\ Throws(s)
  <2>1. ~ValidWorkflow(CurrentWorkflow(s))
    BY <1>1, <1>5 DEF ValidWorkflow
  <2> QED
    BY <1>1, <1>5, <2>1, ThrowKeeps
<1> QED
  BY <1>2, <1>3, <1>4, <1>5 DEF ConditionAnswers

LEMMA ConditionsHoldKeeps ==
  ASSUME IInv, NEW s \in Run, ConditionsHold(s)
  PROVE  IInv'
<1>1. /\ pc[s] = "condition"
      /\ pc' = [pc EXCEPT ![s] = "action"]
      /\ at' = [at EXCEPT ![s] = 1]
      /\ UNCHANGED <<definitionVars, subjectVars, pos, steps, executions, performed>>
  BY DEF ConditionsHold, historyVars
<1>2. 1 \in Nat \ {0}
  OBVIOUS
<1> QED
  BY <1>1, <1>2, AwaitKeeps

LEMMA ActionAnswersKeeps ==
  ASSUME IInv, NEW s \in Run, ActionAnswers(s)
  PROVE  IInv'
<1> DEFINE w == CurrentWorkflow(s)
           type == w.actions[at[s]].type
           p == Performed(s)
<1>1. pc[s] = "action" /\ at[s] \in DOMAIN w.actions
  BY DEF ActionAnswers
<1>2. /\ w \in Workflow /\ w.actions \in Seq([type : STRING, id : STRING])
      /\ w.errorMode \in {"stop", "continue"}
  BY <1>1, CurrentIsWorkflow
<1>3. at[s] \in 1..Len(w.actions)
  BY <1>1, <1>2
<1>4. CASE type \notin KnownActions /\ Throws(s) /\ UNCHANGED performed
  <2>1. ~ValidWorkflow(w)
    BY <1>1, <1>4 DEF ValidWorkflow
  <2> QED
    BY <1>1, <1>4, <2>1, ThrowKeeps
<1>5. ASSUME NEW ok \in BOOLEAN, performed' = performed \cup {p},
             ActionEnds(s, Append(steps[s], Step(IF ok THEN "action_ok" ELSE "action_failed", type)), ok)
      PROVE  IInv'
  <2> DEFINE kind == IF ok THEN "action_ok" ELSE "action_failed"
             taken == Append(steps[s], Step(kind, type))
  <2>1. kind \in ActionKinds
    BY DEF ActionKinds
  <2>2. CASE ok \/ w.errorMode = "continue"
    <3>1. /\ at' = [at EXCEPT ![s] = @ + 1]
          /\ steps' = [steps EXCEPT ![s] = taken]
          /\ UNCHANGED <<definitionVars, pc, subjectVars, pos, executions>>
      BY <1>5, <2>2 DEF ActionEnds
    <3>2. kind = "action_failed" => w.errorMode = "continue"
      BY <2>2
    <3>3. steps' = [steps EXCEPT ![s] = Append(@, Step(kind, type))]
      BY <3>1
    <3> HIDE DEF kind
    <3> QED
      BY <1>1, <1>3, <1>5, <2>1, <3>1, <3>2, <3>3, ActionGoesOn
  <2>3. CASE ~ok /\ w.errorMode # "continue"
    <3>1. ExecutionEnds(s, "failed", taken) /\ kind = "action_failed" /\ w.errorMode = "stop"
      BY <1>2, <1>5, <2>3 DEF ActionEnds
    <3>2. /\ steps[s] \in Seq(Steps) /\ ActedSoFar(w, steps[s]) /\ at[s] = Len(steps[s]) + 1
      BY <1>1 DEF IInv, RunsInv, ExecutionInv
    <3> HIDE DEF kind
    <3>3. /\ taken \in Seq(Steps) /\ Len(taken) = at[s]
          /\ \A i \in 1..Len(steps[s]) : taken[i] = steps[s][i]
          /\ taken[at[s]] = Step(kind, type)
          /\ \A i \in 1..at[s] : taken[i].type = w.actions[i].type /\ taken[i].kind \in ActionKinds
      BY <1>2, <1>3, <2>1, <3>2, OneMoreStep
    <3> HIDE DEF taken
    <3>4. StepTypes(taken) = SubSeq(ActionTypes(w), 1, Len(taken))
      BY <1>2, <1>3, <3>3, ActedTells
    <3>5. Failures(taken) = {Len(taken)}
      <4>1. \A i \in 1..Len(steps[s]) : taken[i].kind # "action_failed"
        BY <3>1, <3>2, <3>3 DEF ActedSoFar
      <4>2. taken[at[s]].kind = "action_failed"
        BY <3>1, <3>3 DEF Step
      <4>3. DOMAIN taken = 1..at[s] /\ Len(steps[s]) \in Nat
        BY <3>2, <3>3
      <4> QED
        BY <3>2, <3>3, <4>1, <4>2, <4>3 DEF Failures
    <3>6. TellsSteps(Row(s, "failed", taken))
      <4> DEFINE row == Row(s, "failed", taken)
      <4>1. row.workflow = w /\ row.status = "failed" /\ row.steps = taken
        BY DEF Row
      <4> HIDE DEF row
      <4>2. TellsSteps(row)
        BY <3>1, <3>4, <3>5, <4>1 DEF TellsSteps
      <4> QED
        BY <4>2 DEF row
    <3>7. /\ DOMAIN taken = 1..at[s]
          /\ \A n \in 1..Len(steps[s]) : n \in DOMAIN taken
          /\ \A n \in DOMAIN taken : taken[n].kind \in ActionKinds
      BY <3>2, <3>3
    <3>8. \A q \in performed' \ performed : /\ q.run = s /\ q.place = pos[s] /\ q.workflow = w
                                            /\ q.action \in DOMAIN taken
      BY <1>3, <1>5, <3>7 DEF Performed
    <3>9. performed \subseteq performed'
      BY <1>5
    <3> QED
      BY <1>1, <3>1, <3>6, <3>7, <3>8, <3>9, ExecutionEndsKeeps
  <2> QED
    BY <2>2, <2>3
<1> QED
  BY <1>4, <1>5 DEF ActionAnswers

LEMMA ActionsEndKeeps ==
  ASSUME IInv, NEW s \in Run, ActionsEnd(s)
  PROVE  IInv'
<1> DEFINE w == CurrentWorkflow(s)
           taken == steps[s]
<1>1. /\ pc[s] = "action" /\ at[s] \notin DOMAIN w.actions
      /\ ExecutionEnds(s, "completed", taken) /\ performed' = performed
  BY DEF ActionsEnd
<1>2. w \in Workflow /\ w.actions \in Seq([type : STRING, id : STRING])
  BY <1>1, CurrentIsWorkflow
<1>3. taken \in Seq(Steps) /\ ActedSoFar(w, taken) /\ at[s] = Len(taken) + 1
  BY <1>1 DEF IInv, RunsInv, ExecutionInv
<1>4. Len(taken) = Len(w.actions)
  <2>1. Len(taken) \in Nat /\ Len(w.actions) \in Nat /\ DOMAIN w.actions = 1..Len(w.actions)
    BY <1>2, <1>3
  <2> QED
    BY <1>1, <1>3, <2>1 DEF ActedSoFar
<1>5. DOMAIN taken = 1..Len(taken)
  BY <1>3
<1> HIDE DEF taken
<1>6. StepTypes(taken) = SubSeq(ActionTypes(w), 1, Len(taken))
  BY <1>2, <1>3, ActedTells DEF ActedSoFar
<1>7. w.errorMode = "stop" => Failures(taken) = {}
  BY <1>3, <1>5 DEF Failures, ActedSoFar
<1>8. TellsSteps(Row(s, "completed", taken))
  <2> DEFINE row == Row(s, "completed", taken)
  <2>1. row.workflow = w /\ row.status = "completed" /\ row.steps = taken
    BY DEF Row
  <2> HIDE DEF row
  <2>2. TellsSteps(row)
    BY <1>4, <1>6, <1>7, <2>1 DEF TellsSteps
  <2> QED
    BY <2>2 DEF row
<1>9. \A n \in DOMAIN taken : taken[n].kind \in ActionKinds
  BY <1>3, <1>5 DEF ActedSoFar
<1> QED
  BY <1>1, <1>5, <1>8, <1>9, ExecutionEndsKeeps DEF taken

-----------------------------------------------------------------------------
(* The steps of the registry, which leave the runs alone.                   *)

LEMMA RunsUnaffected ==
  ASSUME IInv, SurroundingsInv', environment' = environment, UNCHANGED <<runVars, historyVars>>
  PROVE  IInv'
<1>1. /\ pc' = pc /\ event' = event /\ owner' = owner /\ queue' = queue /\ chosen' = chosen
      /\ pos' = pos /\ at' = at /\ steps' = steps
      /\ executions' = executions /\ performed' = performed
  BY DEF runVars, subjectVars, historyVars
<1>2. RunsInv'
  BY <1>1 DEF IInv, RunsInv
<1>3. \A r \in Run : PlaceInv(r)' /\ ExecutionInv(r)' /\ LeftBehindInv(r)'
  BY <1>1 DEF IInv, PlaceInv, Ahead, ExecutionInv, CurrentWorkflow, LeftBehindInv
<1>4. (\A x \in executions : RowInv(x))' /\ OneRowEach' /\ StatusTellsSteps'
  BY <1>1 DEF IInv, RowInv, OneRowEach, StatusTellsSteps
<1>5. (\A p \in performed : PerformedInv(p))'
  BY <1>1 DEF IInv, PerformedInv, Recorded, RowsOf, UnderWay, CurrentWorkflow
<1>6. OnlyInvalidAbort'
  BY <1>1 DEF IInv, OnlyInvalidAbort, CurrentWorkflow
<1> QED
  BY <1>2, <1>3, <1>4, <1>5, <1>6 DEF IInv

(* Saving a definition keeps ids unique.                                   *)
LEMMA UniqueIdsKept ==
  ASSUME NEW rows, NEW d, UniqueIds(rows)
  PROVE  UniqueIds(Saved(rows, d))
BY DEF UniqueIds, Saved

LEMMA RegisterKeeps == ASSUME IInv, Register PROVE IInv'
<1>1. SurroundingsInv
  BY DEF IInv
<1>2. /\ environment.configured \in Seq(Workflow)
      /\ \A w \in table : w \in Workflow /\ w.id \in Nat
  BY <1>1, WorkflowAssumption DEF SurroundingsInv
<1>3. PICK list :
        /\ registry' = [registry EXCEPT ![instance + 1] = list]
        /\ list \in Seq(Workflow) /\ table' \subseteq Workflow /\ UniqueIds(table')
        /\ Mirrors(list, table', environment.configured)
        /\ \A w \in Workflow : Repeats(list, w.id) => Repeats(environment.configured, w.id)
  <2>1. CASE table # {}
    <3>1. PICK list \in Listings(table) : registry' = [registry EXCEPT ![instance + 1] = list]
      BY <2>1 DEF Register
    <3>2. table' = table
      BY <2>1 DEF Register
    <3>3. list \in Seq(Workflow) /\ ToSet(list) = table /\ \A id : ~Repeats(list, id)
      <4>1. table \in SUBSET Workflow
        BY <1>2
      <4> QED
        BY <1>2, <4>1, ListingIsTheTable
    <3>4. UniqueIds(table)
      BY <1>1 DEF SurroundingsInv, RegistryMirrorsTable
    <3> QED
      BY <1>2, <3>1, <3>2, <3>3, <3>4 DEF Mirrors
  <2>2. CASE table = {}
    <3>1. /\ registry' = [registry EXCEPT ![instance + 1] = environment.configured]
          /\ table' = Seeded(environment.configured)
      BY <2>2 DEF Register
    <3>2. /\ UniqueIds(Seeded(environment.configured))
          /\ Seeded(environment.configured) \subseteq ToSet(environment.configured)
          /\ Mirrors(environment.configured, Seeded(environment.configured), environment.configured)
      BY <1>2, SeededRows DEF Mirrors
    <3>3. ToSet(environment.configured) \subseteq Workflow
      BY <1>2 DEF ToSet
    <3> QED
      BY <1>2, <3>1, <3>2, <3>3
  <2> QED
    BY <2>1, <2>2
<1>4. /\ instance < environment.instances
      /\ mode' = "running" /\ instance' = instance + 1 /\ environment' = environment
      /\ UNCHANGED <<runVars, historyVars>>
  BY DEF Register
<1>5. instance \in Nat /\ environment.instances \in 0..MaxInstances /\ MaxInstances \in Nat
  BY <1>1, WorkflowAssumption DEF SurroundingsInv
<1>6. instance + 1 \in Instance /\ instance' \in 0..MaxInstances /\ instance' # 0
  BY <1>4, <1>5 DEF Instance
<1>7. /\ registry' \in [Instance -> Seq(Workflow)]
      /\ registry'[instance'] = list
      /\ \A i \in Instance : i # instance' => registry'[i] = registry[i]
  BY <1>1, <1>3, <1>4, <1>6 DEF SurroundingsInv
<1>8. NewIdsRepeatNone'
  BY <1>1, <1>3, <1>4, <1>7 DEF SurroundingsInv, NewIdsRepeatNone
<1>9. RegistryMirrorsTable'
  BY <1>3, <1>4, <1>7 DEF RegistryMirrorsTable
<1>10. SurroundingsInv'
  BY <1>1, <1>3, <1>4, <1>6, <1>7, <1>8, <1>9 DEF SurroundingsInv
<1> QED
  BY <1>4, <1>10, RunsUnaffected

LEMMA SeedInterruptedKeeps == ASSUME IInv, SeedInterrupted PROVE IInv'
<1>1. PICK n \in 0..Len(environment.configured) :
        table' = Seeded(SubSeq(environment.configured, 1, n))
  BY DEF SeedInterrupted
<1>2. /\ mode # "running" /\ mode' = mode /\ instance' = instance /\ registry' = registry
      /\ environment' = environment /\ UNCHANGED <<runVars, historyVars>>
  BY DEF SeedInterrupted
<1>3. SurroundingsInv
  BY DEF IInv
<1>4. environment.configured \in Seq(Workflow)
  BY <1>3, WorkflowAssumption DEF SurroundingsInv
<1>5. SubSeq(environment.configured, 1, n) \in Seq(Workflow)
  BY <1>4
<1>6. PICK list \in Seq(Workflow) : list = SubSeq(environment.configured, 1, n)
  BY <1>5
<1>7. /\ UniqueIds(Seeded(list)) /\ Seeded(list) \subseteq ToSet(list)
      /\ ToSet(list) \subseteq Workflow
  BY SeededRows DEF ToSet
<1>8. table' \subseteq Workflow /\ UniqueIds(table')
  BY <1>1, <1>6, <1>7
<1>9. SurroundingsInv'
  BY <1>2, <1>3, <1>8 DEF SurroundingsInv, NewIdsRepeatNone, RegistryMirrorsTable
<1> QED
  BY <1>2, <1>9, RunsUnaffected

LEMMA StopKeeps == ASSUME IInv, Stop PROVE IInv'
<1>1. SurroundingsInv'
  BY DEF IInv, SurroundingsInv, NewIdsRepeatNone, RegistryMirrorsTable, Stop
<1> QED
  BY <1>1, RunsUnaffected DEF Stop

LEMMA UpsertKeeps == ASSUME IInv, NEW w \in Workflow, Upsert(w) PROVE IInv'
<1> DEFINE old == registry[instance]
           new == Upserted(old, w)
<1>1. /\ mode = "running" /\ mode' = mode /\ instance' = instance /\ environment' = environment
      /\ registry' = [registry EXCEPT ![instance] = new]
      /\ UNCHANGED <<runVars, historyVars>>
  BY DEF Upsert
<1>2. /\ table' = Saved(table, w) \/ table' = table
      /\ ~environment.storageFails => table' = Saved(table, w)
  BY DEF Upsert, StorageOutcome
<1>3. SurroundingsInv
  BY DEF IInv
<1>4. instance \in Instance
  BY <1>1, <1>3, WorkflowAssumption DEF SurroundingsInv, Instance
<1>5. /\ old \in Seq(Workflow)
      /\ \A r \in ToSet(old) : Repeats(old, r.id) => Repeats(environment.configured, r.id)
  BY <1>3, <1>4 DEF SurroundingsInv, NewIdsRepeatNone, ToSet
<1>6. /\ new \in Seq(Workflow)
      /\ \A i, j \in DOMAIN new : new[i].id = new[j].id /\ i # j => Repeats(old, new[i].id)
      /\ Mirrors(old, table, environment.configured)
           => Mirrors(new, Saved(table, w), environment.configured)
  BY <1>5, UpsertedList, UpsertMirrors
<1> HIDE DEF new
<1>7. registry' \in [Instance -> Seq(Workflow)] /\ registry'[instance] = new
  BY <1>1, <1>3, <1>4, <1>6 DEF SurroundingsInv
<1>8. NewIdsRepeatNone'
  <2>1. ASSUME NEW x \in Workflow, Repeats(new, x.id) PROVE Repeats(environment.configured, x.id)
    <3>1. PICK i \in DOMAIN new, j \in DOMAIN new : i # j /\ new[i].id = x.id /\ new[j].id = x.id
      BY <2>1 DEF Repeats
    <3>2. Repeats(old, x.id)
      BY <1>6, <3>1
    <3> QED
      BY <1>3, <1>4, <3>2 DEF SurroundingsInv, NewIdsRepeatNone
  <2>2. \A i \in Instance : i # instance => registry'[i] = registry[i]
    BY <1>1, <1>3 DEF SurroundingsInv
  <2> QED
    BY <1>1, <1>3, <1>7, <2>1, <2>2 DEF SurroundingsInv, NewIdsRepeatNone
<1>9. table' \subseteq Workflow
  BY <1>2, <1>3 DEF SurroundingsInv, Saved
<1>10. RegistryMirrorsTable'
  <2>1. UniqueIds(table')
    BY <1>2, <1>3, UniqueIdsKept DEF SurroundingsInv, RegistryMirrorsTable
  <2> QED
    BY <1>1, <1>2, <1>3, <1>6, <1>7, <2>1 DEF SurroundingsInv, RegistryMirrorsTable
<1>11. SurroundingsInv'
  BY <1>1, <1>3, <1>7, <1>8, <1>9, <1>10 DEF SurroundingsInv
<1> QED
  BY <1>1, <1>11, RunsUnaffected

(* The end of the process loses the runs that are suspended.                *)
LEMMA ProcessEndsKeeps == ASSUME IInv, ProcessEnds PROVE IInv'
<1>1. /\ mode' = "down"
      /\ pc' = [r \in Run |-> IF pc[r] \in Suspended THEN "lost" ELSE pc[r]]
      /\ environment' = environment /\ instance' = instance
      /\ registry' = registry /\ table' = table
      /\ event' = event /\ owner' = owner /\ queue' = queue /\ chosen' = chosen
      /\ pos' = pos /\ at' = at /\ steps' = steps
      /\ executions' = executions /\ performed' = performed
  BY DEF ProcessEnds, subjectVars, historyVars
<1>2. SurroundingsInv'
  BY <1>1 DEF IInv, SurroundingsInv, NewIdsRepeatNone, RegistryMirrorsTable
<1>3. \A r \in Run : pc'[r] = "lost" \/ pc'[r] = pc[r]
  BY <1>1
<1>4. RunsInv'
  BY <1>1 DEF IInv, RunsInv, Places
<1>5. \A r \in Run : Ahead(r)' = Ahead(r) /\ CurrentWorkflow(r)' = CurrentWorkflow(r)
  BY <1>1 DEF Ahead, CurrentWorkflow
<1>6. ASSUME NEW r \in Run PROVE PlaceInv(r)' /\ ExecutionInv(r)' /\ LeftBehindInv(r)'
  <2>1. PlaceInv(r) /\ ExecutionInv(r) /\ LeftBehindInv(r)
    BY DEF IInv
  <2>2. PlaceInv(r)'
    BY <1>1, <1>3, <1>5, <2>1 DEF PlaceInv
  <2>3. ExecutionInv(r)'
    BY <1>1, <1>3, <1>5, <2>1 DEF ExecutionInv
  <2>4. LeftBehindInv(r)'
    BY <1>1, <2>1 DEF LeftBehindInv
  <2> QED
    BY <2>2, <2>3, <2>4
<1>7. (\A x \in executions : RowInv(x))' /\ OneRowEach' /\ StatusTellsSteps'
  BY <1>1 DEF IInv, RowInv, OneRowEach, StatusTellsSteps
<1>8. (\A p \in performed : PerformedInv(p))'
  <2> SUFFICES ASSUME NEW p \in performed PROVE PerformedInv(p)'
    BY <1>1
  <2>1. p.run \in Run /\ (Recorded(p) \/ UnderWay(p))
    BY DEF IInv, PerformedInv
  <2>2. Recorded(p) => Recorded(p)'
    BY <1>1 DEF Recorded, RowsOf
  <2>3. UnderWay(p) => UnderWay(p)'
    BY <1>1, <1>3, <1>5, <2>1 DEF UnderWay
  <2> QED
    BY <2>1, <2>2, <2>3 DEF PerformedInv
<1>9. OnlyInvalidAbort'
  BY <1>1, <1>3, <1>5 DEF IInv, OnlyInvalidAbort
<1> QED
  BY <1>2, <1>4, <1>6, <1>7, <1>8, <1>9 DEF IInv

-----------------------------------------------------------------------------
(* The invariant, and the theorems.                                         *)

LEMMA InitIInv == Init => IInv
<1> SUFFICES ASSUME Init PROVE IInv
  OBVIOUS
<1>1. SurroundingsInv
  <2>1. 0 \in 0..MaxInstances
    BY WorkflowAssumption
  <2>2. NewIdsRepeatNone /\ RegistryMirrorsTable
    BY DEF Init, NewIdsRepeatNone, Repeats, RegistryMirrorsTable, UniqueIds
  <2> QED
    BY <2>1, <2>2 DEF Init, SurroundingsInv
<1>2. RunsInv
  <2>1. 0 \in 0..MaxInstances
    BY WorkflowAssumption
  <2> QED
    BY <2>1 DEF Init, RunsInv, Places
<1>3. \A r \in Run : PlaceInv(r) /\ ExecutionInv(r) /\ LeftBehindInv(r)
  BY DEF Init, PlaceInv, ExecutionInv, LeftBehindInv
<1>4. OneRowEach /\ StatusTellsSteps /\ OnlyInvalidAbort
  BY DEF Init, OneRowEach, StatusTellsSteps, OnlyInvalidAbort
<1> QED
  BY <1>1, <1>2, <1>3, <1>4 DEF IInv, Init

LEMMA NextIInv == IInv /\ [Next]_vars => IInv'
<1> SUFFICES ASSUME IInv, [Next]_vars PROVE IInv'
  OBVIOUS
<1>1. CASE UNCHANGED vars
  <2>1. environment' = environment /\ UNCHANGED <<runVars, historyVars>>
    BY <1>1 DEF vars, definitionVars
  <2>2. SurroundingsInv'
    BY <1>1 DEF vars, definitionVars, IInv, SurroundingsInv, NewIdsRepeatNone, RegistryMirrorsTable
  <2> QED
    BY <2>1, <2>2, RunsUnaffected
<1>2. CASE Register
  BY <1>2, RegisterKeeps
<1>3. CASE SeedInterrupted
  BY <1>3, SeedInterruptedKeeps
<1>4. CASE Stop
  BY <1>4, StopKeeps
<1>5. CASE ProcessEnds
  BY <1>5, ProcessEndsKeeps
<1>6. ASSUME NEW w \in Workflow, Upsert(w) PROVE IInv'
  BY <1>6, UpsertKeeps
<1>7. ASSUME NEW r \in Run, NEW e \in Event, Publish(r, e) PROVE IInv'
  BY <1>7, PublishKeeps
<1>8. ASSUME NEW r \in Run, NEW w \in Workflow, NEW e \in Event, TestWorkflow(r, w, e) PROVE IInv'
  BY <1>8, TestWorkflowKeeps
<1>9. ASSUME NEW r \in Run, RunStep(r) PROVE IInv'
  BY <1>9, SubscriberKeeps, RunEndsKeeps, ExecuteBeginsKeeps, TriggerAnswersKeeps,
     ConditionAnswersKeeps, ConditionsHoldKeeps, ActionAnswersKeeps, ActionsEndKeeps DEF RunStep
<1> QED
  BY <1>1, <1>2, <1>3, <1>4, <1>5, <1>6, <1>7, <1>8, <1>9 DEF Next

LEMMA SpecIInv == Spec => []IInv
BY InitIInv, NextIInv, PTL DEF Spec

(* Every variable of the workflow runtime keeps its type: a run stands at a *)
(* workflow it has chosen, at a condition or an action of it.               *)
THEOREM TypeCorrect == Spec => []TypeOK
<1>1. IInv => TypeOK
  <2> SUFFICES ASSUME IInv PROVE TypeOK
    OBVIOUS
  <2>1. /\ environment \in Environments
        /\ mode \in {"down", "running", "stopped"}
        /\ instance \in 0..MaxInstances
        /\ mode # "down" => instance # 0
        /\ DOMAIN registry = Instance
        /\ \A i \in Instance : registry[i] \in Seq(Workflow)
        /\ table \in SUBSET Workflow
    BY DEF IInv, SurroundingsInv
  <2>2. /\ pc \in [Run -> Suspended \cup {"free", "done", "aborted", "lost"}]
        /\ event \in [Run -> Event \cup {NoRun}]
        /\ owner \in [Run -> 0..MaxInstances]
    BY DEF IInv, RunsInv, Places
  <2>3. ASSUME NEW r \in Run
        PROVE  /\ queue[r] \in Seq(Workflow)
               /\ pos[r] \in 1..(Len(queue[r]) + 1)
               /\ chosen[r] \subseteq DOMAIN queue[r]
               /\ pc[r] \in {"trigger", "condition", "action"} => pos[r] \in chosen[r]
    BY DEF IInv, RunsInv, PlaceInv
  <2>4. ASSUME NEW r \in Run, pc[r] = "action"
        PROVE  /\ at[r] \in 1..(Len(CurrentWorkflow(r).actions) + 1)
               /\ Len(steps[r]) = at[r] - 1
    <3>1. at[r] = Len(steps[r]) + 1 /\ Len(steps[r]) =< Len(CurrentWorkflow(r).actions)
      BY <2>4 DEF IInv, ExecutionInv, ActedSoFar
    <3>2. Len(steps[r]) \in Nat /\ Len(CurrentWorkflow(r).actions) \in Nat
      BY <2>4, CurrentIsWorkflow DEF IInv, RunsInv
    <3> QED
      BY <3>1, <3>2
  <2>5. \A r \in Run :
          pc[r] = "condition" => at[r] \in 1..(Len(CurrentWorkflow(r).conditions) + 1)
    BY DEF IInv, ExecutionInv
  <2>6. \A x \in executions : x.run \in Run /\ x.workflow \in Workflow
    BY DEF IInv, RowInv
  <2> QED
    BY <2>1, <2>2, <2>3, <2>4, <2>5, <2>6 DEF TypeOK
<1> QED
  BY <1>1, SpecIInv, PTL

(* A run of the subscriber leaves exactly one row for each workflow it has  *)
(* left behind, whatever is upserted, stopped or reloaded meanwhile.        *)
THEOREM HistoriesAreComplete == Spec => []HistoryComplete
<1>1. IInv => HistoryComplete
  <2> SUFFICES ASSUME IInv, NEW r \in Run
               PROVE  /\ {x.place : x \in RowsOf(r)} = {i \in chosen[r] : i < pos[r]}
                      /\ \A x \in RowsOf(r) : x.workflow = queue[r][x.place]
                      /\ \A x, y \in RowsOf(r) : x.place = y.place => x = y
                      /\ pc[r] = "done" => Ahead(r) = {}
    BY DEF HistoryComplete
  <2>1. \A x \in RowsOf(r) : /\ x.place \in chosen[r] /\ x.place < pos[r]
                             /\ x.workflow = queue[r][x.place]
    BY DEF IInv, RowInv, RowsOf
  <2>2. \A i \in chosen[r] : i < pos[r] => \E x \in RowsOf(r) : x.place = i
    BY DEF IInv, LeftBehindInv, RowsOf
  <2>3. {x.place : x \in RowsOf(r)} = {i \in chosen[r] : i < pos[r]}
    BY <2>1, <2>2
  <2>4. \A x, y \in RowsOf(r) : x.place = y.place => x = y
    BY DEF IInv, OneRowEach, RowsOf
  <2>5. pc[r] = "done" => Ahead(r) = {}
    BY DEF IInv, PlaceInv
  <2> QED
    BY <2>1, <2>3, <2>4, <2>5
<1> QED
  BY <1>1, SpecIInv, PTL

(* The status of a row agrees with its steps and with the definition that   *)
(* execute() was given.                                                     *)
THEOREM RowsTellWhatHappened == Spec => []StatusTellsSteps
<1>1. IInv => StatusTellsSteps
  BY DEF IInv
<1> QED
  BY <1>1, SpecIInv, PTL

(* Every action that execute() ran is a step of a row, or its execution is  *)
(* under way, or an exception or the end of the process took it.            *)
THEOREM NoActionGoesUnrecorded == Spec => []ActionsAreRecorded
<1>1. IInv => ActionsAreRecorded
  BY DEF IInv, ActionsAreRecorded, PerformedInv, UnderWay
<1> QED
  BY <1>1, SpecIInv, PTL

(* The workflows in memory are the rows of the table, through register(),   *)
(* upsert(), stop() and restarts; of an id the config lists several times,  *)
(* the table has one.                                                       *)
THEOREM MemoryIsTheTable == Spec => []RegistryMirrorsTable
<1>1. IInv => RegistryMirrorsTable
  BY DEF IInv, SurroundingsInv
<1> QED
  BY <1>1, SpecIInv, PTL

(* An exception leaves a run only for a definition that                     *)
(* validateWorkflowDefinition() refuses, or when a write fails.             *)
THEOREM ValidWorkflowsNeverThrow == Spec => []OnlyInvalidAbort
<1>1. IInv => OnlyInvalidAbort
  BY DEF IInv
<1> QED
  BY <1>1, SpecIInv, PTL

-----------------------------------------------------------------------------
(* The runtime implements RunPromise: what each step does to a promise.     *)

\* Whatever the promise speaks of, of the runs but s.
PromiseStays(s) ==
  \A r \in Run \ {s} : Plan'[r] = Plan[r] /\ Left'[r] = Left[r] /\ Fate'[r] = Fate[r]

LEMMA PromiseOfOtherRuns ==
  ASSUME NEW s \in Run, OthersStay(s)
  PROVE  PromiseStays(s)
<1> SUFFICES ASSUME NEW r \in Run \ {s}
             PROVE  Plan'[r] = Plan[r] /\ Left'[r] = Left[r] /\ Fate'[r] = Fate[r]
  BY DEF PromiseStays
<1>1. pc'[r] = pc[r] /\ queue'[r] = queue[r] /\ chosen'[r] = chosen[r] /\ pos'[r] = pos[r]
  BY DEF OthersStay
<1>2. Plan'[r] = Plan[r]
  BY <1>1 DEF Plan
<1>3. Left'[r] = Left[r]
  BY <1>1 DEF Left, Ahead
<1>4. Fate'[r] = Fate[r]
  BY <1>1 DEF Fate
<1> QED
  BY <1>2, <1>3, <1>4

(* How a run stands at each place.                                          *)
LEMMA Standings ==
  /\ Standing("free") = "none" /\ Standing("published") = "none"
  /\ Standing("next") = "open" /\ Standing("trigger") = "open"
  /\ Standing("condition") = "open" /\ Standing("action") = "open"
  /\ Standing("done") = "finished"
  /\ Standing("aborted") = "cut" /\ Standing("lost") = "cut"
BY DEF Standing

(* The three functions of the promise, when only run s moves.               *)
LEMMA PromiseMoves ==
  ASSUME NEW s \in Run, PromiseStays(s)
  PROVE  /\ Plan' = [Plan EXCEPT ![s] = Plan'[s]]
         /\ Left' = [Left EXCEPT ![s] = Left'[s]]
         /\ Fate' = [Fate EXCEPT ![s] = Fate'[s]]
         /\ Plan'[s] = Plan[s] => Plan' = Plan
         /\ Left'[s] = Left[s] => Left' = Left
         /\ Fate'[s] = Fate[s] => Fate' = Fate
<1>1. /\ DOMAIN Plan = Run /\ DOMAIN Plan' = Run
      /\ Plan = [r \in Run |-> Plan[r]] /\ Plan' = [r \in Run |-> Plan'[r]]
  BY DEF Plan
<1>2. /\ DOMAIN Left = Run /\ DOMAIN Left' = Run
      /\ Left = [r \in Run |-> Left[r]] /\ Left' = [r \in Run |-> Left'[r]]
  BY DEF Left
<1>3. /\ DOMAIN Fate = Run /\ DOMAIN Fate' = Run
      /\ Fate = [r \in Run |-> Fate[r]] /\ Fate' = [r \in Run |-> Fate'[r]]
  BY DEF Fate
<1>4. Plan' = [Plan EXCEPT ![s] = Plan'[s]] /\ (Plan'[s] = Plan[s] => Plan' = Plan)
  BY <1>1 DEF PromiseStays
<1>5. Left' = [Left EXCEPT ![s] = Left'[s]] /\ (Left'[s] = Left[s] => Left' = Left)
  BY <1>2 DEF PromiseStays
<1>6. Fate' = [Fate EXCEPT ![s] = Fate'[s]] /\ (Fate'[s] = Fate[s] => Fate' = Fate)
  BY <1>3 DEF PromiseStays
<1> QED
  BY <1>4, <1>5, <1>6

(* A run that keeps its snapshot and its place keeps its plan.              *)
LEMMA PlanStays ==
  ASSUME NEW s \in Run, queue' = queue, chosen' = chosen
  PROVE  Plan' = Plan /\ (pos' = pos => Left' = Left)
<1>1. Plan' = Plan
  BY DEF Plan
<1>2. pos' = pos => Left' = Left
  BY DEF Left, Ahead
<1> QED
  BY <1>1, <1>2

(* The subscriber, or test(), begins the run it is promised.                *)
LEMMA SnapshotBegins ==
  ASSUME IInv, NEW s \in Run, pc[s] \in {"free", "published"},
         NEW defs \in Seq(Workflow), NEW places \in SUBSET (1..Len(defs)),
         pc' = [pc EXCEPT ![s] = "next"],
         queue' = [queue EXCEPT ![s] = defs],
         chosen' = [chosen EXCEPT ![s] = places],
         \A r \in Run \ {s} : owner'[r] = owner[r],
         UNCHANGED <<pos, at, steps, executions>>
  PROVE  Promise!Begin(s)
<1>1. RunsInv /\ PlaceInv(s)
  BY DEF IInv
<1>2. OthersStay(s)
  BY <1>1 DEF RunsInv, OthersStay
<1>3. PromiseStays(s)
  BY <1>2, PromiseOfOtherRuns
<1>4. pc'[s] = "next" /\ queue'[s] = defs /\ chosen'[s] = places /\ pos'[s] = 1
  BY <1>1 DEF RunsInv, PlaceInv
<1>5. Fate[s] = "none"
  BY Standings DEF Fate
<1>6. Fate'[s] = "open"
  BY <1>4, Standings DEF Fate
<1>7. Plan'[s] = [i \in places |-> defs[i]]
  BY <1>4 DEF Plan
<1>8. Left'[s] = DOMAIN Plan'[s]
  <2>1. Ahead(s)' = {i \in places : i >= 1}
    BY <1>4 DEF Ahead
  <2>2. \A i \in places : i >= 1
    OBVIOUS
  <2>3. DOMAIN Plan'[s] = places
    BY <1>7
  <2> QED
    BY <2>1, <2>2, <2>3 DEF Left
<1>9. Promise!IsPlan(Plan'[s])
  <2>1. places \subseteq Nat /\ \A i \in places : defs[i] \in Workflow
    OBVIOUS
  <2>2. /\ DOMAIN Plan'[s] = places
        /\ \A i \in places : Plan'[s][i] = defs[i]
    BY <1>7
  <2> QED
    BY <2>1, <2>2 DEF Promise!IsPlan
<1>10. Rows' = Rows
  BY DEF Rows
<1> QED
  BY <1>3, <1>5, <1>6, <1>8, <1>9, <1>10, PromiseMoves DEF Promise!Begin

(* The row of the first workflow that is left is one step of the promise.   *)
LEMMA RowExecutes ==
  ASSUME IInv, NEW s \in Run, pc[s] \in {"trigger", "condition", "action"},
         NEW status \in Promise!Status, NEW taken,
         executions' = executions \cup {Row(s, status, taken)},
         pc' = [pc EXCEPT ![s] = "next"],
         pos' = [pos EXCEPT ![s] = @ + 1],
         at' = [at EXCEPT ![s] = 1],
         steps' = [steps EXCEPT ![s] = <<>>],
         UNCHANGED subjectVars
  PROVE  Promise!Next
<1> DEFINE n == pos[s]
<1>1. owner' = owner /\ queue' = queue /\ chosen' = chosen
  BY DEF subjectVars
<1>2. RunsInv /\ PlaceInv(s)
  BY DEF IInv
<1>3. OthersStay(s)
  BY <1>1, <1>2 DEF RunsInv, OthersStay
<1>4. PromiseStays(s)
  BY <1>3, PromiseOfOtherRuns
<1>5. pc'[s] = "next" /\ pos'[s] = n + 1
  BY <1>2 DEF RunsInv
<1>6. n \in Nat /\ n \in chosen[s] /\ chosen[s] \subseteq Nat /\ n \in 1..Len(queue[s])
  BY <1>2 DEF RunsInv, PlaceInv
<1>7. Fate[s] = "open" /\ Fate'[s] = "open"
  <2>1. Fate[s] = "open"
    BY Standings DEF Fate
  <2>2. Fate'[s] = "open"
    BY <1>5, Standings DEF Fate
  <2> QED
    BY <2>1, <2>2
<1>8. Left[s] = Ahead(s) /\ Left'[s] = Ahead(s)'
  BY DEF Left
<1>9. n \in Left[s] /\ \A m \in Left[s] : n =< m
  BY <1>6, <1>8 DEF Ahead
<1>10. Left'[s] = Left[s] \ {n}
  <2>1. Ahead(s)' = {i \in chosen[s] : i >= n + 1}
    BY <1>1, <1>5 DEF Ahead
  <2>2. \A i \in Nat : i >= n + 1 <=> i >= n /\ i # n
    BY <1>6
  <2> QED
    BY <1>6, <1>8, <2>1, <2>2 DEF Ahead
<1>11. Plan[s][n] = CurrentWorkflow(s)
  BY <1>6 DEF Plan, CurrentWorkflow
<1>12. \A row \in Rows : row.run = s => row.place # n
  <2>1. \A x \in executions : x.run = s => x.place # n
    BY <1>6 DEF IInv, RowInv
  <2> QED
    BY <2>1 DEF Rows
<1>13. Rows' = Rows \cup {[run |-> s, place |-> n, workflow |-> Plan[s][n], status |-> status]}
  <2> DEFINE row == Row(s, status, taken)
  <2>1. executions' = executions \cup {row}
    OBVIOUS
  <2>2. row.run = s /\ row.place = n /\ row.workflow = Plan[s][n] /\ row.status = status
    BY <1>11 DEF Row
  <2> HIDE DEF row
  <2> QED
    BY <2>1, <2>2 DEF Rows
<1>14. Plan' = Plan
  BY <1>1, PlanStays
<1>15. Left' = [Left EXCEPT ![s] = Left[s] \ {n}] /\ Fate' = Fate
  BY <1>4, <1>7, <1>10, PromiseMoves
<1>16. Promise!Execute(s, n, status)
  BY <1>7, <1>9, <1>12, <1>13, <1>14, <1>15 DEF Promise!Execute
<1> QED
  BY <1>9, <1>16 DEF Promise!Next

(* An exception cuts its run.                                               *)
LEMMA CutByException ==
  ASSUME IInv, NEW s \in Run, pc[s] \in {"next", "trigger", "condition", "action"},
         pc' = [pc EXCEPT ![s] = "aborted"],
         Plan' = Plan, Left' = Left, executions' = executions
  PROVE  Promise!Next
<1>1. pc \in [Run -> Places]
  BY DEF IInv, RunsInv
<1>2. pc'[s] = "aborted" /\ \A r \in Run \ {s} : pc'[r] = pc[r]
  BY <1>1
<1>3. Fate[s] = "open" /\ Fate'[s] = "cut"
  <2>1. Fate[s] = "open"
    BY Standings DEF Fate
  <2>2. Fate'[s] = "cut"
    BY <1>2, Standings DEF Fate
  <2> QED
    BY <2>1, <2>2
<1>4. \A r \in Run \ {s} : Fate'[r] = Fate[r]
  BY <1>2, Standings DEF Fate
<1>5. Fate' = [r \in Run |-> Fate'[r]]
  BY DEF Fate
<1>6. Fate' = [r \in Run |-> IF r \in {s} THEN "cut" ELSE Fate[r]]
  BY <1>3, <1>4, <1>5
<1>7. Rows' = Rows
  BY DEF Rows
<1>8. Promise!Cut({s})
  BY <1>3, <1>6, <1>7 DEF Promise!Cut
<1> QED
  BY <1>8 DEF Promise!Next

LEMMA ThrowCuts ==
  ASSUME IInv, NEW s \in Run, pc[s] \in {"trigger", "condition", "action"}, Throws(s)
  PROVE  Promise!Next
<1>1. /\ pc' = [pc EXCEPT ![s] = "aborted"] /\ executions' = executions
      /\ queue' = queue /\ chosen' = chosen /\ pos' = pos
  BY DEF Throws, subjectVars
<1>2. Plan' = Plan /\ Left' = Left
  BY <1>1, PlanStays
<1> QED
  BY <1>1, <1>2, CutByException

LEMMA EndOfExecution ==
  ASSUME IInv, NEW s \in Run, pc[s] \in {"trigger", "condition", "action"},
         NEW status \in Promise!Status, NEW taken, ExecutionEnds(s, status, taken)
  PROVE  Promise!Next
<1>1. CASE environment.storageFails /\ Throws(s)
  BY <1>1, ThrowCuts
<1>2. CASE ~(environment.storageFails /\ Throws(s))
  BY <1>2, RowExecutes DEF ExecutionEnds
<1> QED
  BY <1>1, <1>2

(* Between two awaits of an execution nothing happens that was promised.    *)
LEMMA AwaitStutters ==
  ASSUME IInv, NEW s \in Run, pc[s] \in {"next", "trigger", "condition", "action"},
         NEW c \in {"trigger", "condition", "action"}, pc' = [pc EXCEPT ![s] = c],
         Plan' = Plan, Left' = Left, executions' = executions
  PROVE  UNCHANGED Promise!promiseVars
<1>1. pc \in [Run -> Places]
  BY DEF IInv, RunsInv
<1>2. pc'[s] = c /\ \A r \in Run \ {s} : pc'[r] = pc[r]
  BY <1>1
<1>3. Fate[s] = "open"
  BY Standings DEF Fate
<1>4. Fate'[s] = "open"
  BY <1>2, Standings DEF Fate
<1>5. \A r \in Run : Fate'[r] = Fate[r]
  <2>1. \A r \in Run \ {s} : Fate'[r] = Fate[r]
    BY <1>2, Standings DEF Fate
  <2> QED
    BY <1>3, <1>4, <2>1
<1>6. Fate = [r \in Run |-> Fate[r]] /\ Fate' = [r \in Run |-> Fate'[r]]
  BY DEF Fate
<1>7. Fate' = Fate /\ Rows' = Rows
  BY <1>5, <1>6 DEF Rows
<1> QED
  BY <1>7 DEF Promise!promiseVars

(* The loop comes to the first workflow that is left.                       *)
LEMMA BeginningPromised ==
  ASSUME IInv, NEW s \in Run, ExecuteBegins(s)
  PROVE  [Promise!Next]_(Promise!promiseVars)
<1>1. PICK n \in Ahead(s) :
        /\ \A m \in Ahead(s) : n =< m
        /\ pos' = [pos EXCEPT ![s] = n]
        /\ pc' = [pc EXCEPT ![s] = IF queue[s][n].trigger \in KnownTriggers THEN "trigger"
                                                                            ELSE "aborted"]
  BY DEF ExecuteBegins
<1>2. /\ pc[s] = "next" /\ executions' = executions
      /\ owner' = owner /\ queue' = queue /\ chosen' = chosen /\ at' = at /\ steps' = steps
  BY DEF ExecuteBegins, subjectVars, historyVars
<1>3. RunsInv /\ chosen[s] \subseteq Nat /\ pos[s] \in Nat
  BY DEF IInv, RunsInv
<1>4. pos'[s] = n /\ n \in chosen[s] /\ n >= pos[s]
  BY <1>1, <1>3 DEF RunsInv, Ahead
<1>5. Plan' = Plan
  BY <1>2, PlanStays
<1>6. Left' = Left
  <2>1. OthersStay(s)
    BY <1>1, <1>2, <1>3 DEF RunsInv, OthersStay
  <2>2. \A i \in chosen[s] : i >= n <=> i >= pos[s]
    BY <1>1, <1>3, <1>4 DEF Ahead
  <2>3. Ahead(s)' = Ahead(s)
    BY <1>2, <1>4, <2>2 DEF Ahead
  <2>4. Left'[s] = Left[s]
    BY <2>3 DEF Left
  <2> QED
    BY <2>1, <2>4, PromiseOfOtherRuns, PromiseMoves
<1>7. CASE queue[s][n].trigger \in KnownTriggers
  <2>1. pc' = [pc EXCEPT ![s] = "trigger"]
    BY <1>1, <1>7
  <2> QED
    BY <1>2, <1>5, <1>6, <2>1, AwaitStutters
<1>8. CASE queue[s][n].trigger \notin KnownTriggers
  <2>1. pc' = [pc EXCEPT ![s] = "aborted"]
    BY <1>1, <1>8
  <2> QED
    BY <1>2, <1>5, <1>6, <2>1, CutByException
<1> QED
  BY <1>7, <1>8

LEMMA SubscriberBegins ==
  ASSUME IInv, NEW s \in Run, Subscriber(s)
  PROVE  Promise!Begin(s)
<1> DEFINE defs == registry[owner[s]]
           places == {i \in DOMAIN defs : Applies(defs[i], event[s])}
<1>1. /\ pc[s] = "published"
      /\ pc' = [pc EXCEPT ![s] = "next"]
      /\ queue' = [queue EXCEPT ![s] = defs]
      /\ chosen' = [chosen EXCEPT ![s] = places]
      /\ owner' = owner
      /\ UNCHANGED <<pos, at, steps, executions>>
  BY DEF Subscriber, historyVars
<1>2. owner[s] \in Instance
  <2>1. owner \in [Run -> 0..MaxInstances] /\ owner[s] # 0
    BY <1>1 DEF IInv, RunsInv, PlaceInv
  <2> QED
    BY <2>1, WorkflowAssumption DEF Instance
<1>3. defs \in Seq(Workflow)
  BY <1>2 DEF IInv, SurroundingsInv
<1>4. places \in SUBSET (1..Len(defs))
  BY <1>3
<1> HIDE DEF defs, places
<1> QED
  BY <1>1, <1>3, <1>4, SnapshotBegins

LEMMA TestBegins ==
  ASSUME IInv, NEW s \in Run, NEW w \in Workflow, NEW e \in Event, TestWorkflow(s, w, e)
  PROVE  Promise!Begin(s)
<1>1. /\ pc[s] = "free"
      /\ pc' = [pc EXCEPT ![s] = "next"]
      /\ owner' = [owner EXCEPT ![s] = instance]
      /\ queue' = [queue EXCEPT ![s] = <<w>>]
      /\ chosen' = [chosen EXCEPT ![s] = {1}]
      /\ UNCHANGED <<pos, at, steps, executions>>
  BY DEF TestWorkflow, historyVars
<1>2. <<w>> \in Seq(Workflow) /\ {1} \in SUBSET (1..Len(<<w>>))
  OBVIOUS
<1>3. \A r \in Run \ {s} : owner'[r] = owner[r]
  BY <1>1 DEF IInv, RunsInv
<1> QED
  BY <1>1, <1>2, <1>3, SnapshotBegins

LEMMA RunEndsFinishes ==
  ASSUME IInv, NEW s \in Run, RunEnds(s)
  PROVE  Promise!Finish(s)
<1>1. /\ pc[s] = "next" /\ Ahead(s) = {}
      /\ pc' = [pc EXCEPT ![s] = "done"]
      /\ executions' = executions
      /\ owner' = owner /\ queue' = queue /\ chosen' = chosen
      /\ pos' = pos /\ at' = at /\ steps' = steps
  BY DEF RunEnds, subjectVars, historyVars
<1>2. OthersStay(s) /\ pc'[s] = "done"
  BY <1>1 DEF IInv, RunsInv, OthersStay
<1>3. Plan' = Plan /\ Left' = Left /\ Left[s] = {}
  BY <1>1, PlanStays DEF Left
<1>4. Fate[s] = "open"
  BY <1>1, Standings DEF Fate
<1>5. Fate'[s] = "finished"
  BY <1>2, Standings DEF Fate
<1>6. Fate' = [Fate EXCEPT ![s] = "finished"]
  BY <1>2, <1>5, PromiseOfOtherRuns, PromiseMoves
<1>7. Rows' = Rows
  BY <1>1 DEF Rows
<1> QED
  BY <1>3, <1>4, <1>6, <1>7 DEF Promise!Finish

(* An execution under way awaits the next answer, ends or throws.           *)
LEMMA AnswersPromised ==
  ASSUME IInv, NEW s \in Run,
         TriggerAnswers(s) \/ ConditionAnswers(s) \/ ConditionsHold(s)
           \/ ActionAnswers(s) \/ ActionsEnd(s)
  PROVE  [Promise!Next]_(Promise!promiseVars)
<1>1. pc[s] \in {"trigger", "condition", "action"}
  BY DEF TriggerAnswers, ConditionAnswers, ConditionsHold, ActionAnswers, ActionsEnd
<1>2. "skipped" \in Promise!Status /\ "failed" \in Promise!Status /\ "completed" \in Promise!Status
  BY DEF Promise!Status
<1>3. ASSUME NEW status \in Promise!Status, NEW taken, ExecutionEnds(s, status, taken)
      PROVE  Promise!Next
  BY <1>1, <1>3, EndOfExecution
<1>4. ASSUME Throws(s) PROVE Promise!Next
  BY <1>1, <1>4, ThrowCuts
<1>5. ASSUME pc' = [pc EXCEPT ![s] = "condition"] \/ pc' = [pc EXCEPT ![s] = "action"] \/ pc' = pc,
             UNCHANGED <<subjectVars, pos, executions>>
      PROVE  UNCHANGED Promise!promiseVars
  <2>1. queue' = queue /\ chosen' = chosen /\ pos' = pos /\ executions' = executions
    BY <1>5 DEF subjectVars
  <2>2. Plan' = Plan /\ Left' = Left
    BY <2>1, PlanStays
  <2>3. pc = [pc EXCEPT ![s] = pc[s]]
    BY DEF IInv, RunsInv
  <2>4. PICK c \in {"trigger", "condition", "action"} : pc' = [pc EXCEPT ![s] = c]
    BY <1>1, <1>5, <2>3
  <2> QED
    BY <1>1, <2>1, <2>2, <2>4, AwaitStutters
<1>6. CASE TriggerAnswers(s)
  BY <1>2, <1>3, <1>5, <1>6 DEF TriggerAnswers
<1>7. CASE ConditionAnswers(s)
  BY <1>2, <1>3, <1>4, <1>5, <1>7 DEF ConditionAnswers
<1>8. CASE ConditionsHold(s)
  BY <1>5, <1>8 DEF ConditionsHold, historyVars
<1>9. CASE ActionAnswers(s)
  BY <1>2, <1>3, <1>4, <1>5, <1>9 DEF ActionAnswers, ActionEnds
<1>10. CASE ActionsEnd(s)
  BY <1>2, <1>3, <1>10 DEF ActionsEnd
<1> QED
  BY <1>6, <1>7, <1>8, <1>9, <1>10

(* The end of the process cuts all runs that are under way.                 *)
LEMMA ProcessEndCuts == ASSUME IInv, ProcessEnds PROVE Promise!Next
<1> DEFINE runs == {r \in Run : pc[r] \in Suspended}
<1>1. /\ pc' = [r \in Run |-> IF pc[r] \in Suspended THEN "lost" ELSE pc[r]]
      /\ queue' = queue /\ chosen' = chosen /\ pos' = pos /\ executions' = executions
  BY DEF ProcessEnds, subjectVars, historyVars
<1>2. Plan' = Plan /\ Left' = Left /\ Rows' = Rows
  BY <1>1 DEF Plan, Left, Ahead, Rows
<1>3. \A r \in runs : Fate[r] \in {"none", "open"} /\ Fate'[r] = "cut"
  <2> SUFFICES ASSUME NEW r \in Run, pc[r] \in Suspended
               PROVE  Fate[r] \in {"none", "open"} /\ Fate'[r] = "cut"
    OBVIOUS
  <2>1. Fate[r] \in {"none", "open"}
    BY Standings DEF Fate, Suspended
  <2>2. pc'[r] = "lost"
    BY <1>1
  <2>3. Fate'[r] = "cut"
    BY <2>2, Standings DEF Fate
  <2> QED
    BY <2>1, <2>3
<1>4. \A r \in Run \ runs : Fate'[r] = Fate[r]
  BY <1>1, Standings DEF Fate
<1>5. Fate' = [r \in Run |-> Fate'[r]]
  BY DEF Fate
<1>6. Fate' = [r \in Run |-> IF r \in runs THEN "cut" ELSE Fate[r]]
  BY <1>3, <1>4, <1>5
<1>7. Promise!Cut(runs)
  BY <1>2, <1>3, <1>6 DEF Promise!Cut
<1> QED
  BY <1>7 DEF Promise!Next

LEMMA PublishStutters ==
  ASSUME IInv, NEW s \in Run, NEW e \in Event, Publish(s, e)
  PROVE  UNCHANGED Promise!promiseVars
<1>1. /\ pc[s] = "free" /\ pc' = [pc EXCEPT ![s] = "published"]
      /\ queue' = queue /\ chosen' = chosen /\ pos' = pos /\ executions' = executions
  BY DEF Publish, historyVars
<1>2. Plan' = Plan /\ Left' = Left /\ Rows' = Rows
  BY <1>1 DEF Plan, Left, Ahead, Rows
<1>3. pc \in [Run -> Places]
  BY DEF IInv, RunsInv
<1>4. \A r \in Run : pc'[r] = pc[r] \/ (pc[r] = "free" /\ pc'[r] = "published")
  BY <1>1, <1>3
<1>5. ASSUME NEW r \in Run PROVE Fate'[r] = Fate[r]
  <2>1. CASE pc'[r] = pc[r]
    BY <2>1, Standings DEF Fate
  <2>2. CASE pc[r] = "free" /\ pc'[r] = "published"
    BY <2>2, Standings DEF Fate
  <2> QED
    BY <1>4, <2>1, <2>2
<1>6. Fate = [r \in Run |-> Fate[r]] /\ Fate' = [r \in Run |-> Fate'[r]]
  BY DEF Fate
<1>7. Fate' = Fate
  BY <1>5, <1>6
<1> QED
  BY <1>2, <1>7 DEF Promise!promiseVars

LEMMA RegistryStutters ==
  ASSUME UNCHANGED <<runVars, historyVars>>
  PROVE  UNCHANGED Promise!promiseVars
<1>1. /\ pc' = pc /\ queue' = queue /\ chosen' = chosen /\ pos' = pos
      /\ executions' = executions
  BY DEF runVars, subjectVars, historyVars
<1>2. Plan' = Plan /\ Left' = Left /\ Fate' = Fate /\ Rows' = Rows
  BY <1>1 DEF Plan, Left, Ahead, Fate, Rows
<1> QED
  BY <1>2 DEF Promise!promiseVars

LEMMA InitPromised == Init => Promise!Init
<1> SUFFICES ASSUME Init PROVE Promise!Init
  OBVIOUS
<1>1. /\ pc = [r \in Run |-> "free"] /\ queue = [r \in Run |-> <<>>]
      /\ chosen = [r \in Run |-> {}] /\ executions = {}
  BY DEF Init
<1>2. Plan = [r \in Run |-> [n \in {} |-> n]]
  BY <1>1 DEF Plan
<1>3. Left = [r \in Run |-> {}]
  BY <1>1 DEF Left, Ahead
<1>4. Fate = [r \in Run |-> "none"]
  BY <1>1, Standings DEF Fate
<1>5. Rows = {}
  BY <1>1 DEF Rows
<1> QED
  BY <1>2, <1>3, <1>4, <1>5 DEF Promise!Init

LEMMA NextPromised == IInv /\ [Next]_vars => [Promise!Next]_(Promise!promiseVars)
<1> SUFFICES ASSUME IInv, [Next]_vars PROVE [Promise!Next]_(Promise!promiseVars)
  OBVIOUS
<1>1. CASE Register \/ SeedInterrupted \/ Stop \/ (\E w \in Workflow : Upsert(w)) \/ UNCHANGED vars
  <2>1. UNCHANGED <<runVars, historyVars>>
    BY <1>1 DEF Register, SeedInterrupted, Stop, Upsert, vars
  <2> QED
    BY <2>1, RegistryStutters
<1>2. CASE ProcessEnds
  BY <1>2, ProcessEndCuts
<1>3. ASSUME NEW r \in Run, NEW e \in Event, Publish(r, e)
      PROVE  [Promise!Next]_(Promise!promiseVars)
  BY <1>3, PublishStutters
<1>4. ASSUME NEW r \in Run, NEW w \in Workflow, NEW e \in Event, TestWorkflow(r, w, e)
      PROVE  [Promise!Next]_(Promise!promiseVars)
  BY <1>4, TestBegins DEF Promise!Next
<1>5. ASSUME NEW r \in Run, RunStep(r)
      PROVE  [Promise!Next]_(Promise!promiseVars)
  <2>1. CASE Subscriber(r)
    BY <2>1, SubscriberBegins DEF Promise!Next
  <2>2. CASE RunEnds(r)
    BY <2>2, RunEndsFinishes DEF Promise!Next
  <2>3. CASE ExecuteBegins(r)
    BY <2>3, BeginningPromised
  <2> QED
    BY <1>5, <2>1, <2>2, <2>3, AnswersPromised DEF RunStep
<1> QED
  BY <1>1, <1>2, <1>3, <1>4, <1>5 DEF Next

(* The runtime implements RunPromise: the subscriber's loop, execute(), the *)
(* exceptions they let through and the end of the process are its steps.    *)
THEOREM ImplementsPromise == Spec => KeepsPromise
BY InitPromised, NextPromised, SpecIInv, PTL DEF Spec, KeepsPromise, Promise!Spec

=============================================================================
