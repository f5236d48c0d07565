----------------------- MODULE WebhookRuntime_proofs -----------------------
(***************************************************************************)
(* Safety of the webhook runtime for every set of definitions, events and  *)
(* chains, every maxAttempts and with or without storage failures.         *)
(*                                                                         *)
(* TypeOK is not inductive: that a timer may add one to attempt rests on   *)
(* PhaseMatchesRows, which in turn rests on the rows written before.  So   *)
(* the invariants are proved together, as IInv.                            *)
(***************************************************************************)
EXTENDS WebhookRuntime, WellFoundedInduction, TLAPS

IInv ==
  /\ TypeOK
  /\ PhaseMatchesRows
  /\ AttemptsGapless
  /\ DeliveredIsLast
  /\ RetryPromise

-----------------------------------------------------------------------------
(* Arrays of definitions.                                                  *)

(* A set of numbers that has an element has a least one.                    *)
LEMMA LeastNumber ==
  ASSUME NEW N \in SUBSET Nat, NEW n \in N
  PROVE  \E m \in N : \A k \in N : m =< k
<1>1. IsWellFoundedOn(OpToRel(<, Nat), Nat)
  BY NatLessThanWellFounded
<1>2. PICK m \in N : \A k \in N : ~(<<k, m>> \in OpToRel(<, Nat))
  BY <1>1, WFMin
<1>3. \A k \in N : ~(k < m)
  BY <1>2 DEF OpToRel
<1> QED
  BY <1>3

(* find() finds a definition of the id when there is one.                   *)
LEMMA FirstIsFound ==
  ASSUME NEW S, NEW list \in Seq(S), NEW i \in DOMAIN list
  PROVE  \E m \in FirstOf(list, list[i].id) : m \in DOMAIN list
<1> DEFINE N == {j \in DOMAIN list : list[j].id = list[i].id}
<1>1. N \subseteq Nat /\ i \in N
  OBVIOUS
<1>2. PICK m \in N : \A k \in N : m =< k
  BY <1>1, LeastNumber
<1> QED
  BY <1>2 DEF FirstOf

(* A definition that is upserted replaces the first of its id, or comes     *)
(* last: no place but its own changes, and no id is repeated by it.         *)
LEMMA UpsertedList ==
  ASSUME NEW S, NEW list \in Seq(S), NEW d \in S
  PROVE  /\ Upserted(list, d) \in Seq(S)
         /\ d \in ToSet(Upserted(list, d))
         /\ \A r \in ToSet(list) : r.id # d.id => r \in ToSet(Upserted(list, d))
         /\ \A r \in ToSet(Upserted(list, d)) : r = d \/ r \in ToSet(list)
         /\ \A i, j \in DOMAIN Upserted(list, d) :
              Upserted(list, d)[i].id = Upserted(list, d)[j].id /\ i # j
                => Repeats(list, Upserted(list, d)[i].id)
<1> DEFINE new == Upserted(list, d)
           n == Len(list)
<1>0. n \in Nat /\ DOMAIN list = 1..n
  OBVIOUS
<1>1. CASE \E i \in 1..n : list[i].id = d.id
  <2>1. PICK m \in FirstOf(list, d.id) : m \in 1..n
    BY <1>0, <1>1, FirstIsFound
  <2>2. d.id \in IdsOf(ToSet(list))
    BY <1>0, <1>1 DEF IdsOf, ToSet
  <2>3. new = [i \in 1..n |-> IF i \in FirstOf(list, d.id) THEN d ELSE list[i]]
    BY <1>0, <2>2 DEF Upserted
  <2>4. new \in Seq(S) /\ DOMAIN new = 1..n
    BY <1>0, <2>3
  <2>5. new[m] = d
    BY <2>1, <2>3
  <2>6. \A i \in 1..n : new[i].id = list[i].id /\ (new[i] = d \/ new[i] = list[i])
                        /\ (list[i].id # d.id => new[i] = list[i])
    BY <1>0, <2>3 DEF FirstOf
  <2> HIDE DEF new
  <2>7. d \in ToSet(new) /\ \A r \in ToSet(list) : r.id # d.id => r \in ToSet(new)
    BY <1>0, <2>1, <2>4, <2>5, <2>6 DEF ToSet
  <2>8. \A r \in ToSet(new) : r = d \/ r \in ToSet(list)
    BY <1>0, <2>4, <2>6 DEF ToSet
  <2>9. \A i, j \in DOMAIN new : new[i].id = new[j].id /\ i # j => Repeats(list, new[i].id)
    BY <1>0, <2>4, <2>6 DEF Repeats
  <2> QED
    BY <2>4, <2>7, <2>8, <2>9 DEF new
<1>2. CASE ~\E i \in 1..n : list[i].id = d.id
  <2>1. d.id \notin IdsOf(ToSet(list))
    BY <1>0, <1>2 DEF IdsOf, ToSet
  <2>2. new = Append(list, d)
    BY <2>1 DEF Upserted
  <2>3. /\ new \in Seq(S) /\ DOMAIN new = 1..(n + 1) /\ new[n + 1] = d
        /\ \A i \in 1..n : new[i] = list[i]
    BY <1>0, <2>2
  <2> HIDE DEF new
  <2>4. d \in ToSet(new) /\ \A r \in ToSet(list) : r \in ToSet(new)
    BY <1>0, <2>3 DEF ToSet
  <2>5. \A r \in ToSet(new) : r = d \/ r \in ToSet(list)
    BY <1>0, <2>3 DEF ToSet
  <2>6. \A i, j \in DOMAIN new : new[i].id = new[j].id /\ i # j => Repeats(list, new[i].id)
    BY <1>0, <1>2, <2>3 DEF Repeats
  <2> QED
    BY <2>3, <2>4, <2>5, <2>6 DEF new
<1> QED
  BY <1>1, <1>2

(* Every listing of the rows has them all, and repeats no id.               *)
LEMMA ListingIsTheTable ==
  ASSUME NEW S, NEW rows \in SUBSET S, \A r \in rows : r.id \in Nat,
         NEW list \in Listings(rows)
  PROVE  list \in Seq(S) /\ ToSet(list) = rows /\ \A id : ~Repeats(list, id)
<1>1. PICK m \in 0..Cardinality(rows) : list \in [1..m -> rows]
  BY DEF Listings, SeqOf
<1>2. /\ ToSet(list) = rows
      /\ \A i, j \in DOMAIN list : i < j => list[i].id < list[j].id
  BY DEF Listings
<1>3. m \in Nat
  BY <1>1
<1>4. list \in Seq(S) /\ DOMAIN list = 1..m
  BY <1>1, <1>3
<1>5. \A i \in 1..m : list[i].id \in Nat
  BY <1>1
<1>6. \A i, j \in 1..m : i # j => list[i].id # list[j].id
  BY <1>2, <1>3, <1>4, <1>5
<1>7. \A id : ~Repeats(list, id)
  BY <1>4, <1>6 DEF Repeats
<1> QED
  BY <1>2, <1>4, <1>7

(* The rows seeded from a list: definitions of the list, one for every id.  *)
LEMMA SeededRows ==
  ASSUME NEW S, NEW list \in Seq(S)
  PROVE  /\ Seeded(list) \subseteq ToSet(list)
         /\ UniqueIds(Seeded(list))
         /\ \A d \in ToSet(list) : \E r \in Seeded(list) :
              r.id = d.id /\ (r = d \/ Repeats(list, d.id))
<1> DEFINE n == Len(list)
<1>0. n \in Nat /\ DOMAIN list = 1..n
  OBVIOUS
<1>1. Seeded(list) \subseteq ToSet(list)
  BY <1>0 DEF Seeded, ToSet
<1>2. UniqueIds(Seeded(list))
  <2> SUFFICES ASSUME NEW r1 \in Seeded(list), NEW r2 \in Seeded(list), r1.id = r2.id
               PROVE  r1 = r2
    BY DEF UniqueIds
  <2>1. PICK i \in 1..n : r1 = list[i] /\ \A j \in 1..n : i < j => list[j].id # list[i].id
    BY <1>0 DEF Seeded
  <2>2. PICK k \in 1..n : r2 = list[k] /\ \A j \in 1..n : k < j => list[j].id # list[k].id
    BY <1>0 DEF Seeded
  <2> QED
    BY <1>0, <2>1, <2>2
<1>3. ASSUME NEW i \in 1..n
      PROVE  \E r \in Seeded(list) : r.id = list[i].id /\ (r = list[i] \/ Repeats(list, list[i].id))
  <2> DEFINE N == {k \in Nat : \A j \in 1..n : list[j].id = list[i].id => j =< k}
  <2>1. N \subseteq Nat /\ n \in N
    BY <1>0
  <2>2. PICK m \in N : \A k \in N : m =< k
    BY <2>1, LeastNumber
  <2>3. m \in Nat /\ (\A j \in 1..n : list[j].id = list[i].id => j =< m) /\ m >= 1
    BY <1>0, <2>2
  <2>4. m - 1 \notin N
    BY <2>2, <2>3
  <2>5. PICK j \in 1..n : list[j].id = list[i].id /\ ~(j =< m - 1)
    BY <2>3, <2>4
  <2>6. j = m
    BY <1>0, <2>3, <2>5
  <2>7. \A k \in 1..n : j < k => list[k].id # list[j].id
    BY <1>0, <2>3, <2>5, <2>6
  <2>8. list[j] \in Seeded(list)
    BY <1>0, <2>7 DEF Seeded
  <2>9. i # j => Repeats(list, list[i].id)
    BY <1>0, <2>5 DEF Repeats
  <2> QED
    BY <2>5, <2>8, <2>9
<1>4. \A d \in ToSet(list) : \E i \in 1..n : d = list[i]
  BY <1>0 DEF ToSet
<1> QED
  BY <1>1, <1>2, <1>3, <1>4

(* filter() keeps the definitions of the other ids and repeats no new id.   *)
LEMMA FilteredList ==
  ASSUME NEW S, NEW list \in Seq(S), NEW id, NEW rest \in Filtered(list, id)
  PROVE  /\ rest \in Seq(S)
         /\ ToSet(rest) = {d \in ToSet(list) : d.id # id}
         /\ \A x : Repeats(rest, x) => Repeats(list, x)
<1> DEFINE others == {i \in DOMAIN list : list[i].id # id}
<1>0. DOMAIN list = 1..Len(list) /\ Len(list) \in Nat
  OBVIOUS
<1>1. PICK at \in SeqOf(others, Cardinality(others)) :
        /\ ToSet(at) = others
        /\ \A m, n \in DOMAIN at : m < n => at[m] < at[n]
        /\ rest = [n \in DOMAIN at |-> list[at[n]]]
  BY DEF Filtered
<1>2. PICK m \in 0..Cardinality(others) : at \in [1..m -> others]
  BY DEF SeqOf
<1>3. m \in Nat
  BY <1>2
<1>4. /\ DOMAIN rest = 1..m /\ \A n \in 1..m : rest[n] = list[at[n]] /\ at[n] \in others
      /\ rest = [n \in 1..m |-> list[at[n]]]
  BY <1>1, <1>2
<1>5. rest \in Seq(S)
  <2>1. \A n \in 1..m : list[at[n]] \in S
    BY <1>4
  <2>2. rest \in [1..m -> S]
    BY <1>4, <2>1
  <2> QED
    BY <1>3, <2>2
<1>6. others = {at[n] : n \in 1..m}
  BY <1>1, <1>2 DEF ToSet
<1>7. ToSet(rest) = {d \in ToSet(list) : d.id # id}
  <2>1. ToSet(rest) = {rest[n] : n \in 1..m}
    BY <1>4 DEF ToSet
  <2>2. ToSet(list) = {list[i] : i \in 1..Len(list)}
    BY <1>0 DEF ToSet
  <2> QED
    BY <1>0, <1>4, <1>6, <2>1, <2>2
<1>8. \A k, n \in 1..m : k # n => at[k] # at[n]
  <2>1. \A k, n \in 1..m : k < n => at[k] < at[n]
    BY <1>1, <1>2
  <2>2. \A k \in 1..m : at[k] \in Nat
    BY <1>0, <1>4
  <2> QED
    BY <1>3, <2>1, <2>2
<1>9. \A x : Repeats(rest, x) => Repeats(list, x)
  BY <1>4, <1>8 DEF Repeats
<1> QED
  BY <1>5, <1>7, <1>9
(* Array and table after a definition was upserted, both of them.           *)
LEMMA UpsertMirrors ==
  ASSUME NEW S, NEW list \in Seq(S), NEW d \in S, NEW rows, NEW configured,
         Mirrors(list, rows, configured),
         \A r \in ToSet(list) : Repeats(list, r.id) => Repeats(configured, r.id)
  PROVE  Mirrors(Upserted(list, d), Saved(rows, d), configured)
<1> DEFINE new == Upserted(list, d)
<1>1. /\ new \in Seq(S) /\ d \in ToSet(new)
      /\ \A r \in ToSet(list) : r.id # d.id => r \in ToSet(new)
      /\ \A r \in ToSet(new) : r = d \/ r \in ToSet(list)
      /\ \A i, j \in DOMAIN new : new[i].id = new[j].id /\ i # j => Repeats(list, new[i].id)
  BY UpsertedList
<1> HIDE DEF new
<1>2. Saved(rows, d) \subseteq ToSet(new)
  BY <1>1 DEF Mirrors, Saved
<1>3. ASSUME NEW x \in ToSet(new)
      PROVE  \E r \in Saved(rows, d) : r.id = x.id /\ (r = x \/ Repeats(configured, x.id))
  <2>1. CASE x = d
    BY <2>1 DEF Saved
  <2>2. CASE x # d /\ x.id # d.id
    BY <1>1, <2>2 DEF Mirrors, Saved
  <2>3. CASE x # d /\ x.id = d.id
    <3>1. PICK i \in DOMAIN new, j \in DOMAIN new : new[i] = x /\ new[j] = d
      BY <1>1 DEF ToSet
    <3>2. Repeats(list, x.id)
      BY <1>1, <2>3, <3>1
    <3> QED
      BY <1>1, <2>3, <3>2 DEF Saved
  <2> QED
    BY <2>1, <2>2, <2>3
<1> QED
  BY <1>2, <1>3 DEF Mirrors, new

-----------------------------------------------------------------------------
(* The initial state has no rows and no chains.                            *)
LEMMA InitIInv == Init => IInv
<1> SUFFICES ASSUME Init PROVE IInv
  OBVIOUS
<1> USE ConfigAssumption, DataAssumption
<1>1. TypeOK
  BY DEF Init, TypeOK, Instance, Phase
<1>2. PhaseMatchesRows
  BY DEF Init, PhaseMatchesRows, Rows
<1>3. AttemptsGapless
  BY DEF Init, AttemptsGapless, Rows
<1>4. DeliveredIsLast /\ RetryPromise
  BY DEF Init, DeliveredIsLast, RetryPromise
<1> QED
  BY <1>1, <1>2, <1>3, <1>4 DEF IInv

-----------------------------------------------------------------------------
(* Starting chains: whatever set of free chains queueDelivery() is called  *)
(* for, their first attempt has no row, and the other chains keep theirs.  *)
LEMMA QueueKeepsHistory ==
  ASSUME IInv, TypeOK', UNCHANGED records,
         NEW new, NEW jobs, QueueDeliveries(new, jobs)
  PROVE  PhaseMatchesRows' /\ AttemptsGapless' /\ DeliveredIsLast' /\ RetryPromise'
<1> USE DEF IInv, Rows
<1>1. \A c \in Chain :
        \/ c \in new /\ phase[c] = "free" /\ phase'[c] = "sending" /\ attempt'[c] = 1
        \/ c \notin new /\ phase'[c] = phase[c] /\ attempt'[c] = attempt[c]
  BY DEF QueueDeliveries
<1>2. \A c \in Chain : phase[c] = "free" => Rows(c) = {}
  BY DEF TypeOK
<1>3. PhaseMatchesRows'
  BY <1>1, <1>2 DEF PhaseMatchesRows
<1>4. AttemptsGapless'
  <2>1. ASSUME NEW c \in Chain
        PROVE  /\ \A r \in Rows(c) : r.attempt =< attempt'[c]
               /\ \A n \in 1..(attempt'[c] - 1) : \E r \in Rows(c) : r.attempt = n
               /\ \A r, s \in Rows(c) : r.attempt = s.attempt => r = s
    <3>1. CASE c \in new
      <4>1. Rows(c) = {} /\ attempt'[c] = 1
        BY <1>1, <1>2, <3>1
      <4>2. \A n \in 1..(attempt'[c] - 1) : FALSE
        BY <4>1
      <4> QED
        BY <4>1, <4>2
    <3>2. CASE c \notin new
      BY <1>1, <3>2 DEF AttemptsGapless
    <3> QED
      BY <3>1, <3>2
  <2> QED
    BY <2>1 DEF AttemptsGapless
<1>5. \A r \in records : phase'[r.chain] = phase[r.chain] /\ attempt'[r.chain] = attempt[r.chain]
  BY <1>1 DEF TypeOK, Record
<1>6. DeliveredIsLast' /\ RetryPromise'
  BY <1>5 DEF DeliveredIsLast, RetryPromise
<1> QED
  BY <1>3, <1>4, <1>6

(* Starting chains is type correct when the jobs are.                      *)
LEMMA QueueIsTyped ==
  ASSUME TypeOK, NEW new, NEW jobs, QueueDeliveries(new, jobs),
         \A c \in new : jobs[c] \in Job
  PROVE  /\ phase' \in [Chain -> Phase]
         /\ attempt' \in [Chain -> 0..MaxAttempts]
         /\ job' \in [Chain -> Job \cup {NoJob}]
         /\ \A c \in Chain : phase'[c] # "free" => job'[c] \in Job
         /\ \A r \in records : phase'[r.chain] # "free"
<1> USE ConfigAssumption
<1>1. phase' \in [Chain -> Phase] /\ attempt' \in [Chain -> 0..MaxAttempts]
  BY DEF TypeOK, QueueDeliveries, Phase
<1>2. job' \in [Chain -> Job \cup {NoJob}]
  BY DEF TypeOK, QueueDeliveries
<1>3. \A c \in Chain : phase'[c] # "free" => job'[c] \in Job
  BY DEF TypeOK, QueueDeliveries
<1>4. \A r \in records : phase'[r.chain] # "free"
  BY DEF TypeOK, QueueDeliveries, Record
<1> QED
  BY <1>1, <1>2, <1>3, <1>4

-----------------------------------------------------------------------------
(* Every step is type correct, given the whole of IInv before it.          *)
LEMMA TypeStep == IInv /\ [Next]_vars => TypeOK'
<1> SUFFICES ASSUME IInv, [Next]_vars PROVE TypeOK'
  OBVIOUS
<1> USE ConfigAssumption, DataAssumption
<1> USE DEF IInv, TypeOK, vars, lifecycleVars, definitionVars, busVars, chainVars
<1>1. CASE Register
  <2>1. PICK list : /\ list \in Seq(Definition) /\ table' \in SUBSET Definition
                    /\ registry' = [registry EXCEPT ![instance + 1] = list]
    <3>1. CASE table # {}
      <4>1. PICK list \in Listings(table) : registry' = [registry EXCEPT ![instance + 1] = list]
        BY <1>1, <3>1 DEF Register
      <4>2. \A r \in table : r.id \in Nat
        OBVIOUS
      <4>3. list \in Seq(Definition)
        BY <4>2, ListingIsTheTable
      <4> QED
        BY <1>1, <3>1, <4>1, <4>3 DEF Register
    <3>2. CASE table = {}
      <4>1. environment.endpoints \in Seq(Definition)
        OBVIOUS
      <4>2. Seeded(environment.endpoints) \subseteq Definition
        <5>1. ToSet(environment.endpoints) \subseteq Definition
          BY <4>1 DEF ToSet
        <5> QED
          BY <4>1, <5>1, SeededRows
      <4> QED
        BY <1>1, <3>2, <4>1, <4>2 DEF Register
    <3> QED
      BY <3>1, <3>2
  <2>3. registry' \in [Instance -> Seq(Definition)]
    BY <2>1
  <2>2. mode' = "running" /\ instance' \in 0..MaxInstances /\ instance' # 0
    BY <1>1 DEF Register
  <2> QED
    BY <1>1, <2>1, <2>2, <2>3 DEF Register
<1>2. CASE SeedInterrupted
  <2>1. PICK n \in 0..Len(environment.endpoints) :
          table' = Seeded(SubSeq(environment.endpoints, 1, n))
    BY <1>2 DEF SeedInterrupted
  <2>2. environment.endpoints \in Seq(Definition)
    OBVIOUS
  <2>3. SubSeq(environment.endpoints, 1, n) \in Seq(Definition)
    BY <2>2
  <2>4. PICK list \in Seq(Definition) : list = SubSeq(environment.endpoints, 1, n)
    BY <2>3
  <2>5. Seeded(list) \subseteq ToSet(list) /\ ToSet(list) \subseteq Definition
    BY SeededRows DEF ToSet
  <2>6. table' \in SUBSET Definition
    BY <2>1, <2>4, <2>5
  <2> QED
    BY <1>2, <2>6 DEF SeedInterrupted
<1>3. CASE Stop
  BY <1>3 DEF Stop, ClearedByStop, Phase, Record
<1>4. CASE ProcessEnds
  BY <1>4 DEF ProcessEnds, Phase, Record, Live
<1>5. ASSUME NEW d \in Definition, Upsert(d) PROVE TypeOK'
  <2>1. registry' \in [Instance -> Seq(Definition)]
    <3>1. instance \in Instance /\ registry[instance] \in Seq(Definition)
      BY <1>5 DEF Upsert, Instance
    <3>2. PICK list : list = Upserted(registry[instance], d)
      OBVIOUS
    <3>3. list \in Seq(Definition)
      BY <3>1, <3>2, UpsertedList
    <3>4. registry' = [registry EXCEPT ![instance] = list]
      BY <1>5, <3>2 DEF Upsert
    <3> QED
      BY <3>3, <3>4
  <2>2. table' \in SUBSET Definition
    BY <1>5 DEF Upsert, Saved
  <2> QED
    BY <1>5, <2>1, <2>2 DEF Upsert
<1>6. ASSUME NEW id \in WebhookId, RemoveWebhook(id) PROVE TypeOK'
  <2>1. PICK rest \in Filtered(registry[instance], id) :
          registry' = [registry EXCEPT ![instance] = rest]
    BY <1>6 DEF RemoveWebhook
  <2>2. registry[instance] \in Seq(Definition)
    BY <1>6 DEF RemoveWebhook, Instance
  <2>3. rest \in Seq(Definition)
    BY <2>2, FilteredList
  <2>4. registry' \in [Instance -> Seq(Definition)]
    BY <2>1, <2>3
  <2>5. table' \in SUBSET Definition
    BY <1>6 DEF RemoveWebhook, DeletedRows
  <2> QED
    BY <1>6, <2>4, <2>5 DEF RemoveWebhook
<1>7. ASSUME NEW e \in Event, Publish(e) PROVE TypeOK'
  BY <1>7 DEF Publish, Publication, Instance
<1>8. ASSUME NEW p \in publishing, PublishAborted(p) PROVE TypeOK'
  BY <1>8 DEF PublishAborted
<1>9. ASSUME NEW p \in publishing, Subscriber(p) PROVE TypeOK'
  <2>1. PICK new : \E target \in Bijection(new, Matching(p)) :
          QueueDeliveries(new, [c \in new |-> Closure(p.owner, target[c], p.event, "event")])
    BY <1>9 DEF Subscriber
  <2>2. PICK target \in [new -> Matching(p)] :
          QueueDeliveries(new, [c \in new |-> Closure(p.owner, target[c], p.event, "event")])
    BY <2>1 DEF Bijection, Injection, Surjection
  <2>3. p.event \in Event /\ p.owner \in Instance /\ registry[p.owner] \in Seq(Definition)
    BY DEF Publication
  <2>4. \A i \in Matching(p) : i \in Nat /\ registry[p.owner][i] \in Definition
    BY <2>3 DEF Matching
  <2>5. \A c \in new : Closure(p.owner, target[c], p.event, "event") \in Job
    BY <2>2, <2>3, <2>4 DEF Job, Closure
  <2> QED
    BY <1>9, <2>2, <2>5, QueueIsTyped DEF Subscriber, HandlerDone
<1>10. ASSUME NEW r \in records, Replay(r) PROVE TypeOK'
  <2>1. PICK i \in FirstOf(registry[instance], job[r.chain].definition.id), c \in Chain :
          QueueDeliveries({c}, [x \in {c} |-> Closure(instance, i, job[r.chain].event, "replay")])
    BY <1>10 DEF Replay
  <2>2. instance \in Instance /\ i \in Nat /\ registry[instance][i] \in Definition
    <3>1. instance \in Instance /\ registry[instance] \in Seq(Definition)
      BY <1>10 DEF Replay, Instance
    <3> QED
      BY <3>1 DEF FirstOf
  <2>3. job[r.chain].event \in Event
    BY <1>10 DEF Replay
  <2>4. \A x \in {c} : Closure(instance, i, job[r.chain].event, "replay") \in Job
    BY <2>2, <2>3 DEF Job, Closure
  <2> QED
    BY <1>10, <2>1, <2>4, QueueIsTyped DEF Replay
<1>11. ASSUME NEW c \in Chain, FetchEnds(c) PROVE TypeOK'
  <2>1. phase[c] = "sending" /\ attempt[c] \in 1..MaxAttempts
    BY <1>11 DEF FetchEnds, Succeed, Fail, Abort, PhaseMatchesRows
  <2>2. CASE Succeed(c)
    BY <2>1, <2>2 DEF Succeed, Row, Record, Phase
  <2>3. CASE Fail(c)
    <3>1. NextRetryAt(attempt[c]) \in {"set", "undefined"}
      BY DEF NextRetryAt
    <3>2. Row(c, "failed", NextRetryAt(attempt[c])) \in Record
      BY <2>1, <3>1 DEF Row, Record
    <3>3. phase' \in [Chain -> Phase]
      BY <2>3 DEF Fail, Phase
    <3>4. \A r \in records' : phase'[r.chain] # "free"
      BY <2>3 DEF Fail, Row, Record
    <3>5. records' \in SUBSET Record
      BY <2>3, <3>2 DEF Fail
    <3> QED
      BY <2>1, <2>3, <3>3, <3>4, <3>5 DEF Fail
  <2>4. CASE Abort(c)
    BY <2>4 DEF Abort, Phase, Record
  <2> QED
    BY <1>11, <2>2, <2>3, <2>4 DEF FetchEnds
<1>12. ASSUME NEW c \in Chain, TimerFires(c) PROVE TypeOK'
  <2>1. attempt[c] \in 0..MaxAttempts /\ attempt[c] < MaxAttempts
    BY <1>12 DEF TimerFires, PhaseMatchesRows
  <2> QED
    BY <1>12, <2>1 DEF TimerFires, Phase, Record
<1>13. CASE UNCHANGED vars
  BY <1>13
<1> QED
  BY <1>1, <1>2, <1>3, <1>4, <1>5, <1>6, <1>7, <1>8, <1>9, <1>10, <1>11, <1>12, <1>13
  DEF Next
-----------------------------------------------------------------------------
(* A step that moves phases within what the rows already say: no row and    *)
(* no attempt changes, and a chain only leaves "sending" or "waiting" for a *)
(* phase in which nothing is claimed of its rows.                           *)
LEMMA PhaseMoveKeepsHistory ==
  ASSUME IInv, UNCHANGED <<records, attempt>>,
         \A c \in Chain :
           \/ phase'[c] = phase[c]
           \/ phase[c] \in Live /\ phase'[c] = "lost"
           \/ phase[c] = "waiting" /\ phase'[c] = "cancelled"
           \/ phase[c] = "sending" /\ phase'[c] = "aborted"
  PROVE  PhaseMatchesRows' /\ AttemptsGapless' /\ DeliveredIsLast' /\ RetryPromise'
<1> USE DEF IInv, Rows
<1>1. PhaseMatchesRows'
  BY DEF PhaseMatchesRows, Live
<1>2. AttemptsGapless'
  BY DEF AttemptsGapless
<1>3. \A r \in records : r.chain \in Chain
  BY DEF TypeOK, Record
<1>4. DeliveredIsLast'
  BY <1>3 DEF DeliveredIsLast, Live
<1>5. ASSUME NEW r \in records, r.status = "failed", phase[r.chain] = "sending"
      PROVE  r.nextRetryAt = "set" /\ attempt[r.chain] > r.attempt
  BY <1>3, <1>5 DEF RetryPromise, PhaseMatchesRows
<1>6. RetryPromise'
  BY <1>3, <1>5 DEF RetryPromise, Live
<1> QED
  BY <1>1, <1>2, <1>4, <1>6

(* A fetch that ends with a row: the row is the first for its attempt, and *)
(* the new phase is the one the row stands for.                            *)
LEMMA RowKeepsHistory ==
  ASSUME IInv, TypeOK', NEW c \in Chain, Succeed(c) \/ Fail(c)
  PROVE  PhaseMatchesRows' /\ AttemptsGapless' /\ DeliveredIsLast' /\ RetryPromise'
<1> USE ConfigAssumption DEF IInv
<1>1. PICK row : /\ records' = records \cup {row}
                 /\ row.chain = c /\ row.attempt = attempt[c]
                 /\ \/ row.status = "delivered" /\ phase'[c] = "delivered"
                    \/ /\ row.status = "failed" /\ attempt[c] < MaxAttempts
                       /\ row.nextRetryAt = "set" /\ phase'[c] = "waiting"
                    \/ /\ row.status = "failed" /\ attempt[c] = MaxAttempts
                       /\ row.nextRetryAt = "undefined" /\ phase'[c] = "exhausted"
  <2>1. CASE Succeed(c)
    <3>1. phase'[c] = "delivered" /\ records' = records \cup {Row(c, "delivered", "undefined")}
      BY <2>1 DEF Succeed, TypeOK
    <3> WITNESS Row(c, "delivered", "undefined")
    <3> QED
      BY <3>1 DEF Row
  <2>2. CASE Fail(c)
    <3>1. attempt[c] \in 0..MaxAttempts
      BY DEF TypeOK
    <3>2. CASE attempt[c] < MaxAttempts
      <4>1. RetryAllowed(attempt[c]) /\ NextRetryAt(attempt[c]) = "set"
        BY <3>1, <3>2 DEF RetryAllowed, NextRetryAt
      <4>2. phase'[c] = "waiting" /\ records' = records \cup {Row(c, "failed", "set")}
        BY <2>2, <4>1 DEF Fail, TypeOK
      <4> WITNESS Row(c, "failed", "set")
      <4> QED
        BY <3>2, <4>2 DEF Row
    <3>3. CASE attempt[c] = MaxAttempts
      <4>1. ~RetryAllowed(attempt[c]) /\ NextRetryAt(attempt[c]) = "undefined"
        BY <3>1, <3>3 DEF RetryAllowed, NextRetryAt
      <4>2. phase'[c] = "exhausted" /\ records' = records \cup {Row(c, "failed", "undefined")}
        BY <2>2, <4>1 DEF Fail, TypeOK
      <4> WITNESS Row(c, "failed", "undefined")
      <4> QED
        BY <3>3, <4>2 DEF Row
    <3> QED
      BY <3>1, <3>2, <3>3
  <2> QED
    BY <2>1, <2>2
<1>2. /\ phase[c] = "sending" /\ attempt' = attempt
      /\ \A x \in Chain : x # c => phase'[x] = phase[x]
  BY DEF Succeed, Fail, TypeOK
<1>3. \A r \in records : r.chain \in Chain /\ r.attempt \in Nat
  BY DEF TypeOK, Record
<1>4. \A r \in records : r.chain = c => r.attempt < attempt[c]
  <2> SUFFICES ASSUME NEW r \in records, r.chain = c
               PROVE  r.attempt < attempt[c]
    OBVIOUS
  <2>1. r \in Rows(c)
    BY DEF Rows
  <2>2. r.attempt # attempt[c]
    BY <1>2, <2>1 DEF PhaseMatchesRows
  <2>3. r.attempt =< attempt[c]
    BY <2>1 DEF AttemptsGapless
  <2>4. r.attempt \in Nat /\ attempt[c] \in Nat
    BY <1>3 DEF TypeOK
  <2> QED
    BY <2>2, <2>3, <2>4
<1>5. PhaseMatchesRows'
  <2>1. SUFFICES ASSUME NEW x \in Chain
                 PROVE  /\ phase'[x] = "free" <=> attempt'[x] = 0
                        /\ phase'[x] = "waiting" => attempt'[x] < MaxAttempts
                        /\ phase'[x] = "waiting" => \E r \in Rows(x)' : r.attempt = attempt'[x]
                        /\ phase'[x] \in {"sending", "aborted"} =>
                              \A r \in Rows(x)' : r.attempt # attempt'[x]
    BY DEF PhaseMatchesRows
  <2>2. CASE x = c
    BY <1>1, <1>2, <2>2 DEF PhaseMatchesRows, Rows
  <2>3. CASE x # c
    BY <1>1, <1>2, <2>3 DEF PhaseMatchesRows, Rows
  <2> QED
    BY <2>2, <2>3
<1>6. AttemptsGapless'
  <2>1. ASSUME NEW x \in Chain, x # c PROVE Rows(x)' = Rows(x)
    BY <1>1, <2>1 DEF Rows
  <2>2. Rows(c)' = Rows(c) \cup {row}
    BY <1>1 DEF Rows
  <2>3. attempt[c] \in 0..MaxAttempts
    BY DEF TypeOK
  <2> QED
    BY <1>1, <1>2, <1>4, <2>1, <2>2, <2>3 DEF AttemptsGapless, Rows
<1>7. DeliveredIsLast'
  BY <1>1, <1>2, <1>3 DEF DeliveredIsLast
<1>8. RetryPromise'
  BY <1>1, <1>2, <1>3, <1>4 DEF RetryPromise
<1> QED
  BY <1>5, <1>6, <1>7, <1>8

(* A retry begins: the row of the attempt before is there already.         *)
LEMMA RetryKeepsHistory ==
  ASSUME IInv, TypeOK', NEW c \in Chain, TimerFires(c)
  PROVE  PhaseMatchesRows' /\ AttemptsGapless' /\ DeliveredIsLast' /\ RetryPromise'
<1> USE ConfigAssumption DEF IInv
<1>1. /\ phase[c] = "waiting" /\ phase'[c] = "sending" /\ attempt'[c] = attempt[c] + 1
      /\ \A x \in Chain : x # c => phase'[x] = phase[x] /\ attempt'[x] = attempt[x]
      /\ records' = records
  BY DEF TimerFires, TypeOK
<1>2. \A r \in records : r.chain \in Chain /\ r.attempt \in Nat
  BY DEF TypeOK, Record
<1>3. attempt[c] \in 0..MaxAttempts
  BY DEF TypeOK
<1>4. \A r \in records : r.chain = c => r.attempt =< attempt[c]
  BY <1>2 DEF AttemptsGapless, Rows
<1>5. PhaseMatchesRows'
  BY <1>1, <1>2, <1>3, <1>4 DEF PhaseMatchesRows, Rows
<1>6. AttemptsGapless'
  <2>1. SUFFICES ASSUME NEW x \in Chain
                 PROVE  /\ \A r \in Rows(x) : r.attempt =< attempt'[x]
                        /\ \A n \in 1..(attempt'[x] - 1) : \E r \in Rows(x) : r.attempt = n
                        /\ \A r, s \in Rows(x) : r.attempt = s.attempt => r = s
    BY <1>1 DEF AttemptsGapless, Rows
  <2>2. CASE x = c
    <3>1. \E r \in Rows(c) : r.attempt = attempt[c]
      BY <1>1 DEF PhaseMatchesRows
    <3>2. \A n \in 1..attempt[c] : n = attempt[c] \/ n \in 1..(attempt[c] - 1)
      BY <1>3
    <3> QED
      BY <1>1, <1>2, <1>3, <1>4, <2>2, <3>1, <3>2 DEF AttemptsGapless, Rows
  <2>3. CASE x # c
    BY <1>1, <2>3 DEF AttemptsGapless
  <2> QED
    BY <2>2, <2>3
<1>7. DeliveredIsLast'
  BY <1>1, <1>2 DEF DeliveredIsLast
<1>8. RetryPromise'
  BY <1>1, <1>2, <1>3, <1>4 DEF RetryPromise
<1> QED
  BY <1>5, <1>6, <1>7, <1>8

-----------------------------------------------------------------------------
(* IInv is inductive.                                                      *)
LEMMA IInvStep == IInv /\ [Next]_vars => IInv'
<1> SUFFICES ASSUME IInv, [Next]_vars PROVE IInv'
  OBVIOUS
<1>0. TypeOK'
  BY TypeStep
<1> DEFINE History == PhaseMatchesRows /\ AttemptsGapless /\ DeliveredIsLast /\ RetryPromise
<1> SUFFICES History'
  BY <1>0 DEF IInv
<1>1. CASE UNCHANGED <<phase, attempt, records>>
  BY <1>1, PhaseMoveKeepsHistory
<1>2. CASE Stop
  BY <1>2, PhaseMoveKeepsHistory DEF Stop, ClearedByStop, Live
<1>3. CASE ProcessEnds
  BY <1>3, PhaseMoveKeepsHistory DEF ProcessEnds, Live
<1>4. ASSUME NEW p \in publishing, Subscriber(p) PROVE History'
  BY <1>0, <1>4, QueueKeepsHistory DEF Subscriber
<1>5. ASSUME NEW r \in records, Replay(r) PROVE History'
  BY <1>0, <1>5, QueueKeepsHistory DEF Replay
<1>6. ASSUME NEW c \in Chain, Succeed(c) \/ Fail(c) PROVE History'
  BY <1>0, <1>6, RowKeepsHistory
<1>7. ASSUME NEW c \in Chain, Abort(c) PROVE History'
  <2>1. phase[c] = "sending" /\ \A x \in Chain : phase'[x] = IF x = c THEN "aborted" ELSE phase[x]
    BY <1>7 DEF Abort, IInv, TypeOK
  <2> QED
    BY <1>7, <2>1, PhaseMoveKeepsHistory DEF Abort
<1>8. ASSUME NEW c \in Chain, TimerFires(c) PROVE History'
  BY <1>0, <1>8, RetryKeepsHistory
<1>9. CASE \/ Register \/ SeedInterrupted
           \/ \E d \in Definition : Upsert(d)
           \/ \E id \in WebhookId : RemoveWebhook(id)
           \/ \E e \in Event : Publish(e)
           \/ \E p \in publishing : PublishAborted(p)
  BY <1>1, <1>9 DEF Register, SeedInterrupted, Upsert, RemoveWebhook, Publish, PublishAborted, chainVars
<1> QED
  BY <1>1, <1>2, <1>3, <1>4, <1>5, <1>6, <1>7, <1>8, <1>9
  DEF Next, FetchEnds, vars, chainVars

-----------------------------------------------------------------------------
(* Every behaviour of the runtime keeps IInv.                              *)
THEOREM Invariance == Spec => []IInv
BY InitIInv, IInvStep, PTL DEF Spec

(* Type correctness: in particular no chain makes more than MaxAttempts    *)
(* attempts, whatever the timers, stops and restarts do.                   *)
THEOREM TypeCorrect == Spec => []TypeOK
BY Invariance, PTL DEF IInv

(* The delivery history of every chain is gapless and free of repetitions. *)
THEOREM HistoryIsGapless == Spec => []AttemptsGapless
BY Invariance, PTL DEF IInv

(* A chain with a "delivered" row never sends again.                       *)
THEOREM DeliveredChainsRest == Spec => []DeliveredIsLast
BY Invariance, PTL DEF IInv

(* nextRetryAt announces a retry exactly when one is armed, has happened or *)
(* was taken away by a stop or the end of the process.                      *)
THEOREM RetriesAsAnnounced == Spec => []RetryPromise
BY Invariance, PTL DEF IInv
-----------------------------------------------------------------------------
(* The runtime implements DeliveryPromise.                                 *)

LEMMA InitPromise == Init => Promise!Init
BY DEF Init, Promise!Init, Outcome, Live

(* Every step of the runtime is a step of the promise or leaves outcomes   *)
(* and tries alone.                                                        *)
LEMMA PromiseStep == IInv /\ IInv' /\ [Next]_vars => [Promise!Next]_(Promise!promiseVars)
<1> SUFFICES ASSUME IInv, IInv', [Next]_vars
             PROVE  Promise!Next \/ UNCHANGED Promise!promiseVars
  OBVIOUS
<1> DEFINE outcome == [c \in Chain |-> Outcome(phase[c])]
<1> USE DEF Outcome, Live, Phase
<1>0. /\ DOMAIN phase = Chain /\ DOMAIN attempt = Chain
      /\ DOMAIN phase' = Chain /\ DOMAIN attempt' = Chain
      /\ \A c \in Chain : phase[c] \in Phase /\ attempt[c] \in 0..MaxAttempts
      /\ \A c \in Chain : phase'[c] \in Phase
      /\ attempt = [c \in Chain |-> attempt[c]]
      /\ attempt' = [c \in Chain |-> attempt'[c]]
  BY DEF IInv, TypeOK
<1>1. CASE UNCHANGED <<phase, attempt>>
  BY <1>1 DEF Promise!promiseVars
<1>2. ASSUME NEW new, NEW jobs, QueueDeliveries(new, jobs) PROVE Promise!Next
  <2>1. Promise!Open(new)
    BY <1>0, <1>2 DEF QueueDeliveries, Promise!Open
  <2>2. new \in SUBSET Chain
    BY <1>2 DEF QueueDeliveries
  <2> QED
    BY <2>1, <2>2 DEF Promise!Next
<1>3. CASE Stop \/ ProcessEnds
  <2>1. PICK cut \in SUBSET Chain :
          cut = {c \in Chain : outcome[c] = "open" /\ outcome'[c] = "interrupted"}
    OBVIOUS
  <2>2. \A c \in Chain : outcome'[c] = IF c \in cut THEN "interrupted" ELSE outcome[c]
    BY <1>0, <1>3, <2>1 DEF Stop, ProcessEnds, ClearedByStop
  <2>3. attempt' = attempt
    BY <1>3 DEF Stop, ProcessEnds, chainVars
  <2>4. Promise!Interrupt(cut)
    BY <2>1, <2>2, <2>3 DEF Promise!Interrupt
  <2> QED
    BY <2>4 DEF Promise!Next
<1>4. ASSUME NEW c \in Chain, FetchEnds(c) PROVE Promise!Next \/ UNCHANGED Promise!promiseVars
  <2>1. CASE Succeed(c)
    <3>1. Promise!Deliver(c)
      BY <1>0, <2>1 DEF Succeed, Promise!Deliver
    <3> QED
      BY <3>1 DEF Promise!Next
  <2>2. CASE Fail(c) /\ RetryAllowed(attempt[c])
    BY <1>0, <2>2 DEF Fail, Promise!promiseVars
  <2>3. CASE Fail(c) /\ ~RetryAllowed(attempt[c])
    <3>1. attempt[c] = MaxAttempts
      BY <1>0, <2>3, ConfigAssumption DEF RetryAllowed
    <3>2. Promise!GiveUp(c)
      BY <1>0, <2>3, <3>1 DEF Fail, Promise!GiveUp
    <3> QED
      BY <3>2 DEF Promise!Next
  <2>4. CASE Abort(c)
    <3>1. Promise!Interrupt({c})
      BY <1>0, <2>4 DEF Abort, Promise!Interrupt
    <3> QED
      BY <3>1 DEF Promise!Next
  <2> QED
    BY <1>4, <2>1, <2>2, <2>3, <2>4 DEF FetchEnds
<1>5. ASSUME NEW c \in Chain, TimerFires(c) PROVE Promise!Next
  <2>1. attempt[c] < MaxAttempts
    BY <1>5 DEF TimerFires, IInv, PhaseMatchesRows
  <2>2. Promise!Retry(c)
    BY <1>0, <1>5, <2>1 DEF TimerFires, Promise!Retry
  <2> QED
    BY <2>2 DEF Promise!Next
<1>6. ASSUME NEW p \in publishing, Subscriber(p) PROVE Promise!Next
  BY <1>2, <1>6 DEF Subscriber
<1>7. ASSUME NEW r \in records, Replay(r) PROVE Promise!Next
  BY <1>2, <1>7 DEF Replay
<1>8. CASE \/ Register \/ SeedInterrupted
           \/ \E d \in Definition : Upsert(d)
           \/ \E id \in WebhookId : RemoveWebhook(id)
           \/ \E e \in Event : Publish(e)
           \/ \E p \in publishing : PublishAborted(p)
  BY <1>1, <1>8 DEF Register, SeedInterrupted, Upsert, RemoveWebhook, Publish, PublishAborted, chainVars
<1> QED
  BY <1>1, <1>3, <1>4, <1>5, <1>6, <1>7, <1>8 DEF Next, vars, chainVars

(* Every behaviour of the runtime, seen through Outcome, is one the         *)
(* delivery promise allows.                                                *)
THEOREM ImplementsPromise == Spec => KeepsPromise
<1>1. Init => Promise!Init
  BY InitPromise
<1>2. IInv /\ IInv' /\ [Next]_vars => [Promise!Next]_(Promise!promiseVars)
  BY PromiseStep
<1> QED
  BY <1>1, <1>2, Invariance, PTL DEF Spec, KeepsPromise, Promise!Spec
-----------------------------------------------------------------------------
(* The registry in memory and the table, and the chains of an event.       *)

(* Saving a definition keeps ids unique.                                   *)
LEMMA UniqueIdsKept ==
  ASSUME NEW rows, NEW d, UniqueIds(rows)
  PROVE  UniqueIds(Saved(rows, d))
BY DEF UniqueIds, Saved

\* The array of every instance repeats an id only if the config does.
RegistryInv ==
  /\ RegistryMirrorsTable
  /\ \A i \in Instance, id \in WebhookId :
       Repeats(registry[i], id) => Repeats(environment.endpoints, id)

LEMMA RegistryStep ==
  TypeOK /\ TypeOK' /\ RegistryInv /\ [Next]_vars => RegistryInv'
<1> SUFFICES ASSUME TypeOK, TypeOK', RegistryInv, [Next]_vars
             PROVE  RegistryInv'
  OBVIOUS
<1> USE ConfigAssumption DEF TypeOK, RegistryInv, RegistryMirrorsTable
<1>0. /\ environment.endpoints \in Seq(Definition)
      /\ \A d \in Definition : d.id \in WebhookId /\ d.id \in Nat
  BY DataAssumption
<1>1. CASE UNCHANGED <<environment, registry, table, mode, instance>>
  BY <1>1 DEF UniqueIds
<1>2. CASE Register
  <2>1. /\ instance + 1 \in Instance /\ instance' = instance + 1
        /\ environment' = environment
    BY <1>2 DEF Register, Instance
  <2>2. PICK list : /\ registry' = [registry EXCEPT ![instance + 1] = list]
                    /\ UniqueIds(table')
                    /\ Mirrors(list, table', environment.endpoints)
                    /\ \A id \in WebhookId :
                         Repeats(list, id) => Repeats(environment.endpoints, id)
    <3>1. CASE table # {}
      <4>1. PICK list \in Listings(table) : registry' = [registry EXCEPT ![instance + 1] = list]
        BY <1>2, <3>1 DEF Register
      <4>2. table' = table
        BY <1>2, <3>1 DEF Register
      <4>3. \A r \in table : r.id \in Nat
        BY <1>0
      <4>4. ToSet(list) = table /\ \A id : ~Repeats(list, id)
        BY <4>3, ListingIsTheTable
      <4> QED
        BY <4>1, <4>2, <4>4 DEF Mirrors
    <3>2. CASE table = {}
      <4>1. /\ registry' = [registry EXCEPT ![instance + 1] = environment.endpoints]
            /\ table' = Seeded(environment.endpoints)
        BY <1>2, <3>2 DEF Register
      <4>2. /\ UniqueIds(Seeded(environment.endpoints))
            /\ Mirrors(environment.endpoints, Seeded(environment.endpoints), environment.endpoints)
        BY <1>0, SeededRows DEF Mirrors
      <4> QED
        BY <4>1, <4>2
    <3> QED
      BY <3>1, <3>2
  <2>3. /\ registry'[instance'] = list
        /\ \A i \in Instance : i # instance' => registry'[i] = registry[i]
    BY <2>1, <2>2
  <2> QED
    BY <2>1, <2>2, <2>3
<1>3. CASE SeedInterrupted
  <2>1. PICK n \in 0..Len(environment.endpoints) :
          table' = Seeded(SubSeq(environment.endpoints, 1, n))
    BY <1>3 DEF SeedInterrupted
  <2>2. registry' = registry /\ mode' # "running" /\ environment' = environment
    BY <1>3 DEF SeedInterrupted, lifecycleVars
  <2>3. SubSeq(environment.endpoints, 1, n) \in Seq(Definition)
    BY <1>0
  <2>4. UniqueIds(table')
    BY <2>1, <2>3, SeededRows
  <2> QED
    BY <2>2, <2>4
<1>4. CASE Stop \/ ProcessEnds
  <2>1. /\ table' = table /\ registry' = registry /\ mode' # "running"
        /\ environment' = environment
    BY <1>4 DEF Stop, ProcessEnds, definitionVars
  <2> QED
    BY <2>1
<1>5. ASSUME NEW d \in Definition, Upsert(d) PROVE RegistryInv'
  <2>1. /\ mode = "running" /\ mode' = mode /\ instance' = instance /\ environment' = environment
        /\ instance \in Instance /\ registry[instance] \in Seq(Definition)
    BY <1>5 DEF Upsert, lifecycleVars, Instance
  <2>2. PICK list : list = Upserted(registry[instance], d)
    OBVIOUS
  <2>3. registry' = [registry EXCEPT ![instance] = list]
    BY <1>5, <2>2 DEF Upsert
  <2>4. /\ table' = Saved(table, d) \/ table' = table
        /\ ~environment.storageFails => table' = Saved(table, d)
    BY <1>5 DEF Upsert, StorageOutcome
  <2>5. UniqueIds(table')
    BY <2>4, UniqueIdsKept
  <2>6. ~environment.storageFails => Mirrors(list, table', environment.endpoints)
    <3> SUFFICES ASSUME ~environment.storageFails
                 PROVE  Mirrors(list, Saved(table, d), environment.endpoints)
      BY <2>4
    <3>1. Mirrors(registry[instance], table, environment.endpoints)
      BY <2>1
    <3>2. \A r \in ToSet(registry[instance]) :
            Repeats(registry[instance], r.id) => Repeats(environment.endpoints, r.id)
      BY <1>0, <2>1 DEF ToSet
    <3> QED
      BY <2>1, <2>2, <3>1, <3>2, UpsertMirrors
  <2>7. \A id \in WebhookId : Repeats(list, id) => Repeats(environment.endpoints, id)
    <3> SUFFICES ASSUME NEW id \in WebhookId, Repeats(list, id)
                 PROVE  Repeats(environment.endpoints, id)
      OBVIOUS
    <3>1. PICK i \in DOMAIN list, j \in DOMAIN list : i # j /\ list[i].id = id /\ list[j].id = id
      BY DEF Repeats
    <3>2. \A m, n \in DOMAIN list : list[m].id = list[n].id /\ m # n
                                     => Repeats(registry[instance], list[m].id)
      BY <2>1, <2>2, UpsertedList
    <3>3. Repeats(registry[instance], id)
      BY <3>1, <3>2
    <3> QED
      BY <2>1, <3>3
  <2>8. /\ registry'[instance'] = list
        /\ \A i \in Instance : i # instance' => registry'[i] = registry[i]
    BY <2>1, <2>3
  <2> QED
    BY <2>1, <2>5, <2>6, <2>7, <2>8
<1>6. ASSUME NEW id \in WebhookId, RemoveWebhook(id) PROVE RegistryInv'
  <2>1. /\ mode = "running" /\ mode' = mode /\ instance' = instance /\ environment' = environment
        /\ instance \in Instance /\ registry[instance] \in Seq(Definition)
    BY <1>6 DEF RemoveWebhook, lifecycleVars, Instance
  <2>2. PICK rest \in Filtered(registry[instance], id) :
          registry' = [registry EXCEPT ![instance] = rest]
    BY <1>6 DEF RemoveWebhook
  <2>3. /\ ToSet(rest) = {d \in ToSet(registry[instance]) : d.id # id}
        /\ \A x : Repeats(rest, x) => Repeats(registry[instance], x)
    BY <2>1, FilteredList
  <2>4. /\ table' = DeletedRows(id) \/ table' = table
        /\ ~environment.storageFails => table' = DeletedRows(id)
    BY <1>6 DEF RemoveWebhook, StorageOutcome
  <2>5. UniqueIds(table')
    BY <2>4 DEF DeletedRows, UniqueIds
  <2>6. ~environment.storageFails => Mirrors(rest, table', environment.endpoints)
    <3> SUFFICES ASSUME ~environment.storageFails
                 PROVE  Mirrors(rest, DeletedRows(id), environment.endpoints)
      BY <2>4
    <3>1. Mirrors(registry[instance], table, environment.endpoints)
      BY <2>1
    <3> QED
      BY <2>3, <3>1 DEF Mirrors, DeletedRows
  <2>7. \A x \in WebhookId : Repeats(rest, x) => Repeats(environment.endpoints, x)
    BY <2>1, <2>3
  <2>8. /\ registry'[instance'] = rest
        /\ \A i \in Instance : i # instance' => registry'[i] = registry[i]
    BY <2>1, <2>2
  <2> QED
    BY <2>1, <2>5, <2>6, <2>7, <2>8
<1>7. CASE \/ \E e \in Event : Publish(e)
           \/ \E p \in publishing : PublishAborted(p) \/ Subscriber(p)
           \/ \E r \in records : Replay(r)
           \/ \E c \in Chain : FetchEnds(c) \/ TimerFires(c)
  BY <1>1, <1>7
  DEF Publish, PublishAborted, Subscriber, Replay, FetchEnds, Succeed, Fail, Abort, TimerFires,
      lifecycleVars, definitionVars
<1> QED
  BY <1>1, <1>2, <1>3, <1>4, <1>5, <1>6, <1>7
  DEF Next, vars, lifecycleVars, definitionVars

LEMMA RegistryInvariance == Spec => []RegistryInv
<1>1. Init => RegistryInv
  BY DEF Init, RegistryInv, RegistryMirrorsTable, UniqueIds, Repeats
<1> QED
  BY <1>1, RegistryStep, TypeCorrect, PTL DEF Spec

(* What the API lists is what a restart would load.                        *)
THEOREM RegistryIsStored == Spec => []RegistryMirrorsTable
<1>1. RegistryInv => RegistryMirrorsTable
  BY DEF RegistryInv
<1> QED
  BY <1>1, RegistryInvariance, PTL
-----------------------------------------------------------------------------
(* The chains of an event.                                                 *)

\* A publish that still has its subscriber to call is the only one of its
\* event, and no chain comes from the event yet.
BusInv ==
  /\ \A p \in publishing : p.event \in events
  /\ \A p, q \in publishing : p.event = q.event => p = q
  /\ \A c \in Chain : FromEvent(c) => job[c].event \in events
  /\ \A p \in publishing, c \in Chain : FromEvent(c) => job[c].event # p.event
  /\ OneChainPerMatch

(* An event reaches a webhook through at most one chain, replays aside, and *)
(* an id through several only if the config lists it several times.        *)
THEOREM EventsReachOnce == Spec => []OneChainPerMatch
<1>1. Init => BusInv
  BY DEF Init, BusInv, FromEvent, OneChainPerMatch
<1>2. TypeOK /\ RegistryInv /\ BusInv /\ [Next]_vars => BusInv'
  <2> SUFFICES ASSUME TypeOK, RegistryInv, BusInv, [Next]_vars PROVE BusInv'
    OBVIOUS
  <2> USE DEF FromEvent
  <2>0. environment' = environment
    BY DEF Next, Register, SeedInterrupted, Stop, ProcessEnds, Upsert, RemoveWebhook, Publish,
           PublishAborted, Subscriber, Replay, FetchEnds, Succeed, Fail, Abort, TimerFires,
           vars, lifecycleVars
  <2>1. ASSUME /\ events' = events /\ publishing' \subseteq publishing /\ job' = job
               /\ \A c \in Chain : phase'[c] # "free" => phase[c] # "free"
        PROVE  BusInv'
    BY <2>0, <2>1 DEF BusInv, OneChainPerMatch
  <2>2. CASE UNCHANGED <<publishing, events, phase, job>>
    BY <2>1, <2>2
  <2>3. CASE Stop \/ ProcessEnds
    BY <2>1, <2>3 DEF Stop, ProcessEnds, ClearedByStop, Live, busVars
  <2>4. ASSUME NEW e \in Event, Publish(e) PROVE BusInv'
    <3>1. /\ e \notin events /\ events' = events \cup {e}
          /\ publishing' \subseteq publishing \cup {[event |-> e, owner |-> instance]}
          /\ phase' = phase /\ job' = job
      BY <2>4 DEF Publish, chainVars
    <3>2. \A p \in publishing' : p \in publishing \/ p = [event |-> e, owner |-> instance]
      BY <3>1
    <3> QED
      BY <2>0, <3>1, <3>2 DEF BusInv, OneChainPerMatch
  <2>5. ASSUME NEW p \in publishing, PublishAborted(p) PROVE BusInv'
    BY <2>1, <2>5 DEF PublishAborted, chainVars
  <2>6. ASSUME NEW p \in publishing, Subscriber(p) PROVE BusInv'
    <3>1. PICK new : \E target \in Bijection(new, Matching(p)) :
            QueueDeliveries(new, [c \in new |-> Closure(p.owner, target[c], p.event, "event")])
      BY <2>6 DEF Subscriber
    <3>2. PICK target :
            /\ target \in [new -> Matching(p)]
            /\ \A c1, c2 \in new : target[c1] = target[c2] => c1 = c2
            /\ QueueDeliveries(new, [c \in new |-> Closure(p.owner, target[c], p.event, "event")])
      BY <3>1 DEF Bijection, Injection, Surjection, IsInjective
    <3>3. /\ \A c \in new : c \in Chain /\ phase[c] = "free"
          /\ \A c \in new : /\ job'[c].event = p.event
                            /\ job'[c].place = target[c]
                            /\ job'[c].definition = registry[p.owner][target[c]]
          /\ \A c \in Chain \ new : phase'[c] = phase[c] /\ job'[c] = job[c]
      BY <3>2 DEF QueueDeliveries, Closure
    <3>4. events' = events /\ publishing' = publishing \ {p}
      BY <2>6 DEF Subscriber, HandlerDone
    <3>5. \A c \in Chain \ new : FromEvent(c)' => FromEvent(c) /\ job'[c].event # p.event
      BY <3>3 DEF BusInv
    <3>6. /\ \A q \in publishing' : q.event \in events'
          /\ \A q1, q2 \in publishing' : q1.event = q2.event => q1 = q2
          /\ \A c \in Chain : FromEvent(c)' => job'[c].event \in events'
      BY <3>3, <3>4, <3>5 DEF BusInv
    <3>7. \A q \in publishing', c \in Chain : FromEvent(c)' => job'[c].event # q.event
      BY <3>3, <3>4, <3>5 DEF BusInv
    <3>8. ASSUME NEW c1 \in new, NEW c2 \in new, c1 # c2
          PROVE  /\ job'[c1].place # job'[c2].place
                 /\ job'[c1].definition.id = job'[c2].definition.id
                      => Repeats(environment.endpoints, job'[c1].definition.id)
      <4> DEFINE list == registry[p.owner]
      <4>1. p.owner \in Instance /\ list \in Seq(Definition)
        BY DEF TypeOK, Publication
      <4>2. target[c1] \in DOMAIN list /\ target[c2] \in DOMAIN list /\ target[c1] # target[c2]
        BY <3>2, <3>8 DEF Matching
      <4>3. list[target[c1]] \in Definition
        BY <4>1, <4>2
      <4>4. list[target[c1]].id \in WebhookId
        BY <4>3, DataAssumption
      <4>5. list[target[c1]].id = list[target[c2]].id => Repeats(list, list[target[c1]].id)
        BY <4>2 DEF Repeats
      <4>6. Repeats(list, list[target[c1]].id) => Repeats(environment.endpoints, list[target[c1]].id)
        BY <4>1, <4>4 DEF RegistryInv
      <4> QED
        BY <3>3, <4>2, <4>5, <4>6
    <3>9. OneChainPerMatch'
      BY <2>0, <3>3, <3>5, <3>8 DEF BusInv, OneChainPerMatch
    <3> QED
      BY <3>6, <3>7, <3>9 DEF BusInv
  <2>7. ASSUME NEW r \in records, Replay(r) PROVE BusInv'
    <3>1. PICK i \in FirstOf(registry[instance], job[r.chain].definition.id), c \in Chain :
            QueueDeliveries({c}, [x \in {c} |-> Closure(instance, i, job[r.chain].event, "replay")])
      BY <2>7 DEF Replay
    <3>2. /\ job'[c].origin = "replay"
          /\ \A x \in Chain : x # c => phase'[x] = phase[x] /\ job'[x] = job[x]
      BY <3>1 DEF QueueDeliveries, Closure
    <3>3. \A x \in Chain : FromEvent(x)' => FromEvent(x) /\ job'[x] = job[x]
      BY <3>2
    <3>4. events' = events /\ publishing' = publishing
      BY <2>7 DEF Replay, busVars
    <3>5. OneChainPerMatch'
      BY <2>0, <3>3 DEF BusInv, OneChainPerMatch
    <3> QED
      BY <3>3, <3>4, <3>5 DEF BusInv
  <2>8. ASSUME NEW c \in Chain, FetchEnds(c) \/ TimerFires(c) PROVE BusInv'
    BY <2>1, <2>8 DEF FetchEnds, Succeed, Fail, Abort, TimerFires, busVars, TypeOK
  <2>9. CASE \/ Register \/ SeedInterrupted
             \/ \E d \in Definition : Upsert(d)
             \/ \E id \in WebhookId : RemoveWebhook(id)
    BY <2>2, <2>9 DEF Register, SeedInterrupted, Upsert, RemoveWebhook, busVars, chainVars
  <2> QED
    BY <2>2, <2>3, <2>4, <2>5, <2>6, <2>7, <2>8, <2>9 DEF Next, vars, busVars, chainVars
<1>3. BusInv => OneChainPerMatch
  BY DEF BusInv
<1> QED
  BY <1>1, <1>2, <1>3, TypeCorrect, RegistryInvariance, PTL DEF Spec

=============================================================================
