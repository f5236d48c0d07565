------------------------ MODULE AccountSession_proofs ------------------------
(***************************************************************************)
(* The accounts of a kernel, for any accounts, environments and number of  *)
(* kernels: the types, the fields of a record, that a start reaches every  *)
(* enabled account, that a stop is final, and that the rows of the         *)
(* database follow the registry.                                           *)
(*                                                                         *)
(* The inductive invariant cuts the list of accounts at turn[i], the place *)
(* the loop of start() or stop() has come to: before it the loop has done  *)
(* its work, from it on a start has made no client yet.  It also says that *)
(* a process that has ended leaves nothing that could write a row.         *)
(***************************************************************************)
EXTENDS AccountSession, TLAPS

\* What the fields of one record say together.
Coherent(r) ==
  /\ r.state \in {"failed", "disconnected"} => r.error
  /\ r.state = "authenticating" => ~r.error
  /\ r.state = "qr_required" => r.qr
  /\ r.state = "ready" => ~r.qr

IdAt(i, n) == config[i][n].id

\* start() has made a client for the account at place n, or the record says it failed.
Reached(i, n) == client[i][IdAt(i, n)] = "none" => record[i][IdAt(i, n)].state = "failed"

\* stop() is done with account a, and nothing can bring its state back.
AtRest(i, a) ==
  /\ client[i][a] \in {"none", "dead"}
  /\ client[i][a] = "dead" => record[i][a].state \in {"stopped", "failed"}

\* Every loop begins at the first place.
TurnInv ==
  \A i \in Instance :
    /\ phase[i] \in {"unborn", "constructed", "running"} => turn[i] = 1
    /\ phase[i] = "unborn" => config[i] = <<>>

StartInv ==
  \A i \in Instance :
    /\ phase[i] \in {"constructed", "starting"} =>
         \A n \in DOMAIN config[i] : n >= turn[i] => client[i][IdAt(i, n)] = "none"
    /\ phase[i] = "starting" => \A n \in Initialized(i) : n < turn[i] => Reached(i, n)
    /\ phase[i] \in {"running", "stopping", "stopped"} => \A n \in Initialized(i) : Reached(i, n)

StopInv ==
  \A i \in Instance :
    /\ phase[i] = "stopping" => \A n \in DOMAIN config[i] : n < turn[i] => AtRest(i, IdAt(i, n))
    /\ phase[i] = "stopped" => \A a \in Account : AtRest(i, a)

\* What has ended with its process does nothing more.
GoneInv ==
  \A i \in Instance, a \in Account :
    phase[i] = "gone" =>
      client[i][a] \in {"none", "dead"} /\ <<i, a>> \notin opening \cup handling

IInv ==
  /\ TypeOK
  /\ FieldsAgree
  /\ TurnInv
  /\ StartInv
  /\ StopInv
  /\ GoneInv
  /\ RowsFollowRegistry

-----------------------------------------------------------------------------
(* Configs, records and rows.                                              *)

LEMMA ElementsOfSeq ==
  ASSUME NEW S, NEW list \in Seq(S)
  PROVE  DOMAIN list = 1..Len(list) /\ \A n \in DOMAIN list : list[n] \in S /\ n \in Nat /\ n >= 1
OBVIOUS

\* The configs name accounts, each once.
LEMMA ConfigTypes ==
  ASSUME NEW accounts \in Configs \cup {<<>>}
  PROVE  /\ accounts \in Seq([id : Account, enabled : BOOLEAN])
         /\ DistinctIds(accounts)
         /\ \A n \in DOMAIN accounts : accounts[n].id \in Account /\ n \in Nat /\ n >= 1
<1>1. accounts \in Seq([id : Account, enabled : BOOLEAN]) /\ DistinctIds(accounts)
  <2>1. CASE accounts = <<>>
    BY <2>1 DEF DistinctIds
  <2>2. CASE accounts \in Configs
    BY <2>2, AccountAssumption DEF Configs
  <2> QED
    BY <2>1, <2>2
<1>2. \A n \in DOMAIN accounts :
        accounts[n] \in [id : Account, enabled : BOOLEAN] /\ n \in Nat /\ n >= 1
  BY <1>1, ElementsOfSeq
<1> QED
  BY <1>1, <1>2

\* A place of the config of a kernel names an account, and no other place does.
LEMMA Places ==
  ASSUME TypeOK, NEW i \in Instance
  PROVE  /\ Initialized(i) \subseteq DOMAIN config[i]
         /\ \A n \in DOMAIN config[i] :
              /\ n \in Nat /\ n >= 1
              /\ IdAt(i, n) \in Account
              /\ IdAt(i, n) \in Listed(config[i])
         /\ \A m, n \in DOMAIN config[i] : IdAt(i, m) = IdAt(i, n) => m = n
         /\ Listed(config[i]) \subseteq Account
<1>1. config[i] \in Configs \cup {<<>>}
  BY DEF TypeOK
<1> QED
  BY <1>1, ConfigTypes DEF IdAt, Listed, DistinctIds, Initialized

\* The constructor of the registry makes a coherent record for each listed account.
LEMMA FreshRecords ==
  ASSUME NEW accounts
  PROVE  /\ Fresh(accounts) \in [Account -> Record \cup {NoRecord}]
         /\ \A a \in Account : Fresh(accounts)[a] \in Record <=> a \in Listed(accounts)
         /\ \A a \in Account : Fresh(accounts)[a] # NoRecord => Coherent(Fresh(accounts)[a])
BY NoRecordAssumption DEF Fresh, Record, State, Coherent

\* Patching changes one record of one registry.
LEMMA PatchOne ==
  ASSUME TypeOK, NEW i \in Instance, NEW a \in Account, a \in Listed(config[i]), NEW new \in Record,
         record' = [record EXCEPT ![i] = Patched(i, a, new)]
  PROVE  /\ record' \in [Instance -> [Account -> Record \cup {NoRecord}]]
         /\ record'[i] = Patched(i, a, new)
         /\ record'[i][a] = new
         /\ \A j \in Instance, b \in Account : j # i \/ b # a => record'[j][b] = record[j][b]
         /\ \A j \in Instance, b \in Account : record'[j][b] \in Record <=> record[j][b] \in Record
<1>1. record \in [Instance -> [Account -> Record \cup {NoRecord}]] /\ record[i][a] \in Record
  BY DEF TypeOK
<1>2. Patched(i, a, new) \in [Account -> Record \cup {NoRecord}]
  BY <1>1 DEF Patched
<1>3. \A b \in Account : Patched(i, a, new)[b] = IF b = a THEN new ELSE record[i][b]
  BY <1>1 DEF Patched
<1>4. \A j \in Instance : record'[j] = IF j = i THEN Patched(i, a, new) ELSE record[j]
  BY <1>1
<1>5. record' \in [Instance -> [Account -> Record \cup {NoRecord}]]
  BY <1>1, <1>2
<1> QED
  BY <1>1, <1>3, <1>4, <1>5

\* Making or destroying a client changes one entry of one map.
LEMMA ClientOne ==
  ASSUME TypeOK, NEW i \in Instance, NEW a \in Account, NEW c \in {"none", "idle", "live", "dead"},
         client' = [client EXCEPT ![i][a] = c]
  PROVE  /\ client' \in [Instance -> [Account -> {"none", "idle", "live", "dead"}]]
         /\ client'[i][a] = c
         /\ \A j \in Instance, b \in Account : j # i \/ b # a => client'[j][b] = client[j][b]
<1>1. client \in [Instance -> [Account -> {"none", "idle", "live", "dead"}]]
  BY DEF TypeOK
<1> QED
  BY <1>1

\* A save writes the records of the listed accounts.
LEMMA SavedRows ==
  ASSUME TypeOK, NEW i \in Instance, NEW records \in [Account -> Record \cup {NoRecord}],
         Saved(i, records)
  PROVE  /\ table' \in [Account -> Record \cup {NoRecord}]
         /\ \A a \in Account : a \in Listed(config[i]) => table'[a] = records[a]
BY DEF TypeOK, Saved, Rows

\* What the code writes into a record keeps it coherent.
LEMMA PatchedRecords ==
  ASSUME TypeOK, FieldsAgree, NEW i \in Instance, NEW a \in Account, a \in Listed(config[i])
  PROVE  /\ record[i][a] \in Record /\ Coherent(record[i][a])
         /\ Failed(i, a) \in Record /\ Coherent(Failed(i, a)) /\ Failed(i, a).state = "failed"
         /\ \A state \in {"initializing", "stopped"} :
              /\ InState(i, a, state) \in Record
              /\ Coherent(InState(i, a, state))
              /\ InState(i, a, state).state = state
<1>1. record[i][a] \in Record
  BY DEF TypeOK
<1>2. Coherent(record[i][a])
  BY <1>1, NoRecordAssumption DEF FieldsAgree, Coherent
<1>3. Failed(i, a) \in Record /\ Coherent(Failed(i, a)) /\ Failed(i, a).state = "failed"
  BY <1>1 DEF Failed, Record, State, Coherent
<1>4. ASSUME NEW state \in {"initializing", "stopped"}
      PROVE  /\ InState(i, a, state) \in Record
             /\ Coherent(InState(i, a, state))
             /\ InState(i, a, state).state = state
  BY <1>1, <1>2 DEF InState, Record, State, Coherent
<1> QED
  BY <1>1, <1>2, <1>3, <1>4

\* The fields of all records tell one story if those of each do.
LEMMA CoherentRecords ==
  FieldsAgree <=> \A i \in Instance, a \in Account : record[i][a] # NoRecord => Coherent(record[i][a])
BY DEF FieldsAgree, Coherent

-----------------------------------------------------------------------------
(* The events of clients, as far as the invariants go.                     *)

ClientStep(i, a) ==
  \/ InitializeSettles(i, a)
  \/ OnQr(i, a) \/ OnAuthenticated(i, a) \/ OnReady(i, a)
  \/ OnAuthFailure(i, a) \/ OnDisconnected(i, a)
  \/ OnMessage(i, a) \/ MessageHandled(i, a)

\* What an event may make of a record: the record of a destroyed client can only fail.
LEMMA ClientRecords ==
  ASSUME TypeOK, FieldsAgree, NEW i \in Instance, NEW a \in Account, ClientStep(i, a)
  PROVE  /\ UNCHANGED <<lifecycleVars, client>>
         /\ client[i][a] \in {"live", "dead"}
         /\ a \in Listed(config[i])
         /\ opening' \subseteq opening
         /\ \A x \in handling' : x \in handling \/ (x = <<i, a>> /\ client[i][a] = "live")
         /\ \/ UNCHANGED record
            \/ \E new \in Record :
                 /\ Coherent(new)
                 /\ client[i][a] = "dead" => new.state = "failed"
                 /\ record' = [record EXCEPT ![i] = Patched(i, a, new)]
         /\ \/ Saved(i, record'[i])
            \/ UNCHANGED table /\ (environment.storageFails \/ UNCHANGED record)
<1>1. client[i][a] \in {"live", "dead"} /\ a \in Listed(config[i])
  BY DEF TypeOK, ClientStep, InitializeSettles, OnQr, OnAuthenticated, OnReady, OnAuthFailure,
     OnDisconnected, ClientEvent, OnMessage, MessageHandled
<1>2. record[i][a] \in Record /\ Coherent(record[i][a])
  BY <1>1, PatchedRecords
<1>3. ASSUME NEW new \in Record, PatchAndSave(i, a, new)
      PROVE  /\ record' = [record EXCEPT ![i] = Patched(i, a, new)]
             /\ \/ Saved(i, record'[i])
                \/ UNCHANGED table /\ environment.storageFails
  <2>1. record' = [record EXCEPT ![i] = Patched(i, a, new)]
    BY <1>3 DEF PatchAndSave
  <2>2. record'[i] = Patched(i, a, new)
    BY <1>1, <2>1, PatchOne
  <2> QED
    BY <1>3, <2>1, <2>2 DEF PatchAndSave
<1>4. CASE InitializeSettles(i, a)
  <2>1. CASE PatchAndSave(i, a, Failed(i, a))
    BY <1>1, <1>3, <1>4, <2>1, PatchedRecords DEF InitializeSettles
  <2>2. CASE UNCHANGED <<record, table>>
    BY <1>1, <1>4, <2>2 DEF InitializeSettles
  <2> QED
    BY <1>4, <2>1, <2>2 DEF InitializeSettles
<1>5. ASSUME NEW new \in Record, Coherent(new), ClientEvent(i, a, new)
      PROVE  /\ UNCHANGED <<lifecycleVars, client, opening, handling>>
             /\ client[i][a] = "live"
             /\ record' = [record EXCEPT ![i] = Patched(i, a, new)]
             /\ \/ Saved(i, record'[i])
                \/ UNCHANGED table /\ environment.storageFails
  BY <1>3, <1>5 DEF ClientEvent, clientVars
<1>6. CASE OnQr(i, a) \/ OnAuthenticated(i, a) \/ OnReady(i, a)
           \/ OnAuthFailure(i, a) \/ OnDisconnected(i, a)
  <2>1. \E new \in Record : Coherent(new) /\ ClientEvent(i, a, new)
    <3>1. CASE OnQr(i, a)
      BY <1>2, <3>1 DEF OnQr, Record, State, Coherent
    <3>2. CASE OnAuthenticated(i, a)
      BY <1>2, <3>2 DEF OnAuthenticated, Record, State, Coherent
    <3>3. CASE OnReady(i, a)
      BY <1>2, <3>3 DEF OnReady, Record, State, Coherent
    <3>4. CASE OnAuthFailure(i, a)
      BY <1>1, <3>4, PatchedRecords DEF OnAuthFailure
    <3>5. CASE OnDisconnected(i, a)
      BY <1>2, <3>5 DEF OnDisconnected, Record, State, Coherent
    <3> QED
      BY <1>6, <3>1, <3>2, <3>3, <3>4, <3>5
  <2>2. PICK new \in Record : Coherent(new) /\ ClientEvent(i, a, new)
    BY <2>1
  <2> QED
    BY <1>1, <1>5, <2>2
<1>7. CASE OnMessage(i, a)
  BY <1>1, <1>7 DEF OnMessage
<1>8. CASE MessageHandled(i, a)
  BY <1>1, <1>8 DEF MessageHandled
<1> QED
  BY <1>4, <1>6, <1>7, <1>8 DEF ClientStep

\* An event of a client keeps every part of the invariant.
LEMMA Next_ClientStep ==
  ASSUME IInv, NEW i \in Instance, NEW a \in Account, ClientStep(i, a)
  PROVE  IInv'
<1>0. TypeOK /\ FieldsAgree
  BY DEF IInv
<1>1. /\ UNCHANGED <<environment, instance, config, phase, turn, client>>
      /\ client[i][a] \in {"live", "dead"}
      /\ a \in Listed(config[i])
      /\ opening' \subseteq opening
      /\ \A x \in handling' : x \in handling \/ (x = <<i, a>> /\ client[i][a] = "live")
  BY <1>0, ClientRecords DEF lifecycleVars
<1>2. \/ UNCHANGED record
      \/ \E new \in Record :
           /\ Coherent(new)
           /\ client[i][a] = "dead" => new.state = "failed"
           /\ record' = [record EXCEPT ![i] = Patched(i, a, new)]
  BY <1>0, ClientRecords
<1> DEFINE OneRecord ==
      /\ record' \in [Instance -> [Account -> Record \cup {NoRecord}]]
      /\ \A j \in Instance, b \in Account : record'[j][b] \in Record <=> record[j][b] \in Record
      /\ \A j \in Instance, b \in Account :
           \/ record'[j][b] = record[j][b]
           \/ /\ j = i /\ b = a
              /\ Coherent(record'[j][b])
              /\ client[i][a] = "dead" => record'[j][b].state = "failed"
<1>3. OneRecord
  <2>1. CASE UNCHANGED record
    BY <1>0, <2>1 DEF TypeOK
  <2>2. ASSUME NEW new \in Record, Coherent(new), client[i][a] = "dead" => new.state = "failed",
               record' = [record EXCEPT ![i] = Patched(i, a, new)]
        PROVE  OneRecord
    <3>1. /\ record' \in [Instance -> [Account -> Record \cup {NoRecord}]]
          /\ record'[i][a] = new
          /\ \A j \in Instance, b \in Account : j # i \/ b # a => record'[j][b] = record[j][b]
          /\ \A j \in Instance, b \in Account : record'[j][b] \in Record <=> record[j][b] \in Record
      BY <1>0, <1>1, <2>2, PatchOne
    <3> QED
      BY <2>2, <3>1
  <2> QED
    BY <1>2, <2>1, <2>2
<1>4. /\ table' \in [Account -> Record \cup {NoRecord}]
      /\ \/ \A b \in Account : b \in Listed(config[i]) => table'[b] = record'[i][b]
         \/ UNCHANGED table /\ (environment.storageFails \/ UNCHANGED record)
  <2>1. record'[i] \in [Account -> Record \cup {NoRecord}]
    BY <1>3
  <2>2. CASE Saved(i, record'[i])
    BY <1>0, <2>1, <2>2, SavedRows
  <2>3. CASE UNCHANGED table /\ (environment.storageFails \/ UNCHANGED record)
    BY <1>0, <2>3 DEF TypeOK
  <2> QED
    BY <1>0, <2>2, <2>3, ClientRecords
<1>5. TypeOK'
  <2>1. \A x \in handling' : x \in Instance \X Account /\ client[x[1]][x[2]] \in {"live", "dead"}
    BY <1>0, <1>1 DEF TypeOK
  <2>2. \A x \in opening' : x \in Instance \X Account /\ client[x[1]][x[2]] \in {"live", "dead"}
    BY <1>0, <1>1 DEF TypeOK
  <2> QED
    BY <1>0, <1>1, <1>3, <1>4, <2>1, <2>2 DEF TypeOK
<1>6. FieldsAgree'
  <2>1. \A j \in Instance, b \in Account : record[j][b] # NoRecord => Coherent(record[j][b])
    BY <1>0, CoherentRecords
  <2>2. \A j \in Instance, b \in Account : record'[j][b] # NoRecord => Coherent(record'[j][b])
    BY <1>3, <2>1
  <2> QED
    BY <2>2 DEF FieldsAgree, Coherent
<1>7. TurnInv'
  BY <1>1 DEF IInv, TurnInv
<1>8. StartInv'
  <2>1. \A j \in Instance : \A n \in DOMAIN config[j] : Reached(j, n) => Reached(j, n)'
    BY <1>0, <1>1, <1>3, Places DEF Reached, IdAt
  <2>2. \A j \in Instance : Initialized(j)' = Initialized(j) /\ Initialized(j) \subseteq DOMAIN config[j]
    BY <1>1 DEF Initialized
  <2> QED
    BY <1>1, <2>1, <2>2 DEF IInv, StartInv, IdAt
<1>9. StopInv'
  <2>1. \A j \in Instance, b \in Account : AtRest(j, b) => AtRest(j, b)'
    BY <1>1, <1>3 DEF AtRest
  <2>2. \A j \in Instance : \A n \in DOMAIN config[j] : IdAt(j, n) \in Account /\ IdAt(j, n)' = IdAt(j, n)
    BY <1>0, <1>1, Places DEF IdAt
  <2> QED
    BY <1>1, <2>1, <2>2 DEF IInv, StopInv
<1>10. GoneInv'
  <2>1. \A j \in Instance, b \in Account : <<j, b>> \in opening' \cup handling' =>
          <<j, b>> \in opening \cup handling \/ client[j][b] = "live"
    BY <1>1
  <2> QED
    BY <1>1, <2>1 DEF IInv, GoneInv
<1>11. RowsFollowRegistry'
  <2> SUFFICES ASSUME ~environment.storageFails, instance # 0, Alone,
                      phase[instance] \in {"constructed", "starting", "running", "stopped"},
                      NEW b \in Listed(config[instance])
               PROVE  table'[b] = record'[instance][b]
    BY <1>1 DEF RowsFollowRegistry, Alone
  <2>1. instance \in Instance /\ i =< instance
    <3>1. phase[i] # "unborn"
      <4>1. DOMAIN config[i] # {}
        BY <1>1 DEF Listed
      <4> QED
        BY <4>1 DEF IInv, TurnInv
    <3> QED
      BY <1>0, <3>1, AccountAssumption DEF TypeOK, Instance
  <2>2. phase[i] # "gone"
    <3>1. client[i][a] = "live" \/ <<i, a>> \in opening \cup handling
      BY DEF ClientStep, InitializeSettles, OnQr, OnAuthenticated, OnReady, OnAuthFailure,
         OnDisconnected, ClientEvent, OnMessage, MessageHandled
    <3> QED
      BY <3>1 DEF IInv, GoneInv
  <2>3. i = instance
    BY <1>0, <2>1, <2>2 DEF Alone, TypeOK, Instance
  <2>4. \A c \in Listed(config[instance]) : table[c] = record[instance][c]
    BY DEF IInv, RowsFollowRegistry
  <2>5. b \in Account
    BY <1>0, <2>1, Places DEF Listed, IdAt
  <2> QED
    BY <1>4, <2>3, <2>4, <2>5
<1> QED
  BY <1>5, <1>6, <1>7, <1>8, <1>9, <1>10, <1>11 DEF IInv

-----------------------------------------------------------------------------
(* Kernels.                                                                *)

\* A kernel that does something is the current one if no other is left.
LEMMA OnlyCurrent ==
  ASSUME TypeOK, NEW i \in Instance, phase[i] \notin {"unborn", "gone"}, Alone
  PROVE  i = instance
BY DEF TypeOK, Alone, Instance

\* A step of start() or stop() that only moves the kernel on, to a phase its work
\* allows, and saves the accounts when that phase promises it.
LEMMA PhaseStep ==
  ASSUME IInv, NEW i \in Instance, phase[i] \notin {"unborn", "gone"},
         NEW p \in {"starting", "running", "stopping", "stopped", "broken"}, NEW t \in Nat,
         phase' = [phase EXCEPT ![i] = p],
         turn' = [turn EXCEPT ![i] = t],
         UNCHANGED <<environment, instance, config, record, clientVars>>,
         Saved(i, record[i]) \/ UNCHANGED table,
         p = "starting" => phase[i] = "constructed" /\ t = 1 /\ UNCHANGED table,
         p = "running" => /\ phase[i] = "starting" /\ t = 1
                          /\ \A n \in Initialized(i) : n < turn[i]
                          /\ Saved(i, record[i]),
         p = "stopping" => phase[i] = "running" /\ t = 1,
         p = "stopped" => /\ phase[i] = "stopping"
                          /\ \A n \in WithClient(i) : n < turn[i]
                          /\ Saved(i, record[i])
  PROVE  IInv'
<1>0. TypeOK
  BY DEF IInv
<1>1. UNCHANGED <<client, opening, handling>>
  BY DEF clientVars
<1>2. /\ \A j \in Instance : phase'[j] = IF j = i THEN p ELSE phase[j]
      /\ \A j \in Instance : turn'[j] = IF j = i THEN t ELSE turn[j]
  BY <1>0 DEF TypeOK
<1>3. table' \in [Account -> Record \cup {NoRecord}]
  BY <1>0, SavedRows DEF TypeOK
<1>4. TypeOK'
  <2>1. /\ phase' \in [Instance -> {"unborn", "constructed", "starting", "running",
                                   "stopping", "stopped", "broken", "gone"}]
        /\ turn' \in [Instance -> Nat]
    BY <1>0 DEF TypeOK
  <2>2. \A j \in Instance : phase'[j] = "unborn" <=> phase[j] = "unborn"
    BY <1>2
  <2> QED
    BY <1>0, <1>1, <1>3, <2>1, <2>2 DEF TypeOK
<1>5. FieldsAgree'
  BY DEF IInv, FieldsAgree
<1>6. TurnInv'
  BY <1>2 DEF IInv, TurnInv
<1>7. /\ \A j \in Instance : Initialized(j)' = Initialized(j) /\ Initialized(j) \subseteq DOMAIN config[j]
      /\ \A j \in Instance : \A n : Reached(j, n)' <=> Reached(j, n)
      /\ \A j \in Instance : \A n : IdAt(j, n)' = IdAt(j, n)
  BY <1>1 DEF Initialized, Reached, IdAt
<1>8. StartInv'
  <2> SUFFICES ASSUME NEW j \in Instance
               PROVE  /\ phase'[j] \in {"constructed", "starting"} =>
                           \A n \in DOMAIN config[j] : n >= turn'[j] => client[j][IdAt(j, n)] = "none"
                      /\ phase'[j] = "starting" =>
                           \A n \in Initialized(j) : n < turn'[j] => Reached(j, n)
                      /\ phase'[j] \in {"running", "stopping", "stopped"} =>
                           \A n \in Initialized(j) : Reached(j, n)
    BY <1>1, <1>7 DEF StartInv
  <2>1. CASE j # i
    BY <1>2, <2>1 DEF IInv, StartInv
  <2>2. CASE j = i /\ p = "starting"
    <3>1. turn[i] = 1 /\ turn'[i] = 1
      BY <1>2, <2>2 DEF IInv, TurnInv
    <3>2. \A n \in Initialized(i) : ~(n < 1)
      <4>1. \A n \in DOMAIN config[i] : n \in Nat /\ n >= 1
        BY <1>0, Places
      <4> QED
        BY <1>7, <4>1
    <3> QED
      BY <1>2, <2>2, <3>1, <3>2 DEF IInv, StartInv
  <2>3. CASE j = i /\ p # "starting"
    BY <1>2, <2>3 DEF IInv, StartInv
  <2> QED
    BY <2>1, <2>2, <2>3
<1>9. StopInv'
  <2>1. \A j \in Instance, a \in Account : AtRest(j, a)' <=> AtRest(j, a)
    BY <1>1 DEF AtRest
  <2>2. \A j \in Instance : \A n \in DOMAIN config[j] : IdAt(j, n) \in Account /\ n \in Nat /\ n >= 1
    BY <1>0, Places
  <2> SUFFICES ASSUME NEW j \in Instance
               PROVE  /\ phase'[j] = "stopping" =>
                           \A n \in DOMAIN config[j] : n < turn'[j] => AtRest(j, IdAt(j, n))
                      /\ phase'[j] = "stopped" => \A a \in Account : AtRest(j, a)
    BY <1>7, <2>1, <2>2 DEF StopInv
  <2>3. CASE j # i
    BY <1>2, <2>3 DEF IInv, StopInv
  <2>4. CASE j = i /\ p \notin {"stopping", "stopped"}
    BY <1>2, <2>4
  <2>5. CASE j = i /\ p = "stopping"
    BY <1>2, <2>2, <2>5
  <2>6. CASE j = i /\ p = "stopped"
    <3> SUFFICES ASSUME NEW a \in Account
                 PROVE  AtRest(i, a)
      BY <1>2, <2>6
    <3>1. CASE client[i][a] = "none"
      BY <3>1 DEF AtRest
    <3>2. CASE client[i][a] # "none"
      <4>1. PICK n \in DOMAIN config[i] : IdAt(i, n) = a
        <5>1. a \in Listed(config[i])
          BY <1>0, <3>2 DEF TypeOK
        <5> QED
          BY <5>1 DEF Listed, IdAt
      <4>2. n < turn[i]
        BY <2>6, <3>2, <4>1 DEF WithClient, IdAt
      <4> QED
        BY <2>6, <4>1, <4>2 DEF IInv, StopInv
    <3> QED
      BY <3>1, <3>2
  <2> QED
    BY <2>3, <2>4, <2>5, <2>6
<1>10. GoneInv'
  BY <1>1, <1>2 DEF IInv, GoneInv
<1>11. RowsFollowRegistry'
  <2> SUFFICES ASSUME ~environment.storageFails, instance # 0, Alone',
                      phase'[instance] \in {"constructed", "starting", "running", "stopped"},
                      NEW b \in Listed(config[instance])
               PROVE  table'[b] = record[instance][b]
    BY DEF RowsFollowRegistry
  <2>1. instance \in Instance
    BY <1>0, AccountAssumption DEF TypeOK, Instance
  <2>2. i = instance
    <3>1. \A j \in 1..(instance - 1) : phase'[j] = "gone"
      BY DEF Alone
    <3>2. Alone
      BY <1>0, <1>2, <3>1 DEF Alone, TypeOK, Instance
    <3> QED
      BY <1>0, <3>2, OnlyCurrent
  <2>3. b \in Account
    BY <1>0, <2>1, Places DEF Listed, IdAt
  <2>4. record[i] \in [Account -> Record \cup {NoRecord}]
    BY <1>0 DEF TypeOK
  <2>5. CASE Saved(i, record[i])
    BY <1>0, <2>2, <2>3, <2>4, <2>5, SavedRows
  <2>6. CASE UNCHANGED table /\ ~Saved(i, record[i])
    <3>1. phase[instance] = "constructed"
      BY <1>2, <2>2, <2>6
    <3>2. Alone
      BY <1>0, <1>2, <2>2, <3>1 DEF Alone, TypeOK, Instance
    <3> QED
      BY <2>6, <3>1, <3>2 DEF IInv, RowsFollowRegistry
  <2> QED
    BY <2>5, <2>6
<1> QED
  BY <1>4, <1>5, <1>6, <1>8, <1>9, <1>10, <1>11 DEF IInv

LEMMA Next_Phases ==
  ASSUME IInv,
         BeginStart \/ \E i \in Instance : BeginStop(i) \/ StartEnds(i) \/ StopEnds(i)
  PROVE  IInv'
<1>0. /\ phase \in [Instance -> {"unborn", "constructed", "starting", "running",
                                "stopping", "stopped", "broken", "gone"}]
      /\ turn \in [Instance -> Nat]
  BY DEF IInv, TypeOK
<1>1. CASE BeginStart
  <2>1. instance \in Instance /\ phase[instance] = "constructed" /\ turn[instance] = 1
    BY <1>1, AccountAssumption DEF BeginStart, IInv, TypeOK, TurnInv, Instance
  <2>2. turn' = [turn EXCEPT ![instance] = 1]
    BY <1>0, <1>1, <2>1 DEF BeginStart
  <2>3. /\ phase' = [phase EXCEPT ![instance] = "starting"]
        /\ UNCHANGED <<environment, instance, config, record, clientVars, table>>
    BY <1>1 DEF BeginStart
  <2> QED
    BY <2>1, <2>2, <2>3, PhaseStep
<1>2. ASSUME NEW i \in Instance, BeginStop(i)
      PROVE  IInv'
  <2>1. phase[i] = "running" /\ turn[i] = 1
    BY <1>2 DEF BeginStop, IInv, TurnInv
  <2>2. turn' = [turn EXCEPT ![i] = 1]
    BY <1>0, <1>2, <2>1 DEF BeginStop
  <2>3. /\ phase' = [phase EXCEPT ![i] = "stopping"]
        /\ UNCHANGED <<environment, instance, config, record, clientVars, table>>
    BY <1>2 DEF BeginStop
  <2> QED
    BY <2>1, <2>2, <2>3, PhaseStep
<1>3. ASSUME NEW i \in Instance, StartEnds(i)
      PROVE  IInv'
  <2>1. /\ phase[i] = "starting"
        /\ \A n \in Initialized(i) : n < turn[i]
        /\ turn' = [turn EXCEPT ![i] = 1]
        /\ UNCHANGED <<environment, instance, config, record, clientVars>>
    BY <1>3 DEF StartEnds
  <2>2. CASE phase' = [phase EXCEPT ![i] = "running"] /\ Saved(i, record[i])
    BY <2>1, <2>2, PhaseStep
  <2>3. CASE phase' = [phase EXCEPT ![i] = "broken"] /\ UNCHANGED table
    BY <2>1, <2>3, PhaseStep
  <2> QED
    BY <1>3, <2>2, <2>3 DEF StartEnds
<1>4. ASSUME NEW i \in Instance, StopEnds(i)
      PROVE  IInv'
  <2>1. /\ phase[i] = "stopping"
        /\ \A n \in WithClient(i) : n < turn[i]
        /\ UNCHANGED <<environment, instance, config, turn, record, clientVars>>
    BY <1>4 DEF StopEnds
  <2>2. turn[i] \in Nat /\ turn' = [turn EXCEPT ![i] = turn[i]]
    BY <1>0, <2>1
  <2>3. CASE phase' = [phase EXCEPT ![i] = "stopped"] /\ Saved(i, record[i])
    BY <2>1, <2>2, <2>3, PhaseStep
  <2>4. CASE phase' = [phase EXCEPT ![i] = "broken"] /\ UNCHANGED table
    BY <2>1, <2>2, <2>4, PhaseStep
  <2> QED
    BY <1>4, <2>3, <2>4 DEF StopEnds
<1> QED
  BY <1>1, <1>2, <1>3, <1>4

\* With the process every kernel and every client is gone.
LEMMA Next_ProcessEnds ==
  ASSUME IInv, ProcessEnds
  PROVE  IInv'
<1>0. TypeOK
  BY DEF IInv
<1>1. /\ \A i \in Instance : phase'[i] = IF phase[i] = "unborn" THEN "unborn" ELSE "gone"
      /\ \A i \in Instance, a \in Account :
           client'[i][a] = IF client[i][a] = "none" THEN "none" ELSE "dead"
      /\ opening' = {} /\ handling' = {}
      /\ UNCHANGED <<environment, instance, config, turn, record, table>>
  BY DEF ProcessEnds
<1>2. TypeOK'
  <2>1. /\ phase' \in [Instance -> {"unborn", "constructed", "starting", "running",
                                   "stopping", "stopped", "broken", "gone"}]
        /\ client' \in [Instance -> [Account -> {"none", "idle", "live", "dead"}]]
    BY DEF ProcessEnds
  <2>2. \A i \in Instance : phase'[i] = "unborn" <=> phase[i] = "unborn"
    BY <1>1
  <2> QED
    BY <1>0, <1>1, <2>1, <2>2 DEF TypeOK
<1>3. FieldsAgree'
  BY <1>1 DEF IInv, FieldsAgree
<1>4. TurnInv' /\ StartInv' /\ StopInv'
  BY <1>1 DEF IInv, TurnInv, StartInv, StopInv
<1>5. GoneInv'
  BY <1>1 DEF GoneInv
<1>6. RowsFollowRegistry'
  <2>1. instance # 0 => phase'[instance] = "gone"
    BY <1>0, <1>1, AccountAssumption DEF TypeOK, Instance
  <2> QED
    BY <1>1, <2>1 DEF RowsFollowRegistry
<1> QED
  BY <1>2, <1>3, <1>4, <1>5, <1>6 DEF IInv

\* A new kernel has a record and a row for each account of its config, and no client.
LEMMA Next_Construct ==
  ASSUME IInv, NEW accounts \in Configs, Construct(accounts)
  PROVE  IInv'
<1> DEFINE k == instance + 1
           fresh == Fresh(accounts)
<1>0. TypeOK
  BY DEF IInv
<1>1. k \in Instance /\ instance \in Nat /\ k > instance
  BY <1>0, AccountAssumption DEF TypeOK, Instance, Construct
<1>2. /\ instance' = k
      /\ config' = [config EXCEPT ![k] = accounts]
      /\ phase' = [phase EXCEPT ![k] = "constructed"]
      /\ record' = [record EXCEPT ![k] = fresh]
      /\ table' = Rows(accounts, fresh)
      /\ UNCHANGED <<environment, turn, client, opening, handling>>
  BY DEF Construct, clientVars
<1>3. fresh \in [Account -> Record \cup {NoRecord}]
      /\ (\A a \in Account : fresh[a] \in Record <=> a \in Listed(accounts))
      /\ (\A a \in Account : fresh[a] # NoRecord => Coherent(fresh[a]))
  BY FreshRecords
<1> HIDE DEF k, fresh
<1>4. phase[k] = "unborn" /\ turn[k] = 1 /\ \A a \in Account : client[k][a] = "none"
  <2>1. phase[k] = "unborn"
    BY <1>0, <1>1 DEF TypeOK
  <2>2. config[k] = <<>>
    BY <1>1, <2>1 DEF IInv, TurnInv
  <2>3. Listed(config[k]) = {}
    BY <2>2 DEF Listed
  <2> QED
    BY <1>0, <1>1, <2>1, <2>3 DEF IInv, TypeOK, TurnInv
<1>5. \A j \in Instance :
        /\ config'[j] = IF j = k THEN accounts ELSE config[j]
        /\ phase'[j] = IF j = k THEN "constructed" ELSE phase[j]
        /\ record'[j] = IF j = k THEN fresh ELSE record[j]
  BY <1>0, <1>2 DEF TypeOK
<1>6. TypeOK'
  <2>1. /\ config' \in [Instance -> Configs \cup {<<>>}]
        /\ phase' \in [Instance -> {"unborn", "constructed", "starting", "running",
                                   "stopping", "stopped", "broken", "gone"}]
        /\ record' \in [Instance -> [Account -> Record \cup {NoRecord}]]
    BY <1>0, <1>2, <1>3 DEF TypeOK
  <2>2. table' \in [Account -> Record \cup {NoRecord}]
    BY <1>0, <1>2, <1>3 DEF TypeOK, Rows
  <2>3. \A j \in Instance : phase'[j] = "unborn" <=> j > instance'
    <3> TAKE j \in Instance
    <3>1. phase[j] = "unborn" <=> j > instance
      BY <1>0 DEF TypeOK
    <3>2. j > k <=> j > instance /\ j # k
      BY <1>1 DEF Instance, k
    <3> QED
      BY <1>2, <1>5, <3>1, <3>2
  <2>4. \A j \in Instance, a \in Account :
          /\ record'[j][a] \in Record <=> a \in Listed(config'[j])
          /\ client'[j][a] # "none" => a \in Listed(config'[j])
    BY <1>0, <1>2, <1>3, <1>4, <1>5 DEF TypeOK
  <2>5. instance' \in 0..MaxInstances
    BY <1>1, <1>2, AccountAssumption DEF Instance
  <2> QED
    BY <1>0, <1>2, <2>1, <2>2, <2>3, <2>4, <2>5 DEF TypeOK
<1>7. FieldsAgree'
  <2>1. \A j \in Instance, a \in Account : record[j][a] # NoRecord => Coherent(record[j][a])
    BY CoherentRecords DEF IInv
  <2>2. \A j \in Instance, a \in Account : record'[j][a] # NoRecord => Coherent(record'[j][a])
    BY <1>3, <1>5, <2>1
  <2> QED
    BY <2>2 DEF FieldsAgree, Coherent
<1>8. TurnInv'
  BY <1>2, <1>4, <1>5 DEF IInv, TurnInv
<1>9. StartInv'
  <2>1. \A j \in Instance : j # k =>
          /\ config'[j] = config[j] /\ phase'[j] = phase[j] /\ record'[j] = record[j]
    BY <1>5
  <2>2. \A n \in DOMAIN accounts : accounts[n].id \in Account
    BY ConfigTypes
  <2>3. \A n \in DOMAIN accounts : client'[k][accounts[n].id] = "none"
    BY <1>2, <1>4, <2>2
  <2> SUFFICES ASSUME NEW j \in Instance
               PROVE  /\ phase'[j] \in {"constructed", "starting"} =>
                           \A n \in DOMAIN config'[j] : n >= turn'[j] => client'[j][IdAt(j, n)'] = "none"
                      /\ phase'[j] = "starting" =>
                           \A n \in Initialized(j)' : n < turn'[j] => Reached(j, n)'
                      /\ phase'[j] \in {"running", "stopping", "stopped"} =>
                           \A n \in Initialized(j)' : Reached(j, n)'
    BY DEF StartInv
  <2>4. CASE j = k
    BY <1>5, <2>3, <2>4 DEF IdAt
  <2>5. CASE j # k
    BY <1>2, <2>1, <2>5 DEF IInv, StartInv, IdAt, Initialized, Reached
  <2> QED
    BY <2>4, <2>5
<1>10. StopInv'
  BY <1>2, <1>5 DEF IInv, StopInv, AtRest, IdAt
<1>11. GoneInv'
  BY <1>2, <1>5 DEF IInv, GoneInv
<1>12. RowsFollowRegistry'
  <2>1. \A a \in Listed(accounts) : a \in Account => table'[a] = fresh[a]
    BY <1>2 DEF Rows
  <2>2. \A a \in Listed(config'[k]) : a \in Account
    BY <1>1, <1>5, ConfigTypes DEF Listed
  <2> QED
    BY <1>1, <1>2, <1>5, <2>1, <2>2 DEF RowsFollowRegistry
<1> QED
  BY <1>6, <1>7, <1>8, <1>9, <1>10, <1>11, <1>12 DEF IInv

\* One account of a start: its client is made, or it fails and says so; the
\* accounts behind it are as they were.
LEMMA AccountStep ==
  ASSUME IInv, NEW i \in Instance, NEW n \in DOMAIN config[i],
         phase[i] = "starting",
         NextPlace(i, Initialized(i), n),
         NEW c \in {"none", "idle", "live"},
         client' = [client EXCEPT ![i][IdAt(i, n)] = c],
         NEW new \in Record, Coherent(new), c = "none" => new.state = "failed",
         record' = [record EXCEPT ![i] = Patched(i, IdAt(i, n), new)],
         opening' = opening \/ (c = "live" /\ opening' = opening \cup {<<i, IdAt(i, n)>>}),
         UNCHANGED <<environment, instance, config, handling>>,
         \/ /\ Saved(i, Patched(i, IdAt(i, n), new))
            /\ turn' = [turn EXCEPT ![i] = n + 1]
            /\ UNCHANGED phase
         \/ /\ environment.storageFails
            /\ phase' = [phase EXCEPT ![i] = "broken"]
            /\ UNCHANGED <<turn, table>>
  PROVE  IInv'
<1> DEFINE a == IdAt(i, n)
<1>0. TypeOK
  BY DEF IInv
<1>1. /\ a \in Account /\ a \in Listed(config[i])
      /\ n \in Nat
      /\ n >= turn[i]
      /\ \A m \in Initialized(i) : m >= turn[i] => n =< m
      /\ client[i][a] = "none"
  BY <1>0, Places DEF NextPlace, IInv, StartInv
<1> HIDE DEF a
<1>2. /\ client' \in [Instance -> [Account -> {"none", "idle", "live", "dead"}]]
      /\ client'[i][a] = c
      /\ \A j \in Instance, b \in Account : j # i \/ b # a => client'[j][b] = client[j][b]
  BY <1>0, <1>1, ClientOne DEF a
<1>3. /\ record' \in [Instance -> [Account -> Record \cup {NoRecord}]]
      /\ record'[i] = Patched(i, a, new)
      /\ record'[i][a] = new
      /\ \A j \in Instance, b \in Account : j # i \/ b # a => record'[j][b] = record[j][b]
      /\ \A j \in Instance, b \in Account : record'[j][b] \in Record <=> record[j][b] \in Record
  BY <1>0, <1>1, PatchOne DEF a
<1>4. \/ Saved(i, record'[i]) /\ turn' = [turn EXCEPT ![i] = n + 1] /\ UNCHANGED phase
      \/ /\ environment.storageFails
         /\ phase' = [phase EXCEPT ![i] = "broken"]
         /\ UNCHANGED <<turn, table>>
  BY <1>3 DEF a
<1>5. /\ \A j \in Instance : j # i => phase'[j] = phase[j] /\ turn'[j] = turn[j]
      /\ phase'[i] = "broken" \/ (phase'[i] = "starting" /\ turn'[i] = n + 1)
  BY <1>0, <1>4 DEF TypeOK
<1>6. /\ table' \in [Account -> Record \cup {NoRecord}]
      /\ environment.storageFails
           \/ \A b \in Account : b \in Listed(config[i]) => table'[b] = record'[i][b]
  <2>1. record'[i] \in [Account -> Record \cup {NoRecord}]
    BY <1>3
  <2> QED
    BY <1>0, <1>4, <2>1, SavedRows DEF TypeOK
<1>7. TypeOK'
  <2>1. /\ phase' \in [Instance -> {"unborn", "constructed", "starting", "running",
                                   "stopping", "stopped", "broken", "gone"}]
        /\ turn' \in [Instance -> Nat]
    <3>1. /\ phase \in [Instance -> {"unborn", "constructed", "starting", "running",
                                     "stopping", "stopped", "broken", "gone"}]
          /\ turn \in [Instance -> Nat]
          /\ n + 1 \in Nat
      BY <1>0, <1>1 DEF TypeOK
    <3> QED
      BY <1>4, <3>1
  <2>2. \A j \in Instance : phase'[j] = "unborn" <=> phase[j] = "unborn"
    BY <1>5
  <2>3. \A x \in Instance \X Account :
          client[x[1]][x[2]] \in {"live", "dead"} => client'[x[1]][x[2]] \in {"live", "dead"}
    BY <1>1, <1>2
  <2>4. opening' \in SUBSET {x \in Instance \X Account : client'[x[1]][x[2]] \in {"live", "dead"}}
    <3>1. \A x \in opening : x \in Instance \X Account /\ client'[x[1]][x[2]] \in {"live", "dead"}
      BY <1>0, <2>3 DEF TypeOK
    <3>2. opening' = opening \/ (c = "live" /\ opening' = opening \cup {<<i, a>>})
      BY DEF a
    <3> QED
      BY <1>1, <1>2, <3>1, <3>2
  <2>5. handling' \in SUBSET {x \in Instance \X Account : client'[x[1]][x[2]] \in {"live", "dead"}}
    BY <1>0, <2>3 DEF TypeOK
  <2>6. \A j \in Instance, b \in Account :
          /\ record'[j][b] \in Record <=> b \in Listed(config[j])
          /\ client'[j][b] # "none" => b \in Listed(config[j])
    BY <1>0, <1>1, <1>2, <1>3 DEF TypeOK
  <2> QED
    BY <1>0, <1>2, <1>3, <1>6, <2>1, <2>2, <2>4, <2>5, <2>6 DEF TypeOK
<1>8. FieldsAgree'
  <2>1. \A j \in Instance, b \in Account : record[j][b] # NoRecord => Coherent(record[j][b])
    BY CoherentRecords DEF IInv
  <2>2. \A j \in Instance, b \in Account : record'[j][b] # NoRecord => Coherent(record'[j][b])
    BY <1>3, <2>1
  <2> QED
    BY <2>2 DEF FieldsAgree, Coherent
<1>9. TurnInv'
  BY <1>5 DEF IInv, TurnInv
<1>10. /\ \A j \in Instance : Initialized(j)' = Initialized(j)
       /\ \A j \in Instance : \A m : IdAt(j, m)' = IdAt(j, m)
       /\ \A j \in Instance : \A m \in DOMAIN config[j] : j # i \/ m # n =>
            /\ client'[j][IdAt(j, m)] = client[j][IdAt(j, m)]
            /\ Reached(j, m)' <=> Reached(j, m)
  <2>1. \A j \in Instance : \A m \in DOMAIN config[j] : j # i \/ m # n =>
          IdAt(j, m) \in Account /\ (j # i \/ IdAt(j, m) # a)
    BY <1>0, Places DEF a
  <2>2. \A j \in Instance : \A m : IdAt(j, m)' = IdAt(j, m)
    BY DEF IdAt
  <2> QED
    BY <1>2, <1>3, <2>1, <2>2 DEF Initialized, Reached
<1>11. StartInv'
  <2> SUFFICES ASSUME NEW j \in Instance
               PROVE  /\ phase'[j] \in {"constructed", "starting"} =>
                           \A m \in DOMAIN config[j] : m >= turn'[j] => client'[j][IdAt(j, m)] = "none"
                      /\ phase'[j] = "starting" =>
                           \A m \in Initialized(j) : m < turn'[j] => Reached(j, m)'
                      /\ phase'[j] \in {"running", "stopping", "stopped"} =>
                           \A m \in Initialized(j) : Reached(j, m)'
    BY <1>10 DEF StartInv
  <2>0. Initialized(j) \subseteq DOMAIN config[j] /\ DOMAIN config[j] \subseteq Nat
    BY <1>0, Places
  <2>1. CASE j # i
    BY <1>5, <1>10, <2>0, <2>1 DEF IInv, StartInv
  <2>2. CASE j = i /\ phase'[i] = "starting"
    <3>1. turn'[i] = n + 1 /\ turn[i] \in Nat
      BY <1>0, <1>5, <2>2 DEF TypeOK
    <3>2. ASSUME NEW m \in DOMAIN config[i], m >= n + 1
          PROVE  client'[i][IdAt(i, m)] = "none"
      <4>1. m # n /\ m >= turn[i]
        BY <1>1, <2>0, <2>2, <3>1, <3>2
      <4> QED
        BY <1>10, <4>1 DEF IInv, StartInv
    <3>3. ASSUME NEW m \in Initialized(i), m < n + 1
          PROVE  Reached(i, m)'
      <4>1. CASE m = n
        BY <1>2, <1>3, <1>10, <4>1 DEF Reached, a
      <4>2. CASE m # n
        <5>1. m < turn[i]
          BY <1>1, <2>0, <2>2, <3>1, <3>3, <4>2
        <5> QED
          BY <1>10, <2>0, <2>2, <4>2, <5>1 DEF IInv, StartInv
      <4> QED
        BY <4>1, <4>2
    <3> QED
      BY <2>2, <3>1, <3>2, <3>3
  <2>3. CASE j = i /\ phase'[i] = "broken"
    BY <2>3
  <2> QED
    BY <1>5, <2>1, <2>2, <2>3
<1>12. StopInv'
  <2>1. \A j \in Instance, b \in Account : j # i => (AtRest(j, b)' <=> AtRest(j, b))
    BY <1>2, <1>3 DEF AtRest
  <2>2. \A j \in Instance : \A m \in DOMAIN config[j] : IdAt(j, m) \in Account
    BY <1>0, Places
  <2> QED
    BY <1>5, <1>10, <2>1, <2>2 DEF IInv, StopInv
<1>13. GoneInv'
  <2>1. \A j \in Instance, b \in Account : j # i =>
          /\ client'[j][b] = client[j][b]
          /\ <<j, b>> \in opening' \cup handling' => <<j, b>> \in opening \cup handling
    BY <1>2
  <2> QED
    BY <1>5, <2>1 DEF IInv, GoneInv
<1>14. RowsFollowRegistry'
  <2> SUFFICES ASSUME ~environment.storageFails, instance # 0, Alone',
                      NEW b \in Listed(config[instance])
               PROVE  table'[b] = record'[instance][b]
    BY DEF RowsFollowRegistry
  <2>1. Alone
    <3>1. instance \in Nat /\ MaxInstances \in Nat /\ instance =< MaxInstances
      BY <1>0, AccountAssumption DEF TypeOK
    <3>2. \A j \in 1..(instance - 1) : j \in Instance
      BY <3>1 DEF Instance
    <3>3. \A j \in 1..(instance - 1) : phase'[j] = "gone"
      BY DEF Alone
    <3> QED
      BY <1>5, <3>2, <3>3 DEF Alone
  <2>2. i = instance
    BY <1>0, <2>1, OnlyCurrent
  <2> QED
    BY <1>0, <1>6, <2>2, Places
<1> QED
  BY <1>7, <1>8, <1>9, <1>11, <1>12, <1>13, <1>14 DEF IInv

LEMMA Next_StartAccount ==
  ASSUME IInv, NEW i \in Instance, StartAccount(i)
  PROVE  IInv'
<1>0. TypeOK /\ FieldsAgree
  BY DEF IInv
<1>1. PICK n \in DOMAIN config[i] :
        NextPlace(i, Initialized(i), n) /\ (ClientCreated(i, n) \/ AccountFails(i, n))
  BY DEF StartAccount
<1>2. phase[i] = "starting" /\ UNCHANGED <<environment, instance, config>>
  BY DEF StartAccount
<1> DEFINE a == IdAt(i, n)
<1>3. a \in Account /\ a \in Listed(config[i])
  BY <1>0, Places
<1>4. client[i][a] = "none"
  BY <1>1, <1>2 DEF IInv, StartInv, NextPlace
<1>5. CASE ClientCreated(i, n)
  <2> DEFINE new == InState(i, a, "initializing")
  <2>1. new \in Record /\ Coherent(new)
    BY <1>0, <1>3, PatchedRecords
  <2>2. /\ client' = [client EXCEPT ![i][a] = "live"]
        /\ opening' = opening \cup {<<i, a>>}
        /\ record' = [record EXCEPT ![i] = Patched(i, a, new)]
        /\ Saved(i, Patched(i, a, new))
        /\ turn' = [turn EXCEPT ![i] = n + 1]
        /\ UNCHANGED <<phase, handling>>
    BY <1>5 DEF ClientCreated, IdAt
  <2> HIDE DEF new
  <2> QED
    BY <1>1, <1>2, <2>1, <2>2, AccountStep
<1>6. CASE AccountFails(i, n)
  <2> DEFINE new == Failed(i, a)
  <2>1. new \in Record /\ Coherent(new) /\ new.state = "failed"
    BY <1>0, <1>3, PatchedRecords
  <2>2. PICK c \in {"none", "idle", "live"} : client' = [client EXCEPT ![i][a] = c]
    <3>1. client = [client EXCEPT ![i][a] = "none"]
      BY <1>0, <1>4 DEF TypeOK
    <3> QED
      BY <1>6, <3>1 DEF AccountFails, IdAt
  <2>3. /\ record' = [record EXCEPT ![i] = Patched(i, a, new)]
        /\ UNCHANGED <<opening, handling>>
        /\ \/ /\ Saved(i, Patched(i, a, new))
              /\ turn' = [turn EXCEPT ![i] = n + 1]
              /\ UNCHANGED phase
           \/ /\ environment.storageFails
              /\ phase' = [phase EXCEPT ![i] = "broken"]
              /\ UNCHANGED <<turn, table>>
    BY <1>6 DEF AccountFails, IdAt
  <2> HIDE DEF new
  <2> QED
    BY <1>1, <1>2, <2>1, <2>2, <2>3, AccountStep
<1> QED
  BY <1>1, <1>5, <1>6

\* One client of a stop: destroyed, and its account at rest, as those before it.
LEMMA Next_DestroyClient ==
  ASSUME IInv, NEW i \in Instance, DestroyClient(i)
  PROVE  IInv'
<1>0. TypeOK /\ FieldsAgree
  BY DEF IInv
<1>1. PICK n \in DOMAIN config[i] :
        /\ NextPlace(i, WithClient(i), n)
        /\ \/ /\ client' = [client EXCEPT ![i][IdAt(i, n)] = "dead"]
              /\ record' = [record EXCEPT ![i] = Patched(i, IdAt(i, n), InState(i, IdAt(i, n), "stopped"))]
              /\ turn' = [turn EXCEPT ![i] = n + 1]
              /\ UNCHANGED phase
           \/ /\ phase' = [phase EXCEPT ![i] = "broken"]
              /\ UNCHANGED <<client, record, turn>>
  BY DEF DestroyClient, IdAt
<1>2. /\ phase[i] = "stopping"
      /\ UNCHANGED <<environment, instance, config, opening, handling, table>>
  BY DEF DestroyClient
<1> DEFINE id == IdAt(i, n)
           new == InState(i, id, "stopped")
<1>3. id \in Account /\ id \in Listed(config[i]) /\ n \in Nat /\ client[i][id] # "none"
  BY <1>0, <1>1, Places DEF NextPlace, WithClient, IdAt
<1>4. new \in Record /\ Coherent(new) /\ new.state = "stopped"
  BY <1>0, <1>3, PatchedRecords
<1> HIDE DEF id, new
<1>5. CASE phase' = [phase EXCEPT ![i] = "broken"] /\ UNCHANGED <<client, record, turn>>
  <2>1. turn[i] \in Nat /\ turn' = [turn EXCEPT ![i] = turn[i]]
    BY <1>0, <1>5 DEF TypeOK
  <2> QED
    BY <1>2, <1>5, <2>1, PhaseStep DEF clientVars
<1>6. ASSUME NEW c \in {"none", "idle", "live", "dead"}, c = "dead",
             client' = [client EXCEPT ![i][id] = c],
             NEW r \in Record, Coherent(r), r.state = "stopped",
             record' = [record EXCEPT ![i] = Patched(i, id, r)],
             turn' = [turn EXCEPT ![i] = n + 1],
             UNCHANGED phase
      PROVE  IInv'
  <2>1. /\ client' \in [Instance -> [Account -> {"none", "idle", "live", "dead"}]]
        /\ client'[i][id] = "dead"
        /\ \A j \in Instance, b \in Account : j # i \/ b # id => client'[j][b] = client[j][b]
    <3>0. id \in Account /\ TypeOK /\ client' = [client EXCEPT ![i][id] = c]
      BY <1>0, <1>3, <1>6
    <3>1. client' \in [Instance -> [Account -> {"none", "idle", "live", "dead"}]]
      BY <3>0, ClientOne DEF id
    <3>2. client'[i][id] = c
      BY <3>0, ClientOne DEF id
    <3>3. \A j \in Instance, b \in Account : j # i \/ b # id => client'[j][b] = client[j][b]
      BY <3>0, ClientOne DEF id
    <3> QED
      BY <1>6, <3>1, <3>2, <3>3
  <2>2. /\ record' \in [Instance -> [Account -> Record \cup {NoRecord}]]
        /\ record'[i][id] = r
        /\ \A j \in Instance, b \in Account : j # i \/ b # id => record'[j][b] = record[j][b]
        /\ \A j \in Instance, b \in Account : record'[j][b] \in Record <=> record[j][b] \in Record
    <3>0. /\ id \in Account /\ id \in Listed(config[i]) /\ TypeOK
          /\ record' = [record EXCEPT ![i] = Patched(i, id, r)]
      BY <1>0, <1>3, <1>6
    <3>1. record' \in [Instance -> [Account -> Record \cup {NoRecord}]] /\ record'[i][id] = r
      BY <3>0, PatchOne DEF id
    <3>2. \A j \in Instance, b \in Account : j # i \/ b # id => record'[j][b] = record[j][b]
      <4>1. record \in [Instance -> [Account -> Record \cup {NoRecord}]]
        BY <1>0 DEF TypeOK
      <4> QED
        BY <3>0, <4>1 DEF Patched
    <3>3. \A j \in Instance, b \in Account : record'[j][b] \in Record <=> record[j][b] \in Record
      BY <3>0, PatchOne DEF id
    <3> QED
      BY <3>1, <3>2, <3>3
  <2>3. /\ turn' \in [Instance -> Nat]
        /\ turn'[i] = n + 1
        /\ \A j \in Instance : j # i => turn'[j] = turn[j]
    BY <1>0, <1>3, <1>6 DEF TypeOK
  <2>4. TypeOK'
    <3>1. \A x \in Instance \X Account :
            client[x[1]][x[2]] \in {"live", "dead"} => client'[x[1]][x[2]] \in {"live", "dead"}
      BY <2>1
    <3>2. \A j \in Instance, b \in Account : record'[j][b] \in Record <=> b \in Listed(config[j])
      BY <1>0, <2>2 DEF TypeOK
    <3>3. \A j \in Instance, b \in Account : client'[j][b] # "none" => b \in Listed(config[j])
      <4>1. \A j \in Instance, b \in Account : client[j][b] # "none" => b \in Listed(config[j])
        BY <1>0 DEF TypeOK
      <4> QED
        BY <1>3, <2>1, <4>1
    <3>4. opening' \in SUBSET {x \in Instance \X Account : client'[x[1]][x[2]] \in {"live", "dead"}}
      BY <1>0, <1>2, <3>1 DEF TypeOK
    <3>5. handling' \in SUBSET {x \in Instance \X Account : client'[x[1]][x[2]] \in {"live", "dead"}}
      BY <1>0, <1>2, <3>1 DEF TypeOK
    <3>6. /\ environment' \in Environments /\ instance' \in 0..MaxInstances
          /\ config' \in [Instance -> Configs \cup {<<>>}]
          /\ phase' \in [Instance -> {"unborn", "constructed", "starting", "running",
                                      "stopping", "stopped", "broken", "gone"}]
          /\ \A j \in Instance : phase'[j] = "unborn" <=> j > instance'
          /\ table' \in [Account -> Record \cup {NoRecord}]
      BY <1>0, <1>2, <1>6 DEF TypeOK
    <3>7. config' = config
      BY <1>2
    <3> QED
      BY <2>1, <2>2, <2>3, <3>2, <3>3, <3>4, <3>5, <3>6, <3>7 DEF TypeOK
  <2>5. FieldsAgree'
    <3>1. \A j \in Instance, b \in Account : record[j][b] # NoRecord => Coherent(record[j][b])
      BY <1>0, CoherentRecords
    <3>2. \A j \in Instance, b \in Account : record'[j][b] # NoRecord => Coherent(record'[j][b])
      BY <1>6, <2>2, <3>1
    <3> QED
      BY <3>2 DEF FieldsAgree, Coherent
  <2>6. TurnInv'
    BY <1>2, <1>6, <2>3 DEF IInv, TurnInv
  <2>7. /\ \A j \in Instance : \A m \in DOMAIN config[j] :
             /\ IdAt(j, m) \in Account /\ m \in Nat
             /\ j # i \/ m # n => j # i \/ IdAt(j, m) # id
        /\ \A j \in Instance : Initialized(j) \subseteq DOMAIN config[j]
        /\ \A j \in Instance : Initialized(j)' = Initialized(j)
        /\ \A j \in Instance : \A m : IdAt(j, m)' = IdAt(j, m)
    BY <1>0, <1>2, Places DEF IdAt, Initialized, id
  <2>8. StartInv'
    <3>1. \A j \in Instance : \A m \in DOMAIN config[j] : Reached(j, m) => Reached(j, m)'
      BY <2>1, <2>2, <2>7 DEF Reached
    <3> SUFFICES ASSUME NEW j \in Instance
                 PROVE  /\ phase[j] \in {"constructed", "starting"} =>
                             \A m \in DOMAIN config[j] : m >= turn'[j] => client'[j][IdAt(j, m)] = "none"
                        /\ phase[j] = "starting" =>
                             \A m \in Initialized(j) : m < turn'[j] => Reached(j, m)'
                        /\ phase[j] \in {"running", "stopping", "stopped"} =>
                             \A m \in Initialized(j) : Reached(j, m)'
      BY <1>2, <1>6, <2>7 DEF StartInv
    <3>2. CASE j = i
      BY <1>2, <2>7, <3>1, <3>2 DEF IInv, StartInv
    <3>3. CASE j # i
      BY <2>1, <2>3, <2>7, <3>1, <3>3 DEF IInv, StartInv
    <3> QED
      BY <3>2, <3>3
  <2>9. StopInv'
    <3>1. \A j \in Instance, b \in Account : j # i \/ b # id => (AtRest(j, b)' <=> AtRest(j, b))
      BY <2>1, <2>2 DEF AtRest
    <3> SUFFICES ASSUME NEW j \in Instance
                 PROVE  /\ phase[j] = "stopping" =>
                             \A m \in DOMAIN config[j] : m < turn'[j] => AtRest(j, IdAt(j, m))'
                        /\ phase[j] = "stopped" => \A b \in Account : AtRest(j, b)'
      BY <1>2, <1>6, <2>7 DEF StopInv
    <3>2. CASE j # i
      BY <2>3, <2>7, <3>1, <3>2 DEF IInv, StopInv
    <3>3. CASE j = i
      <4> SUFFICES ASSUME NEW m \in DOMAIN config[i], m < n + 1
                   PROVE  AtRest(i, IdAt(i, m))'
        BY <1>2, <2>3, <3>3
      <4>1. CASE m = n
        BY <1>6, <2>1, <2>2, <2>7, <4>1 DEF AtRest, id
      <4>2. CASE m # n
        <5>1. IdAt(i, m) \in Account /\ IdAt(i, m) # id /\ m < n
          BY <1>3, <2>7, <4>2
        <5>2. CASE client[i][IdAt(i, m)] = "none"
          BY <2>7, <3>1, <5>1, <5>2 DEF AtRest
        <5>3. CASE client[i][IdAt(i, m)] # "none"
          <6>1. m \in WithClient(i)
            BY <5>3 DEF WithClient, IdAt
          <6>2. m < turn[i]
            BY <1>0, <1>1, <1>3, <2>7, <5>1, <6>1 DEF NextPlace, TypeOK
          <6> QED
            <7>1. AtRest(i, IdAt(i, m))
              BY <1>2, <6>2 DEF IInv, StopInv
            <7>2. /\ client'[i][IdAt(i, m)] = client[i][IdAt(i, m)]
                  /\ record'[i][IdAt(i, m)] = record[i][IdAt(i, m)]
              BY <2>1, <2>2, <5>1
            <7> QED
              BY <2>7, <7>1, <7>2 DEF AtRest
        <5> QED
          BY <5>2, <5>3
      <4> QED
        BY <4>1, <4>2
    <3> QED
      BY <3>2, <3>3
  <2>10. GoneInv'
    BY <1>2, <1>6, <2>1 DEF IInv, GoneInv
  <2>11. RowsFollowRegistry'
    <3>1. Alone => i = instance
      BY <1>0, <1>2, OnlyCurrent
    <3>2. Alone' => Alone
      BY <1>2, <1>6 DEF Alone
    <3> QED
      BY <1>2, <1>6, <3>1, <3>2 DEF RowsFollowRegistry
  <2> QED
    BY <2>4, <2>5, <2>6, <2>8, <2>9, <2>10, <2>11 DEF IInv
<1> QED
  BY <1>1, <1>4, <1>5, <1>6 DEF id, new

-----------------------------------------------------------------------------
(* The invariant.                                                          *)

LEMMA Init_IInv == Init => IInv
<1> SUFFICES ASSUME Init
             PROVE  IInv
  OBVIOUS
<1> USE DEF Init
<1>1. \A i \in Instance : i > 0 /\ Listed(config[i]) = {}
  BY DEF Instance, Listed
<1>2. TypeOK
  <2>1. instance \in 0..MaxInstances
    BY AccountAssumption
  <2> QED
    BY <1>1, <2>1, NoRecordAssumption DEF TypeOK
<1>3. FieldsAgree /\ TurnInv /\ StartInv /\ StopInv /\ GoneInv /\ RowsFollowRegistry
  BY DEF FieldsAgree, TurnInv, StartInv, StopInv, GoneInv, RowsFollowRegistry
<1> QED
  BY <1>2, <1>3 DEF IInv

LEMMA Stutter_IInv == IInv /\ UNCHANGED vars => IInv'
BY DEF vars, lifecycleVars, clientVars, IInv, TypeOK, FieldsAgree, TurnInv, StartInv, StopInv, GoneInv,
   RowsFollowRegistry, Reached, AtRest, IdAt, Initialized, Alone

LEMMA Next_IInv == IInv /\ Next => IInv'
<1> SUFFICES ASSUME IInv, Next
             PROVE  IInv'
  OBVIOUS
<1>1. ASSUME NEW accounts \in Configs, Construct(accounts)
      PROVE  IInv'
  BY <1>1, Next_Construct
<1>2. CASE BeginStart
  BY <1>2, Next_Phases
<1>3. CASE ProcessEnds
  BY <1>3, Next_ProcessEnds
<1>4. ASSUME NEW i \in Instance, LifecycleStep(i) \/ BeginStop(i)
      PROVE  IInv'
  BY <1>4, Next_StartAccount, Next_DestroyClient, Next_Phases DEF LifecycleStep
<1>5. ASSUME NEW i \in Instance, NEW a \in Account, ClientStep(i, a)
      PROVE  IInv'
  BY <1>5, Next_ClientStep
<1> QED
  BY <1>1, <1>2, <1>3, <1>4, <1>5 DEF Next, ClientStep

LEMMA Spec_IInv == Spec => []IInv
BY Init_IInv, Next_IInv, Stutter_IInv, PTL DEF Spec

-----------------------------------------------------------------------------
(* What the run checks, for any accounts, environments and number of kernels. *)

\* Registries, maps of clients and rows keep their types: a kernel has a record for
\* exactly the accounts of its config, and a client for no other.
THEOREM TypeCorrect == Spec => []TypeOK
<1>1. IInv => TypeOK
  BY DEF IInv
<1> QED
  BY <1>1, Spec_IInv, PTL

\* Whatever order the events of a client come in, and whichever saves fail, a failed
\* or disconnected account has its error, one that waits for a scan its QR code,
\* and a ready one no QR code.
THEOREM FieldsTellOneStory == Spec => []FieldsAgree
<1>1. IInv => FieldsAgree
  BY DEF IInv
<1> QED
  BY <1>1, Spec_IInv, PTL

\* When start() is over, every enabled account has its client or says that it failed:
\* the catch block of one account lets the loop go on to the next.
THEOREM StartLeavesNobodyOut == Spec => []StartReachesAll
<1>1. IInv => StartReachesAll
  BY DEF IInv, StartInv, StartReachesAll, Reached, IdAt
<1> QED
  BY <1>1, Spec_IInv, PTL

\* A kernel whose stop() has returned has no live client, and no late event or late
\* failure of an initialize() makes its accounts say anything but stopped or failed.
THEOREM StopLeavesNothingBehind == Spec => []StopIsFinal
<1>1. IInv => StopIsFinal
  BY DEF IInv, StopInv, StopIsFinal, AtRest
<1> QED
  BY <1>1, Spec_IInv, PTL

\* While the current kernel is the only one left in its process, storage works and
\* no stop() is under way, the rows an operator finds are the records the API shows.
THEOREM RowsAreTheRegistry == Spec => []RowsFollowRegistry
<1>1. IInv => RowsFollowRegistry
  BY DEF IInv
<1> QED
  BY <1>1, Spec_IInv, PTL

-----------------------------------------------------------------------------
(* The order of the kernels.                                               *)

Holders == {i \in Instance : \E a \in Account : client[i][a] = "live"}

\* Only the last kernel runs, except that its predecessor may until it starts.
OrderInv ==
  \A i \in 1..(instance - 1) :
    phase[i] \in IF i = instance - 1 /\ phase[instance] = "constructed"
                  THEN {"running", "stopping", "stopped", "broken", "gone"}
                  ELSE {"stopped", "gone"}

\* What a step of start() or stop() does to the phase of its kernel.
PhaseMove ==
  {<<"starting", "running">>, <<"starting", "broken">>, <<"running", "stopping">>,
   <<"stopping", "stopped">>, <<"stopping", "broken">>}

\* A kernel has live clients between its start and the end of its stop only.
LEMMA HoldersRun ==
  ASSUME IInv
  PROVE  \A i \in Holders : phase[i] \in {"starting", "running", "stopping", "broken"}
<1> SUFFICES ASSUME NEW i \in Instance, NEW a \in Account, client[i][a] = "live"
             PROVE  phase[i] \notin {"unborn", "constructed", "stopped", "gone"}
  BY DEF Holders, IInv, TypeOK
<1>1. a \in Listed(config[i])
  BY DEF IInv, TypeOK
<1>2. PICK n \in DOMAIN config[i] : IdAt(i, n) = a
  BY <1>1 DEF Listed, IdAt
<1>3. n \in Nat /\ n >= 1
  BY Places DEF IInv
<1>4. phase[i] # "constructed"
  BY <1>2, <1>3 DEF IInv, TurnInv, StartInv
<1>5. phase[i] # "unborn"
  BY <1>2 DEF IInv, TurnInv
<1>6. phase[i] \notin {"stopped", "gone"}
  BY DEF IInv, StopInv, AtRest, GoneInv
<1> QED
  BY <1>4, <1>5, <1>6

LEMMA Ordered ==
  ASSUME TypeOK, OrderInv, NEW i \in Instance,
         phase[i] \in {"starting", "running", "stopping", "broken"}
  PROVE  /\ instance \in Instance
         /\ i = instance \/ (i = instance - 1 /\ phase[instance] = "constructed")
         /\ \A j \in 1..(instance - 1) : j # i => phase[j] \in {"stopped", "gone"}
         /\ phase[i] = "starting" => i = instance
         /\ i = instance => Stage = IF phase[i] = "broken" THEN "over" ELSE phase[i]
         /\ i # instance => Stage = IF phase[i] = "broken" THEN "over" ELSE "replacing"
<1>1. instance \in 0..MaxInstances /\ MaxInstances \in Nat /\ i =< instance
  BY AccountAssumption DEF TypeOK, Instance
<1>2. instance \in Instance
  BY <1>1 DEF Instance
<1>3. i = instance \/ (i = instance - 1 /\ phase[instance] = "constructed")
  BY <1>1 DEF OrderInv, Instance
<1>4. \A j \in 1..(instance - 1) : j # i => phase[j] \in {"stopped", "gone"}
  BY <1>1, <1>3 DEF OrderInv
<1>5. i = instance - 1 => phase[i] \in {"running", "stopping", "broken"} /\ ~Free
  BY <1>1 DEF OrderInv, Instance, Free
<1>6. i = instance => Stage = IF phase[i] = "broken" THEN "over" ELSE phase[i]
  BY <1>2 DEF Stage, Instance
<1>7. i = instance - 1 => Stage = IF phase[i] = "broken" THEN "over" ELSE "replacing"
  BY <1>2, <1>3, <1>5 DEF Stage, Instance
<1> QED
  BY <1>1, <1>2, <1>3, <1>4, <1>5, <1>6, <1>7

\* What is seen of such a step: the last kernel moves, or the one that it replaces.
LEMMA MoveSeen ==
  ASSUME TypeOK, OrderInv, NEW i \in Instance, NEW p,
         <<phase[i], p>> \in PhaseMove,
         phase' = [phase EXCEPT ![i] = p],
         instance' = instance
  PROVE  /\ OrderInv'
         /\ i = instance =>
              Stage = phase[i] /\ Stage' = IF p \in {"stopped", "broken"} THEN "over" ELSE p
         /\ i # instance =>
              /\ Stage = "replacing"
              /\ p = "stopping" => Stage' = "replacing"
              /\ p = "stopped" => Stage' = "starting"
              /\ p = "broken" => Stage' = "over"
<1> DEFINE from == phase[i]
<1>1. /\ from \in {"starting", "running", "stopping"}
      /\ p \in {"running", "stopping", "stopped", "broken"}
      /\ from = "starting" => p \in {"running", "broken"}
  BY DEF PhaseMove
<1>2. /\ phase'[i] = p
      /\ \A j \in Instance : j # i => phase'[j] = phase[j]
  BY DEF TypeOK
<1>3. instance \in Instance /\ 1..(instance - 1) \subseteq Instance
  BY <1>1, Ordered, AccountAssumption DEF Instance
<1>4. CASE i = instance
  <2>1. \A j \in 1..(instance - 1) : phase'[j] = phase[j] /\ phase[j] \in {"stopped", "gone"}
    BY <1>1, <1>2, <1>3, <1>4, Ordered DEF Instance
  <2>2. OrderInv'
    BY <2>1 DEF OrderInv
  <2>3. Stage = from
    BY <1>1, <1>4, Ordered
  <2>4. Stage' = IF p \in {"stopped", "broken"} THEN "over" ELSE p
    BY <1>1, <1>2, <1>3, <1>4 DEF Stage, Instance
  <2> QED
    BY <1>4, <2>2, <2>3, <2>4
<1>5. CASE i # instance
  <2>1. /\ i = instance - 1 /\ phase[instance] = "constructed" /\ phase'[instance] = "constructed"
        /\ from # "starting" /\ Stage = "replacing"
    BY <1>1, <1>2, <1>3, <1>5, Ordered
  <2>2. \A j \in 1..(instance - 1) : j # i => phase'[j] \in {"stopped", "gone"}
    BY <1>1, <1>2, <1>3, Ordered
  <2>3. p \in {"stopping", "stopped", "broken"}
    BY <2>1 DEF PhaseMove
  <2>4. OrderInv'
    BY <1>2, <2>1, <2>2, <2>3 DEF OrderInv
  <2>5. Free' <=> p = "stopped"
    BY <1>2, <1>3, <2>1, <2>2, <2>3 DEF Free, Instance
  <2>6. instance # 0 /\ phase'[instance - 1] = p
    BY <1>2, <1>3, <2>1 DEF Instance
  <2>7. Stage' = IF p = "stopped" THEN "starting" ELSE IF p = "broken" THEN "over" ELSE "replacing"
    BY <2>1, <2>5, <2>6 DEF Stage
  <2> QED
    BY <1>5, <2>1, <2>3, <2>4, <2>7
<1> QED
  BY <1>4, <1>5

Simulated == OrderInv' /\ [Succession!Next]_(Succession!successionVars)

\* A step as KernelSuccession sees it, where the three expressions have been told.
LEMMA SeenSteps ==
  /\ Stage' = Stage /\ instance' = instance /\ Holders' = Holders =>
       UNCHANGED Succession!successionVars
  /\ Stage \in {"none", "gone"} /\ Stage' = "starting" /\ instance' = instance + 1
       /\ Holders' = Holders => Succession!First
  /\ Stage = "running" /\ Stage' = "replacing" /\ instance' = instance + 1
       /\ Holders' = Holders => Succession!Replace
  /\ Stage = "starting" /\ Stage' = Stage /\ instance' = instance /\ Holders' = {instance} =>
       Succession!Hold
  /\ Stage \in {"replacing", "stopping"} /\ Stage' = Stage /\ instance' = instance
       /\ Holders' = {} => Succession!Release
  /\ Stage = "replacing" /\ Stage' = "starting" /\ instance' = instance /\ Holders' = {} =>
       Succession!Follow
  /\ Stage = "starting" /\ Stage' = "running" /\ instance' = instance /\ Holders' = Holders =>
       Succession!Run
  /\ Stage = "running" /\ Stage' = "stopping" /\ instance' = instance /\ Holders' = Holders =>
       Succession!Retire
  /\ Stage = "stopping" /\ Stage' = "over" /\ instance' = instance /\ Holders' = {} =>
       Succession!Stop
  /\ Stage \in {"replacing", "starting", "running", "stopping"} /\ Stage' = "over"
       /\ instance' = instance /\ Holders' = Holders => Succession!Fail
  /\ Stage' = "gone" /\ instance' = instance /\ Holders' = {} => Succession!End
BY DEF Holders, Succession!successionVars, Succession!First, Succession!Replace, Succession!Hold,
   Succession!Release, Succession!Follow, Succession!Run, Succession!Retire, Succession!Stop,
   Succession!Fail, Succession!End, Succession!Moves

LEMMA SeenNext ==
  /\ Succession!First \/ Succession!Replace => Succession!Next
  /\ Succession!Hold \/ Succession!Release => Succession!Next
  /\ Succession!Follow \/ Succession!Run \/ Succession!Retire => Succession!Next
  /\ Succession!Stop \/ Succession!Fail \/ Succession!End => Succession!Next
BY DEF Succession!Next

\* Where the last two kernels are, and the clients do not change, nothing is seen.
LEMMA SameSeen ==
  ASSUME OrderInv, UNCHANGED <<instance, phase, client>>
  PROVE  Simulated
<1>1. OrderInv' /\ Stage' = Stage /\ Holders' = Holders
  BY DEF OrderInv, Stage, Free, Holders
<1> QED
  BY <1>1, SeenSteps DEF Simulated

\* A constructor: of a first kernel, or of one that replaces a running one.
LEMMA ConstructSeen ==
  ASSUME IInv, OrderInv, NEW accounts \in Configs, Construct(accounts)
  PROVE  Simulated
<1> DEFINE k == instance + 1
<1>1. /\ instance \in 0..MaxInstances /\ MaxInstances \in Nat /\ k \in Instance
      /\ 1..instance \subseteq Instance
      /\ instance # 0 => instance \in Instance /\ phase[instance] \in {"running", "gone"}
  BY AccountAssumption DEF IInv, TypeOK, Construct, Instance
<1>2. /\ instance' = k /\ phase'[k] = "constructed"
      /\ \A j \in 1..instance : phase'[j] = phase[j]
      /\ client' = client
  BY <1>1 DEF Construct, IInv, TypeOK, clientVars, Instance
<1>3. \A j \in 1..(instance - 1) : phase[j] \in {"stopped", "gone"}
  BY <1>1 DEF OrderInv
<1>4. OrderInv'
  BY <1>1, <1>2, <1>3 DEF OrderInv
<1>5. Holders' = Holders
  BY <1>2 DEF Holders
<1>6. CASE instance = 0
  <2>1. Stage = "none" /\ Free'
    BY <1>2, <1>6 DEF Stage, Free
  <2>2. Stage' = "starting"
    BY <1>1, <1>2, <2>1 DEF Stage
  <2> QED
    BY <1>2, <1>4, <1>5, <2>1, <2>2, SeenSteps, SeenNext DEF Simulated
<1>7. CASE instance # 0 /\ phase[instance] = "gone"
  <2>1. Free'
    BY <1>1, <1>2, <1>3, <1>7 DEF Free
  <2>2. Stage = "gone" /\ Stage' = "starting"
    BY <1>1, <1>2, <1>7, <2>1 DEF Stage
  <2> QED
    BY <1>2, <1>4, <1>5, <2>2, SeenSteps, SeenNext DEF Simulated
<1>8. CASE instance # 0 /\ phase[instance] = "running"
  <2>1. ~Free' /\ instance' - 1 = instance /\ phase'[instance] = "running"
    BY <1>1, <1>2, <1>8 DEF Free
  <2>2. Stage = "running" /\ Stage' = "replacing"
    BY <1>1, <1>2, <1>8, <2>1 DEF Stage
  <2> QED
    BY <1>2, <1>4, <1>5, <2>2, SeenSteps, SeenNext DEF Simulated
<1> QED
  BY <1>1, <1>6, <1>7, <1>8

LEMMA BeginStartSeen ==
  ASSUME IInv, OrderInv, BeginStart
  PROVE  Simulated
<1>1. instance \in Instance /\ 1..(instance - 1) \subseteq Instance
  BY AccountAssumption DEF IInv, TypeOK, BeginStart, Instance
<1>2. /\ instance' = instance /\ client' = client
      /\ phase[instance] = "constructed" /\ phase'[instance] = "starting"
      /\ \A j \in 1..(instance - 1) : phase'[j] = phase[j] /\ phase[j] \in {"stopped", "gone"}
  BY <1>1 DEF BeginStart, IInv, TypeOK, clientVars, Free, Instance
<1>3. OrderInv' /\ Holders' = Holders
  BY <1>2 DEF OrderInv, Holders
<1>4. Stage = "starting" /\ Stage' = "starting"
  BY <1>1, <1>2 DEF Stage, Free, BeginStart, Instance
<1> QED
  BY <1>2, <1>3, <1>4, SeenSteps DEF Simulated

LEMMA ProcessEndsSeen ==
  ASSUME IInv, OrderInv, ProcessEnds
  PROVE  Simulated
<1>1. instance \in Instance /\ 1..instance \subseteq Instance
  <2>1. PICK i \in Instance : phase[i] # "unborn"
    BY DEF ProcessEnds
  <2> QED
    BY <2>1, AccountAssumption DEF IInv, TypeOK, Instance
<1>2. /\ instance' = instance
      /\ \A i \in 1..instance : phase'[i] = "gone"
      /\ \A i \in Instance, a \in Account : client'[i][a] # "live"
  BY <1>1 DEF ProcessEnds, IInv, TypeOK
<1>3. OrderInv' /\ Holders' = {}
  BY <1>1, <1>2 DEF OrderInv, Holders, Instance
<1>4. Stage' = "gone"
  BY <1>1, <1>2 DEF Stage, Instance
<1> QED
  BY <1>2, <1>3, <1>4, SeenSteps, SeenNext DEF Simulated

\* Where one kernel is on its way, no other has live clients.
LEMMA OnlyHolder ==
  ASSUME IInv, OrderInv, NEW i \in Instance, phase[i] \in {"starting", "running", "stopping"}
  PROVE  Holders \subseteq {i}
<1>1. TypeOK
  BY DEF IInv
<1> SUFFICES ASSUME NEW j \in Holders PROVE j = i
  OBVIOUS
<1>2. j \in Instance /\ phase[j] \in {"starting", "running", "stopping", "broken"}
  BY HoldersRun DEF Holders
<1> QED
  BY <1>1, <1>2, Ordered DEF Instance, TypeOK

\* The steps that move a kernel on and leave the clients alone.
LEMMA PhaseSeen ==
  ASSUME IInv, IInv', OrderInv, NEW i \in Instance, NEW p,
         <<phase[i], p>> \in PhaseMove,
         phase' = [phase EXCEPT ![i] = p],
         instance' = instance, client' = client
  PROVE  Simulated
<1>0. TypeOK
  BY DEF IInv
<1>1. Holders' = Holders
  BY DEF Holders
<1>2. /\ phase[i] \in {"starting", "running", "stopping"}
      /\ phase'[i] = p
      /\ p \in {"running", "stopping", "stopped", "broken"}
  BY <1>0 DEF PhaseMove, TypeOK
<1>3. p = "stopped" => Holders' = {}
  <2>1. Holders \subseteq {i}
    BY <1>2, OnlyHolder
  <2>2. p = "stopped" => \A a \in Account : client'[i][a] # "live"
    BY <1>2 DEF IInv, StopInv, AtRest
  <2> QED
    BY <1>1, <2>1, <2>2 DEF Holders
<1>4. OrderInv'
  BY <1>0, MoveSeen
<1>5. CASE i = instance
  <2>1. Stage = phase[i] /\ Stage' = IF p \in {"stopped", "broken"} THEN "over" ELSE p
    BY <1>0, <1>5, MoveSeen
  <2>2. CASE p = "running"
    BY <1>1, <1>4, <2>1, <2>2, SeenSteps, SeenNext DEF Simulated, PhaseMove
  <2>3. CASE p = "stopping"
    BY <1>1, <1>4, <2>1, <2>3, SeenSteps, SeenNext DEF Simulated, PhaseMove
  <2>4. CASE p = "stopped"
    BY <1>1, <1>3, <1>4, <2>1, <2>4, SeenSteps, SeenNext DEF Simulated, PhaseMove
  <2>5. CASE p = "broken"
    BY <1>1, <1>4, <2>1, <2>5, SeenSteps, SeenNext DEF Simulated, PhaseMove
  <2> QED
    BY <1>2, <2>2, <2>3, <2>4, <2>5
<1>6. CASE i # instance
  <2>1. /\ Stage = "replacing"
        /\ p = "stopping" => Stage' = "replacing"
        /\ p = "stopped" => Stage' = "starting"
        /\ p = "broken" => Stage' = "over"
    BY <1>0, <1>6, MoveSeen
  <2>2. p # "running"
    BY <1>0, <1>6, <1>2, Ordered DEF PhaseMove
  <2> QED
    BY <1>1, <1>2, <1>3, <1>4, <2>1, <2>2, SeenSteps, SeenNext DEF Simulated
<1> QED
  BY <1>5, <1>6

\* The steps that make or destroy one client and leave the phase alone.
LEMMA ClientSeen ==
  ASSUME IInv, OrderInv, NEW i \in Instance,
         \/ phase[i] = "starting" /\ Holders' \in {Holders, {i}}
         \/ phase[i] = "stopping" /\ Holders' \in {Holders, {}},
         UNCHANGED <<phase, instance>>
  PROVE  Simulated
<1>0. TypeOK
  BY DEF IInv
<1>1. OrderInv' /\ Stage' = Stage
  BY DEF OrderInv, Stage, Free
<1>2. phase[i] = "starting" => i = instance /\ Stage = "starting"
  BY <1>0, Ordered
<1>3. phase[i] = "stopping" => Stage \in {"replacing", "stopping"}
  BY <1>0, Ordered
<1> QED
  BY <1>1, <1>2, <1>3, SeenSteps, SeenNext DEF Simulated

LEMMA HoldersAfter ==
  ASSUME TypeOK, NEW i \in Instance, NEW a \in Account, NEW c \in {"none", "idle", "live", "dead"},
         client' = [client EXCEPT ![i][a] = c]
  PROVE  /\ c = "live" => Holders' = Holders \cup {i}
         /\ c # "live" => Holders' \subseteq Holders
         /\ c # "live" /\ client[i][a] # "live" => Holders' = Holders
<1>1. client'[i][a] = c
  BY ClientOne
<1>2. \A j \in Instance, b \in Account : j # i \/ b # a => client'[j][b] = client[j][b]
  BY ClientOne
<1>3. ASSUME c = "live" PROVE Holders' = Holders \cup {i}
  BY <1>1, <1>2, <1>3 DEF Holders
<1>4. ASSUME c # "live" PROVE Holders' \subseteq Holders
  BY <1>1, <1>2, <1>4 DEF Holders
<1>5. ASSUME c # "live", client[i][a] # "live" PROVE Holders' = Holders
  BY <1>1, <1>2, <1>5 DEF Holders
<1> QED
  BY <1>3, <1>4, <1>5

LEMMA StartAccountSeen ==
  ASSUME IInv, IInv', OrderInv, NEW i \in Instance, StartAccount(i)
  PROVE  Simulated
<1>0. TypeOK /\ phase[i] = "starting" /\ instance' = instance
  BY DEF IInv, StartAccount
<1>1. PICK n \in DOMAIN config[i] :
        NextPlace(i, Initialized(i), n) /\ (ClientCreated(i, n) \/ AccountFails(i, n))
  BY DEF StartAccount
<1>2. IdAt(i, n) \in Account /\ client[i][IdAt(i, n)] = "none"
  BY <1>0, <1>1, Places DEF IInv, StartInv, NextPlace
<1>3. PICK a \in Account :
        /\ client[i][a] = "none"
        /\ \/ client' = [client EXCEPT ![i][a] = "live"] /\ phase' = phase
           \/ /\ client' = client \/ client' = [client EXCEPT ![i][a] = "idle"]
              /\ phase' = phase \/ phase' = [phase EXCEPT ![i] = "broken"]
  BY <1>1, <1>2 DEF ClientCreated, AccountFails, IdAt
<1>4. Holders \subseteq {i}
  BY <1>0, OnlyHolder
<1>5. CASE client' = [client EXCEPT ![i][a] = "live"] /\ phase' = phase
  <2>1. Holders' = Holders \cup {i}
    BY <1>0, <1>5, HoldersAfter
  <2> QED
    BY <1>0, <1>4, <1>5, <2>1, ClientSeen
<1>6. CASE /\ client' = client \/ client' = [client EXCEPT ![i][a] = "idle"]
           /\ phase' = phase \/ phase' = [phase EXCEPT ![i] = "broken"]
  <2>1. Holders' = Holders
    <3>1. CASE client' = client
      BY <3>1 DEF Holders
    <3>2. CASE client' = [client EXCEPT ![i][a] = "idle"]
      BY <1>0, <1>3, <3>2, HoldersAfter
    <3> QED
      BY <1>6, <3>1, <3>2
  <2>2. CASE phase' = phase
    BY <1>0, <2>1, <2>2, ClientSeen
  <2>3. CASE phase' = [phase EXCEPT ![i] = "broken"]
    <3>1. i = instance /\ <<phase[i], "broken">> \in PhaseMove
      BY <1>0, Ordered DEF PhaseMove
    <3>2. OrderInv' /\ Stage = "starting" /\ Stage' = "over"
      BY <1>0, <2>3, <3>1, MoveSeen
    <3> QED
      BY <1>0, <2>1, <3>2, SeenSteps, SeenNext DEF Simulated
  <2> QED
    BY <1>6, <2>2, <2>3
<1> QED
  BY <1>3, <1>5, <1>6

LEMMA DestroyClientSeen ==
  ASSUME IInv, IInv', OrderInv, NEW i \in Instance, DestroyClient(i)
  PROVE  Simulated
<1>0. TypeOK /\ phase[i] = "stopping" /\ instance' = instance
  BY DEF IInv, DestroyClient
<1>1. PICK a \in Account :
        \/ client' = [client EXCEPT ![i][a] = "dead"] /\ phase' = phase
        \/ client' = client /\ phase' = [phase EXCEPT ![i] = "broken"]
  BY <1>0, Places DEF DestroyClient, IdAt
<1>2. CASE client' = [client EXCEPT ![i][a] = "dead"] /\ phase' = phase
  <2>1. Holders \subseteq {i} /\ Holders' \subseteq Holders
    BY <1>0, <1>2, OnlyHolder, HoldersAfter
  <2> QED
    BY <1>0, <1>2, <2>1, ClientSeen
<1>3. CASE client' = client /\ phase' = [phase EXCEPT ![i] = "broken"]
  <2>1. <<phase[i], "broken">> \in PhaseMove
    BY <1>0 DEF PhaseMove
  <2> QED
    BY <1>0, <1>3, <2>1, PhaseSeen
<1> QED
  BY <1>1, <1>2, <1>3

\* The kernels of the accounts follow each other as KernelSuccession has them: start()
\* makes clients only when stop() of the previous kernel has destroyed all of its own,
\* through failures of either, late events, and the end of the process.
THEOREM ImplementsSuccession == Spec => KeepsSuccession
<1>1. Init => OrderInv /\ Succession!Init
  BY DEF Init, OrderInv, Stage, Succession!Init
<1>2. IInv /\ IInv' /\ OrderInv /\ [Next]_vars => Simulated
  <2> SUFFICES ASSUME IInv, IInv', OrderInv, [Next]_vars PROVE Simulated
    OBVIOUS
  <2>1. CASE UNCHANGED vars
    BY <2>1, SameSeen DEF vars, lifecycleVars, clientVars
  <2>2. ASSUME NEW accounts \in Configs, Construct(accounts) PROVE Simulated
    BY <2>2, ConstructSeen
  <2>3. CASE BeginStart
    BY <2>3, BeginStartSeen
  <2>4. CASE ProcessEnds
    BY <2>4, ProcessEndsSeen
  <2>5. ASSUME NEW i \in Instance, BeginStop(i) PROVE Simulated
    <3>1. <<phase[i], "stopping">> \in PhaseMove
      BY <2>5 DEF BeginStop, PhaseMove
    <3> QED
      BY <2>5, <3>1, PhaseSeen DEF BeginStop, clientVars
  <2>6. ASSUME NEW i \in Instance, StartEnds(i) PROVE Simulated
    <3>1. <<phase[i], "running">> \in PhaseMove /\ <<phase[i], "broken">> \in PhaseMove
      BY <2>6 DEF StartEnds, PhaseMove
    <3> QED
      BY <2>6, <3>1, PhaseSeen DEF StartEnds, clientVars
  <2>7. ASSUME NEW i \in Instance, StopEnds(i) PROVE Simulated
    <3>1. <<phase[i], "stopped">> \in PhaseMove /\ <<phase[i], "broken">> \in PhaseMove
      BY <2>7 DEF StopEnds, PhaseMove
    <3> QED
      BY <2>7, <3>1, PhaseSeen DEF StopEnds, clientVars
  <2>8. ASSUME NEW i \in Instance, NEW a \in Account, ClientStep(i, a) PROVE Simulated
    BY <2>8, ClientRecords, SameSeen DEF IInv, lifecycleVars
  <2> QED
    BY <2>1, <2>2, <2>3, <2>4, <2>5, <2>6, <2>7, <2>8, StartAccountSeen, DestroyClientSeen
    DEF Next, LifecycleStep, ClientStep
<1> QED
  BY <1>1, <1>2, Spec_IInv, PTL DEF Spec, KeepsSuccession, Succession!Spec, Simulated

=============================================================================
