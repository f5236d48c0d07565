----------------------- MODULE DaemonLifecycle_proofs -----------------------
(***************************************************************************)
(* Start, reload and stop of the daemon, for any number of kernels and any *)
(* set of environments: the types, who may hold WhatsApp clients, what     *)
(* "running" promises, and what a shutdown releases.                       *)
(*                                                                         *)
(* The inductive invariant names, for every place where a task may be      *)
(* suspended, the one kernel that may still hold something there: while    *)
(* nothing is under way the current one, until a reload has stopped it the *)
(* previous one, from then on the new one, and during stop() the kernel    *)
(* that stop() took from the daemon.                                       *)
(***************************************************************************)
EXTENDS DaemonLifecycle, TLAPS

Holds(k) == server[k] \/ clients[k]

\* A process that has exited holds neither port nor session directory.
DeadHoldsNothing == ~alive => \A k \in Kernel : ~Holds(k)

\* The state of the daemon follows its tasks as long as no signal comes before
\* start() has finished and no stop() has begun.
StateFollowsTasks ==
  ~environment.earlySignals /\ alive =>
    /\ startTask.pc # "done" =>
         state = "starting" /\ reloadTask.pc = "none" /\ stopTask.pc = "none"
    /\ startTask.pc = "booting" => current = startTask.kernel
    /\ stopTask.pc = "none" /\ reloadTask.pc # "none" => state = "reloading"
    /\ stopTask.pc = "none" /\ reloadTask.pc = "booting" => current = reloadTask.kernel
    /\ stopTask.pc = "none" /\ reloadTask.pc = "none" /\ startTask.pc = "done" =>
         state \in {"running", "stopped"}
    /\ stopTask.pc = "none" /\ state = "running" => current # 0 /\ server[current]

OnlyHolder(k) == \A other \in Kernel : Holds(other) => other = k

NoServer == \A k \in Kernel : ~server[k]

\* Which kernel may hold something, by where the tasks are suspended.
HolderPlaces ==
  /\ stopTask.pc \in {"stopKernel", "done"} => reloadTask.pc = "none"
  /\ startTask.pc = "config" => \A k \in Kernel : ~Holds(k)
  /\ startTask.pc = "booting" => NoServer /\ OnlyHolder(startTask.kernel)
  /\ reloadTask.pc = "config" => reloadTask.prev = current /\ OnlyHolder(current)
  /\ reloadTask.pc = "stopOld" => NoServer /\ OnlyHolder(reloadTask.prev)
  /\ reloadTask.pc = "booting" =>
       NoServer /\ OnlyHolder(reloadTask.kernel) /\ current = reloadTask.kernel
  /\ startTask.pc = "done" /\ reloadTask.pc = "none"
       /\ stopTask.pc \in {"none", "awaitReload"} /\ current # 0 => OnlyHolder(current)
  /\ \A k1, k2 \in Kernel : clients[k1] /\ clients[k2] => k1 = k2

HolderFollowsTasks == Orderly /\ alive => HolderPlaces

\* Where nothing fails, the kernel that stop() finds is the one that holds something.
StopFindsHolder ==
  Calm /\ alive =>
    /\ startTask.pc = "done" /\ reloadTask.pc \in {"none", "config"}
         /\ stopTask.pc \in {"none", "awaitReload"} => current # 0
    /\ stopTask.pc = "stopKernel" => NoServer /\ OnlyHolder(stopTask.kernel)
    /\ stopTask.pc = "done" => \A k \in Kernel : ~Holds(k)

IInv ==
  TypeOK /\ DeadHoldsNothing /\ StateFollowsTasks /\ HolderFollowsTasks /\ StopFindsHolder

-----------------------------------------------------------------------------
(* The circumstances of a behaviour.                                       *)

\* In a calm environment nothing fails and no call comes out of turn.
LEMMA CalmMeans ==
  ASSUME environment \in Environment
  PROVE  Calm => /\ Orderly
                 /\ ~environment.configFails
                 /\ ~environment.startFails
                 /\ ~environment.destroyFails
<1>1. DOMAIN environment = {"earlySignals", "lateReloads", "configFails", "startFails", "destroyFails"}
  BY DEF Environment
<1>2. SUFFICES ASSUME \A c \in DOMAIN environment : ~environment[c]
               PROVE  Orderly /\ ~environment.configFails /\ ~environment.startFails
                              /\ ~environment.destroyFails
  BY DEF Calm
<1> QED
  BY <1>1, <1>2 DEF Orderly

\* No step changes the circumstances.
LEMMA SameEnvironment == Next => environment' = environment
BY DEF Next, StartConfigured, StartFinishes, StartFails, ClientCreated, RequestReload,
   ReloadConfigured, ReloadOldStopped, ReloadFinishes, ReloadFails, RequestStop,
   StopResumes, StopFinishes, ForcedExit, NaturalExit, Exit

-----------------------------------------------------------------------------
(* Types.                                                                  *)

LEMMA KernelNumbers ==
  /\ Kernel \subseteq KernelOrNone
  /\ 0 \in KernelOrNone
  /\ 0 \notin Kernel
  /\ \A k \in KernelOrNone : k # 0 => k \in Kernel
BY LifecycleAssumption DEF Kernel, KernelOrNone

LEMMA Init_Type == Init => TypeOK
BY KernelNumbers, LifecycleAssumption DEF Init, TypeOK, State, NoReload

LEMMA Next_Type == TypeOK /\ [Next]_vars => TypeOK'
<1> SUFFICES ASSUME TypeOK, [Next]_vars
             PROVE  TypeOK'
  OBVIOUS
<1> USE KernelNumbers DEF TypeOK, State
<1>1. CASE StartConfigured
  BY <1>1 DEF StartConfigured, CreateKernel
<1>2. CASE StartFinishes
  BY <1>2 DEF StartFinishes, KernelReady
<1>3. CASE StartFails
  BY <1>3 DEF StartFails, Exit, taskVars
<1>4. CASE \E k \in Kernel : ClientCreated(k)
  BY <1>4 DEF ClientCreated, taskVars
<1>5. CASE RequestReload
  BY <1>5 DEF RequestReload
<1>6. CASE ReloadConfigured
  BY <1>6 DEF ReloadConfigured, CreateKernel, BeginKernelStop
<1>7. CASE ReloadOldStopped
  BY <1>7 DEF ReloadOldStopped, ClientsDestroyed
<1>8. CASE ReloadFinishes
  BY <1>8 DEF ReloadFinishes, KernelReady, NoReload
<1>9. CASE ReloadFails
  BY <1>9 DEF ReloadFails, NoReload
<1>10. CASE RequestStop
  <2>1. StopCurrentKernel => server' \in [Kernel -> BOOLEAN] /\ state' \in State
    BY DEF StopCurrentKernel, BeginKernelStop
  <2>2. StopCurrentKernel =>
          /\ stopTask' \in [pc : {"none", "awaitReload", "stopKernel", "done"}, kernel : KernelOrNone]
          /\ stopTask'.pc = "stopKernel" => stopTask'.kernel \in Kernel
    BY DEF StopCurrentKernel
  <2> QED
    BY <1>10, <2>1, <2>2 DEF RequestStop
<1>11. CASE StopResumes
  <2>1. /\ stopTask' \in [pc : {"none", "awaitReload", "stopKernel", "done"}, kernel : KernelOrNone]
        /\ stopTask'.pc = "stopKernel" => stopTask'.kernel \in Kernel
    BY <1>11 DEF StopResumes
  <2>2. server' \in [Kernel -> BOOLEAN] /\ state' \in State
    BY <1>11 DEF StopResumes, BeginKernelStop
  <2> QED
    BY <1>11, <2>1, <2>2 DEF StopResumes
<1>12. CASE StopFinishes
  BY <1>12 DEF StopFinishes, ClientsDestroyed
<1>13. CASE ForcedExit \/ NaturalExit
  BY <1>13 DEF ForcedExit, NaturalExit, Exit, taskVars
<1>14. CASE UNCHANGED vars
  BY <1>14 DEF vars, taskVars
<1> QED
  BY <1>1, <1>2, <1>3, <1>4, <1>5, <1>6, <1>7, <1>8, <1>9, <1>10, <1>11, <1>12, <1>13, <1>14
  DEF Next

\* The state, the tasks and the kernels of the daemon keep their types, and a task
\* that waits for a kernel has one.
THEOREM TypeCorrect == Spec => []TypeOK
BY Init_Type, Next_Type, PTL DEF Spec

-----------------------------------------------------------------------------
(* The inductive invariant: one lemma for each part.                       *)

\* What is the same for every step: types before and after it, and the environment.
LEMMA Steps ==
  ASSUME TypeOK, Next
  PROVE  /\ TypeOK'
         /\ environment' = environment
         /\ Calm' <=> Calm
         /\ Orderly' <=> Orderly
         /\ Calm => /\ Orderly
                    /\ ~environment.configFails
                    /\ ~environment.startFails
                    /\ ~environment.destroyFails
<1>1. environment \in Environment
  BY LifecycleAssumption DEF TypeOK
<1> QED
  BY <1>1, CalmMeans, Next_Type, SameEnvironment DEF Calm, Orderly

\* Only Exit ends the process, and it releases everything.
LEMMA Next_DeadHoldsNothing ==
  ASSUME IInv, Next
  PROVE  DeadHoldsNothing'
<1> USE Steps, KernelNumbers DEF IInv, TypeOK, DeadHoldsNothing, Holds
<1>1. CASE StartConfigured
  BY <1>1 DEF StartConfigured, CreateKernel
<1>2. CASE StartFinishes
  BY <1>2 DEF StartFinishes, KernelReady, PortFree
<1>3. ASSUME NEW k \in Kernel, ClientCreated(k)
      PROVE  DeadHoldsNothing'
  BY <1>3 DEF ClientCreated, taskVars
<1>4. CASE RequestReload
  BY <1>4 DEF RequestReload, CallArrives
<1>5. CASE ReloadConfigured
  BY <1>5 DEF ReloadConfigured, CreateKernel, BeginKernelStop
<1>6. CASE ReloadOldStopped
  BY <1>6 DEF ReloadOldStopped, ClientsDestroyed
<1>7. CASE ReloadFinishes
  BY <1>7 DEF ReloadFinishes, KernelReady, PortFree, NoReload
<1>8. CASE ReloadFails
  BY <1>8 DEF ReloadFails, KernelStartFails, PortFree, NoReload
<1>9. CASE RequestStop
  BY <1>9 DEF RequestStop, CallArrives, StopCurrentKernel, BeginKernelStop
<1>10. CASE StopResumes
  BY <1>10 DEF StopResumes, BeginKernelStop
<1>11. CASE StopFinishes
  BY <1>11 DEF StopFinishes, ClientsDestroyed
<1>12. CASE StartFails \/ ForcedExit \/ NaturalExit
  BY <1>12 DEF StartFails, ForcedExit, NaturalExit, Exit, taskVars
<1> QED
  BY <1>1, <1>2, <1>3, <1>4, <1>5, <1>6, <1>7, <1>8, <1>9, <1>10, <1>11, <1>12 DEF Next

\* The state is what the task that runs has set it to.
LEMMA Next_StateFollowsTasks ==
  ASSUME IInv, Next
  PROVE  StateFollowsTasks'
<1> USE Steps, KernelNumbers DEF IInv, TypeOK, StateFollowsTasks
<1>1. CASE StartConfigured
  BY <1>1 DEF StartConfigured, CreateKernel
<1>2. CASE StartFinishes
  BY <1>2 DEF StartFinishes, KernelReady, PortFree
<1>3. ASSUME NEW k \in Kernel, ClientCreated(k)
      PROVE  StateFollowsTasks'
  BY <1>3 DEF ClientCreated, taskVars
<1>4. CASE RequestReload
  BY <1>4 DEF RequestReload, CallArrives
<1>5. CASE ReloadConfigured
  BY <1>5 DEF ReloadConfigured, CreateKernel, BeginKernelStop
<1>6. CASE ReloadOldStopped
  BY <1>6 DEF ReloadOldStopped, ClientsDestroyed
<1>7. CASE ReloadFinishes
  BY <1>7 DEF ReloadFinishes, KernelReady, PortFree, NoReload
<1>8. CASE ReloadFails
  BY <1>8 DEF ReloadFails, KernelStartFails, PortFree, NoReload
<1>9. CASE RequestStop
  BY <1>9 DEF RequestStop, CallArrives, StopCurrentKernel, BeginKernelStop
<1>10. CASE StopResumes
  BY <1>10 DEF StopResumes, BeginKernelStop
<1>11. CASE StopFinishes
  BY <1>11 DEF StopFinishes, ClientsDestroyed
<1>12. CASE StartFails \/ ForcedExit \/ NaturalExit
  BY <1>12 DEF StartFails, ForcedExit, NaturalExit, Exit, taskVars
<1> QED
  BY <1>1, <1>2, <1>3, <1>4, <1>5, <1>6, <1>7, <1>8, <1>9, <1>10, <1>11, <1>12 DEF Next

\* What stopping, destroying and starting do to the kernels, one by one.
LEMMA Effects ==
  ASSUME TypeOK, NEW k \in Kernel
  PROVE  /\ BeginKernelStop(k) => \A j \in Kernel : server'[j] <=> server[j] /\ j # k
         /\ ClientsDestroyed(k) => \A j \in Kernel : clients'[j] <=> clients[j] /\ j # k
         /\ KernelReady(k) => \A j \in Kernel : server'[j] <=> j = k
         /\ ClientCreated(k) => \A j \in Kernel : clients'[j] <=> clients[j] \/ j = k
BY DEF TypeOK, BeginKernelStop, ClientsDestroyed, KernelReady, PortFree, ClientCreated

\* A step that gives a kernel something leaves it the only one that has.
LEMMA Next_HolderFollowsTasks ==
  ASSUME IInv, Next
  PROVE  HolderFollowsTasks'
<1>0. TypeOK /\ TypeOK' /\ StateFollowsTasks /\ (Orderly' <=> Orderly)
  BY Steps DEF IInv
<1>a. alive' => alive
  BY DEF Next, StartConfigured, StartFinishes, StartFails, ClientCreated, RequestReload,
     ReloadConfigured, ReloadOldStopped, ReloadFinishes, ReloadFails, RequestStop,
     StopResumes, StopFinishes, ForcedExit, NaturalExit, Exit
<1> SUFFICES ASSUME Orderly, alive, alive', HolderPlaces
             PROVE  HolderPlaces'
  BY <1>0, <1>a DEF HolderFollowsTasks, IInv
<1> USE <1>0, KernelNumbers
<1>1. CASE StartConfigured
  BY <1>1 DEF StartConfigured, CreateKernel, HolderPlaces, Holds, OnlyHolder, NoServer, StateFollowsTasks, Orderly
<1>2. CASE StartFinishes
  <2>1. startTask.kernel \in Kernel /\ current = startTask.kernel /\ reloadTask.pc = "none"
        /\ stopTask.pc = "none" /\ startTask'.pc = "done"
    BY <1>2 DEF StartFinishes, StateFollowsTasks, Orderly, TypeOK
  <2>2. \A j \in Kernel : server'[j] <=> j = current
    BY <1>2, <2>1, Effects DEF StartFinishes
  <2> QED
    BY <1>2, <2>1, <2>2 DEF StartFinishes, HolderPlaces, Holds, OnlyHolder
<1>3. ASSUME NEW k \in Kernel, ClientCreated(k)
      PROVE  HolderPlaces'
  <2>1. \A j \in Kernel : clients'[j] <=> clients[j] \/ j = k
    BY <1>3, Effects
  <2>2. OnlyHolder(k)
    BY <1>3 DEF ClientCreated, HolderPlaces
  <2>3. UNCHANGED <<current, startTask, reloadTask, stopTask, server>>
    BY <1>3 DEF ClientCreated, taskVars
  <2>4. CASE startTask.pc = "booting" /\ startTask.kernel = k
    <3>1. reloadTask.pc = "none" /\ stopTask.pc = "none"
      BY <2>4 DEF StateFollowsTasks, Orderly
    <3> QED
      BY <2>1, <2>2, <2>3, <2>4, <3>1 DEF HolderPlaces, Holds, OnlyHolder, NoServer
  <2>5. CASE reloadTask.pc = "booting" /\ reloadTask.kernel = k
    <3>1. startTask.pc = "done"
      BY <2>5 DEF StateFollowsTasks, Orderly
    <3> QED
      BY <2>1, <2>2, <2>3, <2>5, <3>1 DEF HolderPlaces, Holds, OnlyHolder, NoServer
  <2> QED
    BY <1>3, <2>4, <2>5 DEF ClientCreated
<1>4. CASE RequestReload
  <2>1. startTask.pc = "done" /\ stopTask.pc = "none" /\ reloadTask.pc = "none" /\ current # 0
    BY <1>4 DEF RequestReload, CallArrives, StateFollowsTasks, Orderly
  <2> QED
    BY <1>4, <2>1 DEF RequestReload, HolderPlaces, Holds, OnlyHolder
<1>5. CASE ReloadConfigured
  <2>1. startTask.pc = "done" /\ stopTask.pc \in {"none", "awaitReload"}
    BY <1>5 DEF ReloadConfigured, StateFollowsTasks, HolderPlaces, Orderly, TypeOK
  <2>2. OnlyHolder(current) /\ reloadTask.prev = current
    BY <1>5 DEF ReloadConfigured, HolderPlaces
  <2>3. UNCHANGED <<startTask, stopTask, clients>>
    BY <1>5 DEF ReloadConfigured
  <2>4. PICK k \in Kernel :
          \/ /\ current # 0
             /\ reloadTask'.pc = "stopOld" /\ reloadTask'.prev = current
             /\ BeginKernelStop(current)
          \/ /\ current = 0
             /\ reloadTask'.pc = "booting" /\ reloadTask'.kernel = k
             /\ current' = k
             /\ UNCHANGED server
    BY <1>5, <2>2 DEF ReloadConfigured, TypeOK
  <2>5. CASE current # 0
    <3>1. \A j \in Kernel : server'[j] <=> server[j] /\ j # current
      BY <2>4, <2>5, Effects DEF TypeOK
    <3> QED
      BY <2>1, <2>2, <2>3, <2>4, <2>5, <3>1 DEF HolderPlaces, Holds, OnlyHolder, NoServer
  <2>6. CASE current = 0
    BY <2>1, <2>2, <2>3, <2>4, <2>6 DEF HolderPlaces, Holds, OnlyHolder, NoServer
  <2> QED
    BY <2>5, <2>6
<1>6. CASE ReloadOldStopped
  <2>1. startTask.pc = "done" /\ stopTask.pc \in {"none", "awaitReload"}
    BY <1>6 DEF ReloadOldStopped, StateFollowsTasks, HolderPlaces, Orderly, TypeOK
  <2>2. NoServer /\ OnlyHolder(reloadTask.prev) /\ reloadTask.prev \in Kernel
    BY <1>6 DEF ReloadOldStopped, HolderPlaces, TypeOK
  <2>3. \A j \in Kernel : clients'[j] <=> clients[j] /\ j # reloadTask.prev
    BY <1>6, <2>2, Effects DEF ReloadOldStopped
  <2>4. /\ reloadTask'.pc = "booting" /\ reloadTask'.kernel = current'
        /\ UNCHANGED <<startTask, stopTask, server>>
    BY <1>6 DEF ReloadOldStopped, TypeOK
  <2> QED
    BY <2>1, <2>2, <2>3, <2>4 DEF HolderPlaces, Holds, OnlyHolder, NoServer
<1>7. CASE ReloadFinishes
  <2>1. reloadTask.kernel \in Kernel /\ current = reloadTask.kernel /\ OnlyHolder(current)
        /\ startTask.pc = "done"
    BY <1>7 DEF ReloadFinishes, StateFollowsTasks, HolderPlaces, Orderly, TypeOK
  <2>2. \A j \in Kernel : server'[j] <=> j = current
    BY <1>7, <2>1, Effects DEF ReloadFinishes
  <2>3. reloadTask'.pc = "none" /\ UNCHANGED <<current, startTask, stopTask, clients>>
    BY <1>7 DEF ReloadFinishes, NoReload
  <2> QED
    BY <2>1, <2>2, <2>3 DEF HolderPlaces, Holds, OnlyHolder, NoServer
<1>8. CASE ReloadFails
  <2>1. startTask.pc = "done"
    BY <1>8 DEF ReloadFails, StateFollowsTasks, Orderly
  <2>2. /\ reloadTask'.pc = "none" /\ current' = 0
        /\ UNCHANGED <<startTask, stopTask, server, clients>>
    BY <1>8 DEF ReloadFails, NoReload
  <2> QED
    BY <2>1, <2>2 DEF HolderPlaces
<1>9. CASE RequestStop \/ StopResumes
  <2>1. startTask.pc = "done" /\ UNCHANGED <<current, startTask, reloadTask, clients>>
    BY <1>9 DEF RequestStop, StopResumes, CallArrives, StateFollowsTasks, Orderly
  <2>2. \A j \in Kernel : server'[j] => server[j]
    BY <1>9, Effects DEF RequestStop, StopResumes, StopCurrentKernel, TypeOK
  <2>3. \/ reloadTask.pc # "none" /\ stopTask'.pc = "awaitReload"
        \/ reloadTask.pc = "none" /\ stopTask'.pc \in {"stopKernel", "done"}
    BY <1>9 DEF RequestStop, StopResumes, StopCurrentKernel
  <2> QED
    BY <2>1, <2>2, <2>3 DEF HolderPlaces, Holds, OnlyHolder, NoServer
<1>10. CASE StopFinishes
  <2>1. startTask.pc = "done" /\ reloadTask.pc = "none"
    BY <1>10 DEF StopFinishes, StateFollowsTasks, HolderPlaces, Orderly
  <2>2. stopTask'.pc = "done" /\ UNCHANGED <<startTask, reloadTask, server>>
    BY <1>10 DEF StopFinishes, TypeOK
  <2>3. \A j \in Kernel : clients'[j] => clients[j]
    BY <1>10, Effects DEF StopFinishes, TypeOK
  <2> QED
    BY <2>1, <2>2, <2>3 DEF HolderPlaces
<1>11. CASE StartFails \/ ForcedExit \/ NaturalExit
  BY <1>11 DEF StartFails, ForcedExit, NaturalExit, Exit
<1> QED
  BY <1>1, <1>2, <1>3, <1>4, <1>5, <1>6, <1>7, <1>8, <1>9, <1>10, <1>11 DEF Next

\* Where nothing fails, no step loses track of the kernel that holds something.
LEMMA Next_StopFindsHolder ==
  ASSUME IInv, Next
  PROVE  StopFindsHolder'
<1>0. /\ TypeOK /\ TypeOK'
      /\ Calm' <=> Calm
      /\ Calm => /\ Orderly
                 /\ ~environment.earlySignals
                 /\ ~environment.configFails
                 /\ ~environment.startFails
                 /\ ~environment.destroyFails
  BY Steps DEF IInv, Orderly
<1>a. alive' => alive
  BY DEF Next, StartConfigured, StartFinishes, StartFails, ClientCreated, RequestReload,
     ReloadConfigured, ReloadOldStopped, ReloadFinishes, ReloadFails, RequestStop,
     StopResumes, StopFinishes, ForcedExit, NaturalExit, Exit
<1> DEFINE Places ==
      /\ startTask.pc = "done" /\ reloadTask.pc \in {"none", "config"}
           /\ stopTask.pc \in {"none", "awaitReload"} => current # 0
      /\ stopTask.pc = "stopKernel" => NoServer /\ OnlyHolder(stopTask.kernel)
      /\ stopTask.pc = "done" => \A k \in Kernel : ~Holds(k)
<1> SUFFICES ASSUME Calm, alive, alive', HolderPlaces, StateFollowsTasks, Places
             PROVE  Places'
  BY <1>0, <1>a DEF HolderFollowsTasks, StopFindsHolder, IInv
<1> USE <1>0, KernelNumbers
<1>1. CASE StartConfigured \/ StartFinishes
  <2>1. stopTask.pc = "none" /\ stopTask' = stopTask
    BY <1>1 DEF StartConfigured, StartFinishes, StateFollowsTasks
  <2>2. startTask'.pc = "done" => current' # 0
    BY <1>1 DEF StartConfigured, StartFinishes, StateFollowsTasks, TypeOK
  <2> QED
    BY <2>1, <2>2
<1>2. ASSUME NEW k \in Kernel, ClientCreated(k)
      PROVE  Places'
  <2>1. stopTask.pc \notin {"stopKernel", "done"}
    BY <1>2 DEF ClientCreated, HolderPlaces, StateFollowsTasks
  <2> QED
    BY <1>2, <2>1 DEF ClientCreated, taskVars
<1>3. CASE RequestReload
  BY <1>3 DEF RequestReload, NoServer, OnlyHolder, Holds
<1>4. CASE ReloadConfigured \/ ReloadOldStopped \/ ReloadFinishes
  <2>1. stopTask.pc \notin {"stopKernel", "done"} /\ stopTask' = stopTask
    BY <1>4 DEF ReloadConfigured, ReloadOldStopped, ReloadFinishes, HolderPlaces
  <2>2. CASE ReloadConfigured \/ ReloadOldStopped
    <3>1. reloadTask'.pc \notin {"none", "config"}
      <4>1. reloadTask \in [pc : {"none", "config", "stopOld", "booting"},
                           prev : KernelOrNone, kernel : KernelOrNone]
        BY DEF TypeOK
      <4> QED
        BY <2>2, <4>1 DEF ReloadConfigured, ReloadOldStopped
    <3> QED
      BY <2>1, <3>1
  <2>3. CASE ReloadFinishes
    <3>1. reloadTask.pc = "booting" /\ reloadTask.kernel \in Kernel /\ current' = current
      BY <2>3 DEF ReloadFinishes, TypeOK
    <3>2. current' # 0
      BY <3>1 DEF HolderPlaces
    <3> QED
      BY <2>1, <3>2
  <2> QED
    BY <1>4, <2>2, <2>3
<1>5. CASE ReloadFails
  <2>1. reloadTask.pc = "booting" /\ ~PortFree
    BY <1>5 DEF ReloadFails, KernelStartFails
  <2> QED
    BY <2>1 DEF HolderPlaces, NoServer, PortFree
<1>6. CASE RequestStop \/ StopResumes
  <2>1. startTask.pc = "done" /\ stopTask.pc \in {"none", "awaitReload"}
        /\ UNCHANGED <<current, startTask, reloadTask, clients>>
    BY <1>6 DEF RequestStop, StopResumes, CallArrives, StateFollowsTasks
  <2>2. CASE reloadTask.pc # "none"
    <3>1. stopTask'.pc = "awaitReload"
      BY <1>6, <2>2 DEF RequestStop, StopResumes
    <3> QED
      BY <2>1, <3>1
  <2>3. CASE reloadTask.pc = "none"
    <3>1. current \in Kernel /\ OnlyHolder(current)
      BY <2>1, <2>3 DEF HolderPlaces, TypeOK
    <3>2. /\ stopTask'.pc = "stopKernel" /\ stopTask'.kernel = current
          /\ BeginKernelStop(current)
      BY <1>6, <2>3, <3>1 DEF RequestStop, StopResumes, StopCurrentKernel
    <3>3. \A j \in Kernel : server'[j] <=> server[j] /\ j # current
      BY <3>1, <3>2, Effects
    <3> QED
      BY <2>1, <3>1, <3>2, <3>3 DEF Holds, OnlyHolder, NoServer
  <2> QED
    BY <2>2, <2>3
<1>7. CASE StopFinishes
  <2>1. stopTask.kernel \in Kernel /\ ClientsDestroyed(stopTask.kernel)
    BY <1>7 DEF StopFinishes, TypeOK
  <2>2. \A j \in Kernel : clients'[j] <=> clients[j] /\ j # stopTask.kernel
    BY <2>1, Effects
  <2>3. stopTask'.pc = "done" /\ server' = server /\ NoServer /\ OnlyHolder(stopTask.kernel)
    BY <1>7 DEF StopFinishes, TypeOK
  <2> QED
    BY <2>2, <2>3 DEF Holds, OnlyHolder, NoServer
<1>8. CASE StartFails \/ ForcedExit \/ NaturalExit
  BY <1>8 DEF StartFails, ForcedExit, NaturalExit, Exit
<1> QED
  BY <1>1, <1>2, <1>3, <1>4, <1>5, <1>6, <1>7, <1>8 DEF Next

LEMMA Init_IInv == Init => IInv
<1> SUFFICES ASSUME Init
             PROVE  DeadHoldsNothing /\ StateFollowsTasks /\ HolderFollowsTasks /\ StopFindsHolder
  BY Init_Type DEF IInv
<1> QED
  BY DEF Init, NoReload, DeadHoldsNothing, StateFollowsTasks, HolderFollowsTasks, HolderPlaces,
     StopFindsHolder, Holds

LEMMA Stutter_IInv == IInv /\ UNCHANGED vars => IInv'
BY DEF vars, taskVars, IInv, TypeOK, State, DeadHoldsNothing, StateFollowsTasks, HolderFollowsTasks,
   HolderPlaces, StopFindsHolder, Holds, OnlyHolder, NoServer, Orderly, Calm

\* At every step at most one kernel holds anything that the next one needs.
LEMMA Spec_IInv == Spec => []IInv
<1>1. IInv /\ Next => IInv'
  BY Next_Type, Next_DeadHoldsNothing, Next_StateFollowsTasks, Next_HolderFollowsTasks,
     Next_StopFindsHolder DEF IInv
<1> QED
  BY <1>1, Init_IInv, Stutter_IInv, PTL DEF Spec

-----------------------------------------------------------------------------
(* What the runs check, for any number of kernels.                         *)

\* No two kernels hold WhatsApp clients at a time, through any sequence of reloads,
\* failing ones included, where no signal comes before start() has finished and no
\* reload once stop() has begun: reload() stops the previous kernel before it
\* starts the new one.
THEOREM SessionsHaveOneUser == Spec => []OneKernelHoldsClients
<1>1. IInv => OneKernelHoldsClients
  <2> SUFFICES ASSUME IInv, Orderly, NEW k1 \in Kernel, NEW k2 \in Kernel, clients[k1], clients[k2]
               PROVE  k1 = k2
    BY DEF OneKernelHoldsClients, Orderly
  <2>1. CASE alive
    BY <2>1 DEF IInv, HolderFollowsTasks, HolderPlaces
  <2>2. CASE ~alive
    BY <2>2 DEF IInv, DeadHoldsNothing, Holds
  <2> QED
    BY <2>1, <2>2
<1> QED
  BY <1>1, Spec_IInv, PTL

\* A daemon that says it is running, and was not told to stop, serves the API from
\* its current kernel and has no reload under way: start() and reload() set the
\* state only when Kernel.start() has returned.
THEOREM RunningMeansReady == Spec => []RunningIsReady
<1>1. IInv => RunningIsReady
  <2> SUFFICES ASSUME IInv, ~environment.earlySignals, alive, state = "running", stopTask.pc = "none"
               PROVE  reloadTask.pc = "none" /\ current # 0 /\ server[current]
    BY DEF RunningIsReady
  <2> QED
    BY DEF IInv, StateFollowsTasks
<1> QED
  BY <1>1, Spec_IInv, PTL

\* Once stop() has returned, no kernel ever created serves the API or holds clients,
\* where nothing failed and no call came out of turn: stop() waits for the reload
\* it comes upon, and takes the kernel that the reload has left.
THEOREM ShutdownReleases == Spec => []StopReleases
<1>1. IInv => StopReleases
  <2> SUFFICES ASSUME IInv, Calm, stopTask.pc = "done"
               PROVE  \A k \in Kernel : ~Holds(k)
    BY DEF StopReleases, KernelsReleased, Holds
  <2> QED
    BY DEF IInv, StopFindsHolder, DeadHoldsNothing
<1> QED
  BY <1>1, Spec_IInv, PTL

-----------------------------------------------------------------------------
(* The order of the kernels.                                               *)

\* What the invariant above leaves open: a kernel that starts is the one constructed
\* last, a reload has a kernel to replace, and stop() one that alone holds clients.
SuccessionPlaces ==
  /\ startTask.pc = "booting" => startTask.kernel = created
  /\ reloadTask.pc \in {"stopOld", "booting"} => reloadTask.kernel = created
  /\ reloadTask.pc = "config" => current # 0
  /\ stopTask.pc = "stopKernel" => OnlyHolder(stopTask.kernel)

SuccessionInv == Orderly /\ alive => SuccessionPlaces

LEMMA Init_SuccessionInv == Init => SuccessionInv
BY DEF Init, NoReload, SuccessionInv, SuccessionPlaces

\* In an orderly environment: where the other tasks are while one takes a step.
LEMMA Orderliness ==
  ASSUME IInv, Orderly, alive
  PROVE  /\ HolderPlaces
         /\ ~environment.earlySignals /\ ~environment.lateReloads
         /\ startTask.pc # "done" => reloadTask.pc = "none" /\ stopTask.pc = "none"
         /\ reloadTask.pc # "none" =>
              startTask.pc = "done" /\ stopTask.pc \in {"none", "awaitReload"}
         /\ startTask.pc \in {"config", "booting", "done"}
<1>1. ~environment.earlySignals /\ ~environment.lateReloads
  BY DEF Orderly
<1>2. HolderPlaces
  BY DEF IInv, HolderFollowsTasks
<1>3. /\ startTask.pc \in {"config", "booting", "done"}
      /\ stopTask.pc \in {"none", "awaitReload", "stopKernel", "done"}
  BY DEF IInv, TypeOK
<1>4. startTask.pc # "done" => reloadTask.pc = "none" /\ stopTask.pc = "none"
  BY <1>1 DEF IInv, StateFollowsTasks
<1> QED
  BY <1>1, <1>2, <1>3, <1>4 DEF HolderPlaces

LEMMA Next_SuccessionInv == IInv /\ SuccessionInv /\ [Next]_vars => SuccessionInv'
<1> SUFFICES ASSUME IInv, SuccessionInv, [Next]_vars, Orderly', alive'
             PROVE  SuccessionPlaces'
  BY DEF SuccessionInv
<1>0. CASE UNCHANGED vars
  BY <1>0 DEF vars, taskVars, SuccessionInv, SuccessionPlaces, OnlyHolder, Holds, Orderly
<1> SUFFICES ASSUME Next
             PROVE  SuccessionPlaces'
  BY <1>0
<1>a. Orderly /\ alive
  <2>1. Orderly
    BY Steps DEF IInv
  <2>2. alive
    BY DEF Next, StartConfigured, StartFinishes, StartFails, ClientCreated, RequestReload,
       ReloadConfigured, ReloadOldStopped, ReloadFinishes, ReloadFails, RequestStop,
       StopResumes, StopFinishes, ForcedExit, NaturalExit, Exit
  <2> QED
    BY <2>1, <2>2
<1>b. TypeOK
  BY DEF IInv
<1> USE <1>a, <1>b, Orderliness DEF SuccessionInv, SuccessionPlaces
<1>1. CASE StartConfigured
  BY <1>1 DEF StartConfigured, CreateKernel
<1>2. CASE StartFinishes
  BY <1>2 DEF StartFinishes, TypeOK
<1>3. ASSUME NEW k \in Kernel, ClientCreated(k)
      PROVE  /\ UNCHANGED <<startTask, reloadTask, stopTask, created, current>>
             /\ stopTask.pc # "stopKernel"
  BY <1>3 DEF ClientCreated, taskVars
<1>4. CASE RequestReload
  <2>1. current # 0 /\ stopTask.pc = "none"
    BY <1>4 DEF RequestReload, CallArrives, IInv, StateFollowsTasks
  <2> QED
    BY <1>4, <2>1 DEF RequestReload
<1>5. CASE ReloadConfigured
  BY <1>5 DEF ReloadConfigured, CreateKernel, TypeOK
<1>6. CASE ReloadOldStopped
  BY <1>6 DEF ReloadOldStopped, TypeOK
<1>7. CASE ReloadFinishes \/ ReloadFails
  BY <1>7 DEF ReloadFinishes, ReloadFails, NoReload
<1>8. CASE RequestStop \/ StopResumes
  <2>1. /\ startTask.pc = "done" /\ stopTask.pc \in {"none", "awaitReload"}
        /\ UNCHANGED <<created, current, startTask, reloadTask, clients>>
    BY <1>8 DEF RequestStop, StopResumes, CallArrives
  <2>2. stopTask'.pc = "stopKernel" =>
          reloadTask.pc = "none" /\ current \in Kernel /\ stopTask'.kernel = current
          /\ BeginKernelStop(current)
    BY <1>8, KernelNumbers DEF RequestStop, StopResumes, StopCurrentKernel, TypeOK
  <2>3. stopTask'.pc = "stopKernel" => OnlyHolder(current) /\ \A j \in Kernel : server'[j] => server[j]
    BY <2>1, <2>2, Effects, KernelNumbers DEF HolderPlaces
  <2> QED
    BY <2>1, <2>2, <2>3 DEF OnlyHolder, Holds
<1>9. CASE StopFinishes
  BY <1>9 DEF StopFinishes, TypeOK
<1>10. CASE StartFails \/ ForcedExit \/ NaturalExit
  BY <1>10 DEF StartFails, ForcedExit, NaturalExit, Exit
<1> QED
  BY <1>1, <1>2, <1>3, <1>4, <1>5, <1>6, <1>7, <1>8, <1>9, <1>10 DEF Next

Holders == {k \in Kernel : clients[k]}

\* A step as KernelSuccession sees it, where the three expressions have been told.
LEMMA SeenSteps ==
  /\ Stage' = Stage /\ created' = created /\ Holders' = Holders =>
       UNCHANGED Succession!successionVars
  /\ Stage = "none" /\ Stage' = "starting" /\ created' = created + 1 /\ Holders' = Holders =>
       Succession!First
  /\ Stage = "running" /\ Stage' = "replacing" /\ created' = created + 1 /\ Holders' = Holders =>
       Succession!Replace
  /\ Stage = "starting" /\ Stage' = Stage /\ created' = created /\ Holders' = {created} =>
       Succession!Hold
  /\ Stage = "replacing" /\ Stage' = "starting" /\ created' = created /\ Holders' = {} =>
       Succession!Follow
  /\ Stage = "starting" /\ Stage' = "running" /\ created' = created /\ Holders' = Holders =>
       Succession!Run
  /\ Stage = "running" /\ Stage' = "stopping" /\ created' = created /\ Holders' = Holders =>
       Succession!Retire
  /\ Stage = "stopping" /\ Stage' = "over" /\ created' = created /\ Holders' = {} =>
       Succession!Stop
  /\ Stage \in {"replacing", "starting", "running", "stopping"} /\ Stage' = "over"
       /\ created' = created /\ Holders' = Holders => Succession!Fail
  /\ Stage' = "gone" /\ created' = created /\ Holders' = {} => Succession!End
BY DEF Holders, Succession!successionVars, Succession!First, Succession!Replace, Succession!Hold,
   Succession!Follow, Succession!Run, Succession!Retire, Succession!Stop, Succession!Fail,
   Succession!End, Succession!Moves

LEMMA StepFollows ==
  ASSUME IInv, SuccessionInv, Next, Orderly
  PROVE  [Succession!Next]_(Succession!successionVars)
<1>a. TypeOK
  BY DEF IInv
<1>b. CASE StartFails \/ ForcedExit \/ NaturalExit
  <2>1. ~alive' /\ created' = created /\ \A k \in Kernel : ~clients'[k]
    BY <1>b DEF StartFails, ForcedExit, NaturalExit, Exit
  <2>2. Stage' = "gone" /\ Holders' = {}
    BY <2>1 DEF Stage, Holders
  <2> QED
    BY <2>1, <2>2, SeenSteps DEF Succession!Next
<1> SUFFICES ASSUME ~(StartFails \/ ForcedExit \/ NaturalExit)
             PROVE  [Succession!Next]_(Succession!successionVars)
  BY <1>b
<1>c. alive /\ alive'
  <2>1. \A k \in Kernel : ClientCreated(k) => alive /\ alive'
    BY <1>a DEF TypeOK, ClientCreated
  <2>2. /\ StartConfigured => alive /\ alive'
        /\ StartFinishes => alive /\ alive'
        /\ RequestReload => alive /\ alive'
        /\ ReloadConfigured => alive /\ alive'
        /\ ReloadOldStopped => alive /\ alive'
        /\ ReloadFinishes => alive /\ alive'
        /\ ReloadFails => alive /\ alive'
    BY <1>a DEF TypeOK, StartConfigured, StartFinishes, RequestReload, ReloadConfigured,
       ReloadOldStopped, ReloadFinishes, ReloadFails, CallArrives
  <2>3. RequestStop \/ StopResumes \/ StopFinishes => alive /\ alive'
    BY <1>a DEF TypeOK, RequestStop, StopResumes, StopFinishes, CallArrives
  <2> QED
    BY <2>1, <2>2, <2>3 DEF Next
<1> USE <1>a, <1>c, Orderliness DEF SuccessionInv, SuccessionPlaces
<1>1. CASE StartConfigured
  <2>1. Stage = "none" /\ Stage' = "starting" /\ created' = created + 1 /\ clients' = clients
    BY <1>1 DEF StartConfigured, CreateKernel, Stage
  <2> QED
    BY <2>1, SeenSteps DEF Holders, Succession!Next
<1>2. CASE StartFinishes
  <2>1. current # 0
    BY <1>2, KernelNumbers DEF StartFinishes, IInv, StateFollowsTasks, TypeOK
  <2>2. Stage = "starting" /\ Stage' = "running" /\ created' = created /\ clients' = clients
    BY <1>2, <2>1 DEF StartFinishes, Stage, TypeOK
  <2> QED
    BY <2>2, SeenSteps DEF Holders, Succession!Next
<1>3. ASSUME NEW k \in Kernel, ClientCreated(k)
      PROVE  [Succession!Next]_(Succession!successionVars)
  <2>1. k = created /\ OnlyHolder(k) /\ Stage = "starting"
    BY <1>3 DEF ClientCreated, HolderPlaces, Stage
  <2>2. Holders' = {created}
    BY <1>3, <2>1, Effects DEF OnlyHolder, Holds, Holders
  <2>3. Stage' = Stage /\ created' = created
    BY <1>3 DEF ClientCreated, taskVars, Stage
  <2> QED
    BY <2>1, <2>2, <2>3, SeenSteps DEF Succession!Next
<1>4. CASE RequestReload
  <2>1. current # 0 /\ startTask.pc = "done" /\ stopTask.pc = "none" /\ reloadTask.pc = "none"
    BY <1>4 DEF RequestReload, CallArrives, IInv, StateFollowsTasks
  <2>2. Stage' = Stage /\ created' = created /\ clients' = clients
    BY <1>4, <2>1 DEF RequestReload, Stage
  <2> QED
    BY <2>2, SeenSteps DEF Holders
<1>5. CASE ReloadConfigured
  <2>1. Stage = "running"
    BY <1>5 DEF ReloadConfigured, Stage
  <2>2. reloadTask.prev # 0
    BY <1>5 DEF ReloadConfigured, HolderPlaces
  <2>3. created' = created + 1 /\ clients' = clients
    BY <1>5 DEF ReloadConfigured, CreateKernel
  <2>4. Stage' = "replacing"
    <3>1. reloadTask'.pc = "stopOld" /\ startTask' = startTask
      BY <1>5, <2>2 DEF ReloadConfigured, TypeOK
    <3> QED
      BY <1>5, <3>1 DEF ReloadConfigured, Stage
  <2> QED
    BY <2>1, <2>3, <2>4, SeenSteps DEF Holders, Succession!Next
<1>6. CASE ReloadOldStopped
  <2>1. OnlyHolder(reloadTask.prev) /\ reloadTask.prev \in Kernel
    BY <1>6 DEF ReloadOldStopped, HolderPlaces, TypeOK
  <2>2. Holders' = {}
    BY <1>6, <2>1, Effects DEF ReloadOldStopped, OnlyHolder, Holds, Holders
  <2>3. Stage = "replacing" /\ created' = created
    BY <1>6 DEF ReloadOldStopped, Stage
  <2>4. Stage' = "starting"
    BY <1>6 DEF ReloadOldStopped, Stage, TypeOK
  <2> QED
    BY <2>2, <2>3, <2>4, SeenSteps DEF Succession!Next
<1>7. CASE ReloadFinishes
  <2>1. Stage = "starting" /\ created' = created /\ clients' = clients
    BY <1>7 DEF ReloadFinishes, Stage
  <2>2. current # 0
    BY <1>7, KernelNumbers DEF ReloadFinishes, HolderPlaces, TypeOK
  <2>3. Stage' = "running"
    BY <1>7, <2>2 DEF ReloadFinishes, Stage, NoReload
  <2> QED
    BY <2>1, <2>3, SeenSteps DEF Holders, Succession!Next
<1>8. CASE ReloadFails
  <2>1. Stage \in {"replacing", "starting", "running"}
    BY <1>8 DEF ReloadFails, Stage
  <2>2. Stage' = "over" /\ created' = created /\ clients' = clients
    BY <1>8 DEF ReloadFails, Stage, NoReload
  <2> QED
    BY <2>1, <2>2, SeenSteps DEF Holders, Succession!Next
<1>9. CASE RequestStop \/ StopResumes
  <2>1. /\ startTask.pc = "done" /\ stopTask.pc \in {"none", "awaitReload"}
        /\ UNCHANGED <<created, current, startTask, reloadTask, clients>>
    BY <1>9 DEF RequestStop, StopResumes, CallArrives
  <2>2. CASE reloadTask.pc # "none" \/ current = 0
    <3>1. stopTask'.pc \in {"awaitReload", "done"}
      BY <1>9, <2>2 DEF RequestStop, StopResumes, StopCurrentKernel
    <3>2. Stage' = Stage
      BY <2>1, <3>1 DEF Stage
    <3> QED
      BY <2>1, <3>2, SeenSteps DEF Holders
  <2>3. CASE reloadTask.pc = "none" /\ current # 0
    <3>1. stopTask'.pc = "stopKernel"
      BY <1>9, <2>3 DEF RequestStop, StopResumes, StopCurrentKernel
    <3>2. Stage = "running" /\ Stage' = "stopping"
      BY <2>1, <2>3, <3>1 DEF Stage
    <3> QED
      BY <2>1, <3>2, SeenSteps DEF Holders, Succession!Next
  <2> QED
    BY <2>2, <2>3
<1>10. CASE StopFinishes
  <2>1. startTask.pc = "done" /\ reloadTask.pc = "none" /\ stopTask.kernel \in Kernel
        /\ OnlyHolder(stopTask.kernel)
    BY <1>10 DEF StopFinishes, HolderPlaces, TypeOK
  <2>2. Stage = "stopping" /\ created' = created
    BY <1>10, <2>1 DEF StopFinishes, Stage
  <2>3. Stage' = "over"
    BY <1>10, <2>1 DEF StopFinishes, Stage, TypeOK
  <2>4. Holders' = {} \/ Holders' = Holders
    BY <1>10, <2>1, Effects DEF StopFinishes, OnlyHolder, Holds, Holders
  <2> QED
    BY <2>2, <2>3, <2>4, SeenSteps DEF Succession!Next
<1> QED
  BY <1>1, <1>2, <1>3, <1>4, <1>5, <1>6, <1>7, <1>8, <1>9, <1>10 DEF Next

\* In an orderly environment the daemon makes kernels follow each other as
\* KernelSuccession has them, through failures of any step: reload() awaits the stop
\* of the previous kernel before it starts the new one, and its catch block leaves the
\* daemon without a kernel, in a state in which it takes no other reload.
THEOREM KernelsSucceed == Spec => KeepsSuccession
<1>1. Init => (Orderly => Succession!Init)
  BY KernelNumbers DEF Init, NoReload, Stage, Succession!Init
<1>2. IInv /\ SuccessionInv /\ [Next]_vars =>
        [Orderly => [Succession!Next]_(Succession!successionVars)]_vars
  BY StepFollows
<1> QED
  BY <1>1, <1>2, Init_SuccessionInv, Next_SuccessionInv, Spec_IInv, PTL DEF Spec, KeepsSuccession

\* The same as an implementation: the environment does not change.
THEOREM OrderlyDaemonsImplement == Spec /\ Orderly => Succession!Spec
<1>1. Orderly /\ TypeOK /\ [Next]_vars => Orderly'
  BY SameEnvironment DEF Orderly, vars
<1>2. Orderly /\ [Orderly => [Succession!Next]_(Succession!successionVars)]_vars =>
        [Succession!Next]_(Succession!successionVars)
  BY DEF vars, taskVars, Stage, Succession!successionVars
<1> QED
  BY <1>1, <1>2, KernelsSucceed, TypeCorrect, PTL DEF Spec, KeepsSuccession, Succession!Spec

=============================================================================
