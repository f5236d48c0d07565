-------------------------- MODULE DaemonLifecycle --------------------------
(***************************************************************************)
(* apps/daemon: DaemonProcess.start, reload and stop, the signal and error *)
(* handlers that call them, and what Kernel.start and Kernel.stop open and *)
(* release on the way.                                                     *)
(*                                                                         *)
(* Each of the three methods is a task that runs from one await to the     *)
(* next without interruption; pc names the await it is suspended at:       *)
(*   "config"      await createWatoConfig()                                *)
(*   "stopOld"     await previousKernel.stop()                             *)
(*   "booting"     await kernel.start()                                    *)
(*   "awaitReload" await this.reloadPromise                                *)
(*   "stopKernel"  await this.kernel?.stop()                               *)
(*                                                                         *)
(* A kernel holds two resources the process cannot share: server, the port *)
(* of its API, opened and closed without an await, and clients, its        *)
(* WhatsApp clients on the session directories, which start() creates one  *)
(* account at a time between awaits and stop() destroys with an await.     *)
(***************************************************************************)
EXTENDS Integers

CONSTANTS
  MaxKernels,       \* bound on the number of kernels created
  Environments      \* the circumstances the daemon may meet

\* earlySignals: signals may arrive before start() has finished.
\* lateReloads:  reloads may be requested while stop() is under way.
\* configFails:  createWatoConfig() or createKernel() may throw.
\* startFails:   Kernel.start() may throw.
\* destroyFails: client.destroy() in Kernel.stop() may throw.
Environment == [earlySignals : BOOLEAN, lateReloads : BOOLEAN, configFails : BOOLEAN,
                startFails : BOOLEAN, destroyFails : BOOLEAN]

ASSUME LifecycleAssumption ==
  /\ MaxKernels \in Nat \ {0}
  /\ Environments \subseteq Environment

VARIABLES
  state,        \* DaemonProcess.state
  current,      \* DaemonProcess.kernel, 0 when undefined
  created,      \* number of kernels constructed so far
  startTask, reloadTask, stopTask,
  server,       \* server[k]: the API of kernel k holds its port
  clients,      \* clients[k]: kernel k has live WhatsApp clients
  alive,        \* the process has not exited
  environment   \* which circumstances hold, from the beginning to the end

taskVars == <<startTask, reloadTask, stopTask>>
vars == <<state, current, created, taskVars, server, clients, alive, environment>>

Kernel == 1..MaxKernels
KernelOrNone == 0..MaxKernels

NoReload == [pc |-> "none", prev |-> 0, kernel |-> 0]

\* main() has called start(), which is at its first await.
Init ==
  /\ state = "starting"
  /\ current = 0
  /\ created = 0
  /\ startTask = [pc |-> "config", kernel |-> 0]
  /\ reloadTask = NoReload
  /\ stopTask = [pc |-> "none", kernel |-> 0]
  /\ server = [k \in Kernel |-> FALSE]
  /\ clients = [k \in Kernel |-> FALSE]
  /\ alive = TRUE
  /\ environment \in Environments

-----------------------------------------------------------------------------
(* Kernels.                                                                *)

\* Construct the next kernel; its number identifies it.
CreateKernel(k) ==
  /\ created < MaxKernels
  /\ k = created + 1
  /\ created' = k

\* The start() of runtime-whatsapp has created one more client of kernel k.
ClientCreated(k) ==
  /\ alive
  /\ \/ startTask.pc = "booting" /\ startTask.kernel = k
     \/ reloadTask.pc = "booting" /\ reloadTask.kernel = k
  /\ clients' = [clients EXCEPT ![k] = TRUE]
  /\ UNCHANGED <<state, current, created, taskVars, server, alive, environment>>

\* After the clients, Kernel.start() runs on to the end: Bun.serve takes the
\* port unless another kernel has it.
PortFree == \A k \in Kernel : ~server[k]

KernelReady(k) ==
  /\ PortFree
  /\ server' = [server EXCEPT ![k] = TRUE]

KernelStartFails == environment.startFails \/ ~PortFree

\* Kernel.stop() up to its await: modules stop in reverse order, the API first.
BeginKernelStop(k) == server' = [server EXCEPT ![k] = FALSE]

\* Kernel.stop() after its await.
ClientsDestroyed(k) == clients' = [clients EXCEPT ![k] = FALSE]

Exit ==
  /\ alive' = FALSE
  /\ server' = [k \in Kernel |-> FALSE]
  /\ clients' = [k \in Kernel |-> FALSE]

-----------------------------------------------------------------------------
(* DaemonProcess.start(), called once by main().                           *)

StartConfigured ==
  /\ alive
  /\ startTask.pc = "config"
  /\ \E k \in Kernel :
       /\ CreateKernel(k)
       /\ current' = k
       /\ startTask' = [pc |-> "booting", kernel |-> k]
  /\ UNCHANGED <<state, reloadTask, stopTask, server, clients, alive, environment>>

\* start() sets "running" whatever stop() or reload() did in the meantime.
StartFinishes ==
  /\ alive
  /\ startTask.pc = "booting"
  /\ KernelReady(startTask.kernel)
  /\ startTask' = [startTask EXCEPT !.pc = "done"]
  /\ state' = "running"
  /\ UNCHANGED <<current, created, reloadTask, stopTask, clients, alive, environment>>

\* main().catch: process.exit(1).
StartFails ==
  /\ alive
  /\ \/ startTask.pc = "config" /\ environment.configFails
     \/ startTask.pc = "booting" /\ KernelStartFails
  /\ Exit
  /\ UNCHANGED <<state, current, created, taskVars, environment>>

-----------------------------------------------------------------------------
(* DaemonProcess.reload(), called for SIGHUP and for POST /v1/system:reload. *)

\* A call of reload() or stop() comes from a signal, a request or an error,
\* never between the end of a reload and the continuation of a stop() that
\* waits for it.
CallArrives ==
  /\ alive
  /\ environment.earlySignals \/ startTask.pc = "done"
  /\ ~(stopTask.pc = "awaitReload" /\ reloadTask.pc = "none")

\* The bound on kernels leaves one for a start() that has not created its own.
KernelsLeft == created + (IF startTask.pc = "config" THEN 1 ELSE 0) < MaxKernels

RequestReload ==
  /\ CallArrives
  /\ KernelsLeft
  /\ environment.lateReloads \/ stopTask.pc = "none"
  /\ state \notin {"stopping", "stopped"}
  /\ reloadTask.pc = "none"
  /\ reloadTask' = [pc |-> "config", prev |-> current, kernel |-> 0]
  /\ state' = "reloading"
  /\ UNCHANGED <<current, created, startTask, stopTask, server, clients, alive, environment>>

\* Defect: the previous kernel is dropped without being stopped.
ReloadConfiguredUnstopped ==
  /\ alive
  /\ reloadTask.pc = "config"
  /\ \E k \in Kernel :
       /\ CreateKernel(k)
       /\ reloadTask' = [reloadTask EXCEPT !.pc = "booting", !.kernel = k]
       /\ current' = k
  /\ UNCHANGED <<state, startTask, stopTask, server, clients, alive, environment>>

\* The new kernel exists before the previous one, if any, is stopped.
ReloadConfigured ==
  /\ alive
  /\ reloadTask.pc = "config"
  /\ \E k \in Kernel :
       /\ CreateKernel(k)
       /\ \/ /\ reloadTask.prev # 0
             /\ reloadTask' = [reloadTask EXCEPT !.pc = "stopOld", !.kernel = k]
             /\ BeginKernelStop(reloadTask.prev)
             /\ UNCHANGED current
          \/ /\ reloadTask.prev = 0
             /\ reloadTask' = [reloadTask EXCEPT !.pc = "booting", !.kernel = k]
             /\ current' = k
             /\ UNCHANGED server
  /\ UNCHANGED <<state, startTask, stopTask, clients, alive, environment>>

\* Defect: the state is "running" again before kernel.start() is awaited.
ReloadOldStoppedRunning ==
  /\ alive
  /\ reloadTask.pc = "stopOld"
  /\ ClientsDestroyed(reloadTask.prev)
  /\ current' = reloadTask.kernel
  /\ reloadTask' = [reloadTask EXCEPT !.pc = "booting"]
  /\ state' = "running"
  /\ UNCHANGED <<created, startTask, stopTask, server, alive, environment>>

ReloadOldStopped ==
  /\ alive
  /\ reloadTask.pc = "stopOld"
  /\ ClientsDestroyed(reloadTask.prev)
  /\ current' = reloadTask.kernel
  /\ reloadTask' = [reloadTask EXCEPT !.pc = "booting"]
  /\ UNCHANGED <<state, created, startTask, stopTask, server, alive, environment>>

ReloadFinishes ==
  /\ alive
  /\ reloadTask.pc = "booting"
  /\ KernelReady(reloadTask.kernel)
  /\ state' = "running"
  /\ reloadTask' = NoReload
  /\ UNCHANGED <<current, created, startTask, stopTask, clients, alive, environment>>

\* The catch block.  The SIGHUP handler then calls stop(), which returns at
\* once because state is "stopped" already.
ReloadFails ==
  /\ alive
  /\ \/ reloadTask.pc = "config" /\ environment.configFails
     \/ reloadTask.pc = "stopOld" /\ environment.destroyFails
     \/ reloadTask.pc = "booting" /\ KernelStartFails
  /\ current' = 0
  /\ state' = "stopped"
  /\ reloadTask' = NoReload
  /\ UNCHANGED <<created, startTask, stopTask, server, clients, alive, environment>>

-----------------------------------------------------------------------------
(* DaemonProcess.stop(), called for SIGINT, SIGTERM and SIGQUIT and for     *)
(* uncaught errors.  stoppingPromise is never cleared, so one task is all.  *)

\* await this.kernel?.stop(), and the finally block when there is no kernel.
StopCurrentKernel ==
  \/ /\ current # 0
     /\ stopTask' = [pc |-> "stopKernel", kernel |-> current]
     /\ BeginKernelStop(current)
     /\ state' = "stopping"
  \/ /\ current = 0
     /\ stopTask' = [pc |-> "done", kernel |-> 0]
     /\ state' = "stopped"
     /\ UNCHANGED server

\* Defect: stop() does not wait for a reload in progress.
RequestStopAtOnce ==
  /\ CallArrives
  /\ state # "stopped"
  /\ stopTask.pc = "none"
  /\ StopCurrentKernel
  /\ UNCHANGED <<current, created, startTask, reloadTask, clients, alive, environment>>

RequestStop ==
  /\ CallArrives
  /\ state # "stopped"
  /\ stopTask.pc = "none"
  /\ \/ reloadTask.pc = "none" /\ StopCurrentKernel
     \/ /\ reloadTask.pc # "none"
        /\ stopTask' = [pc |-> "awaitReload", kernel |-> 0]
        /\ state' = "stopping"
        /\ UNCHANGED server
  /\ UNCHANGED <<current, created, startTask, reloadTask, clients, alive, environment>>

\* Defect: the continuation requires the state stop() had set.
StopResumesIfStopping ==
  /\ alive
  /\ stopTask.pc = "awaitReload"
  /\ reloadTask.pc = "none"
  /\ state = "stopping"
  /\ StopCurrentKernel
  /\ UNCHANGED <<current, created, startTask, reloadTask, clients, alive, environment>>

\* The reload has ended, one way or the other; state is as the reload left it
\* until the kernel has stopped.
StopResumes ==
  /\ alive
  /\ stopTask.pc = "awaitReload"
  /\ reloadTask.pc = "none"
  /\ \/ /\ current # 0
        /\ stopTask' = [pc |-> "stopKernel", kernel |-> current]
        /\ BeginKernelStop(current)
        /\ UNCHANGED state
     \/ /\ current = 0
        /\ stopTask' = [pc |-> "done", kernel |-> 0]
        /\ state' = "stopped"
        /\ UNCHANGED server
  /\ UNCHANGED <<current, created, startTask, reloadTask, clients, alive, environment>>

\* Kernel.stop() returned, or a destroy() threw; the finally block either way.
StopFinishes ==
  /\ alive
  /\ stopTask.pc = "stopKernel"
  /\ \/ ClientsDestroyed(stopTask.kernel)
     \/ environment.destroyFails /\ UNCHANGED clients
  /\ stopTask' = [stopTask EXCEPT !.pc = "done"]
  /\ current' = 0
  /\ state' = "stopped"
  /\ UNCHANGED <<created, startTask, reloadTask, server, alive, environment>>

-----------------------------------------------------------------------------
(* The end of the process.                                                 *)

\* The timer of scheduleForcedExit, armed while a stop() is under way.
ForcedExit ==
  /\ alive
  /\ stopTask.pc \in {"awaitReload", "stopKernel"}
  /\ Exit
  /\ UNCHANGED <<state, current, created, taskVars, environment>>

\* Nothing keeps the event loop alive.
NaturalExit ==
  /\ alive
  /\ startTask.pc = "done"
  /\ reloadTask.pc = "none"
  /\ stopTask.pc \in {"none", "done"}
  /\ \A k \in Kernel : ~server[k] /\ ~clients[k]
  /\ Exit
  /\ UNCHANGED <<state, current, created, taskVars, environment>>

-----------------------------------------------------------------------------
Next ==
  \/ StartConfigured \/ StartFinishes \/ StartFails
  \/ \E k \in Kernel : ClientCreated(k)
  \/ RequestReload \/ ReloadConfigured \/ ReloadOldStopped
  \/ ReloadFinishes \/ ReloadFails
  \/ RequestStop \/ StopResumes \/ StopFinishes
  \/ ForcedExit \/ NaturalExit

Spec == Init /\ [][Next]_vars

\* Every await ends: the file is read, the clients are created or destroyed; and
\* an event loop with nothing to do exits.
Fairness ==
  /\ WF_vars(StartConfigured \/ StartFails)
  /\ WF_vars(StartFinishes \/ StartFails)
  /\ WF_vars(ReloadConfigured \/ ReloadOldStopped \/ ReloadFinishes \/ ReloadFails)
  /\ WF_vars(StopResumes \/ StopFinishes)
  /\ WF_vars(NaturalExit)

FairSpec == Spec /\ Fairness
-----------------------------------------------------------------------------
(* Properties.                                                             *)

State == {"idle", "starting", "running", "reloading", "stopping", "stopped"}

\* Besides the types: a task that waits for a kernel has one.
TypeOK ==
  /\ state \in State
  /\ current \in KernelOrNone
  /\ created \in KernelOrNone
  /\ startTask \in [pc : {"config", "booting", "done"}, kernel : KernelOrNone]
  /\ reloadTask \in [pc : {"none", "config", "stopOld", "booting"},
                     prev : KernelOrNone, kernel : KernelOrNone]
  /\ stopTask \in [pc : {"none", "awaitReload", "stopKernel", "done"}, kernel : KernelOrNone]
  /\ server \in [Kernel -> BOOLEAN]
  /\ clients \in [Kernel -> BOOLEAN]
  /\ alive \in BOOLEAN
  /\ environment \in Environments
  /\ startTask.pc = "booting" => startTask.kernel \in Kernel
  /\ reloadTask.pc = "stopOld" => reloadTask.prev \in Kernel
  /\ reloadTask.pc \in {"stopOld", "booting"} => reloadTask.kernel \in Kernel
  /\ stopTask.pc = "stopKernel" => stopTask.kernel \in Kernel

\* No signal before the end of start(), no reload once stop() has begun.
Orderly == ~environment.earlySignals /\ ~environment.lateReloads

\* Session directories have one user: no two kernels hold WhatsApp clients at a
\* time, through any sequence of reloads, failing ones included, in an orderly
\* environment.
OneKernelHoldsClients ==
  Orderly =>
    \A k1, k2 \in Kernel : clients[k1] /\ clients[k2] => k1 = k2

\* A daemon that says it is running, and was not told to stop, has a kernel that
\* serves the API and no reload under way (signals before the end of start() aside).
RunningIsReady ==
  ~environment.earlySignals /\ alive /\ state = "running" /\ stopTask.pc = "none" =>
    reloadTask.pc = "none" /\ current # 0 /\ server[current]

\* No signal before the end of start(), no reload once stop() has begun, no failure.
Calm == \A circumstance \in DOMAIN environment : ~environment[circumstance]

KernelsReleased == stopTask.pc = "done" => \A k \in Kernel : ~server[k] /\ ~clients[k]

\* Once stop() has returned, whatever reload it came upon, no kernel ever created is
\* left serving the API or holding WhatsApp clients, if nothing failed on the way.
StopReleases == Calm => KernelsReleased

\* "graceful daemon shutdown on process signals" (docs/architecture.md:171): a
\* shutdown that has completed leaves no kernel behind.
GracefulShutdown == KernelsReleased

\* "reload failures are already logged; shutdown continues" (the comment in
\* stop(), apps/daemon/src/index.ts:108): it continues to the end, which is that
\* the kernel that was running when stop() was called is stopped.
ShutdownContinues == KernelsReleased

\* A reload always ends, also with a stop() waiting for it; and stop() returns, or
\* the process exits: neither waits for ever for the other.
TasksEnd ==
  /\ reloadTask.pc # "none" ~> reloadTask.pc = "none" \/ ~alive
  /\ stopTask.pc \in {"awaitReload", "stopKernel"} ~> stopTask.pc = "done" \/ ~alive

\* If nothing fails, a shutdown ends the process without being forced.
ShutdownExits == Calm /\ stopTask.pc # "none" ~> ~alive

-----------------------------------------------------------------------------
(* The daemon implements KernelSuccession.                                 *)

Stage ==
  IF ~alive THEN "gone"
  ELSE IF startTask.pc = "config" THEN "none"
  ELSE IF "booting" \in {startTask.pc, reloadTask.pc} THEN "starting"
  ELSE IF reloadTask.pc = "stopOld" THEN "replacing"
  ELSE IF stopTask.pc = "stopKernel" THEN "stopping"
  ELSE IF current # 0 THEN "running" ELSE "over"

Succession == INSTANCE KernelSuccession
                WITH kernel <- created, stage <- Stage, holders <- {k \in Kernel : clients[k]}

\* In an orderly environment, whatever fails, start(), reload() and stop() make
\* kernels follow each other as KernelSuccession has them: the next one starts, and
\* makes clients, when those of the one before are destroyed, and none after a failure.
KeepsSuccession ==
  /\ Orderly => Succession!Init
  /\ [][Orderly => [Succession!Next]_(Succession!successionVars)]_vars

=============================================================================
