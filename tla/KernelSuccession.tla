-------------------------- MODULE KernelSuccession --------------------------
(***************************************************************************)
(* How kernels follow each other, without the daemon's tasks and without   *)
(* the accounts: the WhatsApp clients, which two kernels must not run on   *)
(* one session directory, pass from each kernel to the next.  A reload     *)
(* constructs the next kernel while the previous one runs, and starts it   *)
(* when no client of the previous one is left.  After a failure no other   *)
(* kernel comes in this process.  (The order of createKernel(), stop() and *)
(* start() in apps/daemon/src/index.ts.)                                   *)
(***************************************************************************)
EXTENDS Integers

VARIABLES
  kernel,   \* the number of the kernel constructed last
  stage,    \* "none", "replacing" (its predecessor stops), "starting", "running",
            \* "stopping", "over" (it, or a change of kernels, has ended or failed),
            \* "gone" (the process has ended)
  holders   \* the kernels with live clients

successionVars == <<kernel, stage, holders>>

Init == kernel = 0 /\ stage = "none" /\ holders = {}

\* The first kernel of a process.
First ==
  /\ stage \in {"none", "gone"}
  /\ kernel' = kernel + 1
  /\ stage' = "starting"
  /\ UNCHANGED holders

Replace ==
  /\ stage = "running"
  /\ kernel' = kernel + 1
  /\ stage' = "replacing"
  /\ UNCHANGED holders

\* Clients are made by a kernel that starts; those of one that stops end all
\* before it has stopped.
Hold ==
  /\ stage = "starting"
  /\ holders' = {kernel}
  /\ UNCHANGED <<kernel, stage>>

Release ==
  /\ stage \in {"replacing", "stopping"}
  /\ holders' = {}
  /\ UNCHANGED <<kernel, stage>>

Moves(from, to) == stage = from /\ stage' = to /\ UNCHANGED kernel

Follow == Moves("replacing", "starting") /\ holders' = {}
Run == Moves("starting", "running") /\ UNCHANGED holders
Retire == Moves("running", "stopping") /\ UNCHANGED holders
Stop == Moves("stopping", "over") /\ holders' = {}

\* A failure leaves the clients to whoever has them.
Fail ==
  /\ \E from \in {"replacing", "starting", "running", "stopping"} : Moves(from, "over")
  /\ UNCHANGED holders

End ==
  /\ stage' = "gone"
  /\ holders' = {}
  /\ UNCHANGED kernel

Next ==
  \/ First \/ Replace \/ Hold \/ Release
  \/ Follow \/ Run \/ Retire \/ Stop \/ Fail \/ End

Spec == Init /\ [][Next]_successionVars

=============================================================================
