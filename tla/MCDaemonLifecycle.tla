------------------------- MODULE MCDaemonLifecycle -------------------------
(* Every environment; and the single circumstances of the counterexamples.   *)
EXTENDS DaemonLifecycle

Only(circumstances) ==
  [earlySignals |-> "earlySignals" \in circumstances,
   lateReloads |-> "lateReloads" \in circumstances,
   configFails |-> "configFails" \in circumstances,
   startFails |-> "startFails" \in circumstances,
   destroyFails |-> "destroyFails" \in circumstances]

AllEnvironments == Environment
EarlySignals == {Only({"earlySignals"})}
FailingConfigs == {Only({"configFails"})}
=============================================================================
