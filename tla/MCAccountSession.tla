------------------------- MODULE MCAccountSession -------------------------
(* Two accounts.  Faulty: one kernel, and whatever may throw does; messages,  *)
(* which touch the rows only, are left out.  Changing: two kernels one after   *)
(* the other; the second account is disabled, or the first one dropped, by     *)
(* some of the configs.                                                        *)
EXTENDS AccountSession, TLC

Acc(id, enabled) == [id |-> id, enabled |-> enabled]

Both == <<Acc("default", TRUE), Acc("ops", TRUE)>>
OneOff == <<Acc("default", TRUE), Acc("ops", FALSE)>>
Dropped == <<Acc("ops", TRUE)>>

Faulty ==
  [configs |-> {Both}, storageFails |-> TRUE, destroyFails |-> TRUE, messages |-> FALSE,
   kernels |-> 1]
Changing ==
  [configs |-> {OneOff, Dropped}, storageFails |-> FALSE, destroyFails |-> TRUE,
   messages |-> TRUE, kernels |-> 2]

FaultyOrChanging == {Faulty, Changing}
=============================================================================
