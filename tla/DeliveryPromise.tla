-------------------------- MODULE DeliveryPromise --------------------------
(***************************************************************************)
(* What the webhook runtime promises for a delivery, without its registry, *)
(* its rows, its timers or its instances: a delivery that was opened is    *)
(* tried again until it is delivered or MaxAttempts tries have failed, and *)
(* it may be interrupted; once closed, it stays as it is.  (The summary of *)
(* queueDelivery() in modules/runtime-webhook/src/index.ts.)               *)
(***************************************************************************)
EXTENDS Integers

CONSTANTS Chain, MaxAttempts

VARIABLES outcome, tries

promiseVars == <<outcome, tries>>

Closed == {"delivered", "gaveUp", "interrupted"}

Init ==
  /\ outcome = [c \in Chain |-> "none"]
  /\ tries = [c \in Chain |-> 0]

\* Deliveries are opened with their first try, several at once when an event
\* matches several webhooks.
Open(new) ==
  /\ \A c \in new : outcome[c] = "none"
  /\ outcome' = [c \in Chain |-> IF c \in new THEN "open" ELSE outcome[c]]
  /\ tries' = [c \in Chain |-> IF c \in new THEN 1 ELSE tries[c]]

Retry(c) ==
  /\ outcome[c] = "open"
  /\ tries[c] < MaxAttempts
  /\ tries' = [tries EXCEPT ![c] = @ + 1]
  /\ UNCHANGED outcome

Deliver(c) ==
  /\ outcome[c] = "open"
  /\ outcome' = [outcome EXCEPT ![c] = "delivered"]
  /\ UNCHANGED tries

GiveUp(c) ==
  /\ outcome[c] = "open"
  /\ tries[c] = MaxAttempts
  /\ outcome' = [outcome EXCEPT ![c] = "gaveUp"]
  /\ UNCHANGED tries

Interrupt(cut) ==
  /\ \A c \in cut : outcome[c] = "open"
  /\ outcome' = [c \in Chain |-> IF c \in cut THEN "interrupted" ELSE outcome[c]]
  /\ UNCHANGED tries

Next ==
  \/ \E chains \in SUBSET Chain : Open(chains) \/ Interrupt(chains)
  \/ \E c \in Chain : Retry(c) \/ Deliver(c) \/ GiveUp(c)

Spec == Init /\ [][Next]_promiseVars

=============================================================================
