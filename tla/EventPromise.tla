---------------------------- MODULE EventPromise ----------------------------
(***************************************************************************)
(* What publish() promises to those who subscribe to events: an event is   *)
(* in the table domain_events before anyone is told of it, nobody is told  *)
(* of it twice, and neither a row nor a telling is taken back.             *)
(***************************************************************************)
EXTENDS Sequences, SequencesExt

CONSTANTS Event, Subscriber

VARIABLES
  rows,    \* the stored events
  told     \* told[s]: the events handed to subscriber s, in their order

promiseVars == <<rows, told>>

Init ==
  /\ rows = {}
  /\ told = [s \in Subscriber |-> <<>>]

Store(e) ==
  /\ rows' = rows \cup {e}
  /\ UNCHANGED told

\* The subscriber is told at once, or after others are done with the event.
Tell(e, s) ==
  /\ rows' = rows \cup {e}
  /\ e \notin ToSet(told[s])
  /\ told' = [told EXCEPT ![s] = Append(@, e)]

Next == \E e \in Event : Store(e) \/ \E s \in Subscriber : Tell(e, s)

Spec == Init /\ [][Next]_promiseVars

=============================================================================
