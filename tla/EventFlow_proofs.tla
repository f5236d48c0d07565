-------------------------- MODULE EventFlow_proofs --------------------------
(***************************************************************************)
(* Events through one kernel, for any messages, files and number of        *)
(* events: the types, the promise of publish(), the workflows before the   *)
(* webhooks, and the order of the events for which nothing is fetched.     *)
(*                                                                         *)
(* The inductive invariant says which events no subscriber has been told   *)
(* of yet, so that a telling is always the first one, and that an event    *)
(* that waits for something is one that may be overtaken.  MediaInv adds   *)
(* what a file may hold while its media is written and once its path was   *)
(* handed on.                                                              *)
(***************************************************************************)
EXTENDS EventFlow, SequenceTheorems, TLAPS

Fetching == {"downloading", "writing", "quoting"}

Told(s) == ToSet(seen[s])

\* Where an event is decides who has been told of it.
SeenInv ==
  /\ \A n \in Number : stage[n] \in Fetching \cup {"none"} =>
       n \notin Told("workflows") /\ n \notin Told("webhooks")
  /\ \A n \in Number : stage[n] = "publishing" =>
       n \in Told("workflows") /\ n \notin Told("webhooks")
  /\ Told("workflows") \subseteq rows
  /\ WorkflowsBeforeWebhooks

OrderInv ==
  /\ \A n \in Number : stage[n] \in Fetching => Awaits(n)
  /\ PlainEventsInOrder

IInv == TypeOK /\ SeenInv /\ OrderInv

-----------------------------------------------------------------------------
(* Lists.                                                                  *)

\* An element appended to a list is its last one, and the others keep their places.
LEMMA AppendPlaces ==
  ASSUME NEW S, NEW list \in Seq(S), NEW e \in S
  PROVE  /\ Append(list, e) \in Seq(S)
         /\ DOMAIN Append(list, e) = 1..(Len(list) + 1)
         /\ DOMAIN list = 1..Len(list)
         /\ \A i \in 1..Len(list) : Append(list, e)[i] = list[i]
         /\ Append(list, e)[Len(list) + 1] = e
OBVIOUS

LEMMA ToSetAppend ==
  ASSUME NEW S, NEW list \in Seq(S), NEW e \in S
  PROVE  ToSet(Append(list, e)) = ToSet(list) \cup {e}
<1>1. \A x \in ToSet(Append(list, e)) : x \in ToSet(list) \cup {e}
  BY AppendPlaces DEF ToSet
<1>2. \A x \in ToSet(list) \cup {e} : x \in ToSet(Append(list, e))
  BY AppendPlaces DEF ToSet
<1> QED
  BY <1>1, <1>2

-----------------------------------------------------------------------------
(* What the handlers of the client do to an event that nobody was told of. *)

\* The event moves on without being published, or is stored, and handed to the
\* workflows if there is a subscription.
Kept(n) ==
  /\ \E next \in Fetching \cup {"cut", "lost"} : stage' = [stage EXCEPT ![n] = next]
  /\ UNCHANGED busVars

Stored(n) ==
  /\ stage' = [stage EXCEPT ![n] = "done"]
  /\ todo' = [todo EXCEPT ![n] = <<>>]
  /\ rows' = rows \cup {n}
  /\ seen' = seen

ToWorkflows(n) ==
  /\ stage' = [stage EXCEPT ![n] = "publishing"]
  /\ \E rest \in {<<>>, <<"webhooks">>} : todo' = [todo EXCEPT ![n] = rest]
  /\ rows' = rows \cup {n}
  /\ seen' = [seen EXCEPT !["workflows"] = Append(@, n)]

Moves(n) == Kept(n) \/ Stored(n) \/ ToWorkflows(n)

LEMMA PublishMoves ==
  ASSUME TypeOK, NEW n, NEW event, Publish(n, event)
  PROVE  Stored(n) \/ ToWorkflows(n)
         \/ (UNCHANGED busVars /\ \E next \in {"cut", "lost"} : stage' = [stage EXCEPT ![n] = next])
<1>1. CASE rows' = rows \cup {n} /\ Handed(n, subscribed)
  <2>1. CASE subscribed = <<>>
    <3>1. seen' = seen
      BY <1>1, <2>1 DEF Handed, TypeOK
    <3> QED
      BY <1>1, <2>1, <3>1 DEF Handed, Stored
  <2>2. CASE subscribed \in {<<"workflows", "webhooks">>, <<"workflows">>}
    <3>1. subscribed # <<>> /\ Head(subscribed) = "workflows"
          /\ Tail(subscribed) \in {<<>>, <<"webhooks">>}
      <4>1. CASE subscribed = <<"workflows", "webhooks">>
        BY <4>1
      <4>2. CASE subscribed = <<"workflows">>
        BY <4>2
      <4> QED
        BY <2>2, <4>1, <4>2
    <3>2. seen' = [seen EXCEPT !["workflows"] = Append(@, n)]
      <4>1. seen' = [s \in Subscriber |-> IF s = "workflows" THEN Append(seen[s], n) ELSE seen[s]]
        BY <1>1, <3>1 DEF Handed
      <4>2. seen \in [Subscriber -> Seq(Number)] /\ "workflows" \in Subscriber
        BY DEF TypeOK, Subscriber
      <4> QED
        BY <4>1, <4>2
    <3>3. /\ stage' = [stage EXCEPT ![n] = "publishing"]
          /\ todo' = [todo EXCEPT ![n] = Tail(subscribed)]
      BY <1>1, <3>1 DEF Handed
    <3> QED
      BY <1>1, <3>1, <3>2, <3>3 DEF ToWorkflows
  <2> QED
    BY <2>1, <2>2 DEF TypeOK
<1> QED
  BY <1>1 DEF Publish

LEMMA QuoteOrPublishMoves ==
  ASSUME TypeOK, NEW n, NEW event, QuoteOrPublish(n, event)
  PROVE  /\ Moves(n)
         /\ n \in Number /\ stage'[n] \in Fetching => event.message \in Quoting
<1>1. CASE Publish(n, event)
  BY <1>1, PublishMoves DEF Moves, Kept, Stored, ToWorkflows, Fetching, TypeOK
<1>2. CASE ~Publish(n, event)
  BY <1>2 DEF QuoteOrPublish, Moves, Kept, Fetching
<1> QED
  BY <1>1, <1>2

LEMMA NormalizesMoves ==
  ASSUME TypeOK, NEW n, NEW event, Normalizes(n, event)
  PROVE  /\ Moves(n)
         /\ n \in Number /\ stage'[n] \in Fetching => event.message \in Media \cup Quoting
<1>1. CASE QuoteOrPublish(n, event)
  BY <1>1, QuoteOrPublishMoves
<1>2. CASE ~QuoteOrPublish(n, event)
  BY <1>2 DEF Normalizes, Moves, Kept, Fetching
<1> QED
  BY <1>1, <1>2

-----------------------------------------------------------------------------
(* The two kinds of telling keep the invariant.                            *)

\* The lists afterwards, as sets.
LEMMA ToldAfter ==
  ASSUME TypeOK, NEW n \in Number, NEW s \in Subscriber,
         seen' = [seen EXCEPT ![s] = Append(@, n)]
  PROVE  /\ Told(s)' = Told(s) \cup {n}
         /\ \A t \in Subscriber \ {s} : Told(t)' = Told(t)
         /\ seen' \in [Subscriber -> Seq(Number)]
<1>1. seen \in [Subscriber -> Seq(Number)]
  BY DEF TypeOK
<1>2. seen'[s] = Append(seen[s], n) /\ Append(seen[s], n) \in Seq(Number)
  BY <1>1
<1>3. Told(s)' = Told(s) \cup {n}
  BY <1>1, <1>2, ToSetAppend DEF Told
<1>4. \A t \in Subscriber \ {s} : seen'[t] = seen[t]
  BY <1>1
<1> QED
  BY <1>1, <1>2, <1>3, <1>4 DEF Told

\* An event nobody was told of moves on.
LEMMA MovesKeepsSeen ==
  ASSUME TypeOK, SeenInv, NEW n \in Number, stage[n] \in Fetching \cup {"none"}, Moves(n)
  PROVE  SeenInv'
<1> USE DEF Fetching
<1>1. stage \in [Number -> Stages] /\ {"workflows", "webhooks"} = Subscriber
  BY DEF TypeOK, Subscriber
<1>2. CASE Kept(n)
  <2>1. UNCHANGED <<seen, rows>>
    BY <1>2 DEF Kept, busVars
  <2>2. \A k \in Number : \/ stage'[k] = stage[k]
                          \/ k = n /\ stage'[k] \in Fetching \cup {"cut", "lost"}
    BY <1>1, <1>2 DEF Kept
  <2> QED
    BY <2>1, <2>2 DEF SeenInv, Told, WorkflowsBeforeWebhooks
<1>3. CASE Stored(n)
  <2>1. seen' = seen /\ rows \subseteq rows'
    BY <1>3 DEF Stored
  <2>2. \A k \in Number : stage'[k] = stage[k] \/ stage'[k] = "done"
    BY <1>1, <1>3 DEF Stored
  <2> QED
    BY <2>1, <2>2 DEF SeenInv, Told, WorkflowsBeforeWebhooks
<1>4. CASE ToWorkflows(n)
  <2>1. /\ Told("workflows")' = Told("workflows") \cup {n}
        /\ Told("webhooks")' = Told("webhooks")
    BY <1>1, <1>4, ToldAfter DEF ToWorkflows
  <2>2. \A k \in Number : IF k = n THEN stage'[k] = "publishing" ELSE stage'[k] = stage[k]
    BY <1>1, <1>4 DEF ToWorkflows
  <2>3. rows' = rows \cup {n}
    BY <1>4 DEF ToWorkflows
  <2>4. n \notin Told("webhooks")
    BY DEF SeenInv
  <2>5. WorkflowsBeforeWebhooks'
    BY <2>1 DEF SeenInv, WorkflowsBeforeWebhooks, Told
  <2> QED
    BY <2>1, <2>2, <2>3, <2>4, <2>5 DEF SeenInv
<1> QED
  BY <1>2, <1>3, <1>4 DEF Moves

\* What happens to one event that is being published.
Finishes(n) ==
  /\ \E next \in {"done", "cut"} : stage' = [stage EXCEPT ![n] = next]
  /\ todo' = [todo EXCEPT ![n] = <<>>]
  /\ seen' = seen \/ seen' = [seen EXCEPT !["webhooks"] = Append(@, n)]
  /\ rows' = rows

LEMMA HandlerFinishes ==
  ASSUME TypeOK, NEW n \in Number, HandlerReturns(n) \/ HandlerThrows(n)
  PROVE  stage[n] = "publishing" /\ Finishes(n)
<1>1. CASE HandlerThrows(n)
  BY <1>1 DEF HandlerThrows, Finishes
<1>2. CASE HandlerReturns(n)
  <2>1. todo[n] \in {<<>>, <<"webhooks">>} /\ seen \in [Subscriber -> Seq(Number)]
    BY DEF TypeOK
  <2>2. CASE todo[n] = <<>>
    <3>1. seen' = [s \in Subscriber |-> seen[s]]
      BY <1>2, <2>2 DEF HandlerReturns, Handed
    <3> QED
      BY <1>2, <2>1, <2>2, <3>1 DEF HandlerReturns, Handed, Finishes
  <2>3. CASE todo[n] = <<"webhooks">>
    <3>1. todo[n] # <<>> /\ Head(todo[n]) = "webhooks"
      BY <2>3
    <3>2. seen' = [s \in Subscriber |-> IF s = "webhooks" THEN Append(seen[s], n) ELSE seen[s]]
      BY <1>2, <3>1 DEF HandlerReturns, Handed
    <3>3. seen' = [seen EXCEPT !["webhooks"] = Append(@, n)]
      BY <2>1, <3>2
    <3> QED
      BY <1>2, <3>1, <3>3 DEF HandlerReturns, Handed, Finishes
  <2> QED
    BY <2>1, <2>2, <2>3
<1> QED
  BY <1>1, <1>2

LEMMA FinishesKeepsSeen ==
  ASSUME TypeOK, SeenInv, NEW n \in Number, stage[n] = "publishing", Finishes(n)
  PROVE  SeenInv'
<1>1. stage \in [Number -> Stages] /\ {"workflows", "webhooks"} = Subscriber
  BY DEF TypeOK, Subscriber
<1>2. \A k \in Number : IF k = n THEN stage'[k] \in {"done", "cut"} ELSE stage'[k] = stage[k]
  BY <1>1 DEF Finishes
<1>3. CASE seen' = seen
  BY <1>2, <1>3 DEF Finishes, SeenInv, Told, Fetching, WorkflowsBeforeWebhooks
<1>4. CASE seen' = [seen EXCEPT !["webhooks"] = Append(@, n)]
  <2>1. /\ Told("webhooks")' = Told("webhooks") \cup {n}
        /\ Told("workflows")' = Told("workflows")
    BY <1>1, <1>4, ToldAfter
  <2>2. n \in Told("workflows")
    BY DEF SeenInv
  <2>3. WorkflowsBeforeWebhooks'
    BY <2>1, <2>2 DEF SeenInv, WorkflowsBeforeWebhooks, Told
  <2>4. \A k \in Number : stage'[k] \in Fetching \cup {"none", "publishing"} =>
          k # n /\ stage'[k] = stage[k]
    BY <1>2 DEF Fetching
  <2>5. \A k \in Number : stage'[k] \in Fetching \cup {"none"} =>
          k \notin Told("workflows")' /\ k \notin Told("webhooks")'
    BY <2>1, <2>4 DEF SeenInv
  <2>6. \A k \in Number : stage'[k] = "publishing" =>
          k \in Told("workflows")' /\ k \notin Told("webhooks")'
    BY <2>1, <2>4 DEF SeenInv
  <2>7. Told("workflows")' \subseteq rows'
    BY <2>1 DEF SeenInv, Finishes
  <2> QED
    BY <2>3, <2>5, <2>6, <2>7 DEF SeenInv
<1> QED
  BY <1>3, <1>4 DEF Finishes

-----------------------------------------------------------------------------
(* Types and order.                                                        *)

LEMMA MovesKeepsTypes ==
  ASSUME TypeOK, NEW n \in Number, Moves(n)
  PROVE  /\ stage' \in [Number -> Stages]
         /\ stage'[n] # "none" /\ \A k \in Number \ {n} : stage'[k] = stage[k]
         /\ todo' \in [Number -> {<<>>, <<"webhooks">>}]
         /\ seen' \in [Subscriber -> Seq(Number)]
         /\ rows' \subseteq Number
<1> USE DEF TypeOK
<1>1. CASE Kept(n)
  <2>1. PICK next \in Fetching \cup {"cut", "lost"} : stage' = [stage EXCEPT ![n] = next]
    BY <1>1 DEF Kept
  <2>2. next \in Stages /\ next # "none"
    BY DEF Fetching, Stages
  <2> QED
    BY <1>1, <2>1, <2>2 DEF Kept, busVars
<1>2. CASE Stored(n)
  BY <1>2 DEF Stored, Stages
<1>3. CASE ToWorkflows(n)
  <2>1. seen' \in [Subscriber -> Seq(Number)]
    BY <1>3, ToldAfter DEF ToWorkflows, Subscriber
  <2>2. todo' \in [Number -> {<<>>, <<"webhooks">>}]
    BY <1>3 DEF ToWorkflows
  <2> QED
    BY <1>3, <2>1, <2>2 DEF ToWorkflows, Stages
<1> QED
  BY <1>1, <1>2, <1>3 DEF Moves

LEMMA ToldHaveArrived ==
  ASSUME TypeOK, SeenInv
  PROVE  Told("workflows") \subseteq 1..Len(arrived)
<1>1. Told("workflows") \subseteq Number
  BY DEF TypeOK, Told, ToSet, Subscriber
<1>2. ASSUME NEW k \in Number, k \in Told("workflows") PROVE k \in 1..Len(arrived)
  <2>1. stage[k] # "none"
    BY <1>2 DEF SeenInv
  <2> QED
    BY <2>1, EventAssumption DEF TypeOK, Number
<1> QED
  BY <1>1, <1>2

\* The events that have arrived stay as they are.
Extends == \A k \in 1..Len(arrived) : Awaits(k)' <=> Awaits(k)

\* An event that overtakes others is one that waited, or the last to arrive.
LEMMA MovesKeepsOrder ==
  ASSUME IInv, NEW n \in Number, Moves(n), Extends,
         stage'[n] \in Fetching => Awaits(n)',
         Awaits(n)' \/ n = Len(arrived) + 1
  PROVE  OrderInv'
<1> USE DEF IInv
<1>1. \A k \in Number \ {n} : stage'[k] = stage[k]
  BY MovesKeepsTypes
<1>2. ASSUME NEW k \in Number, stage'[k] \in Fetching PROVE Awaits(k)'
  <2>1. CASE k # n
    <3>1. stage[k] \in Fetching /\ stage[k] # "none"
      BY <1>1, <1>2, <2>1 DEF Fetching
    <3>2. k \in 1..Len(arrived)
      BY <3>1, EventAssumption DEF TypeOK, Number
    <3> QED
      BY <3>1, <3>2 DEF OrderInv, Extends
  <2> QED
    BY <1>2, <2>1
<1>3. PlainEventsInOrder'
  <2>1. \A i \in DOMAIN seen["workflows"] : seen["workflows"][i] \in 1..Len(arrived)
    BY ToldHaveArrived DEF Told, ToSet
  <2>2. CASE seen' = seen
    BY <2>1, <2>2 DEF OrderInv, PlainEventsInOrder, Extends
  <2>3. CASE seen' = [seen EXCEPT !["workflows"] = Append(@, n)]
    <3>0. PICK old \in Seq(Number) : old = seen["workflows"]
      BY DEF TypeOK, Subscriber
    <3>1. seen'["workflows"] = Append(old, n)
      BY <2>3, <3>0 DEF TypeOK, Subscriber
    <3>2. /\ DOMAIN Append(old, n) = 1..(Len(old) + 1) /\ DOMAIN old = 1..Len(old)
          /\ \A i \in 1..Len(old) : Append(old, n)[i] = old[i]
          /\ Append(old, n)[Len(old) + 1] = n
          /\ Len(old) \in Nat
      BY AppendPlaces
    <3> SUFFICES ASSUME NEW i \in 1..(Len(old) + 1), NEW j \in 1..(Len(old) + 1), i < j,
                        ~Awaits(Append(old, n)[i])', ~Awaits(Append(old, n)[j])'
                 PROVE  Append(old, n)[i] < Append(old, n)[j]
      BY <3>1, <3>2 DEF PlainEventsInOrder
    <3>3. i \in 1..Len(old) /\ Append(old, n)[i] = old[i]
      BY <3>2
    <3>4. CASE j \in 1..Len(old)
      <4>1. Append(old, n)[j] = old[j]
        BY <3>2, <3>4
      <4>2. old[i] \in 1..Len(arrived) /\ old[j] \in 1..Len(arrived)
        BY <2>1, <3>0, <3>2, <3>3, <3>4
      <4>3. ~Awaits(old[i]) /\ ~Awaits(old[j])
        BY <3>3, <4>1, <4>2 DEF Extends
      <4> QED
        BY <3>0, <3>2, <3>3, <3>4, <4>1, <4>3 DEF OrderInv, PlainEventsInOrder
    <3>5. CASE j = Len(old) + 1
      <4>1. Append(old, n)[j] = n /\ n = Len(arrived) + 1
        BY <3>2, <3>5
      <4>2. old[i] \in 1..Len(arrived)
        BY <2>1, <3>0, <3>2, <3>3
      <4> QED
        BY <3>3, <4>1, <4>2 DEF TypeOK
    <3> QED
      BY <3>2, <3>4, <3>5
  <2> QED
    BY <2>2, <2>3 DEF Moves, Kept, Stored, ToWorkflows, busVars
<1> QED
  BY <1>2, <1>3 DEF OrderInv

-----------------------------------------------------------------------------
(* Every step.                                                             *)

LEMMA InitIInv == Init => IInv
<1> SUFFICES ASSUME Init PROVE IInv
  OBVIOUS
<1>1. TypeOK
  BY EventAssumption DEF Init, TypeOK, Number, Stages, Subscriber
<1>2. Told("workflows") = {} /\ Told("webhooks") = {}
  BY DEF Init, Told, ToSet, Subscriber
<1>3. SeenInv
  BY <1>2 DEF Init, SeenInv, WorkflowsBeforeWebhooks, Told
<1>4. OrderInv
  BY DEF Init, OrderInv, PlainEventsInOrder, Subscriber, Fetching
<1> QED
  BY <1>1, <1>3, <1>4 DEF IInv

\* What a step of a write does to the files and the paths that were handed on.
LEMMA FileStepTypes ==
  ASSUME TypeOK, NEW m \in Message
  PROVE  LET Contents == Message \cup {NoMedia, Partial, Mixed}
         IN  /\ Emptied(m) => file' \in [Names -> Contents]
             /\ Abandoned(m) => file' \in [Names -> Contents]
             /\ Completed(m) => file' \in [Names -> Contents] /\ referenced' \subseteq Message
<1> DEFINE Contents == Message \cup {NoMedia, Partial, Mixed}
<1>1. file \in [Names -> Contents] /\ referenced \subseteq Message
  BY DEF TypeOK
<1>2. FileName[m] \in Names
  BY DEF Names
<1>3. Remains(m) \subseteq Contents
  BY <1>1, <1>2 DEF Remains
<1>4. \A content \in Contents : [file EXCEPT ![FileName[m]] = content] \in [Names -> Contents]
  BY <1>1, <1>2
<1> QED
  BY <1>1, <1>3, <1>4 DEF Emptied, Abandoned, Completed

\* The first step of an event.
LEMMA ArriveStep ==
  ASSUME IInv, NEW event \in Event, Arrive(event)
  PROVE  /\ IInv'
         /\ \E n \in Number : stage[n] \in Fetching \cup {"none"} /\ Moves(n)
<1> USE DEF IInv
<1>0. PICK n \in Number : n = Len(arrived) + 1
  BY EventAssumption DEF Arrive, MayArrive, TypeOK, Number
<1>1. arrived' = Append(arrived, event) /\ UNCHANGED <<kernelVars, mediaVars>>
  BY DEF Arrive
<1>2. /\ arrived' \in Seq(Event) /\ Len(arrived') = n /\ arrived'[n] = event
      /\ \A k \in 1..Len(arrived) : arrived'[k] = arrived[k]
  BY <1>0, <1>1 DEF TypeOK
<1>3. stage[n] = "none"
  BY <1>0 DEF TypeOK
<1>4. Moves(n) /\ (stage'[n] \in Fetching => Awaits(n)')
  <2>1. CASE event.kind \in MessageKinds /\ Normalizes(n, event)
    BY <1>1, <1>2, <2>1, NormalizesMoves DEF Awaits
  <2>2. CASE Publish(n, event)
    BY <1>1, <2>2, PublishMoves DEF Moves, Kept, Stored, ToWorkflows, Fetching, TypeOK
  <2> QED
    BY <1>0, <2>1, <2>2 DEF Arrive
<1>5. Extends
  BY <1>2 DEF Extends, Awaits
<1>6. SeenInv' /\ OrderInv'
  BY <1>0, <1>3, <1>4, <1>5, MovesKeepsSeen, MovesKeepsOrder
<1>7. TypeOK'
  <2>1. \A k \in Number : stage'[k] = "none" <=> k > n
    BY <1>0, <1>4, MovesKeepsTypes DEF TypeOK, Number
  <2> QED
    BY <1>0, <1>1, <1>2, <1>4, <2>1, MovesKeepsTypes DEF TypeOK, kernelVars, mediaVars, MayArrive, Number
<1> QED
  BY <1>1, <1>3, <1>4, <1>6, <1>7

\* A later step of an event that waits for something.
LEMMA FetchingStep ==
  ASSUME IInv, NEW n \in Number, Downloaded(n) \/ Written(n) \/ WriteFails(n) \/ Quoted(n)
  PROVE  IInv' /\ stage[n] \in Fetching /\ Moves(n)
<1> USE DEF IInv
<1>1. stage[n] \in Fetching /\ UNCHANGED <<kernelVars, arrived>>
  BY DEF Downloaded, Written, WriteFails, Quoted, Fetching
<1>2. Moves(n)
  <2>1. CASE QuoteOrPublish(n, arrived[n]) \/ Publish(n, arrived[n])
    BY <2>1, QuoteOrPublishMoves, PublishMoves DEF Moves, Kept
  <2>2. CASE (\E next \in {"writing", "lost"} : stage' = [stage EXCEPT ![n] = next]) /\ UNCHANGED busVars
    BY <2>2 DEF Moves, Kept, Fetching
  <2> QED
    BY <2>1, <2>2 DEF Downloaded, Written, WriteFails, Quoted
<1>3. n \in 1..Len(arrived) /\ arrived[n] \in Event
  BY <1>1, EventAssumption DEF TypeOK, Number, Fetching
<1>4. Awaits(n) /\ Awaits(n)' /\ Extends
  BY <1>1, <1>3 DEF OrderInv, Extends, Awaits
<1>5. SeenInv' /\ OrderInv'
  BY <1>1, <1>2, <1>4, MovesKeepsSeen, MovesKeepsOrder
<1>6. file' \in [Names -> Message \cup {NoMedia, Partial, Mixed}]
      /\ referenced' \subseteq Message /\ reading' = reading
  <2>1. arrived[n].message \in Message
    BY <1>3, EventAssumption
  <2>2. CASE Written(n)
    BY <2>1, <2>2, FileStepTypes DEF Written
  <2>3. CASE Downloaded(n) /\ Emptied(arrived[n].message) /\ UNCHANGED <<reading, referenced>>
    BY <2>1, <2>3, FileStepTypes DEF TypeOK
  <2>4. CASE WriteFails(n) /\ Abandoned(arrived[n].message)
    BY <2>1, <2>4, FileStepTypes DEF WriteFails, TypeOK
  <2>5. CASE UNCHANGED mediaVars
    BY <2>5 DEF mediaVars, TypeOK
  <2>6. CASE WriteFails(n) /\ UNCHANGED file
    BY <2>6 DEF WriteFails, TypeOK
  <2>7. CASE Quoted(n)
    BY <2>5, <2>7 DEF Quoted
  <2>8. CASE Downloaded(n)
    BY <2>3, <2>5, <2>8 DEF Downloaded
  <2> QED
    BY <2>2, <2>4, <2>6, <2>7, <2>8 DEF WriteFails
<1>7. TypeOK'
  <2>1. \A k \in Number : stage'[k] = "none" <=> k > Len(arrived)
    BY <1>1, <1>2, MovesKeepsTypes DEF TypeOK, Fetching
  <2> QED
    BY <1>1, <1>2, <1>6, <2>1, MovesKeepsTypes DEF TypeOK, kernelVars
<1> QED
  BY <1>1, <1>2, <1>5, <1>7

\* The end of a publish.
LEMMA HandlerStepKeeps ==
  ASSUME IInv, NEW n \in Number, HandlerReturns(n) \/ HandlerThrows(n)
  PROVE  IInv'
<1> USE DEF IInv
<1>1. stage[n] = "publishing" /\ Finishes(n)
  BY HandlerFinishes
<1>2. UNCHANGED <<kernelVars, arrived, mediaVars>>
  BY DEF HandlerReturns, HandlerThrows
<1>3. SeenInv'
  BY <1>1, FinishesKeepsSeen
<1>4. \A k \in Number : IF k = n THEN stage'[k] \in {"done", "cut"} ELSE stage'[k] = stage[k]
  BY <1>1 DEF Finishes, TypeOK
<1>5. seen'["workflows"] = seen["workflows"]
  BY <1>1 DEF Finishes, TypeOK, Subscriber
<1>6. OrderInv'
  <2>1. \A k \in Number : Awaits(k)' <=> Awaits(k)
    BY <1>2 DEF Awaits
  <2>2. PlainEventsInOrder'
    BY <1>2, <1>5 DEF OrderInv, PlainEventsInOrder, Awaits
  <2> QED
    BY <1>4, <2>1, <2>2 DEF OrderInv, Fetching
<1>7. TypeOK'
  <2>1. stage' \in [Number -> Stages] /\ todo' \in [Number -> {<<>>, <<"webhooks">>}]
    BY <1>1 DEF Finishes, TypeOK, Stages
  <2>2. seen' \in [Subscriber -> Seq(Number)]
    BY <1>1, ToldAfter DEF Finishes, TypeOK, Subscriber
  <2>3. \A k \in Number : stage'[k] = "none" <=> stage[k] = "none"
    BY <1>1, <1>4
  <2> QED
    BY <1>1, <1>2, <2>1, <2>2, <2>3 DEF Finishes, TypeOK, kernelVars, mediaVars
<1> QED
  BY <1>3, <1>6, <1>7

LEMMA KernelStepKeeps ==
  ASSUME IInv, BeginStop \/ Unsubscribe \/ ClientsDestroyed
  PROVE  IInv'
<1> USE DEF IInv
<1>1. UNCHANGED <<faults, arrived, stage, todo, seen, rows, file, reading, referenced>>
  BY DEF BeginStop, Unsubscribe, ClientsDestroyed, busVars, mediaVars
<1>2. phase' \in {"running", "stopping", "stopped"}
  BY DEF BeginStop, Unsubscribe, ClientsDestroyed, TypeOK
<1>3. subscribed' \in {<<"workflows", "webhooks">>, <<"workflows">>, <<>>}
  <2>1. CASE subscribed' = subscribed
    BY <2>1 DEF TypeOK
  <2>2. CASE Unsubscribe
    <3>1. CASE subscribed = <<"workflows", "webhooks">>
      <4>1. Front(subscribed) = <<"workflows">>
        <5>1. Front(subscribed) = SubSeq(subscribed, 1, 1)
          BY <3>1 DEF Front
        <5>2. /\ SubSeq(subscribed, 1, 1) \in Seq(Subscriber)
              /\ Len(SubSeq(subscribed, 1, 1)) = 1
              /\ SubSeq(subscribed, 1, 1)[1] = "workflows"
          BY <3>1, SubSeqProperties DEF Subscriber
        <5>3. <<"workflows">> \in Seq(Subscriber) /\ Len(<<"workflows">>) = 1
          BY DEF Subscriber
        <5>4. \A i \in 1..1 : SubSeq(subscribed, 1, 1)[i] = <<"workflows">>[i]
          BY <5>2
        <5>5. SubSeq(subscribed, 1, 1) = <<"workflows">>
          BY <5>2, <5>3, <5>4, SeqEqual
        <5> QED
          BY <5>1, <5>5
      <4> QED
        BY <2>2, <4>1 DEF Unsubscribe
    <3>2. CASE subscribed = <<"workflows">>
      <4>1. Front(subscribed) = <<>>
        BY <3>2 DEF Front
      <4> QED
        BY <2>2, <4>1 DEF Unsubscribe
    <3> QED
      BY <2>2, <3>1, <3>2 DEF Unsubscribe, TypeOK
  <2> QED
    BY <2>1, <2>2 DEF BeginStop, ClientsDestroyed
<1>4. SeenInv'
  BY <1>1 DEF SeenInv, WorkflowsBeforeWebhooks, Told
<1>5. OrderInv'
  BY <1>1 DEF OrderInv, PlainEventsInOrder, Awaits
<1> QED
  BY <1>1, <1>2, <1>3, <1>4, <1>5 DEF TypeOK

\* Reads of messages touch no event.
LEMMA ReadStepKeeps ==
  ASSUME IInv, NEW r \in Reader, ReadStep(r)
  PROVE  IInv' /\ UNCHANGED <<kernelVars, arrived, stage, busVars>>
<1> USE DEF IInv
<1>1. UNCHANGED <<kernelVars, arrived, stage, busVars>>
  BY DEF ReadStep, ReadOpens, ReadWritten, ReadFails
<1>2. reading \in [Reader -> Media \cup {NoMedia}] /\ Media \subseteq Message
  BY EventAssumption DEF TypeOK
<1>3. /\ file' \in [Names -> Message \cup {NoMedia, Partial, Mixed}]
      /\ reading' \in [Reader -> Media \cup {NoMedia}]
      /\ referenced' \subseteq Message
  <2>1. CASE \E m \in Media : ReadOpens(r, m)
    BY <1>2, <2>1, FileStepTypes DEF ReadOpens, TypeOK
  <2>2. CASE ReadWritten(r)
    BY <1>2, <2>2, FileStepTypes DEF ReadWritten, TypeOK
  <2>3. CASE ReadFails(r)
    BY <1>2, <2>3, FileStepTypes DEF ReadFails, TypeOK
  <2> QED
    BY <2>1, <2>2, <2>3 DEF ReadStep
<1>4. SeenInv' /\ OrderInv'
  BY <1>1 DEF busVars, SeenInv, OrderInv, WorkflowsBeforeWebhooks, PlainEventsInOrder, Told, Awaits
<1> QED
  BY <1>1, <1>3, <1>4 DEF TypeOK, kernelVars, busVars

LEMMA IInvStep == IInv /\ [Next]_vars => IInv'
<1> SUFFICES ASSUME IInv, [Next]_vars PROVE IInv'
  OBVIOUS
<1>1. CASE UNCHANGED vars
  BY <1>1 DEF vars, kernelVars, busVars, mediaVars, IInv, TypeOK, SeenInv, OrderInv,
              WorkflowsBeforeWebhooks, PlainEventsInOrder, Told, Awaits
<1>2. ASSUME NEW event \in Event, Arrive(event) PROVE IInv'
  BY <1>2, ArriveStep
<1>3. ASSUME NEW n \in Number, HandlerStep(n) PROVE IInv'
  BY <1>3, FetchingStep, HandlerStepKeeps DEF HandlerStep
<1>4. CASE BeginStop \/ Unsubscribe \/ ClientsDestroyed
  BY <1>4, KernelStepKeeps
<1>5. ASSUME NEW r \in Reader, ReadStep(r) PROVE IInv'
  BY <1>5, ReadStepKeeps
<1> QED
  BY <1>1, <1>2, <1>3, <1>4, <1>5 DEF Next

LEMMA IInvariance == Spec => []IInv
BY InitIInv, IInvStep, PTL DEF Spec

-----------------------------------------------------------------------------
(* What is kept.                                                           *)

\* The types of the events' way through the kernel.
THEOREM TypeCorrect == Spec => []TypeOK
<1>1. IInv => TypeOK
  BY DEF IInv
<1> QED
  BY <1>1, IInvariance, PTL

\* No event reaches the webhooks but through the workflows.
THEOREM WorkflowsFirst == Spec => []WorkflowsBeforeWebhooks
<1>1. IInv => WorkflowsBeforeWebhooks
  BY DEF IInv, SeenInv
<1> QED
  BY <1>1, IInvariance, PTL

\* Events for which nothing is fetched are not overtaken.
THEOREM PlainEventsKeepOrder == Spec => []PlainEventsInOrder
<1>1. IInv => PlainEventsInOrder
  BY DEF IInv, OrderInv
<1> QED
  BY <1>1, IInvariance, PTL

\* A file changes hands only between media of the same name: what it may hold when
\* m is among those that share it.
Sound(m, content) ==
  \/ content = m
  \/ content = Partial /\ ((\E k \in Sharing(m) : WrittenNow(k)) \/ "disk" \in faults)
  \/ \E k \in Sharing(m) \ {m} : content \in {k, Mixed}

\* Files of messages that are being written or whose path was handed on are sound.
MediaInv ==
  /\ \A n \in Number : stage[n] \in {"downloading", "writing"} => arrived[n].message \in Media
  /\ referenced \subseteq Media
  /\ \A m \in Media : m \in referenced \/ WrittenNow(m) => Sound(m, file[FileName[m]])

LEMMA QuoteOrPublishFetchesNone ==
  ASSUME TypeOK, NEW n \in Number, NEW event, QuoteOrPublish(n, event)
  PROVE  stage'[n] \notin {"downloading", "writing"}
<1>1. stage \in [Number -> Stages]
  BY DEF TypeOK
<1>2. CASE Publish(n, event)
  BY <1>1, <1>2, PublishMoves DEF Stored, ToWorkflows
<1>3. CASE stage' = [stage EXCEPT ![n] = "quoting"]
  BY <1>1, <1>3
<1> QED
  BY <1>2, <1>3 DEF QuoteOrPublish

\* Nothing is written by a step after which the same files are being written.
LEMMA MediaKept ==
  ASSUME IInv, MediaInv, UNCHANGED <<file, referenced, faults>>,
         \A m \in Media : WrittenNow(m)' <=> WrittenNow(m),
         \A n \in Number : stage'[n] \in {"downloading", "writing"} => arrived'[n].message \in Media
  PROVE  MediaInv'
<1>1. \A m \in Media : Sharing(m) \subseteq Media
  BY DEF Sharing
<1>2. \A m \in Media : Sound(m, file[FileName[m]]) => Sound(m, file[FileName[m]])'
  BY <1>1 DEF Sound
<1> QED
  BY <1>2 DEF MediaInv

\* A write of m begins.
LEMMA EmptiedKeeps ==
  ASSUME IInv, MediaInv, NEW m \in Media, Emptied(m), UNCHANGED <<referenced, faults>>,
         WrittenNow(m)', \A k \in Media \ {m} : WrittenNow(k)' <=> WrittenNow(k),
         \A n \in Number : stage'[n] \in {"downloading", "writing"} => arrived'[n].message \in Media
  PROVE  MediaInv'
<1>1. file \in [Names -> Message \cup {NoMedia, Partial, Mixed}] /\ FileName[m] \in Names
  BY EventAssumption DEF IInv, TypeOK, Names
<1>2. \A k \in Media : WrittenNow(k) => WrittenNow(k)'
  OBVIOUS
<1>3. \A k \in Media : Sharing(k) \subseteq Media
  BY DEF Sharing
<1> SUFFICES ASSUME NEW k \in Media, k \in referenced \/ WrittenNow(k)'
             PROVE  Sound(k, file[FileName[k]])'
  BY DEF MediaInv
<1>4. CASE FileName[k] = FileName[m]
  <2>1. file'[FileName[k]] = Partial /\ m \in Sharing(k)
    BY <1>1, <1>4 DEF Emptied, Sharing
  <2> QED
    BY <2>1 DEF Sound
<1>5. CASE FileName[k] # FileName[m]
  <2>1. file'[FileName[k]] = file[FileName[k]] /\ k # m
    BY <1>1, <1>5 DEF Emptied
  <2>2. Sound(k, file[FileName[k]])
    BY <2>1 DEF MediaInv
  <2> QED
    BY <1>2, <1>3, <2>1, <2>2 DEF Sound
<1> QED
  BY <1>4, <1>5

\* A write of m ends, and leaves content: m itself, or what remains of other writes.
LEMMA EndedKeeps ==
  ASSUME IInv, MediaInv, NEW m \in Media, WrittenNow(m), UNCHANGED faults,
         NEW content \in {m} \cup Remains(m), file' = [file EXCEPT ![FileName[m]] = content],
         referenced' \subseteq referenced \cup {m},
         \A k \in Media : WrittenNow(k)' => WrittenNow(k),
         \A k \in Media \ {m} : WrittenNow(k)' <=> WrittenNow(k),
         \A n \in Number : stage'[n] \in {"downloading", "writing"} => arrived'[n].message \in Media
  PROVE  MediaInv'
<1>1. file \in [Names -> Message \cup {NoMedia, Partial, Mixed}] /\ FileName[m] \in Names
  BY EventAssumption DEF IInv, TypeOK, Names
<1>2. \A k \in Media : Sharing(k) \subseteq Media
  BY DEF Sharing
<1>3. Sound(m, file[FileName[m]])
  BY DEF MediaInv
<1> SUFFICES ASSUME NEW k \in Media, k \in referenced \/ k = m \/ WrittenNow(k)
             PROVE  Sound(k, file[FileName[k]])'
  BY DEF MediaInv
<1>4. CASE FileName[k] # FileName[m]
  <2>1. file'[FileName[k]] = file[FileName[k]] /\ k # m
    BY <1>1, <1>4
  <2>2. Sound(k, file[FileName[k]])
    BY <2>1 DEF MediaInv
  <2>3. \A j \in Sharing(k) : WrittenNow(j)' <=> WrittenNow(j)
    BY <1>2, <1>4 DEF Sharing
  <2> QED
    BY <2>1, <2>2, <2>3 DEF Sound
<1>5. CASE FileName[k] = FileName[m]
  <2>1. file'[FileName[k]] = content /\ Sharing(k) = Sharing(m) /\ k \in Sharing(m) /\ m \in Sharing(m)
    BY <1>1, <1>5 DEF Sharing
  <2>2. CASE content = m
    BY <2>1, <2>2 DEF Sound
  <2>3. CASE content = Partial /\ content # m
    BY <2>1, <2>3 DEF Sound, Remains
  <2>4. CASE content = Mixed /\ content \notin {m, Partial}
    <3>1. \E j \in Sharing(m) : j # m
      BY <1>3, <2>4, EventAssumption DEF Remains, Sound, Sharing
    <3>2. \E j \in Sharing(m) : j # k
      BY <2>1, <3>1
    <3> QED
      BY <2>1, <2>4, <3>2 DEF Sound
  <2>5. CASE content = file[FileName[m]] /\ content \notin {m, Partial, Mixed}
    <3>1. content \in Sharing(m)
      BY <1>3, <2>5 DEF Sound
    <3> QED
      BY <2>1, <3>1 DEF Sound
  <2> QED
    BY <2>2, <2>3, <2>4, <2>5 DEF Remains
<1> QED
  BY <1>4, <1>5

\* One event moves on, and its write is the only one that may begin or end with it.
LEMMA OneWriter ==
  ASSUME IInv, NEW n \in Number, stage[n] \in Fetching, Moves(n), UNCHANGED <<arrived, reading>>
  PROVE  \A k \in Message \ {arrived[n].message} : WrittenNow(k)' <=> WrittenNow(k)
BY MovesKeepsTypes DEF WrittenNow, IInv

LEMMA FetchingKeepsMedia ==
  ASSUME IInv, MediaInv, NEW n \in Number, Downloaded(n) \/ Written(n) \/ WriteFails(n) \/ Quoted(n)
  PROVE  MediaInv'
<1> DEFINE m == arrived[n].message
<1>1. /\ Moves(n) /\ stage[n] \in Fetching /\ UNCHANGED <<arrived, reading, faults>>
      /\ stage \in [Number -> Stages]
  BY FetchingStep DEF Downloaded, Written, WriteFails, Quoted, mediaVars, kernelVars, IInv, TypeOK
<1>2. \A k \in Number \ {n} : stage'[k] = stage[k]
  BY <1>1, MovesKeepsTypes DEF IInv
<1>3. \A k \in Media \ {m} : WrittenNow(k)' <=> WrittenNow(k)
  BY <1>1, OneWriter, EventAssumption
<1>4. \A k \in Number : stage'[k] \in {"downloading", "writing"} => stage[k] \in {"downloading", "writing"}
  <2>1. stage'[n] \in {"downloading", "writing"} => stage[n] \in {"downloading", "writing"}
    <3>1. CASE QuoteOrPublish(n, arrived[n])
      BY <3>1, QuoteOrPublishFetchesNone DEF IInv
    <3>2. CASE Publish(n, arrived[n])
      BY <1>1, <3>2, PublishMoves DEF Stored, ToWorkflows, IInv
    <3>3. CASE stage[n] \in {"downloading", "writing"}
      BY <3>3
    <3> QED
      BY <3>1, <3>2, <3>3 DEF Downloaded, Written, WriteFails, Quoted
  <2> QED
    BY <1>2, <2>1
<1>5. \A k \in Number : stage'[k] \in {"downloading", "writing"} => arrived'[k].message \in Media
  BY <1>1, <1>4 DEF MediaInv
<1>6. CASE Downloaded(n) /\ Emptied(m) /\ referenced' = referenced /\ stage' = [stage EXCEPT ![n] = "writing"]
  <2>1. m \in Media
    BY <1>6 DEF Downloaded, MediaInv
  <2>2. stage'[n] = "writing"
    BY <1>1, <1>6
  <2>3. WrittenNow(m)'
    BY <1>1, <2>2 DEF WrittenNow
  <2> QED
    BY <1>1, <1>3, <1>5, <1>6, <2>1, <2>3, EmptiedKeeps
<1>7. CASE Written(n) \/ (WriteFails(n) /\ stage[n] = "writing")
  <2>1. m \in Media /\ WrittenNow(m) /\ referenced' \subseteq referenced \cup {m}
    BY <1>7 DEF MediaInv, Written, WriteFails, WrittenNow, Completed
  <2>2. PICK content \in {m} \cup Remains(m) : file' = [file EXCEPT ![FileName[m]] = content]
    BY <1>7 DEF Written, WriteFails, Completed, Abandoned
  <2>3. \A k \in Media : WrittenNow(k)' => WrittenNow(k)
    BY <1>3, <2>1
  <2> QED
    BY <1>1, <1>3, <1>5, <2>1, <2>2, <2>3, EndedKeeps
<1>8. CASE UNCHANGED <<file, referenced>> /\ stage[n] # "writing" /\ stage'[n] # "writing"
  <2>1. \A k \in Media : WrittenNow(k)' <=> WrittenNow(k)
    BY <1>1, <1>2, <1>8 DEF WrittenNow
  <2> QED
    BY <1>1, <1>5, <1>8, <2>1, MediaKept
<1>9. CASE Downloaded(n) /\ QuoteOrPublish(n, arrived[n]) /\ UNCHANGED mediaVars
  BY <1>8, <1>9, QuoteOrPublishFetchesNone DEF Downloaded, mediaVars, IInv
<1>10. CASE Quoted(n)
  <2>1. stage'[n] # "writing"
    BY <1>1, <1>10, PublishMoves DEF Quoted, Stored, ToWorkflows, IInv
  <2> QED
    BY <1>8, <1>10, <2>1 DEF Quoted, mediaVars
<1>11. CASE WriteFails(n) /\ stage[n] # "writing"
  <2>1. stage'[n] = "lost" /\ UNCHANGED <<file, referenced>>
    BY <1>1, <1>11 DEF WriteFails
  <2> QED
    BY <1>8, <1>11, <2>1
<1>12. CASE Downloaded(n)
  BY <1>6, <1>9, <1>12 DEF Downloaded
<1> QED
  BY <1>7, <1>10, <1>11, <1>12

\* Reads archive like events.
LEMMA ReadKeepsMedia ==
  ASSUME IInv, MediaInv, NEW r \in Reader, ReadStep(r)
  PROVE  MediaInv'
<1>1. UNCHANGED <<arrived, stage, faults>> /\ reading \in [Reader -> Media \cup {NoMedia}]
  BY ReadStepKeeps DEF kernelVars, IInv, TypeOK
<1>2. \A n \in Number : stage'[n] \in {"downloading", "writing"} => arrived'[n].message \in Media
  BY <1>1 DEF MediaInv
<1>3. NoMedia \notin Media
  BY EventAssumption
<1>4. ASSUME NEW m \in Media, ReadOpens(r, m) PROVE MediaInv'
  <2>1. reading[r] = NoMedia /\ reading' = [reading EXCEPT ![r] = m] /\ Emptied(m) /\ referenced' = referenced
    BY <1>4 DEF ReadOpens
  <2>2. reading'[r] = m /\ \A q \in Reader \ {r} : reading'[q] = reading[q]
    BY <1>1, <2>1
  <2>3. WrittenNow(m)' /\ \A k \in Media \ {m} : WrittenNow(k)' <=> WrittenNow(k)
    BY <1>1, <1>3, <2>1, <2>2 DEF WrittenNow
  <2> QED
    BY <1>1, <1>2, <2>1, <2>3, EmptiedKeeps
<1>5. ASSUME ReadWritten(r) \/ ReadFails(r) PROVE MediaInv'
  <2> DEFINE m == reading[r]
  <2>1. m \in Media /\ reading' = [reading EXCEPT ![r] = NoMedia]
    BY <1>1, <1>5 DEF ReadWritten, ReadFails
  <2>2. reading'[r] = NoMedia /\ \A q \in Reader \ {r} : reading'[q] = reading[q]
    BY <1>1, <2>1
  <2>3. \A k \in Media : WrittenNow(k)' => WrittenNow(k)
    BY <1>1, <1>3, <2>2 DEF WrittenNow
  <2>4. \A k \in Media \ {m} : WrittenNow(k)' <=> WrittenNow(k)
    BY <1>1, <1>3, <2>2 DEF WrittenNow
  <2>5. WrittenNow(m)
    BY DEF WrittenNow
  <2>6. referenced' \subseteq referenced \cup {m}
    BY <1>5 DEF ReadWritten, ReadFails, Completed
  <2>7. PICK content \in {m} \cup Remains(m) : file' = [file EXCEPT ![FileName[m]] = content]
    BY <1>5 DEF ReadWritten, ReadFails, Completed, Abandoned
  <2> QED
    BY <1>1, <1>2, <2>1, <2>3, <2>4, <2>5, <2>6, <2>7, EndedKeeps
<1> QED
  BY <1>4, <1>5 DEF ReadStep

LEMMA ArriveKeepsMedia ==
  ASSUME IInv, MediaInv, NEW event \in Event, Arrive(event)
  PROVE  MediaInv'
<1>0. arrived \in Seq(Event) /\ stage \in [Number -> Stages]
  BY DEF IInv, TypeOK
<1>1. PICK n \in Number : n = Len(arrived) + 1
  BY EventAssumption DEF Arrive, MayArrive, IInv, TypeOK, Number
<1>2. arrived' = Append(arrived, event) /\ UNCHANGED <<file, referenced, reading, faults>>
  BY DEF Arrive, mediaVars, kernelVars
<1>3. arrived'[n] = event /\ \A k \in 1..Len(arrived) : arrived'[k] = arrived[k]
  BY <1>0, <1>1, <1>2
<1>4. stage'[n] # "writing" /\ (stage'[n] = "downloading" => event.message \in Media)
  <2>1. CASE Publish(n, event)
    BY <1>0, <2>1, PublishMoves DEF Stored, ToWorkflows, IInv
  <2>2. CASE QuoteOrPublish(n, event)
    BY <2>2, QuoteOrPublishFetchesNone DEF IInv
  <2>3. CASE event.message \in Media /\ stage' = [stage EXCEPT ![n] = "downloading"]
    BY <1>0, <2>3
  <2> QED
    BY <1>1, <2>1, <2>2, <2>3 DEF Arrive, Normalizes
<1>5. \A k \in Number \ {n} : stage'[k] = stage[k]
  <2>1. CASE Publish(n, event)
    BY <1>0, <2>1, PublishMoves DEF Stored, ToWorkflows, IInv
  <2>2. CASE Normalizes(n, event)
    BY <2>2, NormalizesMoves, MovesKeepsTypes DEF IInv
  <2> QED
    BY <1>1, <2>1, <2>2 DEF Arrive
<1>6. \A k \in Number \ {n} : stage[k] \in {"downloading", "writing"} => arrived'[k] = arrived[k]
  <2>1. \A k \in Number : stage[k] = "none" <=> k > Len(arrived)
    BY DEF IInv, TypeOK
  <2>2. ASSUME NEW k \in Number \ {n}, stage[k] \in {"downloading", "writing"}
        PROVE  k \in 1..Len(arrived)
    <3>1. stage[k] # "none" /\ k \in Nat /\ k >= 1
      BY <2>2, EventAssumption DEF Number
    <3> QED
      BY <1>0, <2>1, <2>2, <3>1
  <2> QED
    BY <1>3, <2>2
<1>7. stage[n] # "writing"
  BY <1>1 DEF IInv, TypeOK
<1>8. \A m \in Media : WrittenNow(m)' <=> WrittenNow(m)
  BY <1>2, <1>4, <1>5, <1>6, <1>7 DEF WrittenNow
<1>9. \A k \in Number : stage'[k] \in {"downloading", "writing"} => arrived'[k].message \in Media
  BY <1>3, <1>4, <1>5, <1>6 DEF MediaInv
<1> QED
  BY <1>2, <1>8, <1>9, MediaKept

LEMMA MediaStep == IInv /\ MediaInv /\ [Next]_vars => MediaInv'
<1> SUFFICES ASSUME IInv, MediaInv, [Next]_vars PROVE MediaInv'
  OBVIOUS
<1>1. ASSUME UNCHANGED <<arrived, mediaVars, faults>>,
             \A k \in Number : \/ stage'[k] = stage[k]
                              \/ /\ stage[k] \notin {"downloading", "writing"}
                                 /\ stage'[k] \notin {"downloading", "writing"}
      PROVE  MediaInv'
  <2>1. \A m \in Media : WrittenNow(m)' <=> WrittenNow(m)
    BY <1>1 DEF WrittenNow, mediaVars
  <2> QED
    BY <1>1, <2>1, MediaKept DEF MediaInv, mediaVars
<1>2. ASSUME NEW event \in Event, Arrive(event) PROVE MediaInv'
  BY <1>2, ArriveKeepsMedia
<1>3. ASSUME NEW n \in Number, HandlerStep(n) PROVE MediaInv'
  <2>1. CASE Downloaded(n) \/ Written(n) \/ WriteFails(n) \/ Quoted(n)
    BY <2>1, FetchingKeepsMedia
  <2>2. CASE HandlerReturns(n) \/ HandlerThrows(n)
    <3>1. stage[n] = "publishing" /\ Finishes(n) /\ UNCHANGED <<arrived, mediaVars, faults>>
      BY <2>2, HandlerFinishes DEF HandlerReturns, HandlerThrows, IInv, kernelVars
    <3>2. \A k \in Number : IF k = n THEN stage'[k] \in {"done", "cut"} ELSE stage'[k] = stage[k]
      BY <3>1 DEF Finishes, IInv, TypeOK
    <3> QED
      BY <1>1, <3>1, <3>2
  <2> QED
    BY <1>3, <2>1, <2>2 DEF HandlerStep
<1>4. CASE BeginStop \/ Unsubscribe \/ ClientsDestroyed \/ UNCHANGED vars
  BY <1>1, <1>4 DEF BeginStop, Unsubscribe, ClientsDestroyed, vars, mediaVars, kernelVars
<1>5. ASSUME NEW r \in Reader, ReadStep(r) PROVE MediaInv'
  BY <1>5, ReadKeepsMedia
<1> QED
  BY <1>2, <1>3, <1>4, <1>5 DEF Next

\* The path that an event or an answer of the API has handed on is that of a file with
\* the message's own media, or one that writeFile() is writing again or has failed to
\* write, or one that was written for other media of the same name.
THEOREM ReferencesAreTrue == Spec => []ReferencesHoldTheirMedia
<1>1. Init => MediaInv
  <2> SUFFICES ASSUME Init PROVE MediaInv
    OBVIOUS
  <2>1. \A m \in Media : ~WrittenNow(m)
    BY EventAssumption DEF Init, WrittenNow
  <2> QED
    BY <2>1 DEF Init, MediaInv
<1>2. MediaInv => ReferencesHoldTheirMedia
  BY DEF MediaInv, ReferencesHoldTheirMedia, Sound
<1> QED
  BY <1>1, <1>2, IInvariance, MediaStep, PTL DEF Spec

LEMMA MovesKeepsPromise ==
  ASSUME IInv, NEW n \in Number, stage[n] \in Fetching \cup {"none"}, Moves(n)
  PROVE  [Promise!Next]_(Promise!promiseVars)
<1>1. CASE Kept(n)
  BY <1>1 DEF Kept, busVars, Promise!promiseVars
<1>2. CASE Stored(n)
  BY <1>2 DEF Stored, Promise!Next, Promise!Store
<1>3. CASE ToWorkflows(n)
  <2>1. n \notin ToSet(seen["workflows"])
    BY DEF IInv, SeenInv, Told
  <2>2. Promise!Tell(n, "workflows")
    BY <1>3, <2>1 DEF ToWorkflows, Promise!Tell, ToSet, Promise!ToSet
  <2> QED
    BY <2>2 DEF Promise!Next, Subscriber
<1> QED
  BY <1>1, <1>2, <1>3 DEF Moves

LEMMA FinishesKeepsPromise ==
  ASSUME IInv, NEW n \in Number, stage[n] = "publishing", Finishes(n)
  PROVE  [Promise!Next]_(Promise!promiseVars)
<1>1. CASE seen' = seen
  BY <1>1 DEF Finishes, Promise!promiseVars
<1>2. CASE seen' = [seen EXCEPT !["webhooks"] = Append(@, n)]
  <2>1. n \notin ToSet(seen["webhooks"]) /\ n \in rows
    BY DEF IInv, SeenInv, Told
  <2>2. Promise!Tell(n, "webhooks")
    BY <1>2, <2>1 DEF Finishes, Promise!Tell, ToSet, Promise!ToSet
  <2> QED
    BY <2>2 DEF Promise!Next, Subscriber
<1> QED
  BY <1>1, <1>2 DEF Finishes

\* Every step is a step of EventPromise or changes nothing it speaks of.
THEOREM ImplementsPromise == Spec => KeepsPromise
<1>1. Init => Promise!Init
  BY DEF Init, Promise!Init
<1>2. IInv /\ [Next]_vars => [Promise!Next]_(Promise!promiseVars)
  <2> SUFFICES ASSUME IInv, [Next]_vars PROVE [Promise!Next]_(Promise!promiseVars)
    OBVIOUS
  <2>1. CASE UNCHANGED <<seen, rows>>
    BY <2>1 DEF Promise!promiseVars
  <2>2. ASSUME NEW event \in Event, Arrive(event) PROVE [Promise!Next]_(Promise!promiseVars)
    BY <2>2, ArriveStep, MovesKeepsPromise
  <2>3. ASSUME NEW n \in Number, HandlerStep(n) PROVE [Promise!Next]_(Promise!promiseVars)
    <3>1. CASE HandlerReturns(n) \/ HandlerThrows(n)
      BY <3>1, HandlerFinishes, FinishesKeepsPromise DEF IInv
    <3>2. CASE Downloaded(n) \/ Written(n) \/ WriteFails(n) \/ Quoted(n)
      BY <3>2, FetchingStep, MovesKeepsPromise
    <3> QED
      BY <2>3, <3>1, <3>2 DEF HandlerStep
  <2>4. CASE BeginStop \/ Unsubscribe \/ ClientsDestroyed \/ UNCHANGED vars
    BY <2>1, <2>4 DEF BeginStop, Unsubscribe, ClientsDestroyed, vars, busVars
  <2>5. ASSUME NEW r \in Reader, ReadStep(r) PROVE [Promise!Next]_(Promise!promiseVars)
    BY <2>1, <2>5, ReadStepKeeps DEF busVars
  <2> QED
    BY <2>2, <2>3, <2>4, <2>5 DEF Next
<1> QED
  BY <1>1, <1>2, IInvariance, PTL DEF Spec, KeepsPromise, Promise!Spec

=============================================================================
