------------------------- MODULE ApiRequests_proofs -------------------------
(***************************************************************************)
(* Updates that were answered hold, for any requests, ids, fields and      *)
(* number of kernels, and requests reach the handlers they are for if the  *)
(* client's table and the routes agree.                                    *)
(*                                                                         *)
(* The inductive invariant says that what was over when a request was sent *)
(* is over for good, and it has the property for every request that has    *)
(* set a field, answered or not: a request that sets a field now is not    *)
(* over, so it is none of those.                                           *)
(***************************************************************************)
EXTENDS ApiRequests, TLAPS

Parts == {"stage", "op", "id", "handler", "kernel", "todo", "done", "after"}

Shape ==
  /\ kernel \in Nat
  /\ DOMAIN value = Place
  /\ DOMAIN request = Number
  /\ \A r \in Number : DOMAIN request[r] = Parts /\ request[r].kernel \in Nat

OverInv ==
  \A r \in Number :
    /\ request[r].stage = "none" => request[r].done = {} /\ request[r].after = {}
    /\ request[r].stage # "none" => request[r].kernel =< kernel
    /\ request[r].after \subseteq Number
    /\ \A s \in request[r].after : Over(s)

\* What a request has set holds, whether it is answered or not.
HoldInv ==
  \A r \in Number : \A p \in Place :
    p \in request[r].done => value[p] = r \/ value[p] \in Number \ request[r].after

IInv == Shape /\ OverInv /\ HoldInv

\* A step of the request r itself.
Moves(r) ==
  /\ kernel' = kernel
  /\ DOMAIN request' = Number
  /\ \A s \in Number \ {r} : request'[s] = request[s]
  /\ DOMAIN request'[r] = Parts
  /\ request'[r].kernel = request[r].kernel
  /\ request'[r].after = request[r].after
  /\ request[r].stage \in {"opening", "acting"}
  /\ request'[r].stage # "none"

\* It leaves the fields alone, or it sets one, which it can only while its clients
\* are alive.
SetsAtMostOne(r) ==
  \/ /\ value' = value
     /\ \A p \in Place : p \in request'[r].done => p \in request[r].done
  \/ /\ Alive(r)
     /\ \E f : /\ value' = [value EXCEPT ![f] = r]
               /\ request'[r].done \subseteq request[r].done \cup {f}

-----------------------------------------------------------------------------

LEMMA InitIInv == Init => IInv
<1> SUFFICES ASSUME Init PROVE IInv
  OBVIOUS
<1>1. Shape
  BY DEF Init, Shape, NoRequest, Parts
<1>2. OverInv
  BY DEF Init, OverInv, NoRequest
<1>3. HoldInv
  BY DEF Init, HoldInv, NoRequest
<1> QED
  BY <1>1, <1>2, <1>3 DEF IInv

(* Every step of a request is one of its own that sets at most one field.  *)
LEMMA StepMoves ==
  ASSUME IInv, NEW r \in Number, RequestStep(r)
  PROVE  Moves(r) /\ SetsAtMostOne(r)
<1> USE DEF IInv, Shape, Parts
<1>1. CASE Opens(r)
  BY <1>1 DEF Opens, Moves, SetsAtMostOne
<1>2. CASE Sets(r)
  <2>1. Moves(r)
    BY <1>2 DEF Sets, FieldDone, Moves
  <2>2. ASSUME value' = [value EXCEPT ![Field(r)] = r], FieldDone(r, {Field(r)})
        PROVE  SetsAtMostOne(r)
    <3>1. request'[r].done = request[r].done \cup {Field(r)}
      BY <2>2 DEF FieldDone
    <3> QED
      BY <1>2, <2>2, <3>1 DEF Sets, SetsAtMostOne
  <2>3. ASSUME value' = value, FieldDone(r, {})
        PROVE  SetsAtMostOne(r)
    <3>1. request'[r].done = request[r].done \cup {}
      BY <2>3 DEF FieldDone
    <3> QED
      BY <2>3, <3>1 DEF SetsAtMostOne
  <2> QED
    BY <1>2, <2>1, <2>2, <2>3 DEF Sets
<1>3. CASE Answers(r)
  BY <1>3 DEF Answers, Moves, SetsAtMostOne
<1>4. CASE Throws(r)
  <2>1. Moves(r)
    BY <1>4 DEF Throws, Moves
  <2>2. request'[r].done = request[r].done
    BY <1>4 DEF Throws
  <2>3. value' = value \/ (Alive(r) /\ value' = [value EXCEPT ![Field(r)] = r])
    BY <1>4 DEF Throws
  <2> QED
    BY <2>1, <2>2, <2>3 DEF SetsAtMostOne
<1> QED
  BY <1>1, <1>2, <1>3, <1>4 DEF RequestStep

LEMMA MovesKeep ==
  ASSUME IInv, NEW r \in Number, Moves(r), SetsAtMostOne(r)
  PROVE  IInv'
<1> USE DEF IInv
<1>1. Shape'
  BY DEF Shape, Moves, SetsAtMostOne
<1>2. ASSUME NEW s \in Number, Over(s) PROVE Over(s)'
  BY <1>2 DEF Over, Moves
<1>3. OverInv'
  BY <1>2 DEF OverInv, Moves, Shape
<1>4. ASSUME NEW s \in Number, NEW p \in Place, p \in request'[s].done
      PROVE  value'[p] = s \/ value'[p] \in Number \ request'[s].after
  <2>1. request'[s].after = request[s].after
    BY DEF Moves
  <2>2. CASE /\ value' = value
             /\ \A q \in Place : q \in request'[r].done => q \in request[r].done
    <3>1. p \in request[s].done
      BY <1>4, <2>2 DEF Moves
    <3> QED
      BY <2>1, <2>2, <3>1 DEF HoldInv
  <2>3. CASE /\ Alive(r)
             /\ \E f : /\ value' = [value EXCEPT ![f] = r]
                       /\ request'[r].done \subseteq request[r].done \cup {f}
    <3>1. Alive(r)
      BY <2>3
    <3>2. PICK f : /\ value' = [value EXCEPT ![f] = r]
                   /\ request'[r].done \subseteq request[r].done \cup {f}
      BY <2>3
    <3>3. ~Over(r)
      BY <3>1 DEF Over, Moves, Alive
    <3>4. r \notin request[s].after
      BY <3>3 DEF OverInv
    <3>5. CASE p = f
      BY <2>1, <3>2, <3>4, <3>5 DEF Shape
    <3>6. CASE p # f
      <4>1. value'[p] = value[p]
        BY <3>2, <3>6 DEF Shape
      <4>2. p \in request[s].done
        BY <1>4, <3>2, <3>6 DEF Moves
      <4> QED
        BY <2>1, <4>1, <4>2 DEF HoldInv
    <3> QED
      BY <3>5, <3>6
  <2> QED
    BY <2>2, <2>3 DEF SetsAtMostOne
<1>5. HoldInv'
  BY <1>4 DEF HoldInv
<1> QED
  BY <1>1, <1>3, <1>5

(* A request that is sent is not over, nor was it when others were.        *)
LEMMA SendKeeps ==
  ASSUME IInv, NEW r \in Number, NEW ask, Send(r, ask)
  PROVE  IInv'
<1> USE DEF IInv
<1>1. /\ request[r].stage = "none"
      /\ \A s \in Number \ {r} : request'[s] = request[s]
      /\ DOMAIN request' = Number
      /\ kernel' = kernel /\ value' = value
  BY DEF Send, Shape
<1>2. /\ DOMAIN request'[r] = Parts
      /\ request'[r].kernel = kernel
      /\ request'[r].done = {}
      /\ request'[r].after = {s \in Number : Over(s)}
      /\ request'[r].stage \in {"refused", "opening", "acting"}
  BY DEF Send, Shape, Parts
<1>3. Shape'
  BY <1>1, <1>2 DEF Shape
<1>4. ASSUME NEW s \in Number, Over(s) PROVE Over(s)'
  BY <1>1, <1>4 DEF Over
<1>5. OverInv'
  BY <1>1, <1>2, <1>4 DEF OverInv, Shape
<1>6. HoldInv'
  BY <1>1, <1>2 DEF HoldInv
<1> QED
  BY <1>3, <1>5, <1>6

LEMMA NextIInv == IInv /\ [Next]_vars => IInv'
<1> SUFFICES ASSUME IInv, [Next]_vars PROVE IInv'
  OBVIOUS
<1>1. ASSUME NEW r \in Number, NEW ask \in scenario.asks, Send(r, ask) PROVE IInv'
  BY <1>1, SendKeeps
<1>2. ASSUME NEW r \in Number, RequestStep(r) PROVE IInv'
  BY <1>2, StepMoves, MovesKeep
<1>3. CASE ServerStops \/ ClientsDestroyed \/ UNCHANGED vars
  BY <1>3 DEF ServerStops, ClientsDestroyed, vars, IInv, Shape, OverInv, HoldInv, Over
<1>4. CASE NextKernel
  <2>1. kernel' = kernel + 1 /\ request' = request /\ value' = value
    BY <1>4 DEF NextKernel
  <2>2. Shape'
    BY <2>1 DEF IInv, Shape
  <2>3. ASSUME NEW s \in Number, Over(s) PROVE Over(s)'
    BY <2>1, <2>3 DEF IInv, Shape, OverInv, Over
  <2>4. OverInv'
    BY <2>1, <2>3 DEF IInv, Shape, OverInv
  <2>5. HoldInv'
    BY <2>1 DEF IInv, HoldInv
  <2> QED
    BY <2>2, <2>4, <2>5 DEF IInv
<1> QED
  BY <1>1, <1>2, <1>3, <1>4 DEF Next

(* No interleaving of updates and reloads takes back an answered update,   *)
(* except for one that was under way when it was sent, or a later one.     *)
THEOREM AnsweredUpdatesStay == Spec => []AnsweredUpdatesHold
<1>1. IInv => AnsweredUpdatesHold
  BY DEF IInv, HoldInv, AnsweredUpdatesHold
<1> QED
  BY <1>1, InitIInv, NextIInv, PTL DEF Spec

-----------------------------------------------------------------------------
(* The handlers that requests reach.                                       *)

\* Of the tables alone: what each method asks for with each id finds the handler it is
\* for, up to the three exceptions.  It has no parameter, and TLC evaluates it to the end.
TablesAgree ==
  \A op \in Op, id \in Id :
    LET handler == Dispatch(Methods[op].method, Url(Methods[op].path, id))
    IN  \/ handler = Meant(op)
        \/ id = "" /\ handler = "not found"
        \/ op = "getContactInfo" /\ id = "blocked"
        \/ IsDotSegment(Methods[op].path, id)

\* A request has the handler that was found when it was sent, and goes on only with one.
Routed(asked) ==
  /\ asked.op \in Op /\ asked.id \in Id
  /\ asked.handler = Dispatch(Methods[asked.op].method, Url(Methods[asked.op].path, asked.id))
  /\ asked.handler = "not found" => asked.stage = "refused"

RoutedInv ==
  /\ scenario \in Scenarios
  /\ \A r \in Number : request[r].stage # "none" => Routed(request[r])

LEMMA StepRouted ==
  ASSUME IInv, RoutedInv, NEW r \in Number, RequestStep(r)
  PROVE  RoutedInv'
<1>1. Moves(r)
  BY StepMoves
<1>2. /\ scenario' = scenario
      /\ request'[r].op = request[r].op
      /\ request'[r].id = request[r].id
      /\ request'[r].handler = request[r].handler
  BY DEF RequestStep, Opens, Sets, FieldDone, Answers, Throws, IInv, Shape, Parts
<1>3. Routed(request[r]) /\ request[r].stage \in {"opening", "acting"}
  BY <1>1 DEF RoutedInv, Moves
<1>4. Routed(request'[r])
  BY <1>2, <1>3 DEF Routed
<1> QED
  BY <1>1, <1>2, <1>4 DEF RoutedInv, Moves

LEMMA SendRouted ==
  ASSUME IInv, RoutedInv, NEW r \in Number, NEW ask \in scenario.asks, Send(r, ask)
  PROVE  RoutedInv'
<1>1. ask.op \in Op /\ ask.id \in Id
  BY RequestAssumption DEF RoutedInv
<1> DEFINE handler == Dispatch(Methods[ask.op].method, Url(Methods[ask.op].path, ask.id))
<1>2. /\ scenario' = scenario
      /\ \A s \in Number \ {r} : request'[s] = request[s]
      /\ request'[r].op = ask.op /\ request'[r].id = ask.id
      /\ request'[r].handler = handler
      /\ handler = "not found" => request'[r].stage = "refused"
  BY DEF Send, IInv, Shape
<1>3. Routed(request'[r])
  BY <1>1, <1>2 DEF Routed
<1> QED
  BY <1>2, <1>3 DEF RoutedInv

LEMMA NextRouted == IInv /\ RoutedInv /\ [Next]_vars => RoutedInv'
<1> SUFFICES ASSUME IInv, RoutedInv, [Next]_vars PROVE RoutedInv'
  OBVIOUS
<1>1. ASSUME NEW r \in Number, NEW ask \in scenario.asks, Send(r, ask) PROVE RoutedInv'
  BY <1>1, SendRouted
<1>2. ASSUME NEW r \in Number, RequestStep(r) PROVE RoutedInv'
  BY <1>2, StepRouted
<1>3. CASE ServerStops \/ ClientsDestroyed \/ NextKernel \/ UNCHANGED vars
  BY <1>3 DEF ServerStops, ClientsDestroyed, NextKernel, vars, RoutedInv
<1> QED
  BY <1>1, <1>2, <1>3 DEF Next

(* Whatever is asked, in whatever order and over however many reloads, a   *)
(* request is handled by what its client method is for, provided that the  *)
(* tables agree, which has nothing to do with any order.                   *)
THEOREM RequestsReachTheirHandlers == TablesAgree => (Spec => []ClientReachesItsHandler)
<1> SUFFICES ASSUME TablesAgree PROVE Spec => []ClientReachesItsHandler
  OBVIOUS
<1>1. Init => RoutedInv
  <2> SUFFICES ASSUME Init PROVE RoutedInv
    OBVIOUS
  <2>1. \A r \in Number : request[r].stage = "none"
    BY DEF Init, NoRequest
  <2> QED
    BY <2>1 DEF Init, RoutedInv
<1>2. RoutedInv => ClientReachesItsHandler
  BY DEF TablesAgree, RoutedInv, Routed, ClientReachesItsHandler
<1> QED
  BY <1>1, <1>2, InitIInv, NextIInv, NextRouted, PTL DEF Spec

=============================================================================
