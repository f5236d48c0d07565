----------------------------- MODULE MCApiKeys -----------------------------
(* Two ids and two secrets; the second configured key is disabled, and        *)
(* requests may store either secret under either id before the next start.   *)
EXTENDS ApiKeys, TLC

Boot == [id |-> "boot", secret |-> "s1", enabled |-> TRUE, expiresAt |-> Never]
Ops == [id |-> "ops", secret |-> "s2", enabled |-> FALSE, expiresAt |-> 1]

Again == [id |-> "boot", secret |-> "s2", enabled |-> TRUE, expiresAt |-> 1]

\* Two keys, or one id twice.
TwoKeys == {<<Boot, Ops>>, <<Boot, Again>>}
OneKey == {<<Boot>>}

RequestSymmetry == Permutations(Request)
=============================================================================
