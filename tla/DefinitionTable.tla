--------------------------- MODULE DefinitionTable ---------------------------
(***************************************************************************)
(* How runtime-webhook and runtime-workflow keep their definitions: in an  *)
(* array, which the subscriber goes through, and in a SQLite table with    *)
(* the id as its primary key.  The array is loaded from the table, or is   *)
(* the list of the config, which may give one id to several definitions:   *)
(* the schema of packages/config does not forbid it.  Ids are numbers      *)
(* here, in the order SQLite sorts them.                                   *)
(***************************************************************************)
EXTENDS Integers, SequencesExt

IdsOf(defs) == {d.id : d \in defs}

UniqueIds(rows) == \A r1, r2 \in rows : r1.id = r2.id => r1 = r2

\* The list gives the id to two definitions or more.
Repeats(list, id) == \E i, j \in DOMAIN list : i # j /\ list[i].id = id /\ list[j].id = id

-----------------------------------------------------------------------------
(* The table.                                                              *)

\* Defect: insert or ignore.
SavedIfNew(rows, d) == IF d.id \in IdsOf(rows) THEN rows ELSE rows \cup {d}

\* saveWebhook and saveWorkflow: an insert-or-replace on the primary key id.
Saved(rows, d) == {r \in rows : r.id # d.id} \cup {d}

\* The rows after every definition of the list was saved in turn: each id has
\* the last definition that carries it.
Seeded(list) ==
  {list[i] : i \in {i \in DOMAIN list : \A j \in DOMAIN list : i < j => list[j].id # list[i].id}}

\* listWebhooks() and listWorkflows() return every row, ordered by id.
Listings(rows) ==
  {list \in SeqOf(rows, Cardinality(rows)) :
     /\ ToSet(list) = rows
     /\ \A i, j \in DOMAIN list : i < j => list[i].id < list[j].id}

-----------------------------------------------------------------------------
(* The array.                                                              *)

\* find() and findIndex(): the first place with the id, if there is one.
FirstOf(list, id) ==
  {i \in DOMAIN list : /\ list[i].id = id
                       /\ \A j \in DOMAIN list : list[j].id = id => i =< j}

\* upsert(): replace the first definition of the id, or push.
Upserted(list, d) ==
  IF d.id \in IdsOf(ToSet(list))
    THEN [i \in DOMAIN list |-> IF i \in FirstOf(list, d.id) THEN d ELSE list[i]]
    ELSE Append(list, d)

\* filter(): the definitions of the other ids, in their order.  (A set with one
\* element, by the places at which they stood.)
Filtered(list, id) ==
  LET others == {i \in DOMAIN list : list[i].id # id}
  IN  {[n \in DOMAIN at |-> list[at[n]]] :
         at \in {s \in SeqOf(others, Cardinality(others)) :
                   /\ ToSet(s) = others
                   /\ \A m, n \in DOMAIN s : m < n => s[m] < s[n]}}

-----------------------------------------------------------------------------
(* What array and table have to do with each other.                        *)

\* Every row is in the array; every definition of the array has a row with its
\* id, which is the definition itself unless the config gives its id to several.
Mirrors(list, rows, configured) ==
  /\ rows \subseteq ToSet(list)
  /\ \A d \in ToSet(list) : \E r \in rows :
       r.id = d.id /\ (r = d \/ Repeats(configured, d.id))

=============================================================================
