----------------------------- MODULE Chronology -----------------------------
(***************************************************************************)
(* The order in which the code replays what it knows of the venue: by time, *)
(* what happened at the same time by its id.                                *)
(***************************************************************************)
EXTENDS Integers, FiniteSets

\* The ids that key is defined on, in the order of their keys, which are pairs
\* of numbers.
Before(key, a, b) ==
  \/ key[a][1] < key[b][1]
  \/ key[a][1] = key[b][1] /\ key[a][2] < key[b][2]
  \/ key[a] = key[b] /\ a < b
InOrder(key) ==
  CHOOSE ids \in [1 .. Cardinality(DOMAIN key) -> DOMAIN key]:
    \A i, j \in DOMAIN ids: i < j => Before(key, ids[i], ids[j])
=============================================================================
