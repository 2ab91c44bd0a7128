----------------------------- MODULE MCHashSet -----------------------------
(* Instances of HashSetUse for TLC. *)
EXTENDS HashSetUse

\* Two keys have the same hash.  Four of the keys share bucket 0 of the first 7
\* buckets, and four bucket 0 of the 11 buckets after the second growth.
Colliding == [k \in Key |->
  CASE k = 2 -> 7 [] k = 3 -> 11 [] k = 4 -> 77 [] OTHER -> 0]

\* Bound: at most one key at a time holds the second value, which tells a value that
\* was updated, or moved by a growth, from one that was not.
OneUpdated == Cardinality({i \in Live(table) : table.entries[i].value = 20}) <= 1
=============================================================================
