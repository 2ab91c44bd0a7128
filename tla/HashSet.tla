------------------------------ MODULE HashSet ------------------------------
(***************************************************************************)
(* One table of hash_set.h and the calls on it, one at a time.             *)
(***************************************************************************)
EXTENDS HashTable

VARIABLES
  table,    \* the struct hash_set_t with its buckets and entries
  result    \* the last call and what it returned

vars == <<table, result>>

Init ==
  /\ table = EmptyTable
  /\ result = [op |-> "new", key |-> CHOOSE k \in Key : TRUE, ok |-> TRUE]

Usable == ~table.broken

Call(op, k, ok) == result' = [op |-> op, key |-> k, ok |-> ok]

Insert(k, v) ==
  /\ Usable /\ Fits(table, k)
  /\ table' = AfterInsert(table, k, v)
  /\ Call("insert", k, Lookup(table, k) = NotFound)

Update(k, v) ==
  /\ Usable /\ Fits(table, k)
  /\ table' = AfterUpdate(table, k, v)
  /\ Call("update", k, TRUE)

Contains(k) ==
  /\ Usable
  /\ table' = AfterContains(table, k)
  /\ Call("contains", k, Lookup(table, k) > 0)

Remove(k) ==
  /\ Usable
  /\ table' = AfterRemove(table, k)
  /\ Call("remove", k, Removes(table, k))

Next ==
  \E k \in Key :
    \/ \E v \in Value : Insert(k, v) \/ Update(k, v)
    \/ Contains(k)
    \/ Remove(k)

Spec == Init /\ [][Next]_vars

\* The header, the chains and the entries have the shape the C code declares.
TypeOK ==
  /\ table.length \in 0 .. table.capacity
  /\ DOMAIN table.entries = 1 .. table.capacity
  /\ \A b \in DOMAIN table.buckets : table.buckets[b] \in 0 .. table.capacity
  /\ \A i \in Live(table) : table.entries[i].next \in 0 .. table.capacity
  /\ result.op \in {"new", "insert", "update", "contains", "remove"}
=============================================================================
