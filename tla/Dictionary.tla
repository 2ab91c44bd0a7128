----------------------------- MODULE Dictionary -----------------------------
(***************************************************************************)
(* What hash_set.h promises the server's tables: a partial function from   *)
(* keys to values, and for each call whether it found or changed anything. *)
(***************************************************************************)
CONSTANTS Key, Value

VARIABLES
  content,  \* the keys that are present, with their values
  result    \* the last call and what it returned

Call(op, k, ok) == result' = [op |-> op, key |-> k, ok |-> ok]

Init ==
  /\ content = [k \in {} |-> CHOOSE v \in Value : TRUE]
  /\ result = [op |-> "new", key |-> CHOOSE k \in Key : TRUE, ok |-> TRUE]

With(k, v) == [x \in DOMAIN content \cup {k} |-> IF x = k THEN v ELSE content[x]]

Insert(k, v) ==
  /\ Call("insert", k, k \notin DOMAIN content)
  /\ content' = IF k \in DOMAIN content THEN content ELSE With(k, v)

Update(k, v) ==
  /\ Call("update", k, TRUE)
  /\ content' = With(k, v)

Contains(k) ==
  /\ Call("contains", k, k \in DOMAIN content)
  /\ UNCHANGED content

Remove(k) ==
  /\ Call("remove", k, k \in DOMAIN content)
  /\ content' = [x \in DOMAIN content \ {k} |-> content[x]]

Next ==
  \E k \in Key :
    \/ \E v \in Value : Insert(k, v) \/ Update(k, v)
    \/ Contains(k)
    \/ Remove(k)

Spec == Init /\ [][Next]_<<content, result>>
=============================================================================
