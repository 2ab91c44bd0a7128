----------------------------- MODULE HashTable ------------------------------
(***************************************************************************)
(* The hash table of src/lib/hash_set.h, under ht_users and ht_replicas:   *)
(* an array of entries, filled from the front, with the chain of each      *)
(* bucket threaded through 1-based "next" handles; 0 ends a chain and -1   *)
(* marks an entry that is not in use.                                      *)
(*                                                                         *)
(* The table is a value, and each function of the header is an operator on *)
(* it.  A walk that follows the handle -1 leaves the array, a walk along a *)
(* cycle never ends, and assert(sanity) can fail: each sets "broken",      *)
(* after which nothing more is said of the table.                          *)
(***************************************************************************)
EXTENDS Integers, FiniteSets

CONSTANTS
  Key,      \* the keys
  Value,    \* the values stored with them
  NoKey,    \* the bytes of an entry that was never written
  Hash,     \* set->hash
  Capacity  \* bound: the largest capacity that a call may grow the table to

ASSUME NoKeyAssumption == NoKey \notin Key
ASSUME HashAssumption == Hash \in [Key -> Nat]

MinBuckets  == 5
MinCapacity == 4

Larger(a, b) == IF a > b THEN a ELSE b

IsPrime(n) == n > 1 /\ \A d \in 2 .. n - 1 : n % d # 0

\* next_prime: strictly above n, 2 for the smallest arguments.
NextPrime(n) ==
  IF n <= 1 THEN 2
  ELSE CHOOSE p \in n + 1 .. 2 * n :
         IsPrime(p) /\ \A q \in n + 1 .. p - 1 : ~IsPrime(q)

\* Bertrand's postulate, for the sizes that the bound admits.
ASSUME PrimeAssumption ==
  Capacity \in Nat /\ \A n \in 1 .. Larger(MinBuckets, Capacity) : \E p \in n + 1 .. 2 * n : IsPrime(p)

Unused == [next |-> -1, hash |-> 0, key |-> NoKey, value |-> NoKey]
IsNull(entry) == entry.next = -1

\* hash_set_new: capacity 0.
EmptyTable ==
  [length  |-> 0, capacity |-> 0,
   buckets |-> [b \in 0 .. Larger(NextPrime(0), MinBuckets) - 1 |-> 0],
   entries |-> [i \in {} |-> Unused], broken |-> FALSE]

BucketOf(t, k) == Hash[k] % Cardinality(DOMAIN t.buckets)

-----------------------------------------------------------------------------
(* Walks *)

\* Mutant: equal hashes are taken for equal elements.
MutantMatches(t, i, k) == t.entries[i].hash = Hash[k]

Matches(t, i, k) == t.entries[i].hash = Hash[k] /\ t.entries[i].key = k

NotFound == 0
NoAnswer == -1

\* Mutant: only the head of the chain is compared.
MutantLookup(t, k) ==
  LET head == t.buckets[BucketOf(t, k)]
  IN IF head # 0 /\ Matches(t, head, k) THEN head ELSE NotFound

\* Where a walk from each handle ends: at an entry of "stops", or behind its chain.
\* "next" is unsigned: the walk does not stop at an unused entry, it follows the handle
\* -1.  There is no answer if it leaves the array or never ends.
Walk(t, stops) ==
  LET walk[n \in 0 .. t.capacity] ==
        [i \in -1 .. t.capacity |->
           IF i \in stops \cup {0} THEN i
           ELSE IF i = -1 \/ n = 0 THEN NoAnswer
           ELSE walk[n - 1][t.entries[i].next]]
  IN walk[t.capacity]

\* hash_set_get_location: a chain whose head is unused is not walked; any other is
\* walked to the element, in an entry in use or not, or to the end of the chain.
Lookup(t, k) ==
  LET head == t.buckets[BucketOf(t, k)]
  IN IF head = 0 \/ IsNull(t.entries[head]) THEN NotFound
     ELSE Walk(t, {i \in DOMAIN t.entries : Matches(t, i, k)})[head]

\* The last entry of the chain from this handle.
Tail(t, first) == Walk(t, {i \in DOMAIN t.entries : t.entries[i].next = 0})[first]

-----------------------------------------------------------------------------
(* Insertion *)

\* hash_table_insert_location, once there is room: the entry after the length-th
\* is written, then linked from the last entry of its chain.
Place(t, k, v) ==
  LET loc   == t.length + 1
      b     == BucketOf(t, k)
      wrote == [t EXCEPT !.length = loc,
                  !.entries[loc] = [next |-> 0, hash |-> Hash[k], key |-> k, value |-> v]]
      last  == Tail(wrote, wrote.buckets[b])
  IN IF wrote.buckets[b] = 0 THEN [wrote EXCEPT !.buckets[b] = loc]
     ELSE IF wrote.buckets[b] = loc THEN wrote
     ELSE IF last = NoAnswer THEN [wrote EXCEPT !.broken = TRUE]
     ELSE [wrote EXCEPT !.entries[last].next = loc]

\* hash_set_insert of an element during a regrow: there is room.
Reinsert(t, k, v) ==
  IF Lookup(t, k) = NotFound THEN Place(t, k, v)
  ELSE IF Lookup(t, k) = NoAnswer THEN [t EXCEPT !.broken = TRUE]
  ELSE t

\* The new arrays: the first length entries are copied and none is in use yet.
Enlarged(t) ==
  LET capacity == Larger(Larger(MinCapacity, 2 * t.capacity), t.length)
  IN [length |-> 0, capacity |-> capacity,
      buckets |-> [b \in 0 .. NextPrime(Larger(MinBuckets, capacity)) - 1 |-> 0],
      entries |-> [i \in 1 .. capacity |->
        IF i <= t.length THEN [t.entries[i] EXCEPT !.next = -1] ELSE Unused],
      broken |-> t.broken]

\* The table after its first n entries, in use or not, were inserted again.
Refilled(t, n) ==
  LET after[m \in 0 .. n] ==
        IF m = 0 THEN Enlarged(t)
        ELSE LET sofar == after[m - 1]
             IN Reinsert(sofar, sofar.entries[m].key, sofar.entries[m].value)
  IN after[n]

\* Mutant: the last entry is not inserted again.
MutantRegrow(t) == Refilled(t, Larger(0, t.length - 1))

Regrow(t) == Refilled(t, t.length)

\* Mutant: a table that is exactly full is not grown.
MutantIsFull(t) == t.length > t.capacity

IsFull(t) == t.length >= t.capacity

\* The table that hash_table_insert_location writes the new element to.
Roomy(t) == IF IsFull(t) THEN Regrow(t) ELSE t

-----------------------------------------------------------------------------
(* Removal *)

\* Mutant: the successor is not moved up.
MutantUnlink(t, k, i) ==
  LET b == BucketOf(t, k)
  IN [t EXCEPT !.length = @ - 1,
        !.buckets[b] = IF @ = i /\ t.entries[i].next = 0 THEN 0 ELSE @,
        !.entries[i].next = -1]

\* Mutant: the last entry of a chain is taken out without counting it.
MutantUnlinkLast(t, k, i) ==
  LET e == t.entries[i]
      b == BucketOf(t, k)
  IN IF e.next = 0
     THEN [t EXCEPT !.buckets[b] = IF @ = i THEN 0 ELSE @, !.entries[i].next = -1]
     ELSE [t EXCEPT !.length = @ - 1,
                    !.entries[i] = t.entries[e.next],
                    !.entries[e.next].next = -1]

\* hash_set_remove of the element at handle i, found in use: an entry with a
\* successor takes over its content, and the successor becomes unused.
Unlink(t, k, i) ==
  LET e == t.entries[i]
      b == BucketOf(t, k)
  IN IF e.next = 0
     THEN [t EXCEPT !.length = @ - 1,
                    !.buckets[b] = IF @ = i THEN 0 ELSE @,
                    !.entries[i].next = -1]
     ELSE [t EXCEPT !.length = @ - 1,
                    !.entries[i] = t.entries[e.next],
                    !.entries[e.next].next = -1]

-----------------------------------------------------------------------------
(* The calls *)

\* Bound: the element can be stored without growing beyond the bound.
Fits(t, k) == Lookup(t, k) = NotFound /\ IsFull(t) => 2 * t.capacity <= Capacity

Break(t) == [t EXCEPT !.broken = TRUE]

\* hash_table_insert_location: grow if full, look the element up again, write it.
AfterAdd(t, k, v) ==
  LET roomy == Roomy(t)
  IN IF Lookup(roomy, k) = NotFound THEN Place(roomy, k, v) ELSE Break(roomy)

AfterInsert(t, k, v) ==
  LET i == Lookup(t, k)
  IN IF i = NoAnswer THEN Break(t) ELSE IF i = NotFound THEN AfterAdd(t, k, v) ELSE t

\* Mutant: an element that is there is not replaced.
MutantAfterUpdate(t, k, v) == AfterInsert(t, k, v)

\* The element is copied into the entry that is found, in use or not.
AfterUpdate(t, k, v) ==
  LET i == Lookup(t, k)
  IN IF i = NoAnswer THEN Break(t)
     ELSE IF i = NotFound THEN AfterAdd(t, k, v)
     ELSE [t EXCEPT !.entries[i].value = v]

AfterContains(t, k) == IF Lookup(t, k) = NoAnswer THEN Break(t) ELSE t

\* remove finds the element, in an entry in use.
Removes(t, k) == Lookup(t, k) > 0 /\ ~IsNull(t.entries[Lookup(t, k)])

AfterRemove(t, k) ==
  IF Lookup(t, k) = NoAnswer THEN Break(t)
  ELSE IF Removes(t, k) THEN Unlink(t, k, Lookup(t, k))
  ELSE t

-----------------------------------------------------------------------------
(* What the table holds *)

\* The entries that hash_set_try_entry shows to a loop over the capacity.
Live(t)    == {i \in DOMAIN t.entries : ~IsNull(t.entries[i])}
KeyAt(t, i) == t.entries[i].key
Content(t) ==
  [k \in {KeyAt(t, i) : i \in Live(t)} |->
     t.entries[CHOOSE i \in Live(t) : KeyAt(t, i) = k].value]
KeysOf(t)  == {KeyAt(t, i) : i \in Live(t)}
=============================================================================
