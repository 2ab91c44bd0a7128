--------------------------- MODULE HashSet_proofs ---------------------------
(***************************************************************************)
(* Proofs about the table in the hands of a caller that fills it and then  *)
(* at most drains it, for any keys, values and hash and any number of      *)
(* growths.                                                                *)
(***************************************************************************)
EXTENDS HashSetUse, HashTable_proofs

-----------------------------------------------------------------------------
(* The invariant *)

UseInv ==
  /\ Fine(table) /\ KeysOf(table) = present
  /\ draining \in BOOLEAN
  /\ ~draining => Compact(table)
  /\ result.op \in {"new", "insert", "update", "contains", "remove"}

LEMMA InitInvariant == UseInit => UseInv
<1> SUFFICES ASSUME UseInit PROVE UseInv
  OBVIOUS
<1>1. table = EmptyTable /\ present = {} /\ draining = FALSE
  BY DEF UseInit, Init
<1>2. Fine(table) /\ Compact(table) /\ KeysOf(table) = present
  BY <1>1, EmptyFine
<1>3. result.op = "new"
  BY DEF UseInit, Init
<1> QED BY <1>1, <1>2, <1>3 DEF UseInv

-----------------------------------------------------------------------------
(* The calls *)

LEMMA InsertStep ==
  ASSUME UseInv, ~draining, NEW k \in Key, NEW v \in Value, Insert(k, v),
         present' = present \cup {k}, draining' = draining
  PROVE  /\ UseInv'
         /\ result' = [op |-> "insert", key |-> k, ok |-> k \notin present]
         /\ Content(table') = IF k \in present THEN Content(table) ELSE Stored(table, k, v)
<1>1. CASE k \in present
  <2>1. Lookup(table, k) # NotFound /\ Lookup(table, k) # NoAnswer
    BY <1>1, KeyFound DEF UseInv
  <2>2. table' = table /\ present' = present
    BY <1>1, <2>1 DEF Insert, AfterInsert
  <2>3. result' = [op |-> "insert", key |-> k, ok |-> FALSE]
    BY <2>1 DEF Insert, Call
  <2>4. UseInv'
    BY <2>2, <2>3 DEF UseInv
  <2> QED BY <1>1, <2>2, <2>3, <2>4
<1>2. CASE k \notin present
  <2> DEFINE u == AfterAdd(table, k, v)
  <2>1. /\ Lookup(table, k) = NotFound
        /\ Fine(u) /\ Compact(u) /\ KeysOf(u) = present \cup {k}
        /\ Content(u) = Stored(table, k, v)
    BY <1>2, Adding DEF UseInv, Insert
  <2>2. table' = u
    BY <2>1 DEF Insert, AfterInsert, NotFound, NoAnswer
  <2>3. result' = [op |-> "insert", key |-> k, ok |-> TRUE]
    BY <2>1 DEF Insert, Call
  <2> HIDE DEF u
  <2>4. UseInv'
    BY <2>1, <2>2, <2>3 DEF UseInv
  <2> QED BY <1>2, <2>1, <2>2, <2>3, <2>4
<1> QED BY <1>1, <1>2

LEMMA UpdateStep ==
  ASSUME UseInv, ~draining, NEW k \in Key, NEW v \in Value, Update(k, v),
         present' = present \cup {k}, draining' = draining
  PROVE  /\ UseInv'
         /\ result' = [op |-> "update", key |-> k, ok |-> TRUE]
         /\ Content(table') = Stored(table, k, v)
<1> DEFINE u == AfterUpdate(table, k, v)
<1>1. /\ Fine(u) /\ Compact(u) /\ KeysOf(u) = present \cup {k}
      /\ Content(u) = Stored(table, k, v)
  BY Updating DEF UseInv, Update
<1>2. table' = u /\ result' = [op |-> "update", key |-> k, ok |-> TRUE]
  BY DEF Update, Call
<1> HIDE DEF u
<1>3. UseInv'
  BY <1>1, <1>2 DEF UseInv
<1> QED BY <1>1, <1>2, <1>3

\* Before the first removal a key that is not present is not found.
LEMMA ContainsStep ==
  ASSUME UseInv, NEW k \in Key, ~draining \/ k \in present, Contains(k),
         UNCHANGED <<present, draining>>
  PROVE  /\ UseInv' /\ table' = table
         /\ result' = [op |-> "contains", key |-> k, ok |-> k \in present]
<1>1. Lookup(table, k) # NoAnswer /\ (Lookup(table, k) > 0 <=> k \in present)
  <2>1. CASE k \in present
    BY <2>1, KeyFound DEF UseInv
  <2>2. CASE k \notin present
    <3>1. Lacks(table, k)
      BY <2>2 DEF UseInv, KeysOf, Lacks
    <3>2. Lookup(table, k) = 0
      BY <2>2, <3>1, LookupAbsent DEF UseInv, Fine, NotFound
    <3> QED BY <2>2, <3>2 DEF NoAnswer
  <2> QED BY <2>1, <2>2
<1>2. table' = table
  BY <1>1 DEF Contains, AfterContains
<1>3. result' = [op |-> "contains", key |-> k, ok |-> k \in present]
  BY <1>1 DEF Contains, Call
<1>4. UseInv'
  BY <1>2, <1>3 DEF UseInv
<1> QED BY <1>2, <1>3, <1>4

LEMMA RemoveStep ==
  ASSUME UseInv, NEW k \in present, Remove(k),
         present' = present \ {k}, draining' = TRUE
  PROVE  /\ UseInv'
         /\ result' = [op |-> "remove", key |-> k, ok |-> TRUE]
         /\ Content(table') = Without(table, k)
<1> DEFINE u == AfterRemove(table, k)
<1>1. /\ Removes(table, k) /\ Fine(u) /\ KeysOf(u) = present \ {k}
      /\ Content(u) = Without(table, k)
  BY Removing DEF UseInv
<1>2. table' = u
  BY DEF Remove
<1>3. result' = [op |-> "remove", key |-> k, ok |-> TRUE]
  BY <1>1 DEF Remove, Call
<1> HIDE DEF u
<1>4. UseInv'
  BY <1>1, <1>2, <1>3 DEF UseInv
<1> QED BY <1>1, <1>2, <1>3, <1>4

-----------------------------------------------------------------------------
(* The theorems *)

LEMMA StepInvariant ==
  ASSUME Usage = "drain", UseInv, [UseNext]_useVars
  PROVE  UseInv'
<1>1. ASSUME NEW k \in Key, MayInsert, NEW v \in Value, Insert(k, v) \/ Update(k, v),
             present' = present \cup {k}, UNCHANGED draining
      PROVE  UseInv'
  BY <1>1, InsertStep, UpdateStep DEF MayInsert
<1>2. ASSUME NEW k \in Key, MayLookUp(k), Contains(k), UNCHANGED <<present, draining>>
      PROVE  UseInv'
  BY <1>2, ContainsStep DEF MayLookUp
<1>3. ASSUME NEW k \in Key, MayRemove(k), Remove(k), present' = present \ {k}, draining' = TRUE
      PROVE  UseInv'
  BY <1>3, RemoveStep DEF MayRemove
<1>4. ASSUME UNCHANGED useVars PROVE UseInv'
  BY <1>4 DEF useVars, vars, UseInv
<1> QED BY <1>1, <1>2, <1>3, <1>4 DEF UseNext

\* What is said of the table in UseInv holds as long as it is filled or drained.
THEOREM Invariance ==
  ASSUME Usage = "drain"
  PROVE  UseSpec => []UseInv
<1>1. UseInit => UseInv
  BY InitInvariant
<1>2. UseInv /\ [UseNext]_useVars => UseInv'
  BY StepInvariant
<1> QED BY <1>1, <1>2, PTL DEF UseSpec

\* The length stays within the capacity, and every handle is 0 or one of an entry: what
\* hash_table_insert_location writes and links never lies behind the array.
THEOREM TypeInvariant ==
  ASSUME Usage = "drain"
  PROVE  UseSpec => []TypeOK
<1>1. UseInv => TypeOK
  <2> SUFFICES ASSUME UseInv PROVE TypeOK
    OBVIOUS
  <2>1. table.length \in 0 .. table.capacity
    BY LengthBounded DEF UseInv
  <2>2. /\ DOMAIN table.entries = 1 .. table.capacity
        /\ \A b \in DOMAIN table.buckets : table.buckets[b] \in 0 .. table.capacity
    BY DEF UseInv, Fine, Sound, Shape
  <2>3. \A i \in Live(table) : table.entries[i].next \in 0 .. table.capacity
    <3> TAKE i \in Live(table)
    <3>1. /\ table.capacity \in Nat /\ table.entries[i] \in Slot(table.capacity)
          /\ table.entries[i].next # -1
      BY DEF UseInv, Fine, Sound, Shape, Live, IsNull
    <3> QED BY <3>1 DEF Slot
  <2> QED BY <2>1, <2>2, <2>3 DEF TypeOK, UseInv
<1> QED BY <1>1, Invariance, PTL

\* A loop over the capacity, as hash_set_try_entry serves it, meets every key that was put
\* in and not taken out, and meets it once, whatever growths lie between.
THEOREM VisitsPresentOnceInvariant ==
  ASSUME Usage = "drain"
  PROVE  UseSpec => []VisitsPresentOnce
<1>1. UseInv => VisitsPresentOnce
  BY KeyCount DEF UseInv, VisitsPresentOnce, KeysOf
<1> QED BY <1>1, Invariance, PTL

\* The length that hash_table_insert_location and hash_set_remove count is the number of
\* entries in use.
THEOREM LengthCountsLiveInvariant ==
  ASSUME Usage = "drain"
  PROVE  UseSpec => []LengthCountsLive
<1>1. UseInv => LengthCountsLive
  BY DEF UseInv, Fine, Counted, LengthCountsLive
<1> QED BY <1>1, Invariance, PTL

\* hash_set_get_location never leaves the array or loops for ever, and after a growth
\* assert(sanity) holds.
THEOREM SaneInvariant ==
  ASSUME Usage = "drain"
  PROVE  UseSpec => []Sane
<1>1. UseInv => Sane
  BY DEF UseInv, Fine, Sound, Sane
<1> QED BY <1>1, Invariance, PTL

\* What each call answers, and what the table holds after it.
CallOn(k) ==
  \/ /\ result' = [op |-> "contains", key |-> k, ok |-> k \in present]
     /\ Content(table') = Content(table)
  \/ \E v \in Value :
       \/ /\ result' = [op |-> "insert", key |-> k, ok |-> k \notin present]
          /\ Content(table') = IF k \in present THEN Content(table) ELSE Stored(table, k, v)
       \/ /\ result' = [op |-> "update", key |-> k, ok |-> TRUE]
          /\ Content(table') = Stored(table, k, v)
  \/ /\ k \in present
     /\ result' = [op |-> "remove", key |-> k, ok |-> TRUE]
     /\ Content(table') = Without(table, k)

\* Every step is a call on some key, or leaves the table and the answer alone.
LEMMA StepCalls ==
  ASSUME Usage = "drain", UseInv, [UseNext]_useVars
  PROVE  (\E k \in Key : CallOn(k)) \/ UNCHANGED <<table, result>>
<1>1. ASSUME NEW k \in Key, MayInsert, NEW v \in Value, Insert(k, v) \/ Update(k, v),
             present' = present \cup {k}, UNCHANGED draining
      PROVE  CallOn(k)
  BY <1>1, InsertStep, UpdateStep DEF MayInsert, CallOn
<1>2. ASSUME NEW k \in Key, MayLookUp(k), Contains(k), UNCHANGED <<present, draining>>
      PROVE  CallOn(k)
  BY <1>2, ContainsStep DEF MayLookUp, CallOn
<1>3. ASSUME NEW k \in Key, MayRemove(k), Remove(k), present' = present \ {k}, draining' = TRUE
      PROVE  CallOn(k)
  BY <1>3, RemoveStep DEF MayRemove, CallOn
<1>4. ASSUME UNCHANGED useVars PROVE UNCHANGED <<table, result>>
  BY <1>4 DEF useVars, vars
<1> QED BY <1>1, <1>2, <1>3, <1>4 DEF UseNext

\* insert is refused exactly for a key that is there, contains and remove find exactly one.
THEOREM AnswersRightTheorem ==
  ASSUME Usage = "drain"
  PROVE  UseSpec => AnswersRight
<1> DEFINE Right == \A k \in Key :
                      result' # result /\ result'.key = k =>
                        /\ result'.op = "insert" => result'.ok = (k \notin present)
                        /\ result'.op \in {"contains", "remove"} => result'.ok = (k \in present)
<1>1. UseInv /\ [UseNext]_useVars => [Right]_useVars
  <2> SUFFICES ASSUME UseInv, [UseNext]_useVars, NEW k \in Key, result' # result, result'.key = k
               PROVE  /\ result'.op = "insert" => result'.ok = (k \notin present)
                      /\ result'.op \in {"contains", "remove"} => result'.ok = (k \in present)
    OBVIOUS
  <2>1. PICK x \in Key : CallOn(x)
    BY StepCalls
  <2>2. \/ result' = [op |-> "contains", key |-> x, ok |-> x \in present]
        \/ result' = [op |-> "insert", key |-> x, ok |-> x \notin present]
        \/ result' = [op |-> "update", key |-> x, ok |-> TRUE]
        \/ x \in present /\ result' = [op |-> "remove", key |-> x, ok |-> TRUE]
    BY <2>1, Zenon DEF CallOn
  <2>3. x = k
    BY <2>2
  <2>4. CASE result' = [op |-> "contains", key |-> k, ok |-> k \in present]
    BY <2>4
  <2>5. CASE result' = [op |-> "insert", key |-> k, ok |-> k \notin present]
    BY <2>5
  <2>6. CASE result' = [op |-> "update", key |-> k, ok |-> TRUE]
    BY <2>6
  <2>7. CASE k \in present /\ result' = [op |-> "remove", key |-> k, ok |-> TRUE]
    <3>1. (k \in present) = TRUE
      BY <2>7
    <3>2. result'.op = "remove" /\ result'.ok = TRUE
      BY <2>7
    <3> QED BY <3>1, <3>2, Zenon
  <2> QED BY <2>2, <2>3, <2>4, <2>5, <2>6, <2>7
<1> QED BY <1>1, Invariance, PTL DEF UseSpec, AnswersRight

\* The table implements the dictionary: each call changes what it holds, and answers, as the
\* abstract one does.
THEOREM IsDictionaryTheorem ==
  ASSUME Usage = "drain"
  PROVE  UseSpec => IsDictionary
<1>1. UseInit => Dict!Init
  <2> SUFFICES ASSUME UseInit PROVE Dict!Init
    OBVIOUS
  <2>1. table = EmptyTable /\ Live(table) = {}
    BY EmptySound DEF UseInit, Init
  <2>2. Content(table) = [k \in {} |-> CHOOSE v \in Value : TRUE]
    BY <2>1 DEF Content
  <2>3. result = [op |-> "new", key |-> CHOOSE k \in Key : TRUE, ok |-> TRUE]
    BY DEF UseInit, Init
  <2> QED BY <2>2, <2>3 DEF Dict!Init
<1>2. UseInv /\ [UseNext]_useVars => [Dict!Next]_<<Content(table), result>>
  <2> SUFFICES ASSUME UseInv, [UseNext]_useVars
               PROVE  Dict!Next \/ UNCHANGED <<Content(table), result>>
    OBVIOUS
  <2>1. CASE UNCHANGED <<table, result>>
    BY <2>1
  <2>2. ASSUME NEW k \in Key, CallOn(k) PROVE Dict!Next
    <3>1. DOMAIN Content(table) = present /\ KeysOf(table) = present
      BY ContentAt DEF UseInv, Fine
    <3>2. CASE /\ result' = [op |-> "contains", key |-> k, ok |-> k \in present]
               /\ Content(table') = Content(table)
      <4>1. Dict!Contains(k)
        BY <3>1, <3>2 DEF Dict!Contains, Dict!Call
      <4> QED BY <4>1 DEF Dict!Next
    <3>3. CASE /\ k \in present
               /\ result' = [op |-> "remove", key |-> k, ok |-> TRUE]
               /\ Content(table') = Without(table, k)
      <4>1. Dict!Remove(k)
        BY <3>1, <3>3 DEF Dict!Remove, Dict!Call, Without
      <4> QED BY <4>1 DEF Dict!Next
    <3>4. ASSUME NEW v \in Value,
                 result' = [op |-> "insert", key |-> k, ok |-> k \notin present],
                 Content(table') = IF k \in present THEN Content(table) ELSE Stored(table, k, v)
          PROVE  Dict!Next
      <4>1. Dict!Insert(k, v)
        BY <3>1, <3>4 DEF Dict!Insert, Dict!Call, Dict!With, Stored
      <4> QED BY <4>1 DEF Dict!Next
    <3>5. ASSUME NEW v \in Value,
                 result' = [op |-> "update", key |-> k, ok |-> TRUE],
                 Content(table') = Stored(table, k, v)
          PROVE  Dict!Next
      <4>1. Dict!Update(k, v)
        BY <3>1, <3>5 DEF Dict!Update, Dict!Call, Dict!With, Stored
      <4> QED BY <4>1 DEF Dict!Next
    <3> QED BY <2>2, <3>2, <3>3, <3>4, <3>5 DEF CallOn
  <2> QED BY <2>1, <2>2, StepCalls
<1> QED BY <1>1, <1>2, Invariance, PTL DEF UseSpec, IsDictionary, Dict!Spec
=============================================================================
