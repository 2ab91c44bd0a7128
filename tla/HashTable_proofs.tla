-------------------------- MODULE HashTable_proofs --------------------------
(***************************************************************************)
(* What the operators of the hash table do, for any keys, values and hash  *)
(* and any number of growths.                                              *)
(*                                                                         *)
(* The chain of a bucket runs through its entries in the order of their    *)
(* handles.  A removal can leave a handle behind that leads to an entry    *)
(* taken out, but only behind the last element of the chain: a walk to a   *)
(* key that is there never comes so far.  As long as nothing was taken     *)
(* out there is no such handle, every walk ends, and the entries in use    *)
(* are the first ones, so that a growth puts each back where it was.       *)
(***************************************************************************)
EXTENDS HashTable, FiniteSetTheorems, WellFoundedInduction, TLAPS

-----------------------------------------------------------------------------
(* Walks *)

\* Induction over the natural numbers, for the steps of a walk and of a growth.
LEMMA SetInduction ==
  ASSUME NEW S, 0 \in S, \A n \in Nat : n \in S => n + 1 \in S
  PROVE  Nat \subseteq S
<1> SUFFICES ASSUME NEW x \in Nat, x \notin S PROVE FALSE
  OBVIOUS
<1> DEFINE T == Nat \ S
<1>1. PICK n \in T : \A k \in T : ~(<<k, n>> \in OpToRel(<, Nat))
  <2>1. T # {} /\ T \subseteq Nat
    OBVIOUS
  <2> HIDE DEF T
  <2>2. \E n \in T : \A k \in T : ~(<<k, n>> \in OpToRel(<, Nat))
    BY <2>1, NatLessThanWellFounded, WFMin, Zenon
  <2> QED BY <2>2, Zenon
<1>2. \A k, m \in Nat : k < m => <<k, m>> \in OpToRel(<, Nat)
  BY Zenon DEF OpToRel
<1>3. n - 1 \in Nat /\ n - 1 < n /\ n = (n - 1) + 1
  <2>1. n \in Nat /\ n # 0
    OBVIOUS
  <2> QED BY <2>1
<1>4. <<n - 1, n>> \in OpToRel(<, Nat)
  BY <1>1, <1>2, <1>3
<1>5. n - 1 \in T
  BY <1>1, <1>3
<1> QED BY <1>1, <1>4, <1>5, Zenon

\* A walk takes one step at a time.
LEMMA WalkSteps ==
  ASSUME NEW t, NEW stops, t.capacity \in Nat
  PROVE  \E w : /\ Walk(t, stops) = w[t.capacity]
                /\ \A n \in 0 .. t.capacity : \A i \in -1 .. t.capacity :
                     w[n][i] = IF i \in stops \cup {0} THEN i
                               ELSE IF i = -1 \/ n = 0 THEN NoAnswer
                               ELSE w[n - 1][t.entries[i].next]
<1> DEFINE R(n, h) == [i \in -1 .. t.capacity |->
                         IF i \in stops \cup {0} THEN i
                         ELSE IF i = -1 \/ n = 0 THEN NoAnswer
                         ELSE h[t.entries[i].next]]
           D(m, h) == [n \in 0 .. m |-> R(n, h[n - 1])]
           S == {m \in Nat : \E w : w = D(m, w)}
<1>1. \A h, j : R(0, h) = R(0, j)
  OBVIOUS
<1>2. 0 \in S
  <2> HIDE DEF R
  <2> DEFINE w == [n \in 0 .. 0 |-> R(0, 0)]
  <2>1. w = D(0, w)
    BY <1>1
  <2> QED BY <2>1
<1>3. ASSUME NEW m \in Nat, m \in S PROVE m + 1 \in S
  <2> HIDE DEF R
  <2>1. PICK w : w = D(m, w)
    BY <1>3
  <2> DEFINE h == [n \in 0 .. m + 1 |-> IF n = m + 1 THEN R(n, w[m]) ELSE w[n]]
  <2>2. ASSUME NEW n \in 0 .. m + 1 PROVE h[n] = R(n, h[n - 1])
    <3>1. CASE n = m + 1
      BY <3>1
    <3>2. CASE n = 0
      BY <2>1, <3>2, <1>1
    <3>3. CASE n \in 1 .. m
      <4>1. h[n] = w[n] /\ h[n - 1] = w[n - 1]
        BY <3>3
      <4> QED BY <3>3, <2>1, <4>1
    <3> QED BY <3>1, <3>2, <3>3
  <2>3. h = D(m + 1, h)
    BY <2>2
  <2> HIDE DEF h
  <2> QED BY <2>3
<1>4. PICK w : w = D(t.capacity, w)
  <2> HIDE DEF S
  <2>1. t.capacity \in S
    BY <1>2, <1>3, SetInduction
  <2> QED BY <2>1 DEF S
<1> DEFINE walk == CHOOSE h : h = D(t.capacity, h)
<1>5. Walk(t, stops) = walk[t.capacity]
  BY Zenon DEF Walk
<1>6. walk = D(t.capacity, walk)
  <2> HIDE DEF D
  <2> QED BY <1>4, Zenon
<1> HIDE DEF walk
<1>7. \A n \in 0 .. t.capacity : \A i \in -1 .. t.capacity :
        walk[n][i] = IF i \in stops \cup {0} THEN i
                     ELSE IF i = -1 \/ n = 0 THEN NoAnswer
                     ELSE walk[n - 1][t.entries[i].next]
  <2>1. \A n \in 0 .. t.capacity : walk[n] = R(n, walk[n - 1])
    BY <1>6
  <2> TAKE n \in 0 .. t.capacity
  <2> TAKE i \in -1 .. t.capacity
  <2>2. walk[n] = R(n, walk[n - 1])
    BY <2>1
  <2> QED BY <2>2
<1> QED BY <1>5, <1>7

-----------------------------------------------------------------------------
(* Chains *)

Size(t) == Cardinality(DOMAIN t.buckets)

Slot(capacity) ==
  [next : -1 .. capacity, hash : Nat, key : Key \cup {NoKey}, value : Value \cup {NoKey}]

Shape(t) ==
  /\ DOMAIN t = {"length", "capacity", "buckets", "entries", "broken"}
  /\ t.length \in Nat /\ t.capacity \in Nat
  /\ Size(t) \in Nat \ {0} /\ t.buckets \in [0 .. Size(t) - 1 -> 0 .. t.capacity]
  /\ t.entries \in [1 .. t.capacity -> Slot(t.capacity)]

\* The handle j, found behind i, is the next of the chain; any other handle ends it.
Leads(chain, i, j) ==
  IF j \in chain THEN i < j /\ \A m \in chain : i < m => j <= m
  ELSE \A m \in chain : m <= i

\* The entries of the chain are linked in order, from the first handle on.
Linked(t, chain, first) ==
  /\ chain \subseteq 1 .. t.capacity
  /\ Leads(chain, 0, first)
  /\ \A i \in chain : Leads(chain, i, t.entries[i].next)

\* No handle of the chain is one of an entry taken out.
Sealed(t, chain, first) == {first} \cup {t.entries[i].next : i \in chain} \subseteq chain \cup {0}

\* A walk along a chain reaches the first entry it is to stop at.
LEMMA WalkFinds ==
  ASSUME NEW t, Shape(t), NEW chain, NEW first, Linked(t, chain, first),
         NEW stops, NEW m \in chain \cap stops, \A i \in chain \cap stops : m <= i
  PROVE  Walk(t, stops)[first] = m
<1> DEFINE c == t.capacity
<1>1. c \in Nat /\ (\A i \in 1 .. c : t.entries[i].next \in -1 .. c)
  BY DEF Shape, Slot
<1>2. PICK w : /\ Walk(t, stops) = w[c]
               /\ \A n \in 0 .. c : \A i \in -1 .. c :
                    w[n][i] = IF i \in stops \cup {0} THEN i
                              ELSE IF i = -1 \/ n = 0 THEN NoAnswer
                              ELSE w[n - 1][t.entries[i].next]
  BY <1>1, WalkSteps
<1> DEFINE S == {n \in Nat : n <= c => \A i \in chain : i <= m /\ m - i <= n => w[n][i] = m}
<1>3. chain \subseteq 1 .. c
  BY DEF Linked
<1>4. 0 \in S
  <2>1. \A i \in chain : i <= m /\ m - i <= 0 => i = m
    BY <1>3, <1>1
  <2>2. w[0][m] = m
    BY <1>1, <1>2, <1>3
  <2> QED BY <2>1, <2>2
<1>5. ASSUME NEW n \in Nat, n \in S PROVE n + 1 \in S
  <2> SUFFICES ASSUME n + 1 <= c, NEW i \in chain, i <= m, m - i <= n + 1
               PROVE  w[n + 1][i] = m
    OBVIOUS
  <2> i \in 1 .. c /\ m \in 1 .. c /\ n + 1 \in 0 .. c /\ n + 1 - 1 = n /\ n + 1 # 0 /\ n <= c
    BY <1>1, <1>3
  <2>1. CASE i = m
    BY <2>1, <1>2, <1>3
  <2>2. CASE i # m
    <3> DEFINE j == t.entries[i].next
    <3>1. i < m /\ i \notin stops
      BY <2>2, <1>3
    <3>2. j \in chain /\ i < j /\ j <= m
      BY <3>1, <1>3 DEF Linked, Leads
    <3>3. w[n + 1][i] = w[n][j]
      BY <3>1, <1>1, <1>2
    <3>4. m - j <= n
      <4>1. j \in 1 .. c
        BY <3>2, <1>3
      <4> QED BY <4>1, <3>2, <1>1
    <3>5. w[n][j] = m
      BY <3>2, <3>4, <1>5
    <3> QED BY <3>3, <3>5
  <2> QED BY <2>1, <2>2
<1>6. c \in S
  <2> HIDE DEF S
  <2> QED BY <1>1, <1>4, <1>5, SetInduction
<1>7. first \in chain /\ first <= m
  BY <1>3 DEF Linked, Leads
<1>8. m - first <= c
  BY <1>1, <1>3, <1>7
<1>9. w[c][first] = m
  BY <1>1, <1>6, <1>7, <1>8
<1> QED BY <1>2, <1>9

\* A walk along a closed chain ends, in an entry it is to stop at or behind the last one.
LEMMA WalkEnds ==
  ASSUME NEW t, Shape(t), NEW chain, NEW first, Linked(t, chain, first),
         Sealed(t, chain, first), first # 0, NEW stops
  PROVE  \/ Walk(t, stops)[first] \in chain \cap stops
         \/ /\ Walk(t, stops)[first] = 0
            /\ \E i \in chain \ stops : t.entries[i].next = 0
<1> DEFINE c == t.capacity
           Ends(j) == \/ j \in chain \cap stops
                      \/ j = 0 /\ \E i \in chain \ stops : t.entries[i].next = 0
<1>1. c \in Nat /\ (\A i \in 1 .. c : t.entries[i].next \in -1 .. c)
  BY DEF Shape, Slot
<1>2. PICK w : /\ Walk(t, stops) = w[c]
               /\ \A n \in 0 .. c : \A i \in -1 .. c :
                    w[n][i] = IF i \in stops \cup {0} THEN i
                              ELSE IF i = -1 \/ n = 0 THEN NoAnswer
                              ELSE w[n - 1][t.entries[i].next]
  BY <1>1, WalkSteps
<1> DEFINE S == {n \in Nat : n <= c => \A i \in chain : c - i < n => Ends(w[n][i])}
<1>3. chain \subseteq 1 .. c
  BY DEF Linked
<1>4. 0 \in S
  <2>1. \A i \in chain : ~(c - i < 0)
    BY <1>1, <1>3
  <2> HIDE DEF Ends, c
  <2> QED BY <2>1
<1>5. ASSUME NEW n \in Nat, n \in S PROVE n + 1 \in S
  <2> SUFFICES ASSUME n + 1 <= c, NEW i \in chain, c - i < n + 1
               PROVE  Ends(w[n + 1][i])
    OBVIOUS
  <2> i \in 1 .. c /\ n + 1 \in 0 .. c /\ n \in 0 .. c /\ n + 1 - 1 = n /\ n + 1 # 0
    BY <1>1, <1>3
  <2>1. CASE i \in stops
    BY <2>1, <1>2, <1>3
  <2>2. CASE i \notin stops
    <3> DEFINE j == t.entries[i].next
    <3>1. w[n + 1][i] = w[n][j]
      BY <2>2, <1>2, <1>3
    <3>2. CASE j = 0
      BY <2>2, <3>1, <3>2, <1>1, <1>2
    <3>3. CASE j \in chain
      <4>1. i < j
        BY <3>3 DEF Linked, Leads
      <4>2. j \in 1 .. c
        BY <3>3, <1>3
      <4>3. c - j < n
        BY <4>1, <4>2, <1>1
      <4>4. Ends(w[n][j])
        <5>1. \A x \in chain : c - x < n => Ends(w[n][x])
          BY <1>1, <1>5
        <5> HIDE DEF Ends, j
        <5> QED BY <3>3, <4>3, <5>1
      <4> QED BY <3>1, <4>4
    <3> QED BY <3>2, <3>3 DEF Sealed
  <2> QED BY <2>1, <2>2
<1>6. c \in S
  <2> HIDE DEF S
  <2> QED BY <1>1, <1>4, <1>5, SetInduction
<1>7. first \in chain
  BY DEF Sealed
<1>8. Ends(w[c][first])
  <2>1. c - first < c /\ c <= c
    BY <1>1, <1>3, <1>7
  <2> HIDE DEF Ends, c
  <2> QED BY <1>6, <1>7, <2>1
<1> QED BY <1>2, <1>8

-----------------------------------------------------------------------------
(* Sound tables *)

Bucket(t, i)  == t.entries[i].hash % Size(t)
Chain(t, b)   == {i \in Live(t) : Bucket(t, i) = b}
Pair(t, i)    == <<t.entries[i].key, t.entries[i].value>>
Lacks(t, k)   == \A i \in Live(t) : KeyAt(t, i) # k

\* A handle can be one of an entry taken out, but not one of another chain.
Threaded(t) ==
  \A b \in DOMAIN t.buckets :
    /\ Linked(t, Chain(t, b), t.buckets[b])
    /\ \A i \in Chain(t, b) : t.entries[i].next \in Live(t) => t.entries[i].next \in Chain(t, b)

Owned(t) ==
  /\ \A i \in Live(t) : KeyAt(t, i) \in Key /\ t.entries[i].hash = Hash[KeyAt(t, i)]
  /\ \A i, j \in Live(t) : KeyAt(t, i) = KeyAt(t, j) => i = j

Sound(t) == Shape(t) /\ ~t.broken /\ Threaded(t) /\ Owned(t)

\* Nothing was taken out: the entries in use are the first ones.
Compact(t) ==
  /\ Live(t) = 1 .. t.length
  /\ \A b \in DOMAIN t.buckets : Sealed(t, Chain(t, b), t.buckets[b])

\* The bucket of a key is one of the table.
LEMMA BucketRange ==
  ASSUME NEW t, Shape(t), NEW k \in Key
  PROVE  BucketOf(t, k) \in DOMAIN t.buckets
<1>1. Hash[k] \in Nat /\ Size(t) \in Nat \ {0} /\ DOMAIN t.buckets = 0 .. Size(t) - 1
  BY HashAssumption DEF Shape
<1>2. \A h \in Nat : \A n \in Nat \ {0} : h % n \in 0 .. n - 1
  OBVIOUS
<1> QED BY <1>1, <1>2 DEF BucketOf, Size

\* An element in use is in the bucket of its key.
LEMMA OwnBucket ==
  ASSUME NEW t, Sound(t), NEW i \in Live(t)
  PROVE  Bucket(t, i) = BucketOf(t, KeyAt(t, i))
BY DEF Sound, Owned, Bucket, BucketOf, Size

\* A key that is there is found, whatever was taken out.
LEMMA LookupPresent ==
  ASSUME NEW t, Sound(t), NEW m \in Live(t)
  PROVE  Lookup(t, KeyAt(t, m)) = m
<1> DEFINE k     == KeyAt(t, m)
           b     == BucketOf(t, k)
           head  == t.buckets[b]
           chain == Chain(t, b)
           stops == {i \in DOMAIN t.entries : Matches(t, i, k)}
<1>1. k \in Key
  BY DEF Sound, Owned
<1>2. b \in DOMAIN t.buckets
  BY <1>1, BucketRange DEF Sound
<1>3. Linked(t, chain, head)
  BY <1>2 DEF Sound, Threaded
<1>4. m \in chain
  BY OwnBucket DEF Chain
<1>5. head \in chain /\ head # 0 /\ ~IsNull(t.entries[head])
  <2>1. chain \subseteq 1 .. t.capacity
    BY <1>3 DEF Linked
  <2>2. m > 0
    BY <2>1, <1>4 DEF Sound, Shape
  <2>3. head \in chain
    BY <1>3, <1>4, <2>2, <2>1 DEF Linked, Leads, Sound, Shape
  <2> QED BY <2>1, <2>3 DEF Chain, Live
<1>6. chain \cap stops = {m}
  <2>1. m \in stops
    BY DEF Live, Matches, Sound, Owned, KeyAt
  <2>2. \A i \in chain \cap stops : i = m
    BY DEF Chain, Matches, Sound, Owned, KeyAt
  <2> QED BY <2>1, <2>2, <1>4
<1>7. Walk(t, stops)[head] = m
  <2>1. m <= m
    BY <1>4, <1>3 DEF Linked, Sound, Shape
  <2>2. \A i \in chain \cap stops : m <= i
    BY <1>6, <2>1
  <2> HIDE DEF chain, stops, head
  <2> QED BY <1>3, <1>6, <2>2, WalkFinds DEF Sound
<1> QED BY <1>5, <1>7 DEF Lookup

\* As long as nothing was taken out, a key that is not there is not found.
LEMMA LookupAbsent ==
  ASSUME NEW t, Sound(t), Compact(t), NEW k \in Key, Lacks(t, k)
  PROVE  Lookup(t, k) = NotFound
<1> DEFINE b     == BucketOf(t, k)
           head  == t.buckets[b]
           chain == Chain(t, b)
           stops == {i \in DOMAIN t.entries : Matches(t, i, k)}
<1>1. b \in DOMAIN t.buckets
  BY BucketRange DEF Sound
<1>2. Linked(t, chain, head) /\ Sealed(t, chain, head)
  BY <1>1 DEF Sound, Threaded, Compact
<1>3. chain \cap stops = {}
  BY DEF Chain, Matches, Lacks, KeyAt
<1>4. ASSUME head # 0 PROVE Walk(t, stops)[head] = 0
  <2> HIDE DEF chain, stops, head
  <2> QED BY <1>2, <1>3, <1>4, WalkEnds DEF Sound
<1> QED BY <1>4 DEF Lookup, NotFound

-----------------------------------------------------------------------------
(* Insertion *)

\* u is t with an entry more, which holds k and v.
Added(u, t, k, v) ==
  /\ Sound(u) /\ Compact(u)
  /\ u.length = t.length + 1 /\ u.capacity = t.capacity
  /\ KeyAt(u, u.length) = k /\ u.entries[u.length].value = v
  /\ \A i \in 1 .. t.capacity \ {u.length} : Pair(u, i) = Pair(t, i)

\* The entries are what they were, but for the new one, and its chain is linked.
LEMMA Grown ==
  ASSUME NEW t, Sound(t), Compact(t), t.length < t.capacity,
         NEW k \in Key, NEW v, Lacks(t, k),
         NEW u, Shape(u), ~u.broken, Size(u) = Size(t), u.capacity = t.capacity,
         u.length = t.length + 1,
         u.entries[u.length].key = k, u.entries[u.length].value = v,
         u.entries[u.length].hash = Hash[k], u.entries[u.length].next = 0,
         \A i \in 1 .. t.capacity \ {u.length} :
           /\ Pair(u, i) = Pair(t, i) /\ u.entries[i].hash = t.entries[i].hash
           /\ IsNull(u.entries[i]) <=> IsNull(t.entries[i]),
         NEW b, b = BucketOf(t, k),
         \A c \in DOMAIN t.buckets \ {b} :
           /\ u.buckets[c] = t.buckets[c]
           /\ \A i \in Chain(t, c) : u.entries[i].next = t.entries[i].next,
         Linked(u, Chain(t, b) \cup {u.length}, u.buckets[b]),
         Sealed(u, Chain(t, b) \cup {u.length}, u.buckets[b])
  PROVE  Added(u, t, k, v)
<1> DEFINE loc == u.length
<1>1. Live(t) = 1 .. t.length /\ t.length \in Nat /\ t.capacity \in Nat
      /\ DOMAIN t.entries = 1 .. t.capacity /\ DOMAIN u.entries = 1 .. t.capacity
  BY DEF Compact, Sound, Shape
<1>2. Live(u) = 1 .. loc /\ Live(u) = Live(t) \cup {loc} /\ loc \notin Live(t)
  <2>1. \A i \in 1 .. t.capacity \ {loc} : i \in Live(u) <=> i \in Live(t)
    BY <1>1 DEF Live
  <2>2. loc \in Live(u)
    BY <1>1 DEF Live, IsNull
  <2>3. Live(u) \subseteq 1 .. t.capacity
    BY <1>1 DEF Live
  <2>4. loc \in 1 .. t.capacity /\ loc \notin 1 .. t.length /\ 1 .. loc = 1 .. t.length \cup {loc}
    BY <1>1
  <2>5. Live(u) = Live(t) \cup {loc}
    <3> HIDE DEF loc
    <3>1. Live(t) \subseteq 1 .. t.capacity
      BY <1>1
    <3> QED BY <2>1, <2>2, <2>3, <2>4, <3>1
  <2> HIDE DEF loc
  <2> QED BY <1>1, <2>4, <2>5
<1>3. \A i \in Live(t) : /\ KeyAt(u, i) = KeyAt(t, i) /\ u.entries[i].hash = t.entries[i].hash
                         /\ Bucket(u, i) = Bucket(t, i)
  BY <1>1 DEF Pair, KeyAt, Bucket
<1>4. Bucket(u, loc) = b
  BY DEF Bucket, BucketOf, Size
<1>5. Chain(u, b) = Chain(t, b) \cup {loc}
  BY <1>2, <1>3, <1>4 DEF Chain
<1>6. \A c : c # b => Chain(u, c) = Chain(t, c)
  BY <1>2, <1>3, <1>4 DEF Chain
<1>7. DOMAIN u.buckets = DOMAIN t.buckets
  BY DEF Sound, Shape
<1>8. ASSUME NEW c \in DOMAIN t.buckets
      PROVE  Linked(u, Chain(u, c), u.buckets[c]) /\ Sealed(u, Chain(u, c), u.buckets[c])
  <2>1. CASE c = b
    BY <2>1, <1>5
  <2>2. CASE c # b
    <3>1. Linked(t, Chain(t, c), t.buckets[c]) /\ Sealed(t, Chain(t, c), t.buckets[c])
      BY DEF Sound, Threaded, Compact
    <3>2. u.buckets[c] = t.buckets[c] /\ \A i \in Chain(t, c) : u.entries[i].next = t.entries[i].next
      BY <2>2
    <3>3. Chain(u, c) = Chain(t, c)
      BY <2>2, <1>6
    <3> QED BY <3>1, <3>2, <3>3 DEF Linked, Sealed
  <2> QED BY <2>1, <2>2
<1>9. Owned(u)
  BY <1>2, <1>3 DEF Owned, Lacks, KeyAt, Sound
<1>10. Sound(u) /\ Compact(u)
  <2>1. 0 \notin Live(u)
    BY <1>1, <1>2
  <2> QED BY <1>2, <1>7, <1>8, <1>9, <2>1 DEF Sound, Threaded, Compact, Sealed
<1> QED BY <1>10 DEF Added, KeyAt

\* An element is written behind the others and linked from the last one of its chain.
LEMMA PlaceAdds ==
  ASSUME NEW t, Sound(t), Compact(t), t.length < t.capacity,
         NEW k \in Key, NEW v \in Value \cup {NoKey}, Lacks(t, k)
  PROVE  Added(Place(t, k, v), t, k, v)
<1> DEFINE loc   == t.length + 1
           b     == BucketOf(t, k)
           wrote == [t EXCEPT !.length = loc,
                       !.entries[loc] = [next |-> 0, hash |-> Hash[k], key |-> k, value |-> v]]
           chain == Chain(t, b)
           head  == t.buckets[b]
           last  == Tail(wrote, head)
           u     == Place(t, k, v)
<1>1. /\ t.length \in Nat /\ t.capacity \in Nat /\ loc \in 1 .. t.capacity
      /\ Live(t) = 1 .. t.length /\ loc \notin Live(t) /\ Hash[k] \in Nat
      /\ DOMAIN t.entries = 1 .. t.capacity
  BY HashAssumption DEF Compact, Sound, Shape
<1>2. b \in DOMAIN t.buckets
  BY BucketRange DEF Sound
<1>3. Linked(t, chain, head) /\ Sealed(t, chain, head) /\ chain \subseteq Live(t)
  BY <1>2 DEF Sound, Threaded, Compact, Chain
<1>4. /\ Shape(wrote) /\ ~wrote.broken /\ wrote.buckets = t.buckets
      /\ wrote.length = loc /\ wrote.capacity = t.capacity
      /\ wrote.entries[loc] = [next |-> 0, hash |-> Hash[k], key |-> k, value |-> v]
      /\ \A i \in 1 .. t.capacity \ {loc} : wrote.entries[i] = t.entries[i]
  <2> DEFINE new == [next |-> 0, hash |-> Hash[k], key |-> k, value |-> v]
  <2>1. new \in Slot(t.capacity)
    BY <1>1 DEF Slot
  <2> HIDE DEF new
  <2>2. /\ wrote.broken = t.broken /\ wrote.buckets = t.buckets /\ DOMAIN wrote = DOMAIN t
        /\ wrote.length = loc /\ wrote.capacity = t.capacity
        /\ wrote.entries = [t.entries EXCEPT ![loc] = new]
    BY DEF Sound, Shape, new
  <2>3. Shape(wrote)
    BY <1>1, <2>1, <2>2 DEF Shape, Sound, Size
  <2> QED BY <1>1, <2>2, <2>3 DEF new, Sound
<1>5. head \in chain \cup {0} /\ head # loc
  BY <1>1, <1>3 DEF Sealed
<1>6. u = IF head = 0 THEN [wrote EXCEPT !.buckets[b] = loc]
          ELSE IF head = loc THEN wrote
          ELSE IF last = NoAnswer THEN [wrote EXCEPT !.broken = TRUE]
          ELSE [wrote EXCEPT !.entries[last].next = loc]
  BY <1>4 DEF Place
<1> HIDE DEF wrote, head, last, u
<1>7. CASE head = 0
  <2>1. u = [wrote EXCEPT !.buckets[b] = loc]
    BY <1>6, <1>7
  <2>2. /\ Shape(u) /\ ~u.broken /\ u.length = loc /\ u.capacity = t.capacity
        /\ u.entries = wrote.entries /\ Size(u) = Size(t)
        /\ u.buckets[b] = loc /\ \A c \in DOMAIN t.buckets \ {b} : u.buckets[c] = t.buckets[c]
    BY <1>1, <1>2, <1>4, <2>1 DEF Shape, Size
  <2>3. chain = {}
    BY <1>1, <1>3, <1>7 DEF Linked, Leads
  <2>4. Linked(u, chain \cup {loc}, loc) /\ Sealed(u, chain \cup {loc}, loc)
    BY <1>1, <1>4, <2>2, <2>3 DEF Linked, Sealed, Leads
  <2>5. \A i \in 1 .. t.capacity \ {loc} :
          /\ Pair(u, i) = Pair(t, i) /\ u.entries[i].hash = t.entries[i].hash
          /\ IsNull(u.entries[i]) <=> IsNull(t.entries[i])
    BY <1>4, <2>2 DEF Pair
  <2>6. \A c \in DOMAIN t.buckets \ {b} :
          /\ u.buckets[c] = t.buckets[c]
          /\ \A i \in Chain(t, c) : u.entries[i].next = t.entries[i].next
    BY <1>1, <1>4, <2>2 DEF Chain
  <2>7. /\ u.entries[u.length].key = k /\ u.entries[u.length].value = v
        /\ u.entries[u.length].hash = Hash[k] /\ u.entries[u.length].next = 0
    BY <1>4, <2>2
  <2>8. /\ \A i \in 1 .. t.capacity \ {u.length} :
             /\ Pair(u, i) = Pair(t, i) /\ u.entries[i].hash = t.entries[i].hash
             /\ IsNull(u.entries[i]) <=> IsNull(t.entries[i])
        /\ Linked(u, chain \cup {u.length}, u.buckets[b])
        /\ Sealed(u, chain \cup {u.length}, u.buckets[b])
        /\ u.length = t.length + 1
    BY <2>2, <2>4, <2>5
  <2> HIDE DEF loc, b
  <2>9. Added(u, t, k, v)
    BY <2>2, <2>6, <2>7, <2>8, Grown DEF b
  <2> QED BY <2>9 DEF u
<1>8. CASE head # 0
  <2>1. last \in chain /\ wrote.entries[last].next = 0
    <3> DEFINE stops == {i \in DOMAIN wrote.entries : wrote.entries[i].next = 0}
    <3>1. \A i \in chain : wrote.entries[i].next = t.entries[i].next
      BY <1>1, <1>3, <1>4
    <3>2. Linked(wrote, chain, head) /\ Sealed(wrote, chain, head)
      BY <1>3, <1>4, <3>1 DEF Linked, Sealed
    <3>3. \A i \in chain : wrote.entries[i].next = 0 => i \in stops
      BY <1>1, <1>3, <1>4 DEF Shape
    <3>4. last = Walk(wrote, stops)[head]
      BY DEF last, Tail
    <3>5. last \in chain \cap stops
      <4> HIDE DEF stops, chain
      <4> QED BY <1>4, <1>8, <3>2, <3>3, <3>4, WalkEnds
    <3> QED BY <3>5
  <2>2. u = [wrote EXCEPT !.entries[last].next = loc] /\ last \in 1 .. t.capacity \ {loc}
    <3>1. last # NoAnswer /\ last \in 1 .. t.capacity \ {loc}
      BY <1>1, <1>3, <2>1 DEF NoAnswer
    <3> QED BY <3>1, <1>5, <1>6, <1>8
  <2>3. /\ u.broken = wrote.broken /\ u.buckets = t.buckets /\ DOMAIN u = DOMAIN wrote
        /\ u.length = loc /\ u.capacity = t.capacity /\ Size(u) = Size(t)
        /\ u.entries = [wrote.entries EXCEPT ![last] = [wrote.entries[last] EXCEPT !.next = loc]]
    BY <1>4, <2>2 DEF Shape, Size
  <2>4. /\ wrote.entries[last] \in Slot(t.capacity)
        /\ [wrote.entries[last] EXCEPT !.next = loc] \in Slot(t.capacity)
    <3>1. wrote.entries[last] \in Slot(t.capacity)
      BY <1>4, <2>2 DEF Shape
    <3>2. loc \in -1 .. t.capacity
      BY <1>1
    <3> HIDE DEF loc
    <3> QED BY <3>1, <3>2 DEF Slot
  <2>5. Shape(u) /\ ~u.broken
    <3>1. u.entries \in [1 .. t.capacity -> Slot(t.capacity)]
      BY <1>4, <2>3, <2>4 DEF Shape
    <3>2. Shape(wrote) /\ wrote.capacity = t.capacity /\ wrote.buckets = t.buckets /\ ~wrote.broken
      BY <1>4
    <3> QED BY <3>1, <3>2, <1>1, <2>3 DEF Shape, Size
  <2>6. /\ \A i \in 1 .. t.capacity \ {last} : u.entries[i] = wrote.entries[i]
        /\ u.entries[last] = [wrote.entries[last] EXCEPT !.next = loc]
    BY <1>4, <2>2, <2>3 DEF Shape
  <2>7. /\ u.entries[last].next = loc /\ u.entries[last].hash = t.entries[last].hash
        /\ u.entries[last].key = t.entries[last].key /\ u.entries[last].value = t.entries[last].value
    BY <1>4, <2>2, <2>4, <2>6 DEF Slot
  <2>8. \A i \in 1 .. t.capacity \ {loc} :
          /\ Pair(u, i) = Pair(t, i) /\ u.entries[i].hash = t.entries[i].hash
          /\ IsNull(u.entries[i]) <=> IsNull(t.entries[i])
    <3> TAKE i \in 1 .. t.capacity \ {loc}
    <3>1. CASE i = last
      <4>1. ~IsNull(t.entries[last])
        BY <1>3, <2>1 DEF Live
      <4> QED BY <1>1, <3>1, <2>7, <4>1 DEF Pair, IsNull
    <3>2. CASE i # last
      BY <1>4, <2>6, <3>2 DEF Pair
    <3> QED BY <3>1, <3>2
  <2>9. \A c \in DOMAIN t.buckets \ {b} :
          /\ u.buckets[c] = t.buckets[c]
          /\ \A i \in Chain(t, c) : u.entries[i].next = t.entries[i].next
    <3>1. \A c : c # b => last \notin Chain(t, c)
      BY <2>1 DEF Chain
    <3> QED BY <1>1, <1>4, <2>3, <2>6, <3>1 DEF Chain
  <2>10. /\ u.entries[u.length].key = k /\ u.entries[u.length].value = v
         /\ u.entries[u.length].hash = Hash[k] /\ u.entries[u.length].next = 0
    BY <1>1, <1>4, <2>2, <2>3, <2>6
  <2>11. /\ Linked(u, chain \cup {loc}, u.buckets[b]) /\ Sealed(u, chain \cup {loc}, u.buckets[b])
    <3>1. /\ \A i \in chain \ {last} : u.entries[i].next = t.entries[i].next
          /\ u.entries[last].next = loc /\ u.entries[loc].next = 0 /\ u.buckets[b] = head
      BY <1>1, <1>3, <1>4, <2>3, <2>6, <2>7, <2>10 DEF head
    <3>2. /\ chain \subseteq 1 .. t.length /\ 0 \notin chain /\ loc \notin chain /\ head \in chain
          /\ \A i \in chain : i < loc
      BY <1>1, <1>3, <1>5, <1>8
    <3>3. t.entries[last].next = 0
      BY <1>4, <2>1, <2>2
    <3>4. \A i \in chain : i <= last
      BY <1>3, <2>1, <3>2, <3>3 DEF Linked, Leads
    <3>5. \A i \in chain \ {last} : t.entries[i].next \in chain
      <4> SUFFICES ASSUME NEW i \in chain \ {last}, t.entries[i].next \notin chain
                   PROVE  FALSE
        OBVIOUS
      <4>1. \A m \in chain : m <= i
        BY <1>3 DEF Linked, Leads
      <4> QED BY <1>1, <2>1, <3>2, <3>4, <4>1
    <3>6. Leads(chain \cup {loc}, 0, head)
      BY <1>1, <1>3, <3>2 DEF Linked, Leads
    <3>7. \A i \in chain \cup {loc} : Leads(chain \cup {loc}, i, u.entries[i].next)
      <4> TAKE i \in chain \cup {loc}
      <4> HIDE DEF chain
      <4>1. CASE i = loc
        BY <1>1, <3>1, <3>2, <4>1 DEF Leads
      <4>2. CASE i = last
        BY <1>1, <2>1, <3>1, <3>2, <3>4, <4>2 DEF Leads
      <4>3. CASE i \in chain \ {last}
        <5>1. Leads(chain, i, t.entries[i].next) /\ t.entries[i].next \in chain
          BY <1>3, <3>5, <4>3 DEF Linked
        <5>2. u.entries[i].next = t.entries[i].next
          BY <3>1, <4>3
        <5>3. \A m \in chain : m \in Int /\ m < loc /\ m # loc
          BY <1>1, <3>2
        <5>4. \A m \in chain : m <= loc
          BY <1>1, <5>3
        <5> HIDE DEF loc
        <5> QED BY <4>3, <5>1, <5>2, <5>3, <5>4 DEF Leads
      <4> QED BY <4>1, <4>2, <4>3
    <3>8. \A i \in chain \cup {loc} : u.entries[i].next \in chain \cup {loc, 0}
      BY <2>1, <3>1, <3>5
    <3>9. chain \cup {loc} \subseteq 1 .. u.capacity
      BY <1>1, <1>3, <2>3 DEF Linked
    <3> HIDE DEF chain, loc
    <3>10. Linked(u, chain \cup {loc}, u.buckets[b])
      BY <3>1, <3>6, <3>7, <3>9 DEF Linked
    <3>11. Sealed(u, chain \cup {loc}, u.buckets[b])
      BY <3>1, <3>2, <3>8 DEF Sealed
    <3> QED BY <3>10, <3>11
  <2>12. /\ \A i \in 1 .. t.capacity \ {u.length} :
             /\ Pair(u, i) = Pair(t, i) /\ u.entries[i].hash = t.entries[i].hash
             /\ IsNull(u.entries[i]) <=> IsNull(t.entries[i])
        /\ Linked(u, chain \cup {u.length}, u.buckets[b])
        /\ Sealed(u, chain \cup {u.length}, u.buckets[b])
        /\ u.length = t.length + 1
    BY <2>3, <2>8, <2>11
  <2> HIDE DEF loc, b
  <2>13. Added(u, t, k, v)
    BY <2>3, <2>5, <2>9, <2>10, <2>12, Grown DEF b
  <2> QED BY <2>13 DEF u
<1> QED BY <1>7, <1>8

-----------------------------------------------------------------------------
(* Growth *)

\* next_prime returns a number of buckets, by Bertrand's postulate.
LEMMA PrimeIsPositive ==
  ASSUME NEW n \in 1 .. Larger(MinBuckets, Capacity)
  PROVE  NextPrime(n) \in Nat \ {0}
<1> DEFINE P == {p \in n + 1 .. 2 * n : IsPrime(p)}
<1>1. n \in Nat \ {0}
  BY PrimeAssumption DEF Larger, MinBuckets
<1>2. P # {} /\ P \subseteq Nat
  BY <1>1, PrimeAssumption
<1>3. PICK p \in P : \A q \in P : ~(<<q, p>> \in OpToRel(<, Nat))
  <2> HIDE DEF P
  <2>1. \E p \in P : \A q \in P : ~(<<q, p>> \in OpToRel(<, Nat))
    BY <1>2, NatLessThanWellFounded, WFMin, Zenon
  <2> QED BY <2>1, Zenon
<1>4. \A q \in Nat : q < p => <<q, p>> \in OpToRel(<, Nat)
  <2>1. p \in Nat
    BY <1>2
  <2> QED BY <2>1, Zenon DEF OpToRel
<1>5. \A q \in n + 1 .. p - 1 : ~IsPrime(q)
  <2> SUFFICES ASSUME NEW q \in n + 1 .. p - 1, IsPrime(q) PROVE FALSE
    OBVIOUS
  <2>1. p \in n + 1 .. 2 * n
    OBVIOUS
  <2>2. q \in n + 1 .. 2 * n /\ q \in Nat /\ q < p
    BY <1>1, <2>1
  <2>3. q \in P
    BY <2>2
  <2> QED BY <1>3, <1>4, <2>2, <2>3
<1>6. \E x \in n + 1 .. 2 * n : IsPrime(x) /\ \A q \in n + 1 .. x - 1 : ~IsPrime(q)
  BY <1>5
<1>7. NextPrime(n) = CHOOSE x \in n + 1 .. 2 * n : IsPrime(x) /\ \A q \in n + 1 .. x - 1 : ~IsPrime(q)
  BY <1>1 DEF NextPrime
<1>8. NextPrime(n) \in n + 1 .. 2 * n
  BY <1>6, <1>7
<1> QED BY <1>1, <1>8

\* A new table of any capacity, with these entries, all of them unused.
LEMMA NewTable ==
  ASSUME NEW t, NEW N \in Nat \ {0},
         DOMAIN t = {"length", "capacity", "buckets", "entries", "broken"},
         t.length = 0, t.capacity \in Nat, ~t.broken,
         t.buckets = [b \in 0 .. N - 1 |-> 0],
         t.entries \in [1 .. t.capacity -> Slot(t.capacity)],
         \A i \in 1 .. t.capacity : t.entries[i].next = -1
  PROVE  Sound(t) /\ Compact(t) /\ Live(t) = {}
<1>1. Size(t) = N
  BY FS_Interval DEF Size
<1>2. Shape(t)
  BY <1>1 DEF Shape
<1>3. Live(t) = {} /\ \A b : Chain(t, b) = {}
  BY DEF Live, IsNull, Chain
<1>4. \A b \in DOMAIN t.buckets : t.buckets[b] = 0
  OBVIOUS
<1>5. Threaded(t)
  BY <1>3, <1>4 DEF Threaded, Linked, Leads
<1>6. Compact(t)
  BY <1>3, <1>4 DEF Compact, Sealed
<1> QED BY <1>2, <1>3, <1>5, <1>6 DEF Sound, Owned

\* The new arrays have room for more than was there, and keep the elements unused.
LEMMA EnlargedSound ==
  ASSUME NEW t, Sound(t), t.length = t.capacity, 2 * t.capacity <= Capacity
  PROVE  LET e == Enlarged(t) IN
           /\ Sound(e) /\ Compact(e)
           /\ e.length = 0 /\ e.capacity \in Nat /\ e.capacity > t.length
           /\ \A i \in 1 .. t.length : Pair(e, i) = Pair(t, i)
<1> DEFINE e == Enlarged(t)
           capacity == Larger(Larger(MinCapacity, 2 * t.capacity), t.length)
           old(i)   == [t.entries[i] EXCEPT !.next = -1]
           N        == NextPrime(Larger(MinBuckets, capacity))
<1>1. t.length \in Nat /\ t.entries \in [1 .. t.length -> Slot(t.length)] /\ Capacity \in Nat
  BY PrimeAssumption DEF Sound, Shape
<1>2. capacity \in Nat /\ capacity > t.length
      /\ Larger(MinBuckets, capacity) \in 1 .. Larger(MinBuckets, Capacity)
  BY <1>1 DEF Larger, MinBuckets, MinCapacity
<1>3. N \in Nat \ {0}
  BY <1>2, PrimeIsPositive
<1>4. Unused \in Slot(capacity) /\ Unused.next = -1
  BY <1>2 DEF Unused, Slot
<1>5. ASSUME NEW i \in 1 .. t.length
      PROVE  /\ old(i) \in Slot(capacity) /\ old(i).next = -1
             /\ old(i).key = t.entries[i].key /\ old(i).value = t.entries[i].value
  <2>1. t.entries[i] \in Slot(t.length)
    BY <1>1
  <2>2. old(i) \in [next : {-1}, hash : Nat, key : Key \cup {NoKey}, value : Value \cup {NoKey}]
    BY <2>1 DEF Slot
  <2>3. \A c \in Nat : -1 \in -1 .. c
    OBVIOUS
  <2> HIDE DEF capacity
  <2> QED BY <1>2, <2>1, <2>2, <2>3 DEF Slot
<1> DEFINE entries == [i \in 1 .. capacity |-> IF i <= t.length THEN old(i) ELSE Unused]
<1>6. e = [length |-> 0, capacity |-> capacity, buckets |-> [b \in 0 .. N - 1 |-> 0],
           entries |-> entries, broken |-> t.broken]
  BY DEF Enlarged
<1>7. /\ entries \in [1 .. capacity -> Slot(capacity)]
      /\ \A i \in 1 .. capacity : entries[i].next = -1
      /\ \A i \in 1 .. t.length : entries[i] = old(i)
  <2> HIDE DEF old, capacity
  <2> QED BY <1>1, <1>2, <1>4, <1>5
<1>8. \A i \in 1 .. t.length : Pair(e, i) = Pair(t, i)
  <2> HIDE DEF entries, old, capacity, N
  <2> QED BY <1>5, <1>6, <1>7 DEF Pair
<1>9. Sound(e) /\ Compact(e)
  <2> HIDE DEF entries, capacity, N, e
  <2>1. ~e.broken
    BY <1>6 DEF Sound
  <2> QED BY <1>2, <1>3, <1>6, <1>7, <2>1, NewTable
<1>10. e.length = 0 /\ e.capacity \in Nat /\ e.capacity > t.length
  <2> HIDE DEF entries, capacity, N, e
  <2> QED BY <1>2, <1>6
<1> QED BY <1>8, <1>9, <1>10

\* A growth inserts one entry at a time.
LEMMA RefillSteps ==
  ASSUME NEW t, NEW n \in Nat
  PROVE  \E a : /\ Refilled(t, n) = a[n]
                /\ \A m \in 0 .. n :
                     a[m] = IF m = 0 THEN Enlarged(t)
                            ELSE Reinsert(a[m - 1], a[m - 1].entries[m].key, a[m - 1].entries[m].value)
<1> DEFINE R(m, h) == IF m = 0 THEN Enlarged(t)
                      ELSE Reinsert(h, h.entries[m].key, h.entries[m].value)
           D(l, h) == [m \in 0 .. l |-> R(m, h[m - 1])]
           S == {l \in Nat : \E a : a = D(l, a)}
<1>1. \A h, j : R(0, h) = R(0, j)
  OBVIOUS
<1>2. 0 \in S
  <2> HIDE DEF R
  <2> DEFINE a == [m \in 0 .. 0 |-> R(0, 0)]
  <2>1. a = D(0, a)
    BY <1>1
  <2> QED BY <2>1
<1>3. ASSUME NEW l \in Nat, l \in S PROVE l + 1 \in S
  <2> HIDE DEF R
  <2>1. PICK a : a = D(l, a)
    BY <1>3
  <2> DEFINE h == [m \in 0 .. l + 1 |-> IF m = l + 1 THEN R(m, a[l]) ELSE a[m]]
  <2>2. ASSUME NEW m \in 0 .. l + 1 PROVE h[m] = R(m, h[m - 1])
    <3>1. CASE m = l + 1
      BY <3>1
    <3>2. CASE m = 0
      BY <2>1, <3>2, <1>1
    <3>3. CASE m \in 1 .. l
      <4>1. h[m] = a[m] /\ h[m - 1] = a[m - 1]
        BY <3>3
      <4> QED BY <3>3, <2>1, <4>1
    <3> QED BY <3>1, <3>2, <3>3
  <2>3. h = D(l + 1, h)
    BY <2>2
  <2> HIDE DEF h
  <2> QED BY <2>3
<1>4. PICK a : a = D(n, a)
  <2> HIDE DEF S
  <2>1. n \in S
    BY <1>2, <1>3, SetInduction
  <2> QED BY <2>1 DEF S
<1> DEFINE after == CHOOSE h : h = D(n, h)
<1>5. Refilled(t, n) = after[n]
  BY Zenon DEF Refilled
<1>6. after = D(n, after)
  <2> HIDE DEF D
  <2> QED BY <1>4, Zenon
<1> HIDE DEF after
<1>7. \A m \in 0 .. n : after[m] = R(m, after[m - 1])
  <2> HIDE DEF R
  <2> QED BY <1>6
<1> QED BY <1>5, <1>7

\* A growth keeps every entry, in its place.
LEMMA RegrowKeeps ==
  ASSUME NEW t, Sound(t), Compact(t), t.length = t.capacity, 2 * t.capacity <= Capacity
  PROVE  LET r == Regrow(t) IN
           /\ Sound(r) /\ Compact(r)
           /\ r.length = t.length /\ r.capacity \in Nat /\ r.length < r.capacity
           /\ \A i \in 1 .. t.length : Pair(r, i) = Pair(t, i)
<1> DEFINE n == t.length
           e == Enlarged(t)
<1>1. /\ n \in Nat /\ Live(t) = 1 .. n
      /\ \A i \in 1 .. n : t.entries[i].value \in Value \cup {NoKey}
  BY DEF Sound, Shape, Compact, Slot
<1>2. PICK a : /\ Refilled(t, n) = a[n]
               /\ \A m \in 0 .. n :
                    a[m] = IF m = 0 THEN e
                           ELSE Reinsert(a[m - 1], a[m - 1].entries[m].key, a[m - 1].entries[m].value)
  BY <1>1, RefillSteps
<1>3. /\ Sound(e) /\ Compact(e) /\ e.length = 0 /\ e.capacity \in Nat /\ e.capacity > n
      /\ \A i \in 1 .. n : Pair(e, i) = Pair(t, i)
  BY EnlargedSound
<1> HIDE DEF e
<1> DEFINE Kept(r, m) == /\ Sound(r) /\ Compact(r)
                         /\ r.length = m /\ r.capacity = e.capacity
                         /\ \A i \in 1 .. n : Pair(r, i) = Pair(t, i)
           S == {m \in Nat : m <= n => Kept(a[m], m)}
<1>4. 0 \in S
  BY <1>1, <1>2, <1>3
<1>5. ASSUME NEW m \in Nat, m \in S PROVE m + 1 \in S
  <2> SUFFICES ASSUME m + 1 <= n PROVE Kept(a[m + 1], m + 1)
    OBVIOUS
  <2> DEFINE r == a[m]
             k == r.entries[m + 1].key
             v == r.entries[m + 1].value
  <2>1. Kept(r, m)
    BY <1>1, <1>5
  <2>2. m + 1 \in 1 .. n /\ m + 1 \in 0 .. n /\ m + 1 # 0 /\ (m + 1) - 1 = m
    BY <1>1
  <2>3. a[m + 1] = Reinsert(r, k, v)
    BY <1>2, <2>2
  <2>4. k = KeyAt(t, m + 1) /\ v = t.entries[m + 1].value
    BY <2>1, <2>2 DEF Pair, KeyAt
  <2>5. k \in Key /\ v \in Value \cup {NoKey}
    BY <1>1, <2>2, <2>4 DEF Sound, Owned
  <2>6. Lacks(r, k)
    <3> SUFFICES ASSUME NEW i \in Live(r), KeyAt(r, i) = k PROVE FALSE
      BY DEF Lacks
    <3>1. i \in 1 .. m
      BY <2>1 DEF Compact
    <3>2. i \in 1 .. n /\ i # m + 1
      BY <1>1, <2>2, <3>1
    <3>3. KeyAt(t, i) = KeyAt(t, m + 1)
      BY <2>1, <2>4, <3>2 DEF Pair, KeyAt
    <3> QED BY <1>1, <2>2, <3>2, <3>3 DEF Sound, Owned
  <2> HIDE DEF r, k, v
  <2>7. a[m + 1] = Place(r, k, v)
    BY <2>1, <2>3, <2>5, <2>6, LookupAbsent DEF Reinsert
  <2>8. r.length < r.capacity
    BY <1>1, <1>3, <2>1, <2>2
  <2>9. Added(Place(r, k, v), r, k, v)
    BY <2>1, <2>5, <2>6, <2>8, PlaceAdds
  <2>10. ASSUME NEW i \in 1 .. n PROVE Pair(a[m + 1], i) = Pair(t, i)
    <3>1. CASE i = m + 1
      BY <2>1, <2>4, <2>7, <2>9, <3>1 DEF Added, Pair, KeyAt
    <3>2. CASE i # m + 1
      <4>1. i \in 1 .. r.capacity \ {m + 1}
        BY <1>1, <1>3, <2>1, <3>2
      <4> QED BY <2>1, <2>7, <2>9, <4>1 DEF Added
    <3> QED BY <3>1, <3>2
  <2> QED BY <2>1, <2>7, <2>9, <2>10 DEF Added
<1>6. Kept(Regrow(t), n)
  <2>1. n \in S
    <3> HIDE DEF S
    <3> QED BY <1>1, <1>4, <1>5, SetInduction
  <2>2. Kept(a[n], n)
    BY <1>1, <2>1
  <2> HIDE DEF Kept
  <2> QED BY <1>2, <2>2 DEF Regrow
<1> QED BY <1>1, <1>3, <1>6

\* A new key is not found in the table it is written to, which keeps the others.
LEMMA RoomyAdds ==
  ASSUME NEW t, Sound(t), Compact(t), t.length <= t.capacity,
         IsFull(t) => 2 * t.capacity <= Capacity,
         NEW k \in Key, NEW v \in Value, Lacks(t, k)
  PROVE  LET u == Place(Roomy(t), k, v) IN
           /\ Lookup(Roomy(t), k) = NotFound
           /\ Sound(u) /\ Compact(u) /\ u.length = t.length + 1 /\ u.length <= u.capacity
           /\ KeyAt(u, u.length) = k /\ u.entries[u.length].value = v
           /\ \A i \in 1 .. t.length : Pair(u, i) = Pair(t, i)
<1> DEFINE r == Roomy(t)
           u == Place(r, k, v)
<1>1. t.length \in Nat /\ t.capacity \in Nat /\ Live(t) = 1 .. t.length
  BY DEF Sound, Shape, Compact
<1>2. /\ Sound(r) /\ Compact(r)
      /\ r.length = t.length /\ r.capacity \in Nat /\ r.length < r.capacity
      /\ \A i \in 1 .. t.length : Pair(r, i) = Pair(t, i)
  <2>1. CASE IsFull(t)
    <3>1. t.length = t.capacity /\ 2 * t.capacity <= Capacity
      BY <1>1, <2>1 DEF IsFull
    <3>2. r = Regrow(t)
      BY <2>1 DEF Roomy
    <3> HIDE DEF r
    <3> QED BY <3>1, <3>2, RegrowKeeps
  <2>2. CASE ~IsFull(t)
    BY <1>1, <2>2 DEF Roomy, IsFull
  <2> QED BY <2>1, <2>2
<1>3. Lacks(r, k)
  <2> HIDE DEF r
  <2>1. \A i \in Live(r) : KeyAt(r, i) = KeyAt(t, i) /\ i \in Live(t)
    BY <1>1, <1>2 DEF Compact, Pair, KeyAt
  <2> QED BY <2>1 DEF Lacks
<1> HIDE DEF r
<1>4. Lookup(r, k) = NotFound
  BY <1>2, <1>3, LookupAbsent
<1>5. Added(u, r, k, v)
  BY <1>2, <1>3, PlaceAdds
<1> HIDE DEF u
<1>6. \A i \in 1 .. t.length : Pair(u, i) = Pair(t, i)
  <2> TAKE i \in 1 .. t.length
  <2>1. i \in 1 .. r.capacity \ {u.length}
    BY <1>1, <1>2, <1>5 DEF Added
  <2> QED BY <1>2, <1>5, <2>1 DEF Added
<1>7. u.length <= u.capacity
  BY <1>1, <1>2, <1>5 DEF Added
<1> QED BY <1>2, <1>4, <1>5, <1>6, <1>7 DEF Added, r, u

-----------------------------------------------------------------------------
(* Removal *)

\* The last entry of a chain is taken out of it.
LEMMA CutLast ==
  ASSUME NEW t, NEW chain, NEW first, Linked(t, chain, first), t.capacity \in Nat,
         NEW i \in chain, t.entries[i].next \notin chain,
         NEW u, u.capacity = t.capacity,
         \A j \in chain \ {i} : u.entries[j].next = t.entries[j].next,
         NEW new, new = first \/ first = i
  PROVE  Linked(u, chain \ {i}, new)
<1>1. chain \subseteq 1 .. t.capacity /\ \A j \in chain : j <= i
  BY DEF Linked, Leads
<1>2. Leads(chain \ {i}, 0, new)
  <2>1. Leads(chain, 0, first)
    BY DEF Linked
  <2>2. CASE first = i
    <3>1. chain \ {i} = {}
      BY <1>1, <2>1, <2>2 DEF Leads
    <3> QED BY <3>1 DEF Leads
  <2>3. CASE first # i
    BY <1>1, <2>1, <2>3 DEF Leads
  <2> QED BY <2>2, <2>3
<1>3. ASSUME NEW j \in chain \ {i} PROVE Leads(chain \ {i}, j, u.entries[j].next)
  <2>1. Leads(chain, j, t.entries[j].next)
    BY DEF Linked
  <2>2. CASE t.entries[j].next = i
    BY <1>1, <2>1, <2>2 DEF Leads
  <2>3. CASE t.entries[j].next # i
    BY <1>1, <2>1, <2>3 DEF Leads
  <2> QED BY <2>2, <2>3
<1> QED BY <1>1, <1>2, <1>3 DEF Linked

\* The entry after i is taken out of the chain, and i takes its place.
LEMMA CutNext ==
  ASSUME NEW t, NEW chain, NEW first, Linked(t, chain, first), t.capacity \in Nat,
         NEW i \in chain, NEW x \in chain, x = t.entries[i].next,
         NEW u, u.capacity = t.capacity, u.entries[i].next = t.entries[x].next,
         \A j \in chain \ {i, x} : u.entries[j].next = t.entries[j].next
  PROVE  Linked(u, chain \ {x}, first)
<1>1. chain \subseteq 1 .. t.capacity /\ i < x /\ i # x /\ \A j \in chain : i < j => x <= j
  <2>1. chain \subseteq 1 .. t.capacity /\ Leads(chain, i, x)
    BY DEF Linked
  <2> QED BY <2>1 DEF Leads
<1>2. Leads(chain \ {x}, 0, first)
  <2>1. Leads(chain, 0, first)
    BY DEF Linked
  <2>2. first \in chain /\ 0 < first /\ first <= i
    BY <1>1, <2>1 DEF Leads
  <2>3. first # x
    BY <1>1, <2>2
  <2> QED BY <1>1, <2>1, <2>2, <2>3 DEF Leads
<1>3. Leads(chain \ {x}, i, u.entries[i].next)
  <2>1. Leads(chain, x, t.entries[x].next)
    BY DEF Linked
  <2> QED BY <1>1, <2>1 DEF Leads
<1>4. ASSUME NEW j \in chain \ {i, x} PROVE Leads(chain \ {x}, j, u.entries[j].next)
  <2>1. Leads(chain, j, t.entries[j].next)
    BY DEF Linked
  <2> QED BY <1>1, <2>1 DEF Leads
<1> QED BY <1>1, <1>2, <1>3, <1>4 DEF Linked

\* What is written to take out the element at i, with the handle x after it and in bucket b.
Unlinked(t, i, x, b, u) ==
  /\ Shape(u) /\ ~u.broken /\ DOMAIN u.buckets = DOMAIN t.buckets /\ Size(u) = Size(t)
  /\ u.length = t.length - 1 /\ u.capacity = t.capacity
  /\ \A c \in DOMAIN t.buckets \ {b} : u.buckets[c] = t.buckets[c]
  /\ u.buckets[b] = t.buckets[b] \/ t.buckets[b] = i
  /\ x # 0 => /\ x \in 1 .. t.capacity \ {i} /\ u.entries[i] = t.entries[x]
              /\ u.entries[x] = [t.entries[x] EXCEPT !.next = -1]
              /\ \A j \in 1 .. t.capacity \ {i, x} : u.entries[j] = t.entries[j]
              /\ u.buckets[b] = t.buckets[b]
  /\ x = 0 => /\ u.entries[i] = [t.entries[i] EXCEPT !.next = -1]
              /\ \A j \in 1 .. t.capacity \ {i} : u.entries[j] = t.entries[j]

\* Taking out the element at i: its entry, or the next one, whose element moves to i.
LEMMA UnlinkShape ==
  ASSUME NEW t, Sound(t), NEW i \in Live(t), t.length > 0
  PROVE  Unlinked(t, i, t.entries[i].next, Bucket(t, i), Unlink(t, KeyAt(t, i), i))
<1> DEFINE u == Unlink(t, KeyAt(t, i), i)
           e == t.entries[i]
           x == e.next
           b == Bucket(t, i)
           c == t.capacity
<1>1. /\ t.length \in Nat \ {0} /\ c \in Nat /\ i \in 1 .. c /\ DOMAIN t.entries = 1 .. c
      /\ t.entries \in [1 .. c -> Slot(c)] /\ e \in Slot(c) /\ x # -1
      /\ t.buckets \in [0 .. Size(t) - 1 -> 0 .. c]
  BY DEF Sound, Shape, Live, IsNull
<1>2. BucketOf(t, KeyAt(t, i)) = b
  BY OwnBucket
<1>3. b \in DOMAIN t.buckets
  BY <1>2, BucketRange DEF Sound, Owned
<1>4. \A f \in Slot(c) : [f EXCEPT !.next = -1] \in Slot(c) /\ [f EXCEPT !.next = -1].next = -1
  <2>1. -1 \in -1 .. c
    BY <1>1
  <2> QED BY <2>1 DEF Slot
<1> SUFFICES Unlinked(t, i, x, b, u)
  OBVIOUS
<1>5. CASE x = 0
  <2>1. /\ DOMAIN u = DOMAIN t /\ u.length = t.length - 1 /\ u.capacity = c /\ u.broken = t.broken
        /\ u.buckets = [t.buckets EXCEPT ![b] = IF t.buckets[b] = i THEN 0 ELSE t.buckets[b]]
        /\ u.entries = [t.entries EXCEPT ![i] = [e EXCEPT !.next = -1]]
    BY <1>2, <1>5 DEF Unlink, Sound, Shape
  <2> HIDE DEF u
  <2>2. Size(u) = Size(t) /\ DOMAIN u.buckets = DOMAIN t.buckets
    BY <2>1 DEF Size
  <2>3. Shape(u)
    <3>1. u.buckets \in [0 .. Size(u) - 1 -> 0 .. c]
      <4> DEFINE first == IF t.buckets[b] = i THEN 0 ELSE t.buckets[b]
      <4>1. first \in 0 .. c
        <5>1. t.buckets[b] \in 0 .. c /\ 0 \in 0 .. c
          <6>1. 0 \in 0 .. c
            BY <1>1
          <6>2. b \in DOMAIN t.buckets /\ t.buckets \in [0 .. Size(t) - 1 -> 0 .. c]
            BY <1>1, <1>3
          <6> HIDE DEF b, c
          <6> QED BY <6>1, <6>2
        <5> QED BY <5>1
      <4>2. u.buckets = [t.buckets EXCEPT ![b] = first]
        BY <2>1
      <4>3. t.buckets \in [0 .. Size(u) - 1 -> 0 .. c]
        BY <1>1, <2>2
      <4> HIDE DEF first, b, c
      <4> QED BY <4>1, <4>2, <4>3
    <3>2. u.entries \in [1 .. c -> Slot(c)]
      BY <1>1, <1>4, <2>1
    <3> QED BY <1>1, <2>1, <2>2, <3>1, <3>2 DEF Shape, Sound
  <2>4. /\ u.entries[i] = [e EXCEPT !.next = -1]
        /\ \A j \in 1 .. c \ {i} : u.entries[j] = t.entries[j]
    BY <1>1, <2>1
  <2>5. /\ \A a \in DOMAIN t.buckets \ {b} : u.buckets[a] = t.buckets[a]
        /\ u.buckets[b] = t.buckets[b] \/ t.buckets[b] = i
    BY <1>1, <1>3, <2>1
  <2> QED BY <1>5, <2>1, <2>2, <2>3, <2>4, <2>5 DEF Sound, Unlinked
<1>6. CASE x # 0
  <2>1. x \in 1 .. c
    BY <1>1, <1>6 DEF Slot
  <2>2. x # i
    <3>1. i \in Chain(t, b)
      BY DEF Chain
    <3>2. Leads(Chain(t, b), i, x)
      BY <1>3, <3>1 DEF Sound, Threaded, Linked
    <3> QED BY <1>1, <3>1, <3>2 DEF Leads
  <2>3. /\ DOMAIN u = DOMAIN t /\ u.length = t.length - 1 /\ u.capacity = c /\ u.broken = t.broken
        /\ u.buckets = t.buckets
        /\ u.entries = [[t.entries EXCEPT ![i] = t.entries[x]] EXCEPT ![x].next = -1]
    BY <1>6 DEF Unlink, Sound, Shape
  <2> HIDE DEF u
  <2>4. /\ u.entries[i] = t.entries[x] /\ u.entries[x] = [t.entries[x] EXCEPT !.next = -1]
        /\ \A j \in 1 .. c \ {i, x} : u.entries[j] = t.entries[j]
    BY <1>1, <2>1, <2>2, <2>3
  <2>5. u.entries \in [1 .. c -> Slot(c)]
    <3> DEFINE moved == [t.entries EXCEPT ![i] = t.entries[x]]
    <3>1. moved \in [1 .. c -> Slot(c)]
      BY <1>1, <2>1
    <3> HIDE DEF moved
    <3>2. u.entries = [moved EXCEPT ![x] = [moved[x] EXCEPT !.next = -1]]
      BY <2>3 DEF moved
    <3> QED BY <1>4, <2>1, <3>1, <3>2
  <2>6. Size(u) = Size(t)
    BY <2>3 DEF Size
  <2>7. Shape(u)
    <3>1. u.length \in Nat /\ Size(u) \in Nat \ {0} /\ DOMAIN u = DOMAIN t /\ u.capacity = c
      BY <1>1, <2>3, <2>6 DEF Shape, Sound
    <3>2. u.buckets \in [0 .. Size(u) - 1 -> 0 .. c]
      BY <1>1, <2>3, <2>6
    <3>3. DOMAIN u = {"length", "capacity", "buckets", "entries", "broken"}
      BY <2>3 DEF Shape, Sound
    <3> HIDE DEF c
    <3>4. c \in Nat
      BY <1>1
    <3> QED BY <2>5, <3>1, <3>2, <3>3, <3>4 DEF Shape
  <2> QED BY <1>6, <2>1, <2>2, <2>3, <2>4, <2>6, <2>7 DEF Sound, Unlinked
<1> QED BY <1>5, <1>6

\* Of the entries in use only x is not any more, and the element at i is gone.
Removed(u, t, i, x) ==
  /\ Sound(u) /\ Live(u) = Live(t) \ {x}
  /\ u.length = t.length - 1 /\ u.capacity = t.capacity
  /\ \A j \in Live(u) : Pair(u, j) = Pair(t, IF j = i THEN x ELSE j)

\* An element with nothing behind it is taken out with its entry.
LEMMA UnlinkLast ==
  ASSUME NEW t, Sound(t), NEW i \in Live(t), t.length > 0, t.entries[i].next \notin Live(t)
  PROVE  Removed(Unlink(t, KeyAt(t, i), i), t, i, i)
<1> DEFINE u == Unlink(t, KeyAt(t, i), i)
           n == t.entries[i].next
           b == Bucket(t, i)
           c == t.capacity
<1>1. /\ Shape(u) /\ ~u.broken /\ DOMAIN u.buckets = DOMAIN t.buckets /\ Size(u) = Size(t)
      /\ u.length = t.length - 1 /\ u.capacity = c
      /\ \A a \in DOMAIN t.buckets \ {b} : u.buckets[a] = t.buckets[a]
      /\ u.buckets[b] = t.buckets[b] \/ t.buckets[b] = i
      /\ n # 0 => /\ n \in 1 .. c \ {i} /\ u.entries[i] = t.entries[n]
                  /\ u.entries[n] = [t.entries[n] EXCEPT !.next = -1]
                  /\ \A j \in 1 .. c \ {i, n} : u.entries[j] = t.entries[j]
                  /\ u.buckets[b] = t.buckets[b]
      /\ n = 0 => /\ u.entries[i] = [t.entries[i] EXCEPT !.next = -1]
                  /\ \A j \in 1 .. c \ {i} : u.entries[j] = t.entries[j]
  <2>1. Unlinked(t, i, n, b, u)
    BY UnlinkShape
  <2> HIDE DEF u
  <2> QED BY <2>1 DEF Unlinked
<1>2. /\ c \in Nat /\ DOMAIN t.entries = 1 .. c /\ DOMAIN u.entries = 1 .. c /\ i \in 1 .. c
      /\ \A j \in 1 .. c : [t.entries[j] EXCEPT !.next = -1].next = -1
  <2>1. c \in Nat /\ DOMAIN t.entries = 1 .. c /\ i \in 1 .. c
    BY DEF Sound, Shape, Live
  <2>2. DOMAIN u.entries = 1 .. c
    <3> HIDE DEF u
    <3> QED BY <1>1 DEF Shape
  <2>3. \A j \in 1 .. c : t.entries[j] \in Slot(c)
    BY DEF Sound, Shape
  <2> QED BY <2>1, <2>2, <2>3 DEF Slot
<1> HIDE DEF u
<1>3. /\ IsNull(u.entries[i])
      /\ \A j \in 1 .. c \ {i} :
           /\ IsNull(u.entries[j]) <=> IsNull(t.entries[j])
           /\ ~IsNull(t.entries[j]) => u.entries[j] = t.entries[j]
  <2>1. CASE n = 0
    BY <1>1, <1>2, <2>1 DEF IsNull
  <2>2. CASE n # 0
    <3>1. IsNull(t.entries[n])
      BY <1>1, <1>2, <2>2 DEF Live
    <3>2. IsNull(u.entries[n])
      BY <1>1, <1>2, <2>2 DEF IsNull
    <3>3. \A j \in 1 .. c \ {i, n} : u.entries[j] = t.entries[j]
      BY <1>1, <2>2
    <3>4. IsNull(u.entries[i])
      BY <1>1, <2>2, <3>1
    <3> HIDE DEF n
    <3> QED BY <3>1, <3>2, <3>3, <3>4
  <2> QED BY <2>1, <2>2
<1>4. Live(u) = Live(t) \ {i} /\ \A j \in Live(u) : u.entries[j] = t.entries[j]
  <2>1. \A j \in 1 .. c : j \in Live(u) <=> j \in Live(t) /\ j # i
    <3> TAKE j \in 1 .. c
    <3>1. (j \in Live(u) <=> ~IsNull(u.entries[j])) /\ (j \in Live(t) <=> ~IsNull(t.entries[j]))
      BY <1>2 DEF Live
    <3>2. CASE j = i
      BY <1>3, <3>1, <3>2
    <3>3. CASE j # i
      <4>1. IsNull(u.entries[j]) <=> IsNull(t.entries[j])
        BY <1>3, <3>3
      <4> QED BY <3>1, <3>3, <4>1
    <3> QED BY <3>2, <3>3
  <2>2. Live(u) \subseteq 1 .. c /\ Live(t) \subseteq 1 .. c
    BY <1>2 DEF Live
  <2>3. Live(u) = Live(t) \ {i}
    BY <2>1, <2>2
  <2>4. \A j \in Live(u) : u.entries[j] = t.entries[j]
    BY <1>2, <1>3, <2>2, <2>3 DEF Live
  <2> QED BY <2>3, <2>4
<1>5. \A j \in Live(u) : Bucket(u, j) = Bucket(t, j)
  BY <1>1, <1>4 DEF Bucket
<1>6. Chain(u, b) = Chain(t, b) \ {i} /\ i \in Chain(t, b) /\ \A a : a # b => Chain(u, a) = Chain(t, a)
  BY <1>4, <1>5 DEF Chain
<1>7. ASSUME NEW a \in DOMAIN t.buckets PROVE Linked(u, Chain(u, a), u.buckets[a])
  <2>1. Linked(t, Chain(t, a), t.buckets[a])
    BY DEF Sound, Threaded
  <2>2. \A j \in Chain(u, a) : u.entries[j].next = t.entries[j].next
    BY <1>4 DEF Chain
  <2>3. CASE a = b
    <3>1. n \notin Chain(t, b)
      BY DEF Chain
    <3>2. \A j \in Chain(t, b) \ {i} : u.entries[j].next = t.entries[j].next
      BY <1>6, <2>2, <2>3
    <3>3. u.buckets[b] = t.buckets[b] \/ t.buckets[b] = i
      BY <1>1
    <3>4. /\ Linked(t, Chain(t, b), t.buckets[b]) /\ i \in Chain(t, b)
          /\ u.capacity = t.capacity /\ t.capacity \in Nat
      BY <1>1, <1>2, <1>6, <2>1, <2>3
    <3> HIDE DEF b
    <3>5. Linked(u, Chain(t, b) \ {i}, u.buckets[b])
      BY <3>1, <3>2, <3>3, <3>4, CutLast
    <3> QED BY <1>6, <2>3, <3>5
  <2>4. CASE a # b
    BY <1>1, <1>6, <2>1, <2>2, <2>4 DEF Linked
  <2> QED BY <2>3, <2>4
<1>8. ASSUME NEW a \in DOMAIN t.buckets, NEW j \in Chain(u, a), u.entries[j].next \in Live(u)
      PROVE  u.entries[j].next \in Chain(u, a)
  <2>1. j \in Chain(t, a) /\ u.entries[j].next = t.entries[j].next
    BY <1>4, <1>8, <1>5 DEF Chain
  <2>2. t.entries[j].next \in Chain(t, a)
    BY <1>4, <1>8, <2>1 DEF Sound, Threaded
  <2> QED BY <1>5, <1>8, <2>1, <2>2 DEF Chain
<1>9. Owned(u)
  BY <1>4 DEF Owned, Sound, KeyAt
<1>10. Sound(u)
  BY <1>1, <1>7, <1>8, <1>9 DEF Sound, Threaded
<1>11. \A j \in Live(u) : Pair(u, j) = Pair(t, IF j = i THEN i ELSE j)
  BY <1>4 DEF Pair
<1>12. Removed(u, t, i, i)
  BY <1>1, <1>4, <1>10, <1>11 DEF Removed
<1> QED BY <1>12 DEF u

\* An element with another one behind it is taken out, and that one moves to its entry.
LEMMA UnlinkNext ==
  ASSUME NEW t, Sound(t), NEW i \in Live(t), t.length > 0, t.entries[i].next \in Live(t)
  PROVE  Removed(Unlink(t, KeyAt(t, i), i), t, i, t.entries[i].next)
<1> DEFINE u == Unlink(t, KeyAt(t, i), i)
           x == t.entries[i].next
           b == Bucket(t, i)
           c == t.capacity
<1>1. c \in Nat /\ DOMAIN t.entries = 1 .. c /\ i \in 1 .. c /\ x \in 1 .. c
  BY DEF Sound, Shape, Live
<1>2. /\ Shape(u) /\ ~u.broken /\ DOMAIN u.buckets = DOMAIN t.buckets /\ Size(u) = Size(t)
      /\ u.length = t.length - 1 /\ u.capacity = c
      /\ \A a \in DOMAIN t.buckets \ {b} : u.buckets[a] = t.buckets[a]
      /\ x # i /\ u.entries[i] = t.entries[x]
      /\ u.entries[x] = [t.entries[x] EXCEPT !.next = -1]
      /\ \A j \in 1 .. c \ {i, x} : u.entries[j] = t.entries[j]
      /\ u.buckets[b] = t.buckets[b]
  <2>1. Unlinked(t, i, x, b, u)
    BY UnlinkShape
  <2> HIDE DEF u
  <2>2. /\ Shape(u) /\ ~u.broken /\ DOMAIN u.buckets = DOMAIN t.buckets /\ Size(u) = Size(t)
        /\ u.length = t.length - 1 /\ u.capacity = c
        /\ \A a \in DOMAIN t.buckets \ {b} : u.buckets[a] = t.buckets[a]
    BY <2>1 DEF Unlinked
  <2>3. x # 0 => /\ x \in 1 .. c \ {i} /\ u.entries[i] = t.entries[x]
                 /\ u.entries[x] = [t.entries[x] EXCEPT !.next = -1]
                 /\ \A j \in 1 .. c \ {i, x} : u.entries[j] = t.entries[j]
                 /\ u.buckets[b] = t.buckets[b]
    BY <2>1 DEF Unlinked
  <2> HIDE DEF x, b, c
  <2>4. x # 0 /\ c \in Nat
    BY <1>1
  <2> QED BY <2>2, <2>3, <2>4
<1> HIDE DEF u
<1>3. DOMAIN u.entries = 1 .. c /\ IsNull(u.entries[x]) /\ ~IsNull(u.entries[i])
  <2>1. t.entries[x] \in Slot(c)
    BY <1>1 DEF Sound, Shape
  <2> QED BY <1>2, <2>1 DEF Shape, Slot, IsNull, Live
<1>4. /\ Live(u) = Live(t) \ {x}
      /\ \A j \in Live(u) : u.entries[j] = t.entries[IF j = i THEN x ELSE j]
  BY <1>1, <1>2, <1>3 DEF Live
<1>5. b \in DOMAIN t.buckets /\ i \in Chain(t, b) /\ x \in Chain(t, b)
  <2>1. b \in DOMAIN t.buckets
    BY OwnBucket, BucketRange DEF Sound, Owned
  <2>2. i \in Chain(t, b)
    BY DEF Chain
  <2> HIDE DEF b
  <2> QED BY <2>1, <2>2 DEF Sound, Threaded
<1>6. \A j \in Live(u) : Bucket(u, j) = Bucket(t, j)
  <2>1. Bucket(t, x) = Bucket(t, i)
    BY <1>5 DEF Chain
  <2> QED BY <1>2, <1>4, <2>1 DEF Bucket
<1>7. Chain(u, b) = Chain(t, b) \ {x} /\ \A a : a # b => Chain(u, a) = Chain(t, a)
  BY <1>4, <1>5, <1>6 DEF Chain
<1>8. ASSUME NEW a \in DOMAIN t.buckets PROVE Linked(u, Chain(u, a), u.buckets[a])
  <2>1. Linked(t, Chain(t, a), t.buckets[a])
    BY DEF Sound, Threaded
  <2>2. CASE a = b
    <3>1. /\ u.entries[i].next = t.entries[x].next
          /\ \A j \in Chain(t, b) \ {i, x} : u.entries[j].next = t.entries[j].next
      BY <1>1, <1>2 DEF Chain, Live
    <3> HIDE DEF b
    <3> QED BY <1>1, <1>2, <1>5, <1>7, <2>1, <2>2, <3>1, CutNext
  <2>3. CASE a # b
    <3>1. \A j \in Chain(t, a) : u.entries[j].next = t.entries[j].next
      BY <1>1, <1>2, <1>5, <2>3 DEF Chain, Live
    <3> QED BY <1>2, <1>7, <2>1, <2>3, <3>1 DEF Linked
  <2> QED BY <2>2, <2>3
<1>9. ASSUME NEW a \in DOMAIN t.buckets, NEW j \in Chain(u, a), u.entries[j].next \in Live(u)
      PROVE  u.entries[j].next \in Chain(u, a)
  <2> DEFINE old == IF j = i THEN x ELSE j
  <2>1. old \in Chain(t, a) /\ u.entries[j].next = t.entries[old].next
    BY <1>4, <1>5, <1>6, <1>9 DEF Chain
  <2>2. t.entries[old].next \in Chain(t, a)
    <3> HIDE DEF old
    <3> QED BY <1>4, <1>9, <2>1 DEF Sound, Threaded
  <2> QED BY <1>6, <1>9, <2>1, <2>2 DEF Chain
<1>10. Owned(u)
  BY <1>2, <1>4 DEF Owned, Sound, KeyAt
<1>11. Sound(u)
  BY <1>2, <1>8, <1>9, <1>10 DEF Sound, Threaded
<1>12. Removed(u, t, i, x)
  BY <1>2, <1>4, <1>11 DEF Removed, Pair
<1> QED BY <1>12 DEF u

-----------------------------------------------------------------------------
(* What a table holds *)

\* Each element in use shows its key and value in the content.
LEMMA ContentAt ==
  ASSUME NEW t, Sound(t)
  PROVE  /\ Content(t) = [k \in KeysOf(t) |-> Content(t)[k]]
         /\ \A i \in Live(t) : Content(t)[KeyAt(t, i)] = t.entries[i].value
<1>1. Content(t) = [k \in KeysOf(t) |-> t.entries[CHOOSE i \in Live(t) : KeyAt(t, i) = k].value]
  BY DEF Content, KeysOf
<1>2. ASSUME NEW i \in Live(t) PROVE (CHOOSE j \in Live(t) : KeyAt(t, j) = KeyAt(t, i)) = i
  <2> DEFINE c == CHOOSE j \in Live(t) : KeyAt(t, j) = KeyAt(t, i)
  <2>1. c \in Live(t) /\ KeyAt(t, c) = KeyAt(t, i)
    OBVIOUS
  <2> HIDE DEF c
  <2>2. c = i
    BY <2>1 DEF Sound, Owned
  <2> QED BY <2>2 DEF c
<1> QED BY <1>1, <1>2 DEF KeysOf

\* A table has the content that its entries show.
LEMMA ContentIs ==
  ASSUME NEW t, Sound(t), NEW f, f = [k \in KeysOf(t) |-> f[k]],
         \A i \in Live(t) : f[KeyAt(t, i)] = t.entries[i].value
  PROVE  Content(t) = f
<1>1. ASSUME NEW k \in KeysOf(t) PROVE Content(t)[k] = f[k]
  <2>1. PICK i \in Live(t) : KeyAt(t, i) = k
    BY DEF KeysOf
  <2>2. Content(t)[KeyAt(t, i)] = t.entries[i].value
    BY ContentAt
  <2> QED BY <2>1, <2>2
<1>2. Content(t) = [k \in KeysOf(t) |-> Content(t)[k]]
  BY ContentAt
<1> HIDE DEF KeysOf, Content
<1> QED BY <1>1, <1>2

\* What t holds once v is stored with k, and once k is taken out.
Stored(t, k, v) == [x \in KeysOf(t) \cup {k} |-> IF x = k THEN v ELSE Content(t)[x]]
Without(t, k)   == [x \in KeysOf(t) \ {k} |-> Content(t)[x]]

\* What a table holds after an element was added.
LEMMA AddContent ==
  ASSUME NEW t, Sound(t), Compact(t), t.length <= t.capacity,
         IsFull(t) => 2 * t.capacity <= Capacity,
         NEW k \in Key, NEW v \in Value, Lacks(t, k)
  PROVE  LET u == Place(Roomy(t), k, v) IN
           /\ Lookup(Roomy(t), k) = NotFound
           /\ Sound(u) /\ Compact(u) /\ u.length = t.length + 1
           /\ KeysOf(u) = KeysOf(t) \cup {k}
           /\ Content(u) = Stored(t, k, v)
<1> DEFINE u == Place(Roomy(t), k, v)
           f == [x \in KeysOf(t) \cup {k} |-> IF x = k THEN v ELSE Content(t)[x]]
<1>1. /\ Lookup(Roomy(t), k) = NotFound
      /\ Sound(u) /\ Compact(u) /\ u.length = t.length + 1
      /\ KeyAt(u, u.length) = k /\ u.entries[u.length].value = v
      /\ \A i \in 1 .. t.length : Pair(u, i) = Pair(t, i)
  BY RoomyAdds
<1> HIDE DEF u
<1>2. Live(t) = 1 .. t.length /\ Live(u) = Live(t) \cup {u.length} /\ u.length \notin Live(t)
  BY <1>1 DEF Compact, Sound, Shape
<1>3. \A i \in Live(t) : KeyAt(u, i) = KeyAt(t, i) /\ u.entries[i].value = t.entries[i].value
  BY <1>1, <1>2 DEF Pair, KeyAt
<1>4. KeysOf(u) = KeysOf(t) \cup {k}
  BY <1>1, <1>2, <1>3 DEF KeysOf
<1>5. \A i \in Live(u) : f[KeyAt(u, i)] = u.entries[i].value
  <2>1. \A i \in Live(t) : f[KeyAt(u, i)] = u.entries[i].value
    <3> TAKE i \in Live(t)
    <3>1. KeyAt(t, i) \in KeysOf(t) /\ KeyAt(t, i) # k
      BY DEF Lacks, KeysOf
    <3> QED BY <1>3, <3>1, ContentAt
  <2> QED BY <1>1, <1>2, <2>1
<1>6. f = [x \in KeysOf(u) |-> f[x]]
  BY <1>4
<1>7. Content(u) = f
  <2> HIDE DEF f
  <2> QED BY <1>1, <1>5, <1>6, ContentIs
<1> QED BY <1>1, <1>4, <1>7 DEF u, Stored

\* Values that are written over others leave keys, chains and length as they are.
LEMMA Revalued ==
  ASSUME NEW t, Sound(t), NEW u, DOMAIN u = DOMAIN t,
         u.length = t.length, u.capacity = t.capacity, u.buckets = t.buckets,
         u.broken = t.broken, u.entries \in [1 .. t.capacity -> Slot(t.capacity)],
         \A j \in 1 .. t.capacity : /\ u.entries[j].next = t.entries[j].next
                                    /\ u.entries[j].hash = t.entries[j].hash
                                    /\ u.entries[j].key = t.entries[j].key
  PROVE  /\ Sound(u) /\ (Compact(t) => Compact(u))
         /\ Live(u) = Live(t) /\ KeysOf(u) = KeysOf(t)
         /\ \A j \in Live(t) : KeyAt(u, j) = KeyAt(t, j)
<1>1. /\ t.entries \in [1 .. t.capacity -> Slot(t.capacity)] /\ Size(u) = Size(t)
      /\ t.capacity \in Nat
  BY DEF Sound, Shape, Size
<1>2. Shape(u)
  BY <1>1 DEF Sound, Shape
<1>3. Live(u) = Live(t) /\ Live(t) \subseteq 1 .. t.capacity
  BY <1>1 DEF Live, IsNull
<1>4. \A b : Chain(u, b) = Chain(t, b)
  BY <1>1, <1>3 DEF Chain, Bucket
<1>5. \A b : \A j \in Chain(t, b) : u.entries[j].next = t.entries[j].next
  BY <1>3 DEF Chain
<1>6. Threaded(u)
  BY <1>1, <1>3, <1>4, <1>5 DEF Threaded, Linked, Sound
<1>7. Owned(u)
  BY <1>3 DEF Owned, KeyAt, Sound
<1>8. Sound(u)
  BY <1>2, <1>6, <1>7 DEF Sound
<1>9. Compact(t) => Compact(u)
  BY <1>1, <1>3, <1>4, <1>5 DEF Compact, Sealed
<1>10. \A j \in Live(t) : KeyAt(u, j) = KeyAt(t, j)
  BY <1>3 DEF KeyAt
<1>11. KeysOf(u) = KeysOf(t)
  BY <1>3, <1>10 DEF KeysOf
<1> QED BY <1>3, <1>8, <1>9, <1>10, <1>11

\* What a table holds after a value was written over another.
LEMMA UpdateContent ==
  ASSUME NEW t, Sound(t), NEW i \in Live(t), NEW v \in Value
  PROVE  LET u == [t EXCEPT !.entries[i].value = v]
             k == KeyAt(t, i)
         IN /\ Sound(u) /\ (Compact(t) => Compact(u)) /\ u.length = t.length
            /\ Live(u) = Live(t) /\ KeysOf(u) = KeysOf(t)
            /\ Content(u) = Stored(t, k, v)
<1> DEFINE u == [t EXCEPT !.entries[i].value = v]
           k == KeyAt(t, i)
           c == t.capacity
           f == [x \in KeysOf(t) \cup {k} |-> IF x = k THEN v ELSE Content(t)[x]]
<1>1. /\ c \in Nat /\ i \in 1 .. c /\ DOMAIN t.entries = 1 .. c
      /\ t.entries \in [1 .. c -> Slot(c)] /\ t.entries[i] \in Slot(c)
      /\ Live(t) \subseteq 1 .. c
  BY DEF Sound, Shape, Live
<1>2. /\ DOMAIN u = DOMAIN t /\ u.length = t.length /\ u.capacity = c
      /\ u.buckets = t.buckets /\ u.broken = t.broken
      /\ u.entries = [t.entries EXCEPT ![i] = [t.entries[i] EXCEPT !.value = v]]
  BY DEF Sound, Shape
<1> HIDE DEF u
<1>3. /\ \A j \in 1 .. c \ {i} : u.entries[j] = t.entries[j]
      /\ u.entries[i] = [t.entries[i] EXCEPT !.value = v]
  BY <1>1, <1>2
<1>4. u.entries[i] \in Slot(c) /\ u.entries[i].value = v
      /\ \A j \in 1 .. c : /\ u.entries[j].next = t.entries[j].next
                          /\ u.entries[j].hash = t.entries[j].hash
                          /\ u.entries[j].key = t.entries[j].key
  BY <1>1, <1>3 DEF Slot
<1>5. u.entries \in [1 .. c -> Slot(c)]
  BY <1>1, <1>2, <1>3, <1>4
<1>6. /\ Sound(u) /\ (Compact(t) => Compact(u)) /\ Live(u) = Live(t) /\ KeysOf(u) = KeysOf(t)
      /\ \A j \in Live(t) : KeyAt(u, j) = KeyAt(t, j)
  BY <1>2, <1>4, <1>5, Revalued
<1>7. Content(u) = f
  <2>1. \A j \in Live(u) : f[KeyAt(u, j)] = u.entries[j].value
    <3> TAKE j \in Live(u)
    <3>1. KeyAt(u, j) = KeyAt(t, j) /\ KeyAt(t, j) \in KeysOf(t)
      BY <1>6 DEF KeysOf
    <3>2. CASE j = i
      BY <1>4, <3>1, <3>2
    <3>3. CASE j # i
      <4>1. KeyAt(t, j) # k /\ j \in 1 .. c \ {i}
        BY <1>1, <1>6, <3>3 DEF Sound, Owned
      <4> QED BY <1>3, <1>6, <3>1, <4>1, ContentAt
    <3> QED BY <3>2, <3>3
  <2>2. f = [x \in KeysOf(u) |-> f[x]]
    BY <1>6 DEF KeysOf
  <2> HIDE DEF f
  <2> QED BY <1>6, <2>1, <2>2, ContentIs
<1> QED BY <1>2, <1>6, <1>7 DEF u, Stored

\* What a table holds after an element was taken out.
LEMMA RemoveContent ==
  ASSUME NEW t, Sound(t), NEW i \in Live(t), t.length > 0
  PROVE  LET u == Unlink(t, KeyAt(t, i), i)
             k == KeyAt(t, i)
         IN /\ Sound(u) /\ u.length = t.length - 1
            /\ \E x \in Live(t) : Live(u) = Live(t) \ {x}
            /\ KeysOf(u) = KeysOf(t) \ {k}
            /\ Content(u) = Without(t, k)
<1> DEFINE u == Unlink(t, KeyAt(t, i), i)
           k == KeyAt(t, i)
           f == [y \in KeysOf(t) \ {k} |-> Content(t)[y]]
<1>1. PICK x \in Live(t) : Removed(u, t, i, x)
  <2>1. CASE t.entries[i].next \in Live(t)
    BY <2>1, UnlinkNext
  <2>2. CASE t.entries[i].next \notin Live(t)
    BY <2>2, UnlinkLast
  <2> QED BY <2>1, <2>2
<1> HIDE DEF u
<1> DEFINE old(j) == IF j = i THEN x ELSE j
<1>2. \A j \in Live(u) : /\ old(j) \in Live(t) \ {i}
                         /\ KeyAt(u, j) = KeyAt(t, old(j))
                         /\ u.entries[j].value = t.entries[old(j)].value
  <2> TAKE j \in Live(u)
  <2>1. old(j) \in Live(t) \ {i}
    BY <1>1 DEF Removed
  <2>2. Pair(u, j) = Pair(t, old(j))
    BY <1>1 DEF Removed
  <2> HIDE DEF old
  <2> QED BY <2>1, <2>2 DEF Pair, KeyAt
<1>3. \A l \in Live(t) \ {i} : \E j \in Live(u) : old(j) = l
  <2> TAKE l \in Live(t) \ {i}
  <2>1. CASE l = x
    <3>1. i \in Live(u) /\ old(i) = l
      BY <1>1, <2>1 DEF Removed
    <3> QED BY <3>1
  <2>2. CASE l # x
    <3>1. l \in Live(u) /\ old(l) = l
      BY <1>1, <2>2 DEF Removed
    <3> QED BY <3>1
  <2> QED BY <2>1, <2>2
<1>4. \A l \in Live(t) \ {i} : KeyAt(t, l) # k
  BY DEF Sound, Owned
<1> HIDE DEF old
<1>5. KeysOf(u) = KeysOf(t) \ {k}
  <2>1. \A y \in KeysOf(u) : y \in KeysOf(t) \ {k}
    BY <1>2, <1>4 DEF KeysOf
  <2>2. \A y \in KeysOf(t) \ {k} : y \in KeysOf(u)
    <3> TAKE y \in KeysOf(t) \ {k}
    <3>1. PICK l \in Live(t) : KeyAt(t, l) = y
      BY DEF KeysOf
    <3>2. l \in Live(t) \ {i}
      BY <3>1
    <3> QED BY <1>2, <1>3, <3>1, <3>2 DEF KeysOf
  <2> QED BY <2>1, <2>2
<1>6. \A j \in Live(u) : f[KeyAt(u, j)] = u.entries[j].value
  <2> TAKE j \in Live(u)
  <2>1. KeyAt(u, j) \in KeysOf(t) \ {k}
    BY <1>5 DEF KeysOf
  <2>2. f[KeyAt(u, j)] = Content(t)[KeyAt(u, j)]
    BY <2>1
  <2> QED BY <1>2, <2>2, ContentAt
<1>7. Content(u) = f
  <2>1. f = [y \in KeysOf(u) |-> f[y]]
    BY <1>5
  <2> HIDE DEF f
  <2> QED BY <1>1, <1>6, <2>1, ContentIs DEF Removed
<1> QED BY <1>1, <1>5, <1>7 DEF Removed, u, Without

-----------------------------------------------------------------------------
(* The calls *)

\* length counts the entries in use.
Counted(t) == IsFiniteSet(Live(t)) /\ Cardinality(Live(t)) = t.length

Fine(t) == Sound(t) /\ Counted(t)

LEMMA IntervalSize ==
  ASSUME NEW n \in Nat
  PROVE  IsFiniteSet(1 .. n) /\ Cardinality(1 .. n) = n
<1>1. IsFiniteSet(1 .. n) /\ Cardinality(1 .. n) = IF 1 > n THEN 0 ELSE n - 1 + 1
  BY FS_Interval
<1> QED BY <1>1

\* The entries in use are entries of the table.
LEMMA LengthBounded ==
  ASSUME NEW t, Fine(t)
  PROVE  t.length \in 0 .. t.capacity
<1>1. t.length \in Nat /\ t.capacity \in Nat /\ Live(t) \subseteq 1 .. t.capacity
  BY DEF Fine, Sound, Shape, Live
<1>2. IsFiniteSet(1 .. t.capacity) /\ Cardinality(1 .. t.capacity) = t.capacity
  BY <1>1, IntervalSize
<1>3. Cardinality(Live(t)) <= t.capacity
  BY <1>1, <1>2, FS_Subset
<1> QED BY <1>1, <1>3 DEF Fine, Counted

\* hash_set_new returns a table to which all this applies.
LEMMA EmptySound == Sound(EmptyTable) /\ Compact(EmptyTable) /\ Live(EmptyTable) = {}
<1> DEFINE t == EmptyTable
           N == Larger(NextPrime(0), MinBuckets)
<1>1. N \in Nat \ {0}
  BY DEF NextPrime, Larger, MinBuckets
<1> HIDE DEF N
<1>2. /\ DOMAIN t = {"length", "capacity", "buckets", "entries", "broken"}
      /\ t.length = 0 /\ t.capacity = 0 /\ ~t.broken
      /\ t.buckets = [b \in 0 .. N - 1 |-> 0]
      /\ t.entries = [i \in {} |-> Unused]
  BY DEF EmptyTable, N
<1> HIDE DEF t
<1>3. /\ t.entries \in [1 .. t.capacity -> Slot(t.capacity)] /\ t.capacity \in Nat
      /\ \A i \in 1 .. t.capacity : t.entries[i].next = -1
  <2>1. 1 .. t.capacity = {}
    BY <1>2
  <2> QED BY <1>2, <2>1
<1>4. Sound(t) /\ Compact(t) /\ Live(t) = {}
  BY <1>1, <1>2, <1>3, NewTable
<1> QED BY <1>4 DEF t

LEMMA EmptyFine == Fine(EmptyTable) /\ Compact(EmptyTable) /\ KeysOf(EmptyTable) = {}
<1>1. Sound(EmptyTable) /\ Compact(EmptyTable) /\ Live(EmptyTable) = {}
  BY EmptySound
<1>2. EmptyTable.length = 0
  BY DEF EmptyTable
<1>3. KeysOf(EmptyTable) = {}
  BY <1>1 DEF KeysOf
<1> QED BY <1>1, <1>2, <1>3, FS_EmptySet DEF Fine, Counted

\* There are as many keys as entries in use.
LEMMA KeyCount ==
  ASSUME NEW t, Fine(t)
  PROVE  Cardinality(KeysOf(t)) = Cardinality(Live(t))
<1> DEFINE f == [i \in Live(t) |-> KeyAt(t, i)]
<1>1. f \in Surjection(Live(t), KeysOf(t))
  BY DEF Surjection, KeysOf
<1>2. f \in Injection(Live(t), KeysOf(t))
  BY DEF Injection, IsInjective, KeysOf, Fine, Sound, Owned
<1> HIDE DEF f
<1> QED BY <1>1, <1>2, FS_Surjection DEF Fine, Counted

\* A key that is there is found in an entry in use.
LEMMA KeyFound ==
  ASSUME NEW t, Fine(t), NEW k \in KeysOf(t)
  PROVE  \E m \in Live(t) : /\ KeyAt(t, m) = k /\ Lookup(t, k) = m
                            /\ m > 0 /\ m # NotFound /\ m # NoAnswer
                            /\ ~IsNull(t.entries[m]) /\ t.length > 0 /\ k \in Key
<1>1. PICK m \in Live(t) : KeyAt(t, m) = k
  BY DEF KeysOf
<1>2. Lookup(t, k) = m
  BY <1>1, LookupPresent DEF Fine
<1>3. m > 0 /\ ~IsNull(t.entries[m]) /\ k \in Key
  BY <1>1 DEF Fine, Sound, Shape, Owned, Live
<1>4. t.length > 0
  <2>1. Cardinality(Live(t)) # 0 /\ t.length \in Nat
    BY FS_EmptySet DEF Fine, Counted, Sound, Shape
  <2> QED BY <2>1 DEF Fine, Counted
<1> QED BY <1>1, <1>2, <1>3, <1>4 DEF NotFound, NoAnswer

\* What insert_location does with a key that is not there, as long as nothing was taken out.
LEMMA Adding ==
  ASSUME NEW t, Fine(t), Compact(t), NEW k \in Key, NEW v \in Value,
         k \notin KeysOf(t), Fits(t, k)
  PROVE  LET u == AfterAdd(t, k, v) IN
           /\ Lookup(t, k) = NotFound
           /\ Fine(u) /\ Compact(u) /\ KeysOf(u) = KeysOf(t) \cup {k}
           /\ Content(u) = Stored(t, k, v)
<1> DEFINE u == Place(Roomy(t), k, v)
<1>1. Lacks(t, k)
  BY DEF KeysOf, Lacks
<1>2. Lookup(t, k) = NotFound
  BY <1>1, LookupAbsent DEF Fine
<1>3. IsFull(t) => 2 * t.capacity <= Capacity
  BY <1>2 DEF Fits
<1>4. t.length <= t.capacity /\ t.length \in Nat
  BY LengthBounded
<1>5. /\ Lookup(Roomy(t), k) = NotFound
      /\ Sound(u) /\ Compact(u) /\ u.length = t.length + 1
      /\ KeysOf(u) = KeysOf(t) \cup {k} /\ Content(u) = Stored(t, k, v)
  BY <1>1, <1>3, <1>4, AddContent DEF Fine
<1>6. AfterAdd(t, k, v) = u
  BY <1>5 DEF AfterAdd
<1> HIDE DEF u
<1>7. Counted(u)
  <2>1. Live(u) = 1 .. u.length /\ u.length \in Nat
    BY <1>4, <1>5 DEF Compact
  <2> QED BY <2>1, IntervalSize DEF Counted
<1> QED BY <1>2, <1>5, <1>6, <1>7 DEF Fine

\* What update does, with a key that is there or as long as nothing was taken out.
LEMMA Updating ==
  ASSUME NEW t, Fine(t), NEW k \in Key, NEW v \in Value,
         k \in KeysOf(t) \/ (Compact(t) /\ Fits(t, k))
  PROVE  LET u == AfterUpdate(t, k, v) IN
           /\ Fine(u) /\ (Compact(t) => Compact(u)) /\ KeysOf(u) = KeysOf(t) \cup {k}
           /\ Content(u) = Stored(t, k, v)
<1>1. CASE k \in KeysOf(t)
  <2>1. PICK m \in Live(t) : /\ KeyAt(t, m) = k /\ Lookup(t, k) = m
                            /\ m # NotFound /\ m # NoAnswer
    BY <1>1, KeyFound
  <2> DEFINE u == [t EXCEPT !.entries[m].value = v]
  <2>2. AfterUpdate(t, k, v) = u
    BY <2>1 DEF AfterUpdate
  <2>3. /\ Sound(u) /\ (Compact(t) => Compact(u)) /\ u.length = t.length
        /\ Live(u) = Live(t) /\ KeysOf(u) = KeysOf(t) /\ Content(u) = Stored(t, k, v)
    BY <2>1, UpdateContent DEF Fine
  <2> HIDE DEF u
  <2> QED BY <1>1, <2>2, <2>3 DEF Fine, Counted
<1>2. CASE k \notin KeysOf(t)
  <2>1. Lookup(t, k) = NotFound
    BY <1>2, Adding
  <2>2. AfterUpdate(t, k, v) = AfterAdd(t, k, v)
    BY <2>1 DEF AfterUpdate, NotFound, NoAnswer
  <2> QED BY <1>2, <2>2, Adding
<1> QED BY <1>1, <1>2

\* What remove does with a key that is there.
LEMMA Removing ==
  ASSUME NEW t, Fine(t), NEW k \in KeysOf(t)
  PROVE  LET u == AfterRemove(t, k) IN
           /\ Removes(t, k)
           /\ Fine(u) /\ u.length = t.length - 1 /\ KeysOf(u) = KeysOf(t) \ {k}
           /\ Content(u) = Without(t, k)
<1>1. PICK m \in Live(t) : /\ KeyAt(t, m) = k /\ Lookup(t, k) = m
                          /\ m > 0 /\ m # NotFound /\ m # NoAnswer
                          /\ ~IsNull(t.entries[m]) /\ t.length > 0
  BY KeyFound
<1> DEFINE u == Unlink(t, k, m)
<1>2. Removes(t, k) /\ AfterRemove(t, k) = u
  BY <1>1 DEF AfterRemove, Removes
<1>3. /\ Sound(u) /\ u.length = t.length - 1
      /\ \E x \in Live(t) : Live(u) = Live(t) \ {x}
      /\ KeysOf(u) = KeysOf(t) \ {k}
      /\ Content(u) = Without(t, k)
  BY <1>1, RemoveContent DEF Fine
<1> HIDE DEF u
<1>4. Counted(u)
  <2>1. t.length \in Nat
    BY DEF Fine, Sound, Shape
  <2> QED BY <1>3, <2>1, FS_RemoveElement DEF Fine, Counted
<1> QED BY <1>2, <1>3, <1>4 DEF Fine

\* A walk ends at a stop, behind the chain, or has no answer.
LEMMA WalkRange ==
  ASSUME NEW t, Shape(t), NEW stops, NEW i \in 0 .. t.capacity
  PROVE  Walk(t, stops)[i] \in stops \cup {0, NoAnswer}
<1> DEFINE c == t.capacity
<1>1. c \in Nat /\ (\A j \in 1 .. c : t.entries[j].next \in -1 .. c)
  BY DEF Shape, Slot
<1>2. PICK w : /\ Walk(t, stops) = w[c]
               /\ \A n \in 0 .. c : \A j \in -1 .. c :
                    w[n][j] = IF j \in stops \cup {0} THEN j
                              ELSE IF j = -1 \/ n = 0 THEN NoAnswer
                              ELSE w[n - 1][t.entries[j].next]
  BY <1>1, WalkSteps
<1> DEFINE S == {n \in Nat : n <= c => \A j \in -1 .. c : w[n][j] \in stops \cup {0, NoAnswer}}
<1>3. 0 \in S
  BY <1>1, <1>2
<1>4. ASSUME NEW n \in Nat, n \in S PROVE n + 1 \in S
  <2> SUFFICES ASSUME n + 1 <= c, NEW j \in -1 .. c
               PROVE  w[n + 1][j] \in stops \cup {0, NoAnswer}
    OBVIOUS
  <2>1. n <= c /\ n + 1 \in 0 .. c /\ (n + 1) - 1 = n /\ n + 1 # 0
    BY <1>1
  <2>2. w[n + 1][j] = IF j \in stops \cup {0} THEN j
                      ELSE IF j = -1 THEN NoAnswer
                      ELSE w[n][t.entries[j].next]
    BY <1>2, <2>1
  <2>3. CASE j \in stops \cup {0, -1}
    BY <2>2, <2>3
  <2>4. CASE j \notin stops \cup {0, -1}
    <3>1. t.entries[j].next \in -1 .. c
      BY <1>1, <2>4
    <3>2. w[n][t.entries[j].next] \in stops \cup {0, NoAnswer}
      BY <1>4, <2>1, <3>1
    <3> QED BY <2>2, <2>4, <3>2
  <2> QED BY <2>3, <2>4
<1> HIDE DEF S
<1>5. c \in S
  BY <1>1, <1>3, <1>4, SetInduction
<1> QED BY <1>1, <1>2, <1>5 DEF S

\* What remove does with a key that is not there: it finds nothing, or an entry that is
\* not in use, or leaves the array.
LEMMA RemovingNone ==
  ASSUME NEW t, Fine(t), NEW k \in Key, k \notin KeysOf(t)
  PROVE  ~Removes(t, k) /\ AfterRemove(t, k) \in {t, Break(t)}
<1> DEFINE stops == {i \in DOMAIN t.entries : Matches(t, i, k)}
           head  == t.buckets[BucketOf(t, k)]
<1>1. Lookup(t, k) > 0 => /\ Lookup(t, k) \in DOMAIN t.entries
                          /\ KeyAt(t, Lookup(t, k)) = k
  <2>1. CASE head = 0 \/ IsNull(t.entries[head])
    BY <2>1 DEF Lookup, NotFound
  <2>2. CASE ~(head = 0 \/ IsNull(t.entries[head]))
    <3>1. Lookup(t, k) = Walk(t, stops)[head]
      BY <2>2 DEF Lookup
    <3>2. head \in 0 .. t.capacity /\ Shape(t)
      <4>1. Shape(t) /\ Hash[k] \in Nat
        BY HashAssumption DEF Fine, Sound
      <4>2. BucketOf(t, k) \in 0 .. Size(t) - 1
        BY <4>1 DEF Shape, BucketOf, Size
      <4> QED BY <4>1, <4>2 DEF Shape
    <3>3. Walk(t, stops)[head] \in stops \cup {0, NoAnswer}
      BY <3>2, WalkRange
    <3>4. CASE Lookup(t, k) \in stops
      BY <3>4 DEF Matches, KeyAt
    <3>5. CASE Lookup(t, k) \in {0, NoAnswer}
      BY <3>5 DEF NoAnswer
    <3> QED BY <3>1, <3>3, <3>4, <3>5
  <2> QED BY <2>1, <2>2
<1>2. ~Removes(t, k)
  BY <1>1 DEF Removes, KeysOf, Live
<1> QED BY <1>2 DEF AfterRemove
=============================================================================
