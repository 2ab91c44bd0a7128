-------------------------- MODULE Membership_proofs --------------------------
(***************************************************************************)
(* Proofs about Membership for every set of machines and peers and every   *)
(* bound.                                                                  *)
(*                                                                         *)
(* What a table's entry says of its host depends on what the shared        *)
(* buffers hold: the invariants name, for each entry, what its buffer held *)
(* when the entry was made, and who has overwritten it since.              *)
(***************************************************************************)
EXTENDS Membership, HashTable_proofs

\* The buffer holds the host of the connection that is being handled.
HeldIsAccepted ==
  holding # Nobody => accepted = holding /\ (holding \in Peer => knock[holding] # 0)

\* The users of a table, of the machines that are logged in and that have left.
UsersFine(t, acc, in, gone) ==
  /\ Fine(t) /\ KeysOf(t) \subseteq Machine
  /\ acc = Nobody => KeysOf(t) = {}
  /\ \A k \in KeysOf(t) : Content(t)[k] \in UserState /\ (Content(t)[k] # "open" => k \in gone)
  /\ \A m \in in : (m \in KeysOf(t) /\ Content(t)[m] = "open") \/ gone \ {m} # {}

LoggedIn == {m \in Machine : machine[m] = "in"}

\* ht_users is in order, for each machine with its entry or a reason to have none, until
\* someone is added after a removal or a walk leaves the array.
UsersInv ==
  Dictionary => /\ UsersFine(users, accepted, LoggedIn, left)
                /\ usage = "fill" => Compact(users)

\* The variables that no entry of ht_users depends on.
OtherTypes ==
  /\ {accepted, holding} \subseteq Host \cup {Nobody} /\ heard \in Peer \cup {Nobody}
  /\ machine \in [Machine -> {"away", "backlog", "in"}]
  /\ left \subseteq Machine /\ usage \in {"fill", "drain", "reuse"}
  /\ boots \in [Peer -> 0 .. MaxBoots] /\ up \in [Peer -> BOOLEAN]
  /\ knock \in [Peer -> 0 .. MaxBoots] /\ probes \subseteq Peer \X (1 .. MaxBoots)
  /\ replicas \in [Peer -> {Absent} \cup Entry] /\ mixed \subseteq Peer
  /\ events \in 0 .. MaxEvents

\* The buffer of an entry that is not mixed holds the entry's own host.
BufferIsOwn ==
  \A p \in Peer : replicas[p] # Absent /\ p \notin mixed => Target(replicas[p]) = p

IInv == OtherTypes /\ HeldIsAccepted /\ UsersInv /\ BufferIsOwn /\ LeadsHome

LEMMA InitInvariant == Init => IInv
<1> SUFFICES ASSUME Init PROVE IInv
  OBVIOUS
<1>1. OtherTypes
  BY BoundAssumption DEF Init, OtherTypes
<1>2. UsersInv
  BY EmptyFine DEF Init, UsersInv, UsersFine, LoggedIn
<1> QED BY <1>1, <1>2 DEF Init, IInv, HeldIsAccepted, BufferIsOwn, LeadsHome

-----------------------------------------------------------------------------
(* The user table *)

\* Nobody is no key, and each key a host.
LEMMA HostsAreKeys == Nobody \notin Key /\ Machine \subseteq Key /\ Peer \subseteq Key /\ Key = Host
BY NoKeyAssumption, HostAssumption DEF Nobody, Host

\* A key that is there has an entry with its value, and an entry a key.
LEMMA EntryOf ==
  ASSUME NEW t, Fine(t)
  PROVE  /\ \A k \in KeysOf(t) : \E i \in Live(t) : KeyAt(t, i) = k /\ t.entries[i].value = Content(t)[k]
         /\ \A i \in Live(t) : KeyAt(t, i) \in KeysOf(t) /\ Content(t)[KeyAt(t, i)] = t.entries[i].value
<1>1. \A i \in Live(t) : Content(t)[KeyAt(t, i)] = t.entries[i].value
  BY ContentAt DEF Fine
<1>2. \A i \in Live(t) : KeyAt(t, i) \in KeysOf(t)
  BY DEF KeysOf
<1>3. \A k \in KeysOf(t) : \E i \in Live(t) : KeyAt(t, i) = k
  BY DEF KeysOf
<1> QED BY <1>1, <1>2, <1>3

\* The table whose open sockets with a key have ended.
LEMMA EndedContent ==
  ASSUME Fine(users), NEW m \in Machine
  PROVE  /\ Fine(Ended(m)) /\ (Compact(users) => Compact(Ended(m)))
         /\ KeysOf(Ended(m)) = KeysOf(users) /\ Ended(m).broken = users.broken
         /\ \A k \in KeysOf(users) :
              Content(Ended(m))[k] = IF k = m /\ Content(users)[k] = "open" THEN "ended"
                                     ELSE Content(users)[k]
<1> DEFINE t == users
           u == Ended(m)
           c == t.capacity
           new(i) == IF t.entries[i].key = m /\ t.entries[i].value = "open"
                     THEN [t.entries[i] EXCEPT !.value = "ended"] ELSE t.entries[i]
<1>1. /\ c \in Nat /\ DOMAIN t.entries = 1 .. c /\ Live(t) \subseteq 1 .. c
      /\ \A i \in 1 .. c : t.entries[i] \in Slot(c)
  BY DEF Fine, Sound, Shape, Live
<1>2. /\ DOMAIN u = DOMAIN t /\ u.length = t.length /\ u.capacity = c
      /\ u.buckets = t.buckets /\ u.broken = t.broken
      /\ u.entries = [i \in 1 .. c |-> new(i)]
  BY <1>1 DEF Ended, Fine, Sound, Shape
<1> HIDE DEF u
<1>3. \A i \in 1 .. c :
        /\ new(i) \in Slot(c)
        /\ new(i).next = t.entries[i].next /\ new(i).hash = t.entries[i].hash
        /\ new(i).key = t.entries[i].key
        /\ new(i).value = IF t.entries[i].key = m /\ t.entries[i].value = "open" THEN "ended"
                          ELSE t.entries[i].value
  <2> TAKE i \in 1 .. c
  <2>1. t.entries[i] \in Slot(c) /\ "ended" \in Value
    BY <1>1, ValueAssumption DEF UserState
  <2> QED BY <2>1 DEF Slot
<1> HIDE DEF new
<1>4. u.entries \in [1 .. c -> Slot(c)] /\ \A i \in 1 .. c : u.entries[i] = new(i)
  BY <1>2, <1>3
<1>5. /\ Sound(u) /\ (Compact(t) => Compact(u)) /\ Live(u) = Live(t) /\ KeysOf(u) = KeysOf(t)
      /\ \A j \in Live(t) : KeyAt(u, j) = KeyAt(t, j)
  <2>1. \A j \in 1 .. c : /\ u.entries[j].next = t.entries[j].next
                          /\ u.entries[j].hash = t.entries[j].hash
                          /\ u.entries[j].key = t.entries[j].key
    BY <1>3, <1>4
  <2>2. Sound(t)
    BY DEF Fine
  <2> HIDE DEF t
  <2> QED BY <1>2, <1>4, <2>1, <2>2, Revalued
<1>6. Fine(u)
  BY <1>2, <1>5 DEF Fine, Counted
<1>7. ASSUME NEW k \in KeysOf(t)
      PROVE  Content(u)[k] = IF k = m /\ Content(t)[k] = "open" THEN "ended" ELSE Content(t)[k]
  <2>1. PICK i \in Live(t) : KeyAt(t, i) = k /\ t.entries[i].value = Content(t)[k]
    BY EntryOf
  <2>2. Content(u)[k] = u.entries[i].value
    BY <1>5, <1>6, <2>1, EntryOf
  <2> QED BY <1>1, <1>3, <1>4, <2>1, <2>2 DEF KeyAt
<1> QED BY <1>2, <1>5, <1>6, <1>7 DEF u

LEMMA UsersNext ==
  ASSUME IInv, [Next]_vars
  PROVE  UsersInv'
<1> SUFFICES ASSUME Dictionary'
             PROVE  /\ UsersFine(users', accepted', LoggedIn', left')
                    /\ usage' = "fill" => Compact(users')
  BY DEF UsersInv
<1> USE HostsAreKeys DEF LoggedIn
<1>a. /\ machine \in [Machine -> {"away", "backlog", "in"}]
      /\ left \subseteq Machine /\ usage \in {"fill", "drain", "reuse"} /\ accepted \in Host \cup {Nobody}
  BY DEF IInv, OtherTypes
<1>b. ASSUME Dictionary
      PROVE  /\ UsersFine(users, accepted, LoggedIn, left)
             /\ usage = "fill" => Compact(users)
  BY <1>b DEF IInv, UsersInv
<1>1. ASSUME NEW m \in Machine, MachineConnects(m)
      PROVE  UsersFine(users', accepted', LoggedIn', left') /\ (usage' = "fill" => Compact(users'))
  <2>1. UNCHANGED <<users, accepted, left, usage>> /\ LoggedIn' = LoggedIn
    BY <1>1, <1>a DEF MachineConnects
  <2>2. Dictionary
    BY <2>1 DEF Dictionary, Usable
  <2> QED BY <1>b, <2>1, <2>2
<1>2. ASSUME NEW m \in Machine, MachineLeaves(m)
      PROVE  UsersFine(users', accepted', LoggedIn', left') /\ (usage' = "fill" => Compact(users'))
  <2>1. /\ users' = Ended(m) /\ left' = left \cup {m} /\ UNCHANGED <<accepted, usage>>
        /\ LoggedIn' = LoggedIn \ {m}
    BY <1>2, <1>a DEF MachineLeaves
  <2>2. Dictionary
    BY <2>1 DEF Dictionary, Usable, Ended
  <2>3. UsersFine(users, accepted, LoggedIn, left) /\ (usage = "fill" => Compact(users))
    BY <1>b, <2>2
  <2>4. /\ Fine(Ended(m)) /\ (Compact(users) => Compact(Ended(m)))
        /\ KeysOf(Ended(m)) = KeysOf(users)
        /\ \A k \in KeysOf(users) :
              Content(Ended(m))[k] = IF k = m /\ Content(users)[k] = "open" THEN "ended"
                                     ELSE Content(users)[k]
    BY <2>3, EndedContent DEF UsersFine
  <2>5. \A k \in KeysOf(users) : /\ Content(users')[k] \in UserState
                                 /\ Content(users')[k] # "open" => k \in left'
    BY <2>1, <2>3, <2>4 DEF UsersFine, UserState
  <2>6. \A k \in LoggedIn' : \/ k \in KeysOf(users') /\ Content(users')[k] = "open"
                             \/ left' \ {k} # {}
    BY <2>1, <2>3, <2>4 DEF UsersFine
  <2> QED BY <2>1, <2>3, <2>4, <2>5, <2>6 DEF UsersFine
<1>3. ASSUME NEW h \in Host, Accept(h)
      PROVE  UsersFine(users', accepted', LoggedIn', left') /\ (usage' = "fill" => Compact(users'))
  <2>1. UNCHANGED <<users, machine, left, usage>> /\ accepted' # Nobody
    BY <1>3 DEF Accept, userVars
  <2>2. Dictionary
    BY <2>1 DEF Dictionary, Usable
  <2> QED BY <1>b, <2>1, <2>2 DEF UsersFine
<1>4. ASSUME NEW m \in Machine, HandleLogin(m)
      PROVE  UsersFine(users', accepted', LoggedIn', left') /\ (usage' = "fill" => Compact(users'))
  <2>1. /\ users' = AfterUpdate(users, m, "open") /\ UNCHANGED <<accepted, left>>
        /\ usage' = IF usage = "drain" /\ m \notin KeysOf(users) THEN "reuse" ELSE usage
        /\ Usable /\ Fits(users, m) /\ LoggedIn' = LoggedIn \cup {m}
        /\ accepted = m /\ m \in Key /\ m # Nobody
    BY <1>4, <1>a DEF HandleLogin, IInv, HeldIsAccepted
  <2>2. Dictionary /\ (m \notin KeysOf(users) => usage = "fill" /\ usage' = "fill")
    BY <1>a, <2>1 DEF Dictionary
  <2>3. UsersFine(users, accepted, LoggedIn, left) /\ (usage = "fill" => Compact(users))
    BY <1>b, <2>2
  <2>4. "open" \in Value
    BY ValueAssumption DEF UserState
  <2>5. /\ Fine(users') /\ (Compact(users) => Compact(users'))
        /\ KeysOf(users') = KeysOf(users) \cup {m}
        /\ Content(users') = Stored(users, m, "open")
    BY <2>1, <2>2, <2>3, <2>4, Updating DEF UsersFine
  <2>6. \A k \in KeysOf(users') : Content(users')[k] = IF k = m THEN "open" ELSE Content(users)[k]
    BY <2>5 DEF Stored
  <2>7. \A k \in KeysOf(users') : /\ Content(users')[k] \in UserState
                                  /\ Content(users')[k] # "open" => k \in left'
    BY <2>1, <2>3, <2>5, <2>6 DEF UsersFine, UserState
  <2>8. \A k \in LoggedIn' : \/ k \in KeysOf(users') /\ Content(users')[k] = "open"
                             \/ left' \ {k} # {}
    BY <2>1, <2>3, <2>5, <2>6 DEF UsersFine
  <2>9. usage' = "fill" => usage = "fill"
    BY <2>1
  <2> QED BY <2>1, <2>3, <2>5, <2>7, <2>8, <2>9 DEF UsersFine
<1>5. ASSUME NEW m \in Machine, ReadEnd(m)
      PROVE  UsersFine(users', accepted', LoggedIn', left') /\ (usage' = "fill" => Compact(users'))
  <2>1. PICK i \in Serving(m, "ended"), s \in {"shut", "reset"} :
          users' = [users EXCEPT !.entries[i].value = s]
    BY <1>5 DEF ReadEnd
  <2>2. UNCHANGED <<accepted, machine, left, usage>> /\ Usable
    BY <1>5 DEF ReadEnd
  <2>3. Dictionary
    BY <2>2 DEF Dictionary
  <2>4. UsersFine(users, accepted, LoggedIn, left) /\ (usage = "fill" => Compact(users))
    BY <1>b, <2>3
  <2>5. i \in Live(users) /\ KeyAt(users, i) = m /\ users.entries[i].value = "ended"
        /\ s \in Value
    BY <2>1, ValueAssumption DEF Serving, KeyAt, UserState
  <2>6. /\ Sound(users') /\ (Compact(users) => Compact(users')) /\ users'.length = users.length
        /\ Live(users') = Live(users) /\ KeysOf(users') = KeysOf(users)
        /\ Content(users') = Stored(users, m, s)
    BY <2>1, <2>4, <2>5, UpdateContent DEF UsersFine, Fine
  <2>7. Fine(users')
    BY <2>4, <2>6 DEF UsersFine, Fine, Counted
  <2>8. m \in KeysOf(users) /\ Content(users)[m] = "ended"
    BY <2>4, <2>5, EntryOf DEF UsersFine
  <2>9. \A k \in KeysOf(users) : Content(users')[k] = IF k = m THEN s ELSE Content(users)[k]
    BY <2>6 DEF Stored
  <2>10. \A k \in KeysOf(users') : /\ Content(users')[k] \in UserState
                                   /\ Content(users')[k] # "open" => k \in left'
    BY <2>1, <2>2, <2>4, <2>6, <2>8, <2>9 DEF UsersFine, UserState
  <2>11. \A k \in LoggedIn' : \/ k \in KeysOf(users') /\ Content(users')[k] = "open"
                              \/ left' \ {k} # {}
    BY <2>2, <2>4, <2>6, <2>8, <2>9 DEF UsersFine
  <2> QED BY <2>2, <2>4, <2>6, <2>7, <2>10, <2>11 DEF UsersFine
<1>6. ASSUME NEW m \in Machine, ClearShut(m)
      PROVE  UsersFine(users', accepted', LoggedIn', left') /\ (usage' = "fill" => Compact(users'))
  <2>1. /\ users' = AfterRemove(users, accepted) /\ UNCHANGED <<accepted, machine, left>>
        /\ usage' = IF usage = "fill" /\ Removes(users, accepted) THEN "drain" ELSE usage
        /\ Usable /\ Serving(m, "shut") # {}
    BY <1>6 DEF ClearShut
  <2>2. Dictionary
    BY <2>1 DEF Dictionary
  <2>3. UsersFine(users, accepted, LoggedIn, left) /\ (usage = "fill" => Compact(users))
    BY <1>b, <2>2
  <2>4. m \in KeysOf(users) /\ Content(users)[m] = "shut" /\ m \in left
    <3>1. PICK i \in Live(users) : KeyAt(users, i) = m /\ users.entries[i].value = "shut"
      BY <2>1 DEF Serving, KeyAt
    <3>2. m \in KeysOf(users) /\ Content(users)[m] = "shut"
      BY <2>3, <3>1, EntryOf DEF UsersFine
    <3> QED BY <2>3, <3>2 DEF UsersFine
  <2>5. accepted \in Key
    BY <1>a, <2>3, <2>4 DEF UsersFine
  <2>6. CASE accepted \in KeysOf(users)
    <3>1. /\ Removes(users, accepted) /\ Fine(users') /\ KeysOf(users') = KeysOf(users) \ {accepted}
          /\ Content(users') = Without(users, accepted)
      BY <2>1, <2>3, <2>6, Removing DEF UsersFine
    <3>2. \A k \in KeysOf(users') : Content(users')[k] = Content(users)[k]
      BY <3>1 DEF Without
    <3>3. usage' # "fill"
      BY <2>1, <3>1
    <3>4. \A k \in LoggedIn' : \/ k \in KeysOf(users') /\ Content(users')[k] = "open"
                               \/ left' \ {k} # {}
      <4> TAKE k \in LoggedIn'
      <4>1. k \in LoggedIn
        BY <2>1
      <4>2. CASE k = m
        BY <2>1, <2>3, <2>4, <4>1, <4>2 DEF UsersFine
      <4>3. CASE k # m
        BY <2>1, <2>4, <4>3
      <4> QED BY <4>2, <4>3
    <3>5. \A k \in KeysOf(users') : /\ Content(users')[k] \in UserState
                                    /\ Content(users')[k] # "open" => k \in left'
      BY <2>1, <2>3, <3>1, <3>2 DEF UsersFine
    <3> QED BY <2>1, <2>3, <2>5, <3>1, <3>3, <3>4, <3>5 DEF UsersFine
  <2>7. CASE accepted \notin KeysOf(users)
    <3>1. ~Removes(users, accepted) /\ users' \in {users, Break(users)}
      BY <2>1, <2>3, <2>5, <2>7, RemovingNone DEF UsersFine
    <3>2. Break(users).broken
      BY <2>3 DEF Break, UsersFine, Fine, Sound, Shape
    <3>3. users' = users /\ usage' = usage
      BY <2>1, <3>1, <3>2 DEF Dictionary, Usable
    <3> QED BY <2>1, <2>3, <3>3
  <2> QED BY <2>6, <2>7
<1>7. CASE UNCHANGED <<users, accepted, machine, left, usage>>
  <2>1. Dictionary
    BY <1>7 DEF Dictionary, Usable
  <2> QED BY <1>7, <1>b, <2>1
<1>8. ASSUME Next, ~UNCHANGED <<users, accepted, machine, left, usage>>
      PROVE  \/ \E h \in Host : Accept(h)
             \/ \E m \in Machine : \/ MachineConnects(m) \/ MachineLeaves(m) \/ HandleLogin(m)
                                   \/ ReadEnd(m) \/ ClearShut(m)
  BY <1>8 DEF Next, Hosts, IncomingWorker, NetworkWorker, Discovery, ConnectReplicas, userVars,
     PeerBoots, PeerStops, PeerConnects, HandleAddReplica, ReadReplicaEnd, Hear, Open, Connect
<1> QED BY <1>1, <1>2, <1>3, <1>4, <1>5, <1>6, <1>7, <1>8 DEF vars, userVars

\* What the invariant says of the entries that the scan visits.
LEMMA ServedFollows ==
  ASSUME IInv
  PROVE  TypeOK /\ ServedUntilAnotherLeaves
<1>1. ASSUME Dictionary
      PROVE  \A i \in Live(users) : /\ users.entries[i].key \in Machine
                                    /\ users.entries[i].value \in UserState
  <2>1. UsersFine(users, accepted, LoggedIn, left)
    BY <1>1 DEF IInv, UsersInv
  <2>2. \A i \in Live(users) : /\ KeyAt(users, i) \in KeysOf(users)
                               /\ Content(users)[KeyAt(users, i)] = users.entries[i].value
    BY <2>1, EntryOf DEF UsersFine
  <2> QED BY <2>1, <2>2 DEF UsersFine, KeyAt
<1>2. ASSUME Dictionary, NEW m \in Machine, machine[m] = "in", Serving(m, "open") = {}
      PROVE  left \ {m} # {}
  <2>1. UsersFine(users, accepted, LoggedIn, left)
    BY <1>2 DEF IInv, UsersInv
  <2>2. ~(m \in KeysOf(users) /\ Content(users)[m] = "open")
    <3>1. ASSUME m \in KeysOf(users), Content(users)[m] = "open" PROVE FALSE
      <4>1. PICK i \in Live(users) : KeyAt(users, i) = m /\ users.entries[i].value = "open"
        BY <2>1, <3>1, EntryOf DEF UsersFine
      <4> QED BY <1>2, <4>1 DEF Serving, KeyAt
    <3> QED BY <3>1
  <2> QED BY <1>2, <2>1, <2>2 DEF UsersFine, LoggedIn
<1> QED BY <1>1, <1>2 DEF IInv, OtherTypes, TypeOK, ServedUntilAnotherLeaves

-----------------------------------------------------------------------------
(* What is done to one entry of ht_replicas *)

\* A new entry is typed, and there.
LEMMA NewIsEntry ==
  ASSUME NEW uuid \in 1 .. MaxBoots, NEW p \in Peer
  PROVE  /\ Found(uuid) \in Entry /\ FromProbe(p, uuid) \in Entry
         /\ Found(uuid) # Absent /\ FromProbe(p, uuid) # Absent
BY BoundAssumption DEF Found, FromProbe, Entry, Absent

\* An entry is told from none by its state.
LEMMA EntryIsPresent ==
  ASSUME NEW e \in {Absent} \cup Entry
  PROVE  e # Absent <=> e \in Entry /\ e.state # "absent"
BY DEF Entry, Absent

-----------------------------------------------------------------------------
(* Types *)

\* A table of entries stays one when an entry is overwritten.
LEMMA TableUpdate ==
  ASSUME replicas \in [Peer -> {Absent} \cup Entry], NEW p \in Peer, NEW e \in Entry
  PROVE  [replicas EXCEPT ![p] = e] \in [Peer -> {Absent} \cup Entry]
OBVIOUS

\* An entry that changes its state is typed.
LEMMA StateUpdate ==
  ASSUME NEW e \in {Absent} \cup Entry, e.state # "absent",
         NEW s \in {"shut", "opening", "in", "out", "error"}
  PROVE  /\ [e EXCEPT !.state = s] \in Entry
         /\ [e EXCEPT !.state = s].state = s
         /\ [e EXCEPT !.state = s].buffer = e.buffer
         /\ [e EXCEPT !.state = s].to = e.to
BY DEF Entry, Absent

LEMMA TypeNext ==
  ASSUME OtherTypes, HeldIsAccepted, [Next]_vars
  PROVE  OtherTypes'
<1> USE BoundAssumption, HostAssumption DEF OtherTypes, Host
<1>1. ASSUME NEW m \in Machine, MachineConnects(m) PROVE OtherTypes'
  BY <1>1 DEF MachineConnects, Event, replicaVars
<1>2. ASSUME NEW m \in Machine, MachineLeaves(m) PROVE OtherTypes'
  BY <1>2 DEF MachineLeaves, replicaVars
<1>3. ASSUME NEW p \in Peer, PeerBoots(p) PROVE OtherTypes'
  BY <1>3 DEF PeerBoots, Event, userVars
<1>4. ASSUME NEW p \in Peer, PeerStops(p) PROVE OtherTypes'
  BY <1>4 DEF PeerStops, userVars
<1>5. ASSUME NEW p \in Peer, PeerConnects(p) PROVE OtherTypes'
  BY <1>5 DEF PeerConnects, Event, userVars, replicaVars
<1>6. ASSUME NEW h \in Host, Accept(h) PROVE OtherTypes'
  BY <1>6 DEF Accept, Present, userVars, replicaVars
<1>7. ASSUME NEW m \in Machine, HandleLogin(m) PROVE OtherTypes'
  BY <1>7 DEF HandleLogin, replicaVars
<1>8. ASSUME NEW p \in Peer, HandleAddReplica(p) PROVE OtherTypes'
  <2>1. knock[p] \in 1 .. MaxBoots
    BY <1>8, HostsAreKeys DEF HandleAddReplica, HeldIsAccepted
  <2>2. replicas' \in [Peer -> {Absent} \cup Entry]
    BY <1>8, <2>1, NewIsEntry, TableUpdate DEF HandleAddReplica
  <2> QED BY <1>8, <2>2 DEF HandleAddReplica, userVars
<1>9. ASSUME NEW m \in Machine, ReadEnd(m) PROVE OtherTypes'
  BY <1>9 DEF ReadEnd, replicaVars
<1>10. ASSUME NEW m \in Machine, ClearShut(m) PROVE OtherTypes'
  BY <1>10 DEF ClearShut, replicaVars
<1>11. ASSUME NEW p \in Peer, ReadReplicaEnd(p) PROVE OtherTypes'
  <2>1. PICK s \in Closed : replicas' = [replicas EXCEPT ![p] = [replicas[p] EXCEPT !.state = s]]
    BY <1>11 DEF ReadReplicaEnd
  <2>2. [replicas[p] EXCEPT !.state = s] \in Entry
    BY <1>11, <2>1, StateUpdate DEF ReadReplicaEnd, Closed
  <2> QED BY <1>11, <2>1, <2>2, TableUpdate DEF ReadReplicaEnd, userVars
<1>12. ASSUME NEW p \in Peer, NEW uuid \in 1 .. MaxBoots, Hear(p, uuid) PROVE OtherTypes'
  <2>1. replicas' \in [Peer -> {Absent} \cup Entry]
    BY <1>12, NewIsEntry, TableUpdate DEF Hear
  <2> QED BY <1>12, <2>1 DEF Hear, Present, userVars
<1>13. ASSUME Open PROVE OtherTypes'
  <2>1. \A p \in Peer : replicas[p].state = "shut" =>
            [replicas[p] EXCEPT !.state = "opening"] \in Entry
    BY StateUpdate
  <2> QED BY <1>13, <2>1 DEF Open, userVars
<1>14. ASSUME NEW p \in Peer, Connect(p) PROVE OtherTypes'
  <2>1. PICK e \in Entry : replicas' = [replicas EXCEPT ![p] = e]
    <3> DEFINE host == Target(replicas[p])
    <3>1. replicas[p] \in Entry
      BY <1>14 DEF Connect, Absent
    <3>2. CASE host \in Peer /\ up[host]
      <4>1. [replicas[p] EXCEPT !.state = "out", !.to = host, !.process = boots[host]] \in Entry
        BY <3>1, <3>2 DEF Entry
      <4> QED BY <1>14, <3>2, <4>1 DEF Connect
    <3>3. CASE ~(host \in Peer /\ up[host])
      <4>1. [replicas[p] EXCEPT !.state = "error"] \in Entry
        BY <3>1 DEF Entry
      <4> QED BY <1>14, <3>3, <4>1 DEF Connect
    <3> QED BY <3>2, <3>3
  <2> QED BY <1>14, <2>1, TableUpdate DEF Connect, userVars
<1>15. CASE UNCHANGED vars
  BY <1>15 DEF vars, userVars, replicaVars
<1> QED BY <1>1, <1>2, <1>3, <1>4, <1>5, <1>6, <1>7, <1>8, <1>9, <1>10, <1>11, <1>12, <1>13,
           <1>14, <1>15
        DEF Next, Hosts, IncomingWorker, NetworkWorker, Discovery, ConnectReplicas

-----------------------------------------------------------------------------
(* The incoming worker holds one connection *)

LEMMA HeldNext ==
  ASSUME OtherTypes, HeldIsAccepted, [Next]_vars
  PROVE  HeldIsAccepted'
<1> USE HostAssumption DEF HeldIsAccepted, Host
<1>1. ASSUME NEW h \in Host, Accept(h) PROVE HeldIsAccepted'
  BY <1>1 DEF Accept
<1>2. ASSUME NEW m \in Machine, HandleLogin(m) PROVE HeldIsAccepted'
  BY <1>2 DEF HandleLogin
<1>3. ASSUME NEW p \in Peer, HandleAddReplica(p) PROVE HeldIsAccepted'
  BY <1>3 DEF HandleAddReplica
<1>4. ASSUME NEW p \in Peer, PeerConnects(p) PROVE HeldIsAccepted'
  BY <1>4 DEF PeerConnects, OtherTypes
<1>5. CASE UNCHANGED <<accepted, holding, knock>>
  BY <1>5
<1>6. ASSUME Next, ~UNCHANGED <<accepted, holding, knock>>
      PROVE  \/ \E h \in Host : Accept(h)
             \/ \E m \in Machine : HandleLogin(m)
             \/ \E p \in Peer : HandleAddReplica(p) \/ PeerConnects(p)
  BY <1>6 DEF Next, Hosts, IncomingWorker, NetworkWorker, Discovery, ConnectReplicas,
     MachineConnects, MachineLeaves, PeerBoots, PeerStops, ReadEnd, ClearShut, ReadReplicaEnd,
     Hear, Open, Connect
<1> QED BY <1>1, <1>2, <1>3, <1>4, <1>5, <1>6 DEF vars

-----------------------------------------------------------------------------
(* The replica table *)

EntriesFine(table, acc, hrd, mix) ==
  \A p \in Peer : table[p] # Absent /\ p \notin mix =>
      /\ (IF table[p].buffer = "heard" THEN hrd ELSE acc) = p
      /\ table[p].state \in {"in", "out"} => table[p].to = p

\* LeadsHome and BufferIsOwn say the same of the variables.
LEMMA FineMeans ==
  /\ BufferIsOwn /\ LeadsHome <=> EntriesFine(replicas, accepted, heard, mixed)
  /\ (BufferIsOwn /\ LeadsHome)' <=> EntriesFine(replicas', accepted', heard', mixed')
BY DEF BufferIsOwn, LeadsHome, EntriesFine, Target

LEMMA ReplicasNext ==
  ASSUME OtherTypes, HeldIsAccepted, BufferIsOwn, LeadsHome, [Next]_vars
  PROVE  BufferIsOwn' /\ LeadsHome'
<1> DEFINE F == EntriesFine(replicas', accepted', heard', mixed')
<1> SUFFICES F
  BY FineMeans
<1>0. EntriesFine(replicas, accepted, heard, mixed)
  BY FineMeans
<1>t. replicas \in [Peer -> {Absent} \cup Entry] /\ mixed \subseteq Peer
  BY DEF OtherTypes
<1>1. ASSUME NEW h \in Host, Accept(h) PROVE F
  <2>1. \A p \in Peer : replicas[p] # Absent => replicas[p].buffer \in {"heard", "accepted"}
    BY <1>t DEF Entry
  <2> QED BY <1>0, <1>1, <2>1 DEF Accept, Present, EntriesFine, replicaVars
<1>2. ASSUME NEW p \in Peer, HandleAddReplica(p) PROVE F
  <2>1. accepted = p /\ UNCHANGED <<accepted, heard, mixed>>
    BY <1>2, HostAssumption, HostsAreKeys DEF HandleAddReplica, HeldIsAccepted, Host
  <2>2. FromProbe(p, knock[p]).buffer # "heard" /\ FromProbe(p, knock[p]).to = p
    BY DEF FromProbe
  <2> QED BY <1>0, <1>t, <1>2, <2>1, <2>2 DEF HandleAddReplica, EntriesFine
<1>3. ASSUME NEW p \in Peer, ReadReplicaEnd(p) PROVE F
  <2>1. PICK s \in Closed : replicas' = [replicas EXCEPT ![p] = [replicas[p] EXCEPT !.state = s]]
    BY <1>3 DEF ReadReplicaEnd
  <2>2. /\ [replicas[p] EXCEPT !.state = s].state \notin {"in", "out"}
        /\ [replicas[p] EXCEPT !.state = s].buffer = replicas[p].buffer
        /\ replicas[p] # Absent
    BY <1>3, <1>t, <2>1, StateUpdate DEF ReadReplicaEnd, Closed, Absent
  <2> QED BY <1>0, <1>t, <1>3, <2>1, <2>2 DEF ReadReplicaEnd, EntriesFine
<1>4. ASSUME NEW p \in Peer, NEW uuid \in 1 .. MaxBoots, Hear(p, uuid) PROVE F
  <2>1. Found(uuid).buffer = "heard" /\ Found(uuid).state = "shut"
    BY DEF Found
  <2> QED BY <1>0, <1>t, <1>4, <2>1 DEF Hear, Present, EntriesFine
<1>5. ASSUME Open PROVE F
  <2>1. \A p \in Peer : replicas[p].state = "shut" =>
          /\ [replicas[p] EXCEPT !.state = "opening"].state = "opening"
          /\ [replicas[p] EXCEPT !.state = "opening"].buffer = replicas[p].buffer
          /\ replicas[p] # Absent
    BY <1>t, StateUpdate DEF Absent
  <2> QED BY <1>0, <1>t, <1>5, <2>1 DEF Open, EntriesFine
<1>6. ASSUME NEW p \in Peer, Connect(p) PROVE F
  <2> DEFINE host == Target(replicas[p])
  <2>1. replicas[p] \in Entry /\ replicas[p] # Absent
    BY <1>6, <1>t DEF Connect, Absent
  <2>2. p \notin mixed => host = p
    BY <1>0, <2>1 DEF EntriesFine, Target
  <2>3. UNCHANGED <<accepted, heard, mixed>>
    BY <1>6 DEF Connect
  <2>4. CASE host \in Peer /\ up[host]
    <3> DEFINE e == [replicas[p] EXCEPT !.state = "out", !.to = host, !.process = boots[host]]
    <3>1. e.to = host /\ e.buffer = replicas[p].buffer
      BY <2>1 DEF Entry
    <3>2. replicas' = [replicas EXCEPT ![p] = e]
      BY <1>6, <2>4 DEF Connect
    <3> HIDE DEF e
    <3> QED BY <1>0, <1>t, <2>1, <2>2, <2>3, <3>1, <3>2 DEF EntriesFine
  <2>5. CASE ~(host \in Peer /\ up[host])
    <3> DEFINE e == [replicas[p] EXCEPT !.state = "error"]
    <3>1. e.state = "error" /\ e.buffer = replicas[p].buffer
      BY <2>1 DEF Entry
    <3>2. replicas' = [replicas EXCEPT ![p] = e]
      BY <1>6, <2>5 DEF Connect
    <3> HIDE DEF e
    <3> QED BY <1>0, <1>t, <2>1, <2>3, <3>1, <3>2 DEF EntriesFine
  <2> QED BY <2>4, <2>5
<1>7. CASE UNCHANGED <<replicas, accepted, heard, mixed>>
  BY <1>0, <1>7
<1>8. ASSUME Next, ~UNCHANGED <<replicas, accepted, heard, mixed>>
      PROVE  \/ Open
             \/ \E h \in Host : Accept(h)
             \/ \E p \in Peer : \/ HandleAddReplica(p) \/ ReadReplicaEnd(p) \/ Connect(p)
                               \/ \E uuid \in 1 .. MaxBoots : Hear(p, uuid)
  BY <1>8 DEF Next, Hosts, IncomingWorker, NetworkWorker, Discovery, ConnectReplicas,
     MachineConnects, MachineLeaves, PeerBoots, PeerStops, PeerConnects, HandleLogin, ReadEnd,
     ClearShut, replicaVars
<1> QED BY <1>1, <1>2, <1>3, <1>4, <1>5, <1>6, <1>7, <1>8 DEF vars, replicaVars

LEMMA NextInvariant == IInv /\ [Next]_vars => IInv'
BY UsersNext, TypeNext, HeldNext, ReplicasNext DEF IInv

-----------------------------------------------------------------------------
\* The tables and buffers keep their types for any number of hosts.
THEOREM TypeInvariant == Spec => []TypeOK
<1>1. IInv => TypeOK
  BY ServedFollows
<1> QED BY <1>1, InitInvariant, NextInvariant, PTL DEF Spec

\* While nobody was added to ht_users after an entry was taken out of it, a machine that
\* is logged in is served on its newest connection until another machine disconnects,
\* for any number of machines, any hash and any growth of the table.
THEOREM ServedInvariant == Spec => []ServedUntilAnotherLeaves
<1>1. IInv => ServedUntilAnotherLeaves
  BY ServedFollows
<1> QED BY <1>1, InitInvariant, NextInvariant, PTL DEF Spec

\* An entry's connection leads to the host it is kept by until another host comes into
\* its buffer, for any number of servers.
THEOREM LeadsHomeInvariant == Spec => []LeadsHome
<1>1. IInv => LeadsHome
  BY DEF IInv
<1> QED BY <1>1, InitInvariant, NextInvariant, PTL DEF Spec
=============================================================================
