----------------------------- MODULE Membership ------------------------------
(***************************************************************************)
(* The two tables of one server and the addresses they are kept by.        *)
(*                                                                         *)
(* Every accepted socket points to the one address buffer of the incoming  *)
(* worker, every replica found by multicast to the one buffer of the       *)
(* discovery coroutine: what a buffer holds is the host accepted, or       *)
(* heard, last.  A scan that clears a disconnected user, and a coroutine   *)
(* that connects an entry, use the address that is there by then.          *)
(*                                                                         *)
(* ht_users, from which entries are removed, is the hash table itself,     *)
(* keyed by hosts; of ht_replicas nothing is ever removed, and it is the   *)
(* function that a table which is only filled implements.                  *)
(***************************************************************************)
EXTENDS HashTable

CONSTANTS
  Machine,     \* the hosts of clients
  Peer,        \* the hosts of other servers
  MaxBoots,    \* bound: how often a peer is started
  MaxEvents    \* bound: how many connections and starts of hosts there are

Host   == Machine \cup Peer
Nobody == NoKey  \* no host: the address 0.0.0.0

\* The socket of a user: its connection lasts, has ended, was closed, or has an error.
UserState == {"open", "ended", "shut", "reset"}

ASSUME HostAssumption  == Machine \cap Peer = {} /\ Key = Host
ASSUME ValueAssumption == Value = UserState
ASSUME BoundAssumption == MaxBoots \in Nat /\ MaxEvents \in Nat

VARIABLES
  accepted,   \* the host in the incoming worker's addr
  holding,    \* the host whose connection that worker has accepted and not handled
  machine,    \* "away", "backlog" or "in": the user's end of its newest connection
  users,      \* ht_users
  left,       \* history: the machines that have disconnected
  usage,      \* history: ht_users was at most filled, then drained, then added to
  boots,      \* boots[p]: how often p was started, the uuid of its present process
  up,         \* up[p]: p runs
  knock,      \* knock[p]: the uuid in the probe of p's connection in the backlog, or 0
  probes,     \* the multicast probes that were not read
  heard,      \* the host in the discovery coroutine's remote
  replicas,   \* replicas[p]: the entry for p in ht_replicas
  mixed,      \* the entries whose buffer came to hold another host
  events      \* how many connections and starts there were

userVars    == <<machine, users, left, usage>>
replicaVars == <<boots, up, probes, heard, replicas>>
vars == <<accepted, holding, userVars, replicaVars, knock, mixed, events>>

Absent == [state |-> "absent"]
\* An entry's buffer, and the process that a connection leads to.
Entry  == [state : {"shut", "opening", "in", "out", "error"}, uuid : 1 .. MaxBoots,
           buffer : {"heard", "accepted"}, to : Peer \cup {Nobody}, process : 0 .. MaxBoots]

\* Mutant: the uuid of the probe is not stored.
MutantFound(uuid) ==
  [state |-> "shut", uuid |-> 0, buffer |-> "heard", to |-> Nobody, process |-> 0]

Found(uuid) ==
  [state |-> "shut", uuid |-> uuid, buffer |-> "heard", to |-> Nobody, process |-> 0]

Init ==
  /\ accepted = Nobody /\ holding = Nobody /\ heard = Nobody
  /\ machine = [m \in Machine |-> "away"] /\ users = EmptyTable
  /\ left = {} /\ usage = "fill"
  /\ boots = [p \in Peer |-> 0] /\ up = [p \in Peer |-> FALSE]
  /\ knock = [p \in Peer |-> 0] /\ probes = {}
  /\ replicas = [p \in Peer |-> Absent] /\ mixed = {}
  /\ events = 0

Present(buffer) == {p \in Peer : replicas[p] # Absent /\ replicas[p].buffer = buffer}

-----------------------------------------------------------------------------
(* The other hosts *)

Event == events < MaxEvents /\ events' = events + 1

MachineConnects(m) ==
  /\ Event
  /\ machine[m] = "away"
  /\ machine' = [machine EXCEPT ![m] = "backlog"]
  /\ UNCHANGED <<accepted, holding, users, left, usage, replicaVars, knock, mixed>>

\* The connection of m ends, in whichever entries its socket is.
Ended(m) ==
  [users EXCEPT !.entries = [i \in DOMAIN @ |->
     IF @[i].key = m /\ @[i].value = "open" THEN [@[i] EXCEPT !.value = "ended"] ELSE @[i]]]

MachineLeaves(m) ==
  /\ machine[m] = "in"
  /\ machine' = [machine EXCEPT ![m] = "away"]
  /\ users' = Ended(m)
  /\ left' = left \cup {m}
  /\ UNCHANGED <<accepted, holding, usage, replicaVars, knock, mixed, events>>

\* The probe of a server that starts may be lost.
PeerBoots(p) ==
  /\ Event
  /\ ~up[p] /\ boots[p] < MaxBoots
  /\ boots' = [boots EXCEPT ![p] = @ + 1]
  /\ up' = [up EXCEPT ![p] = TRUE]
  /\ probes' \in {probes, probes \cup {<<p, boots'[p]>>}}
  /\ UNCHANGED <<accepted, holding, userVars, heard, replicas, knock, mixed>>

PeerStops(p) ==
  /\ up[p]
  /\ up' = [up EXCEPT ![p] = FALSE]
  /\ UNCHANGED <<accepted, holding, userVars, boots, probes, heard, replicas, knock, mixed, events>>

\* A peer that found this server, or was misled to it, connects.
PeerConnects(p) ==
  /\ Event
  /\ up[p] /\ knock[p] = 0
  /\ knock' = [knock EXCEPT ![p] = boots[p]]
  /\ UNCHANGED <<accepted, holding, userVars, replicaVars, mixed>>

-----------------------------------------------------------------------------
(* The incoming worker *)

\* accept writes the host's address to the buffer of all accepted sockets.
Accept(h) ==
  /\ holding = Nobody
  /\ \/ h \in Machine /\ machine[h] = "backlog"
     \/ h \in Peer /\ knock[h] # 0
  /\ holding' = h /\ accepted' = h
  /\ mixed' = mixed \cup (Present("accepted") \ {h})
  /\ UNCHANGED <<userVars, replicaVars, knock, events>>

Usable == ~users.broken

HandleLogin(m) ==
  /\ holding = m /\ holding' = Nobody
  /\ Usable /\ Fits(users, m)
  /\ machine' = [machine EXCEPT ![m] = "in"]
  /\ users' = AfterUpdate(users, m, "open")
  /\ usage' = IF usage = "drain" /\ m \notin KeysOf(users) THEN "reuse" ELSE usage
  /\ UNCHANGED <<accepted, left, replicaVars, knock, mixed, events>>

FromProbe(p, uuid) ==
  [state |-> "in", uuid |-> uuid, buffer |-> "accepted", to |-> p, process |-> uuid]

\* An entry that is there is kept as it is, and the connection never read.
HandleAddReplica(p) ==
  /\ holding = p /\ holding' = Nobody
  /\ knock' = [knock EXCEPT ![p] = 0]
  /\ replicas' = IF replicas[p] # Absent THEN replicas
                 ELSE [replicas EXCEPT ![p] = FromProbe(p, knock[p])]
  /\ UNCHANGED <<accepted, userVars, boots, up, probes, heard, mixed, events>>

IncomingWorker == (\E h \in Host : Accept(h))
                    \/ (\E m \in Machine : HandleLogin(m))
                    \/ (\E p \in Peer : HandleAddReplica(p))

-----------------------------------------------------------------------------
(* The network worker *)

\* The entries of ht_users that the scan visits with this key and socket.
Serving(m, state) ==
  {i \in Live(users) : users.entries[i].key = m /\ users.entries[i].value = state}

\* The end of a user's connection is read: the socket is closed, or has an error that
\* nothing resets.
ReadEnd(m) ==
  /\ Usable
  /\ \E i \in Serving(m, "ended") : \E s \in {"shut", "reset"} :
       users' = [users EXCEPT !.entries[i].value = s]
  /\ UNCHANGED <<accepted, holding, machine, left, usage, replicaVars, knock, mixed, events>>

\* hash_table_remove(ht_users, ipv4_cstr(client.addr)) for the closed socket of m: the
\* address is the one of the host accepted last.
ClearShut(m) ==
  /\ Usable
  /\ Serving(m, "shut") # {}
  /\ users' = AfterRemove(users, accepted)
  /\ usage' = IF usage = "fill" /\ Removes(users, accepted) THEN "drain" ELSE usage
  /\ UNCHANGED <<accepted, holding, machine, left, replicaVars, knock, mixed, events>>

Alive(e) == up[e.to] /\ boots[e.to] = e.process

\* Mutant: the descriptor is kept at the end of the connection.
MutantClosed == {"in", "out"}

Closed == {"shut", "error"}

\* The end of a replica's connection is read: closed or reset.
ReadReplicaEnd(p) ==
  /\ replicas[p].state \in {"in", "out"} /\ ~Alive(replicas[p])
  /\ \E s \in Closed : replicas' = [replicas EXCEPT ![p].state = s]
  /\ UNCHANGED <<accepted, holding, userVars, boots, up, probes, heard, knock, mixed, events>>

NetworkWorker == (\E m \in Machine : ReadEnd(m) \/ ClearShut(m))
                   \/ (\E p \in Peer : ReadReplicaEnd(p))

-----------------------------------------------------------------------------
(* The scheduler *)

\* server_discover_replicas: the address is read into the buffer of all found replicas.
Hear(p, uuid) ==
  /\ <<p, uuid>> \in probes /\ probes' = probes \ {<<p, uuid>>}
  /\ heard' = p
  /\ replicas' = IF replicas[p] # Absent THEN replicas
                 ELSE [replicas EXCEPT ![p] = Found(uuid)]
  /\ mixed' = mixed \cup (Present("heard") \ {p})
  /\ UNCHANGED <<accepted, holding, userVars, boots, up, knock, events>>

\* connect_replicas: every entry without a descriptor gets one and a coroutine.
Open ==
  /\ \E p \in Peer : replicas[p].state = "shut"
  /\ replicas' = [p \in Peer |-> IF replicas[p].state = "shut"
                                 THEN [replicas[p] EXCEPT !.state = "opening"] ELSE replicas[p]]
  /\ UNCHANGED <<accepted, holding, userVars, boots, up, probes, heard, knock, mixed, events>>

\* Mutant: every entry is connected to the host heard last.
MutantTarget(e) == heard

Target(e) == IF e.buffer = "heard" THEN heard ELSE accepted

\* connect_replica_async: to the host in the buffer by now; who does not listen refuses.
Connect(p) ==
  LET host == Target(replicas[p])
  IN /\ replicas[p].state = "opening"
     /\ replicas' = [replicas EXCEPT ![p] =
          IF host \in Peer /\ up[host]
          THEN [@ EXCEPT !.state = "out", !.to = host, !.process = boots[host]]
          ELSE [@ EXCEPT !.state = "error"]]
     /\ UNCHANGED <<accepted, holding, userVars, boots, up, probes, heard, knock, mixed, events>>

Discovery       == \E p \in Peer : \E uuid \in 1 .. MaxBoots : Hear(p, uuid)
ConnectReplicas == Open \/ \E p \in Peer : Connect(p)

Hosts == (\E m \in Machine : MachineConnects(m) \/ MachineLeaves(m))
           \/ (\E p \in Peer : PeerBoots(p) \/ PeerStops(p) \/ PeerConnects(p))

Next == Hosts \/ IncomingWorker \/ NetworkWorker \/ Discovery \/ ConnectReplicas

Spec == Init /\ [][Next]_vars

\* The workers and the coroutines are endless loops over all connections and entries.
Fairness ==
  /\ WF_vars(IncomingWorker) /\ WF_vars(Discovery) /\ WF_vars(Open)
  /\ \A m \in Machine : WF_vars(ReadEnd(m)) /\ WF_vars(ClearShut(m))
  /\ \A p \in Peer : WF_vars(ReadReplicaEnd(p)) /\ WF_vars(Connect(p))

FairSpec == Spec /\ Fairness

-----------------------------------------------------------------------------
(* Properties *)

\* ht_users is a dictionary: nobody was added after an entry was taken out, and no walk
\* left the array.
Dictionary == Usable /\ usage # "reuse"

TypeOK ==
  /\ {accepted, holding} \subseteq Host \cup {Nobody} /\ heard \in Peer \cup {Nobody}
  /\ machine \in [Machine -> {"away", "backlog", "in"}]
  /\ left \subseteq Machine /\ usage \in {"fill", "drain", "reuse"}
  /\ Dictionary => \A i \in Live(users) : /\ users.entries[i].key \in Machine
                                         /\ users.entries[i].value \in UserState
  /\ boots \in [Peer -> 0 .. MaxBoots] /\ up \in [Peer -> BOOLEAN]
  /\ knock \in [Peer -> 0 .. MaxBoots] /\ probes \subseteq Peer \X (1 .. MaxBoots)
  /\ replicas \in [Peer -> {Absent} \cup Entry] /\ mixed \subseteq Peer
  /\ events \in 0 .. MaxEvents

\* A machine that is logged in is served on its newest connection, whatever became of
\* its earlier ones and of other entries of its chain, until another machine disconnects:
\* only then can the scan remove its entry for the other's (server.c:867-870,
\* hash_table_update at server.c:381).
ServedUntilAnotherLeaves ==
  Dictionary =>
    \A m \in Machine : machine[m] = "in" /\ Serving(m, "open") = {} => left \ {m} # {}

\* A connection leads to the host its entry is kept by, unless another host came into
\* the buffer after the entry was made (server.c:808, server.c:149).
LeadsHome ==
  \A p \in Peer : replicas[p] # Absent /\ replicas[p].state \in {"in", "out"}
                    => replicas[p].to = p \/ p \in mixed

\* A disconnected user's entry is cleared once its host is the one accepted last, behind
\* whichever entries of its chain it lies and whichever were taken out (server.c:870).
ShutIsCleared ==
  \A m \in Machine : <>[](accepted = m /\ Dictionary) => <>[](Serving(m, "shut") = {})

\* Connections that end are opened again, until each entry has one to a live process or
\* an error, whatever peers stopped and started meanwhile (server.c:235, server.c:204).
EntriesSettle ==
  <>[](\A p \in Peer : replicas[p] = Absent \/ replicas[p].state = "error"
                         \/ (replicas[p].state \in {"in", "out"} /\ Alive(replicas[p])))
=============================================================================
