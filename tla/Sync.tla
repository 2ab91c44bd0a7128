-------------------------------- MODULE Sync --------------------------------
(***************************************************************************)
(* The server between a client that starts, a replica that joins, and      *)
(* another machine of the user, which is logged in and whose changes cross *)
(* both.  The server's network worker handles one message at a time, under *)
(* m_users those of clients, under m_replicas those of replicas; its       *)
(* election coroutine writes to all of them when it wins, under one lock   *)
(* after the other.                                                        *)
(***************************************************************************)
EXTENDS Startup, Replication

CONSTANTS
  MaxEvents,     \* bound: how many changes of the other machine and elections there are
  MaxElections,  \* bound: how many of them are elections that the server wins
  Earlier,       \* bound: the contents of the files there are at first
  Rejoins        \* the replica may have files of the same names from before

ASSUME BoundAssumption ==
  {MaxEvents, MaxElections} \subseteq Nat /\ Earlier \subseteq Content /\ Rejoins \in BOOLEAN

VARIABLES
  edits,       \* how many changes the other machine made
  elections,   \* how many elections the server won
  announcing,  \* the winner has announced itself to replicas, and not to clients
  crossed,     \* what the client did not ask for came before it had read all else, or torn
  hurried      \* the replica's synchronisation met a change, an announcement or a second
               \* list, or a message came torn

eventVars == <<edits, elections, announcing, crossed>>
vars == <<stored, startupVars, replicationVars, eventVars, hurried>>

Init ==
  /\ stored \in [Name -> Earlier \cup {Absent}]
  /\ StartupInit(Earlier) /\ ReplicationInit(Earlier)
  /\ Rejoins \/ \A n, k \in Name : copy[n] # Absent /\ stored[k] # Absent => Prefix[n] # Prefix[k]
  /\ edits = 0 /\ elections = 0 /\ announcing = FALSE /\ crossed = FALSE /\ hurried = FALSE

Attentive == phase = "running" /\ toClient = << >>
Settled   == replica = "idle" /\ toReplica = << >>

\* Bound: n more changes and elections are possible.
Possible(n) == edits + elections + n <= MaxEvents

Edit == Possible(1) /\ edits' = edits + 1

\* The client is sent a message that it did not ask for.
Notify(msg) ==
  /\ toClient' = IF logged THEN Append(toClient, msg) ELSE toClient
  /\ crossed' = (crossed \/ (logged /\ (~Attentive \/ msg = Junk)))

\* So is the replica.
NotifyReplica(messages) ==
  /\ toReplica' = toReplica \o messages
  /\ hurried' = (hurried \/ ~Settled \/ Contains(messages, Junk))

\* Mutant: replicas get a new file, and no new version.
MutantReplicated(n, x) == IF stored[n] = Absent THEN <<Upload(n, x)>> ELSE << >>

Replicated(n, x) == <<Upload(n, x)>>

\* An election is won (in whose announcement no second one is).
Win ==
  /\ elections < MaxElections /\ elections' = elections + 1
  /\ ~announcing /\ announcing' = TRUE

\* An upload of the other machine: stored and forwarded if the checksum differs.  Its
\* handler does not hold m_replicas: the winner's message can fall into the upload.
HandleUpload(n, x) ==
  /\ Edit
  /\ \/ /\ Same(stored[n], Checksum[x])
        /\ UNCHANGED <<stored, toClient, toReplica, elections, announcing, crossed, hurried>>
     \/ /\ ~Same(stored[n], Checksum[x])
        /\ stored' = [stored EXCEPT ![n] = x]
        /\ Notify(Upload(n, x))
        /\ \/ NotifyReplica(Replicated(n, x)) /\ UNCHANGED <<elections, announcing>>
           \/ Possible(2) /\ NotifyReplica(<<Junk>>) /\ Win
  /\ UNCHANGED <<dir, phase, todo, mirrored, logged, toServer, copy, replica, wanted, fromReplica>>

\* A removal on the other machine: it is forwarded to clients, not to replicas.
HandleDelete(n) ==
  /\ Edit
  /\ stored[n] # Absent
  /\ stored' = [stored EXCEPT ![n] = Absent]
  /\ Notify(Delete(n))
  /\ hurried' = (hurried \/ ~Settled)
  /\ UNCHANGED <<dir, phase, todo, mirrored, logged, toServer, replicationVars, elections, announcing>>

OtherMachine == \E n \in Name : HandleDelete(n) \/ \E x \in Content : HandleUpload(n, x)

\* The winner's header is a local that does not live over the waits for the two
\* monitors: what is written after one may be no message.
Announced == {Coordinator, Junk}

AnnounceToReplicas ==
  /\ Possible(1) /\ Win
  /\ \E msg \in Announced : NotifyReplica(<<msg>>)
  /\ UNCHANGED <<stored, startupVars, copy, replica, wanted, fromReplica, edits, crossed>>

\* The loop over the first length entries of ht_users misses the client if entries
\* before its own are not in use.
AnnounceToClients ==
  /\ announcing /\ announcing' = FALSE
  /\ \/ UNCHANGED <<toClient, crossed>>
     \/ \E msg \in Announced : Notify(msg)
  /\ UNCHANGED <<stored, dir, phase, todo, mirrored, logged, toServer, replicationVars, edits, elections, hurried>>

Election == AnnounceToReplicas \/ AnnounceToClients

\* The other machine is logged in.
Logins == IF logged THEN 2 ELSE 1

Starting == UNCHANGED <<replicationVars, eventVars, hurried>>
Joining  == UNCHANGED <<startupVars, eventVars>>

ClientStep        == Client /\ Starting
ClientHandlerStep == ClientHandlers /\ Starting
ReplicaStep       == Replica /\ Joining /\ UNCHANGED hurried

ReplicaHandlerStep ==
  /\ \/ HandleReplicaList(Logins) /\ hurried' = (hurried \/ Logins > 1)
     \/ HandleReplicaDownload /\ UNCHANGED hurried
  /\ Joining

Next == OtherMachine \/ Election \/ ClientStep \/ ClientHandlerStep
          \/ ReplicaStep \/ ReplicaHandlerStep

Spec == Init /\ [][Next]_vars

\* The server's scan reads every connection in turn; client and replica block in reads.
Fairness == /\ WF_vars(ClientStep) /\ WF_vars(ClientHandlerStep)
            /\ WF_vars(ReplicaStep) /\ WF_vars(ReplicaHandlerStep)

FairSpec == Spec /\ Fairness

-----------------------------------------------------------------------------
(* Properties *)

\* What is read on each side of the two connections.
ServerReads  == [type : {"LOGIN", "LIST"}] \cup FileMessage
ClientReads  == [type : {"LIST"}, list : SUBSET Entry] \cup FileMessage \cup Announced
EarlierReads == [type : {"LIST"}] \cup FileMessage
ReplicaReads == [type : {"ADD_REPLICA"}] \cup [type : {"LIST_USER"}, list : SUBSET Entry]
                  \cup FileMessage \cup Announced

TypeOK ==
  /\ {stored, dir, copy} \subseteq Directory
  /\ phase \in {"offline", "list", "download", "running", "lost"}
  /\ replica \in {"joining", "waiting", "download", "idle", "lost", "dead"}
  /\ todo \subseteq Name /\ wanted \subseteq Name
  /\ toServer \in Seq(ServerReads) /\ toClient \in Seq(ClientReads)
  /\ fromReplica \in Seq(EarlierReads) /\ toReplica \in Seq(ReplicaReads)
  /\ {mirrored, logged, announcing, crossed, hurried} \subseteq BOOLEAN
  /\ edits \in 0 .. MaxEvents /\ elections \in 0 .. MaxElections

\* A message that changes the file n, and what it is made to be.
Changes(msg, n) == msg.type \in {"UPLOAD", "DELETE"} /\ msg.name = n
Made(msg)       == IF msg.type = "DELETE" THEN Absent ELSE msg.data

\* None of the messages behind the first k changes the file n.
Untouched(messages, k, n) == \A i \in DOMAIN messages : i > k => ~Changes(messages[i], n)

\* The last of them that does makes it alike to x.
Remade(messages, k, n, x) ==
  \E i \in DOMAIN messages :
    /\ i > k /\ Changes(messages[i], n)
    /\ Alike(Made(messages[i]), x)
    /\ Untouched(messages, i, n)

\* Once all messages are applied to d, the file n is the server's.
Becomes(d, messages, n) ==
  \/ Untouched(messages, 0, n) /\ Alike(d[n], stored[n])
  \/ Remade(messages, 0, n, stored[n])

\* A client that was given a list and is in step has, once it applied what is on its
\* way, the server's directory, whatever arrived from the other machine meanwhile: no
\* change falls between the list, the downloads and the forwards
\* (dripbox_client_list_server, dripbox_client_network_worker).
StartupMirrors ==
  phase = "running" /\ mirrored => \A n \in Name : Becomes(dir, toClient, n)

\* A client only gets out of step when the server writes what was not asked for, a
\* change of another machine or the announcement of an election's winner, before the
\* client has read all else, or when it writes the announcement torn
\* (server.c:500, server.c:1107).
StartupInStep == phase = "lost" => crossed

Whole(messages) == ~Contains(messages, Junk)

\* A replica that has synchronised stores, once it applied what is on its way, every
\* file of the server (dripbox_server_handle_list_user, dripbox_handle_replica_upload),
\* unless what is on its way is torn; it may keep files the server removed.
ReplicaAgrees ==
  replica = "idle" /\ Whole(toReplica) => \A n \in Files(stored) : Becomes(copy, toReplica, n)

\* The replica has no file of the server's, and the comparer tells all names apart.
New == ~Rejoins /\ \A n, k \in Name : Prefix[n] = Prefix[k] => n = k

\* A new replica only gets out of step, or ends, when a change, an announcement or a
\* second list meets its synchronisation, or a message comes torn.
ReplicaInStep == New /\ replica \in {"lost", "dead"} => hurried

\* The start-up ends: each request of the client is answered.
StartupEnds == <>[](phase \in {"running", "lost"})

\* The synchronisation ends: the replica does not wait for ever.
SyncEnds == <>[](replica \in {"idle", "lost", "dead"})

\* "Download = { file | file in Server \ Client }" (server.c:1191): what a replica
\* downloads when it handles LIST_USER are the files of the server that it does not
\* have.
ReplicaDifference ==
  [][HandleListUser =>
       /\ replica' # "dead"
       /\ wanted' = {e.name : e \in {k \in Head(toReplica).list : ~Same(copy[k.name], k.sum)}}]_vars
=============================================================================
