---------------------------- MODULE Replication -----------------------------
(***************************************************************************)
(* A server that joins after another: it accepts the connection of the     *)
(* earlier server, asks it for the users that are logged in, removes and   *)
(* downloads what differs from their directories, and then stores what the *)
(* earlier server forwards.                                                *)
(*                                                                         *)
(* "lost" is a replica that took one message for another, or read into the *)
(* message behind a payload; "dead" one that followed a name as a pointer. *)
(* Of an election only the winner's announcement is there: the earlier     *)
(* server is older, so that the replica follows it and answers nothing.    *)
(* Pings and the reverse connection are left out.                          *)
(***************************************************************************)
EXTENDS Storage

CONSTANT Prefix   \* Prefix[n]: the first eight bytes of the name n

ASSUME PrefixAssumption == DOMAIN Prefix = Name

VARIABLES
  copy,         \* the user's directory on the replica
  replica,      \* "joining", "waiting", "download", "idle", "lost" or "dead"
  wanted,       \* the names to download, the first of them is requested
  toReplica,    \* what the replica has not read
  fromReplica   \* what the earlier server has not read

replicationVars == <<copy, replica, wanted, toReplica, fromReplica>>

ReplicationInit(contents) ==
  /\ copy \in [Name -> contents \cup {Absent}]
  /\ replica = "joining" /\ wanted = {}
  /\ toReplica = <<[type |-> "ADD_REPLICA"]>> /\ fromReplica = << >>

-----------------------------------------------------------------------------
(* The replica *)

Takes == toReplica # << >> /\ toReplica' = Tail(toReplica)

Accept ==
  /\ replica = "joining" /\ Takes /\ Head(toReplica).type = "ADD_REPLICA"
  /\ replica' = "waiting"
  /\ fromReplica' = Append(fromReplica, [type |-> "LIST"])
  /\ UNCHANGED <<stored, copy, wanted>>

\* Mutant: all files are requested at once.
MutantFetch(names) ==
  /\ wanted' = names
  /\ replica' = IF names = {} THEN "idle" ELSE "download"
  /\ fromReplica' = IF names \subseteq wanted THEN fromReplica
                    ELSE fromReplica \o SetToSeq({Download(n) : n \in names})

\* The next download, or the end of the synchronisation.
Fetch(names) ==
  /\ wanted' = names
  /\ replica' = IF names = {} THEN "idle" ELSE "download"
  /\ fromReplica' = IF names = {} THEN fromReplica
                    ELSE Append(fromReplica, Download(First(names)))

Fails(how) == replica' = how /\ UNCHANGED <<copy, wanted, fromReplica>>

\* The comparer takes an entry for a length and a pointer: two names that differ in
\* their first eight bytes are unequal, of any others the pointers are followed.
Clash(a, b) == \E e \in a, k \in b : Prefix[e.name] = Prefix[k.name]

ClashWithin(a) == \E e, k \in a : e # k /\ Prefix[e.name] = Prefix[k.name]

Handling(type) == replica \in {"waiting", "idle"} /\ Takes /\ Head(toReplica).type = type

HandleListUser ==
  LET server == Head(toReplica).list
      client == Listing(copy)
  IN /\ Handling("LIST_USER")
     /\ CASE server = {} -> Fetch({}) /\ UNCHANGED copy
          [] server # {} /\ (Clash(server, client) \/ ClashWithin(server) \/ ClashWithin(client)) ->
               Fails("dead")
          [] OTHER -> /\ copy' = Without(copy, ToDelete(server, client))
                      /\ Fetch(ToDownload(server, client))
     /\ UNCHANGED stored

\* Header and length are read at once: an error puts the replica out of step too.
ReceiveBytes ==
  LET msg == Head(toReplica)
  IN /\ replica = "download" /\ Takes
     /\ IF msg.type = "BYTES"
        THEN copy' = [copy EXCEPT ![First(wanted)] = msg.data] /\ Fetch(wanted \ {First(wanted)})
        ELSE Fails("lost")
     /\ UNCHANGED stored

HandleReplicaUpload ==
  LET msg == Head(toReplica)
  IN /\ Handling("UPLOAD")
     /\ copy' = IF Same(copy[msg.name], msg.sum) THEN copy ELSE [copy EXCEPT ![msg.name] = msg.data]
     /\ UNCHANGED <<stored, replica, wanted, fromReplica>>

HandleCoordinator ==
  /\ Handling("COORDINATOR")
  /\ UNCHANGED <<stored, copy, replica, wanted, fromReplica>>

HandleJunk == Handling("JUNK") /\ Fails("lost") /\ UNCHANGED stored

ReplicaReadsPast ==
  /\ Len(toReplica) > 1
  /\ \/ replica = "download" /\ Head(toReplica).type = "BYTES"
     \/ replica \in {"waiting", "idle"} /\ Head(toReplica).type = "UPLOAD"
  /\ Fails("lost")
  /\ UNCHANGED <<stored, toReplica>>

Replica == Accept \/ HandleListUser \/ ReceiveBytes \/ HandleReplicaUpload
             \/ HandleCoordinator \/ HandleJunk \/ ReplicaReadsPast

-----------------------------------------------------------------------------
(* The earlier server *)

FromReplica(type) ==
  fromReplica # << >> /\ Head(fromReplica).type = type /\ fromReplica' = Tail(fromReplica)

\* Mutant: users without files are left out.
MutantListUser(logins) ==
  IF Files(stored) = {} THEN << >>
  ELSE [i \in 1 .. logins |-> [type |-> "LIST_USER", list |-> Listing(stored)]]

\* One message for each connection that is logged in, also if they are one user's.
ListUser(logins) == [i \in 1 .. logins |-> [type |-> "LIST_USER", list |-> Listing(stored)]]

HandleReplicaList(logins) ==
  /\ FromReplica("LIST")
  /\ toReplica' = toReplica \o ListUser(logins)
  /\ UNCHANGED <<stored, copy, replica, wanted>>

HandleReplicaDownload ==
  /\ FromReplica("DOWNLOAD")
  /\ toReplica' = Append(toReplica, Answer(Head(fromReplica).name))
  /\ UNCHANGED <<stored, copy, replica, wanted>>
=============================================================================
