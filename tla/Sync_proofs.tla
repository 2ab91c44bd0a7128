----------------------------- MODULE Sync_proofs -----------------------------
(***************************************************************************)
(* Proofs about Sync for every set of files and contents, every directory  *)
(* the hosts start with, and any number of changes of the other machine:   *)
(* the types, and that client and replica stay in step with the server,    *)
(* whatever elections it wins.                                             *)
(*                                                                         *)
(* Each has one request open at a time, and what is on its connection is   *)
(* the request or its answer, until a change or an announcement crosses    *)
(* one: Exchange says so phase by phase of the client, Joins of the        *)
(* replica.                                                                *)
(***************************************************************************)
EXTENDS Sync, WellFoundedInduction, TLAPS

\* The first of some names is one of them.
LEMMA FirstIsOne ==
  ASSUME NEW names \in SUBSET Name, names # {}
  PROVE  First(names) \in names
<1>1. names \subseteq Nat
  BY NameAssumption
<1>2. \E n \in names : \A k \in names : ~(<<k, n>> \in OpToRel(<, Nat))
  BY <1>1, NatLessThanWellFounded, WFMin, Zenon
<1>4. \A k, n \in Nat : k < n => <<k, n>> \in OpToRel(<, Nat)
  BY Zenon DEF OpToRel
<1>3. \E n \in names : \A k \in names : n <= k
  <2>1. \A k, n \in Nat : ~(k < n) => n <= k
    OBVIOUS
  <2> QED BY <1>1, <1>2, <1>4, <2>1, Zenon
<1> QED BY <1>3 DEF First

-----------------------------------------------------------------------------
(* Types *)

\* The fields of what is read, by its type.
LEMMA Fields ==
  ASSUME NEW m \in ServerReads \cup ClientReads \cup EarlierReads \cup ReplicaReads
  PROVE  /\ m.type \in {"UPLOAD", "DELETE", "DOWNLOAD"} => m.name \in Name
         /\ m.type = "UPLOAD" => m.data \in Content /\ m.sum = Checksum[m.data]
         /\ m.type = "BYTES" => m.data \in Content
         /\ m \in ClientReads /\ m.type = "LIST" => m.list \in SUBSET Entry
         /\ m.type = "LIST_USER" => m.list \in SUBSET Entry
<1>1. CASE m \in {Upload(n, x) : n \in Name, x \in Content}
  BY <1>1 DEF Upload
<1>2. CASE m \notin {Upload(n, x) : n \in Name, x \in Content}
  BY <1>2 DEF ServerReads, ClientReads, EarlierReads, ReplicaReads, FileMessage, Error,
              Announced, Coordinator, Junk
<1> QED BY <1>1, <1>2

LEMMA UploadIsMessage ==
  ASSUME NEW n \in Name, NEW x \in Content
  PROVE  Upload(n, x) \in FileMessage
BY DEF FileMessage

LEMMA AnswerIsMessage ==
  ASSUME stored \in Directory, NEW n \in Name
  PROVE  Answer(n) \in FileMessage
BY DEF Answer, Error, FileMessage, Directory

LEMMA ListingIsEntries ==
  ASSUME NEW d \in Directory
  PROVE  Listing(d) \in SUBSET Entry
BY ChecksumAssumption DEF Directory, Listing, Files, Entry

LEMMA Comparisons ==
  ASSUME NEW d \in Directory, NEW list \in SUBSET Entry
  PROVE  /\ ToDownload(list, Listing(d)) \in SUBSET Name
         /\ \A names : Without(d, names) \in Directory
<1>1. \A e \in list : e.name \in Name
  BY DEF Entry
<1> QED BY <1>1 DEF ToDownload, NamesOf, Difference, Without, Directory

\* The first of a sequence, the rest, and one more at the end.
LEMMA SeqEnds ==
  ASSUME NEW S, NEW s \in Seq(S)
  PROVE  /\ s # << >> => Head(s) \in S /\ Tail(s) \in Seq(S)
         /\ \A x \in S : Append(s, x) \in Seq(S)
OBVIOUS

ClientTypes ==
  /\ stored \in Directory /\ dir \in Directory
  /\ phase \in {"offline", "list", "download", "running", "lost"}
  /\ todo \subseteq Name
  /\ toServer \in Seq(ServerReads)
  /\ toClient \in Seq(ClientReads)
  /\ mirrored \in BOOLEAN /\ logged \in BOOLEAN

ReplicaTypes ==
  /\ stored \in Directory /\ copy \in Directory
  /\ replica \in {"joining", "waiting", "download", "idle", "lost", "dead"}
  /\ wanted \subseteq Name
  /\ fromReplica \in Seq(EarlierReads)
  /\ toReplica \in Seq(ReplicaReads)

LEMMA RequestTypes ==
  ASSUME ClientTypes, NEW names \in SUBSET Name, Request(names)
  PROVE  /\ phase' \in {"running", "download"}
         /\ todo' \subseteq Name
         /\ toServer' \in Seq(ServerReads)
<1>1. names # {} => Download(First(names)) \in ServerReads
  BY FirstIsOne DEF Download, FileMessage, ServerReads
<1>2. names # {} => Append(toServer, Download(First(names))) \in Seq(ServerReads)
  BY <1>1, SeqEnds DEF ClientTypes
<1> QED BY <1>2 DEF Request, ClientTypes

LEMMA AppliedTypes ==
  ASSUME NEW d \in Directory, NEW m \in ClientReads
  PROVE  Applied(d, m) \in Directory
<1>1. m.type = "DELETE" => m.name \in Name
  BY Fields
<1>2. m.type = "UPLOAD" => m.name \in Name /\ m.data \in Content
  BY Fields
<1> QED BY <1>1, <1>2 DEF Applied, Directory

LEMMA ClientTypeSteps ==
  ASSUME ClientTypes, Client
  PROVE  ClientTypes'
<1> USE DEF ClientTypes
<1>1. toClient # << >> => /\ Head(toClient) \in ClientReads
                         /\ Tail(toClient) \in Seq(ClientReads)
  BY SeqEnds
<1>2. CASE Login
  <2>1. <<[type |-> "LOGIN"], [type |-> "LIST"]>> \in Seq(ServerReads)
    BY DEF ServerReads
  <2> QED BY <1>2, <2>1 DEF Login
<1>3. CASE ReceiveList
  <2>1. CASE Head(toClient).type # "LIST" \/ Head(toClient).list = {}
    BY <1>1, <1>3, <2>1 DEF ReceiveList, Reading, Lost
  <2>2. CASE Head(toClient).type = "LIST" /\ Head(toClient).list # {}
    <3> DEFINE list == Head(toClient).list
    <3>1. list \in SUBSET Entry
      BY <1>1, <1>3, <2>2, Fields DEF ReceiveList, Reading
    <3>2. /\ Request(ToDownload(list, Listing(dir)))
          /\ dir' = Without(dir, ToDelete(list, Listing(dir)))
          /\ mirrored' = TRUE /\ UNCHANGED <<stored, logged>> /\ Reading
      BY <1>3, <2>2 DEF ReceiveList
    <3>3. ToDownload(list, Listing(dir)) \in SUBSET Name /\ dir' \in Directory
      BY <3>1, <3>2, Comparisons
    <3> HIDE DEF list
    <3> QED BY <1>1, <3>2, <3>3, RequestTypes DEF Reading
  <2> QED BY <2>1, <2>2
<1>4. CASE ReceiveFile
  <2>1. CASE Head(toClient).type \in {"BYTES", "ERROR"}
    <3>1. /\ Request(todo \ {First(todo)}) /\ Reading /\ UNCHANGED <<stored, logged, mirrored>>
          /\ dir' = IF Head(toClient).type = "BYTES" THEN [dir EXCEPT ![First(todo)] = Head(toClient).data] ELSE dir
      BY <1>4, <2>1 DEF ReceiveFile
    <3>2. Head(toClient).type = "BYTES" => Head(toClient).data \in Content
      BY <1>1, <3>1, Fields DEF Reading
    <3>3. dir' \in Directory
      BY <3>1, <3>2 DEF Directory
    <3>4. todo \ {First(todo)} \in SUBSET Name
      OBVIOUS
    <3> QED BY <1>1, <3>1, <3>3, <3>4, RequestTypes DEF Reading
  <2>2. CASE Head(toClient).type \notin {"BYTES", "ERROR"}
    BY <1>1, <1>4, <2>2 DEF ReceiveFile, Reading, Lost
  <2> QED BY <2>1, <2>2
<1>5. CASE ReceiveForward
  BY <1>1, <1>5, AppliedTypes DEF ReceiveForward, Reading, Lost
<1>6. CASE ReadPastPayload
  BY <1>6 DEF ReadPastPayload, Lost
<1> QED BY <1>2, <1>3, <1>4, <1>5, <1>6 DEF Client

LEMMA HandlerTypeSteps ==
  ASSUME ClientTypes, ClientHandlers
  PROVE  ClientTypes'
<1> USE DEF ClientTypes
<1>1. toServer # << >> => /\ Head(toServer) \in ServerReads
                         /\ Tail(toServer) \in Seq(ServerReads)
  BY SeqEnds
<1>2. CASE HandleLogin
  BY <1>1, <1>2 DEF HandleLogin, Reads
<1>3. CASE HandleList
  <2>1. [type |-> "LIST", list |-> Listing(stored)] \in ClientReads
    BY ListingIsEntries DEF ClientReads
  <2>2. Lists \in Seq(ClientReads)
    BY <2>1 DEF Lists
  <2>3. toClient \o Lists \in Seq(ClientReads)
    BY <2>2
  <2> QED BY <1>1, <1>3, <2>3 DEF HandleList, Reads
<1>4. CASE HandleDownload
  <2>1. Head(toServer).name \in Name
    BY <1>1, <1>4, Fields DEF HandleDownload, Reads
  <2>2. Answer(Head(toServer).name) \in ClientReads
    BY <2>1, AnswerIsMessage DEF ClientReads
  <2>3. Append(toClient, Answer(Head(toServer).name)) \in Seq(ClientReads)
    BY <2>2, SeqEnds
  <2> QED BY <1>1, <1>4, <2>3 DEF HandleDownload, Reads
<1> QED BY <1>2, <1>3, <1>4 DEF ClientHandlers

-----------------------------------------------------------------------------
LEMMA FetchTypes ==
  ASSUME ReplicaTypes, NEW names \in SUBSET Name, Fetch(names)
  PROVE  /\ replica' \in {"idle", "download"}
         /\ wanted' \subseteq Name
         /\ fromReplica' \in Seq(EarlierReads)
<1>1. names # {} => Download(First(names)) \in EarlierReads
  BY FirstIsOne DEF Download, FileMessage, EarlierReads
<1>2. names # {} => Append(fromReplica, Download(First(names))) \in Seq(EarlierReads)
  BY <1>1, SeqEnds DEF ReplicaTypes
<1> QED BY <1>2 DEF Fetch, ReplicaTypes

LEMMA ReplicaTypeSteps ==
  ASSUME ReplicaTypes, Replica
  PROVE  ReplicaTypes'
<1> USE DEF ReplicaTypes
<1>1. toReplica # << >> => Head(toReplica) \in ReplicaReads /\ Tail(toReplica) \in Seq(ReplicaReads)
  BY SeqEnds
<1>2. CASE Accept
  <2>1. [type |-> "LIST"] \in EarlierReads
    BY DEF EarlierReads
  <2> QED BY <1>1, <1>2, <2>1, SeqEnds DEF Accept, Takes
<1>3. CASE HandleListUser
  <2> DEFINE list == Head(toReplica).list
  <2>1. list \in SUBSET Entry
    BY <1>1, <1>3, Fields DEF HandleListUser, Handling, Takes
  <2>2. /\ UNCHANGED stored /\ toReplica' \in Seq(ReplicaReads)
        /\ \/ Fetch({}) /\ UNCHANGED copy
           \/ Fails("dead")
           \/ /\ copy' = Without(copy, ToDelete(list, Listing(copy)))
              /\ Fetch(ToDownload(list, Listing(copy)))
    BY <1>1, <1>3 DEF HandleListUser, Handling, Takes
  <2>3. ToDownload(list, Listing(copy)) \in SUBSET Name /\ {} \in SUBSET Name
    BY <2>1, Comparisons
  <2>4. \A names : Without(copy, names) \in Directory
    BY <2>1, Comparisons
  <2> HIDE DEF list
  <2>5. CASE Fails("dead")
    BY <2>2, <2>5 DEF Fails
  <2>6. CASE Fetch({}) /\ UNCHANGED copy
    BY <2>2, <2>3, <2>6, FetchTypes
  <2>7. CASE /\ copy' = Without(copy, ToDelete(list, Listing(copy)))
             /\ Fetch(ToDownload(list, Listing(copy)))
    BY <2>2, <2>3, <2>4, <2>7, FetchTypes
  <2> QED BY <2>2, <2>5, <2>6, <2>7
<1>4. CASE ReceiveBytes
  <2>1. CASE Head(toReplica).type = "BYTES"
    <3>1. /\ Fetch(wanted \ {First(wanted)}) /\ UNCHANGED stored /\ Takes
          /\ copy' = [copy EXCEPT ![First(wanted)] = Head(toReplica).data]
      BY <1>4, <2>1 DEF ReceiveBytes
    <3>2. Head(toReplica).data \in Content
      BY <1>1, <2>1, <3>1, Fields DEF Takes
    <3>3. copy' \in Directory
      BY <3>1, <3>2 DEF Directory
    <3>4. wanted \ {First(wanted)} \in SUBSET Name
      OBVIOUS
    <3> QED BY <1>1, <3>1, <3>3, <3>4, FetchTypes DEF Takes
  <2>2. CASE Head(toReplica).type # "BYTES"
    BY <1>1, <1>4, <2>2 DEF ReceiveBytes, Takes, Fails
  <2> QED BY <2>1, <2>2
<1>5. CASE HandleReplicaUpload
  <2>1. Head(toReplica).name \in Name /\ Head(toReplica).data \in Content
    BY <1>1, <1>5, Fields DEF HandleReplicaUpload, Handling, Takes
  <2>2. copy' \in Directory
    BY <1>5, <2>1 DEF HandleReplicaUpload, Directory
  <2> QED BY <1>1, <1>5, <2>2 DEF HandleReplicaUpload, Handling, Takes
<1>6. CASE ReplicaReadsPast
  BY <1>6 DEF ReplicaReadsPast, Fails
<1>7. CASE HandleCoordinator \/ HandleJunk
  BY <1>1, <1>7 DEF HandleCoordinator, HandleJunk, Handling, Takes, Fails
<1> QED BY <1>2, <1>3, <1>4, <1>5, <1>6, <1>7 DEF Replica

LEMMA EarlierServerTypeSteps ==
  ASSUME ReplicaTypes, NEW logins \in Nat, HandleReplicaList(logins) \/ HandleReplicaDownload
  PROVE  ReplicaTypes'
<1> USE DEF ReplicaTypes
<1>1. fromReplica # << >> => /\ Head(fromReplica) \in EarlierReads
                            /\ Tail(fromReplica) \in Seq(EarlierReads)
  BY SeqEnds
<1>2. CASE HandleReplicaList(logins)
  <2>1. [type |-> "LIST_USER", list |-> Listing(stored)] \in ReplicaReads
    BY ListingIsEntries DEF ReplicaReads
  <2>2. ListUser(logins) \in Seq(ReplicaReads)
    BY <2>1 DEF ListUser
  <2>3. toReplica \o ListUser(logins) \in Seq(ReplicaReads)
    BY <2>2
  <2> QED BY <1>1, <1>2, <2>3 DEF HandleReplicaList, FromReplica
<1>3. CASE HandleReplicaDownload
  <2>1. Head(fromReplica).name \in Name
    BY <1>1, <1>3, Fields DEF HandleReplicaDownload, FromReplica
  <2>2. Answer(Head(fromReplica).name) \in ReplicaReads
    BY <2>1, AnswerIsMessage DEF ReplicaReads
  <2>3. Append(toReplica, Answer(Head(fromReplica).name)) \in Seq(ReplicaReads)
    BY <2>2, SeqEnds
  <2> QED BY <1>1, <1>3, <2>3 DEF HandleReplicaDownload, FromReplica
<1> QED BY <1>2, <1>3

-----------------------------------------------------------------------------
LEMMA NotifyTypes ==
  ASSUME TypeOK
  PROVE  /\ \A msg \in ClientReads : Notify(msg) => toClient' \in Seq(ClientReads) /\ crossed' \in BOOLEAN
         /\ \A messages \in Seq(ReplicaReads) :
              NotifyReplica(messages) => toReplica' \in Seq(ReplicaReads) /\ hurried' \in BOOLEAN
<1> USE DEF TypeOK
<1>1. ASSUME NEW msg \in ClientReads, Notify(msg)
      PROVE  toClient' \in Seq(ClientReads) /\ crossed' \in BOOLEAN
  BY <1>1, SeqEnds DEF Notify, Attentive
<1>2. ASSUME NEW messages \in Seq(ReplicaReads), NotifyReplica(messages)
      PROVE  toReplica' \in Seq(ReplicaReads) /\ hurried' \in BOOLEAN
  BY <1>2 DEF NotifyReplica, Settled, Contains
<1> QED BY <1>1, <1>2

LEMMA AnnouncedIsRead ==
  ASSUME NEW msg \in Announced
  PROVE  msg \in ClientReads /\ <<msg>> \in Seq(ReplicaReads)
BY DEF ClientReads, ReplicaReads

LEMMA WinTypes ==
  ASSUME TypeOK, Win
  PROVE  elections' \in 0 .. MaxElections /\ announcing' \in BOOLEAN
BY BoundAssumption DEF TypeOK, Win

LEMMA OtherTypeSteps ==
  ASSUME TypeOK, OtherMachine
  PROVE  TypeOK'
<1> USE DEF TypeOK
<1>1. edits' \in 0 .. MaxEvents
  BY BoundAssumption DEF OtherMachine, HandleDelete, HandleUpload, Edit, Possible
<1>2. ASSUME NEW n \in Name, HandleDelete(n) PROVE TypeOK'
  <2>1. Delete(n) \in ClientReads
    BY DEF ClientReads, FileMessage, Delete
  <2>2. stored' \in Directory
    BY <1>2 DEF HandleDelete, Directory
  <2>3. hurried' \in BOOLEAN
    BY <1>2 DEF HandleDelete, Settled
  <2> QED BY <1>1, <1>2, <2>1, <2>2, <2>3, NotifyTypes DEF HandleDelete, replicationVars
<1>3. ASSUME NEW n \in Name, NEW x \in Content, HandleUpload(n, x) PROVE TypeOK'
  <2>1. Upload(n, x) \in ClientReads /\ Upload(n, x) \in ReplicaReads
    BY UploadIsMessage DEF ClientReads, ReplicaReads
  <2>2. CASE UNCHANGED <<stored, toClient, toReplica, elections, announcing, crossed, hurried>>
    BY <1>1, <1>3, <2>2 DEF HandleUpload
  <2>3. CASE stored' = [stored EXCEPT ![n] = x] /\ Notify(Upload(n, x))
    <3>1. stored' \in Directory /\ toClient' \in Seq(ClientReads) /\ crossed' \in BOOLEAN
      BY <2>1, <2>3, NotifyTypes DEF Directory
    <3>2. Replicated(n, x) \in Seq(ReplicaReads) /\ <<Junk>> \in Seq(ReplicaReads)
      BY <2>1, AnnouncedIsRead DEF Replicated, Announced
    <3>3. CASE NotifyReplica(Replicated(n, x)) /\ UNCHANGED <<elections, announcing>>
      BY <1>1, <1>3, <3>1, <3>2, <3>3, NotifyTypes DEF HandleUpload
    <3>4. CASE NotifyReplica(<<Junk>>) /\ Win
      BY <1>1, <1>3, <3>1, <3>2, <3>4, NotifyTypes, WinTypes DEF HandleUpload
    <3>5. UNCHANGED <<stored, toClient, toReplica, elections, announcing, crossed, hurried>>
            \/ (NotifyReplica(Replicated(n, x)) /\ UNCHANGED <<elections, announcing>>)
            \/ (NotifyReplica(<<Junk>>) /\ Win)
      BY <1>3 DEF HandleUpload
    <3> QED BY <2>2, <3>3, <3>4, <3>5
  <2> QED BY <1>3, <2>2, <2>3 DEF HandleUpload
<1> QED BY <1>2, <1>3 DEF OtherMachine

LEMMA ElectionTypeSteps ==
  ASSUME TypeOK, Election
  PROVE  TypeOK'
<1> USE DEF TypeOK
<1>1. CASE AnnounceToReplicas
  BY <1>1, NotifyTypes, AnnouncedIsRead, WinTypes DEF AnnounceToReplicas, startupVars
<1>2. CASE AnnounceToClients
  <2>1. toClient' \in Seq(ClientReads) /\ crossed' \in BOOLEAN
    BY <1>2, NotifyTypes, AnnouncedIsRead DEF AnnounceToClients
  <2> QED BY <1>2, <2>1 DEF AnnounceToClients, replicationVars
<1> QED BY <1>1, <1>2 DEF Election

LEMMA TypesPreserved == TypeOK /\ [Next]_vars => TypeOK'
<1> SUFFICES ASSUME TypeOK, [Next]_vars PROVE TypeOK'
  OBVIOUS
<1>1. ClientTypes /\ ReplicaTypes
  BY DEF TypeOK, ClientTypes, ReplicaTypes
<1>2. CASE OtherMachine \/ Election
  BY <1>2, OtherTypeSteps, ElectionTypeSteps
<1>3. CASE ClientStep \/ ClientHandlerStep
  <2>1. ClientTypes'
    BY <1>1, <1>3, ClientTypeSteps, HandlerTypeSteps DEF ClientStep, ClientHandlerStep
  <2>2. UNCHANGED <<copy, replica, wanted, toReplica, fromReplica, edits, elections, announcing, crossed,
                    hurried>>
    BY <1>3 DEF ClientStep, ClientHandlerStep, Starting, replicationVars, eventVars
  <2> QED BY <2>1, <2>2 DEF TypeOK, ClientTypes
<1>4. CASE ReplicaStep \/ ReplicaHandlerStep
  <2>1. Logins \in Nat
    BY DEF Logins
  <2>2. ReplicaTypes'
    BY <1>1, <1>4, <2>1, ReplicaTypeSteps, EarlierServerTypeSteps DEF ReplicaStep, ReplicaHandlerStep
  <2>3. /\ UNCHANGED <<dir, phase, todo, mirrored, logged, toServer, toClient>>
        /\ UNCHANGED <<edits, elections, announcing, crossed>>
        /\ hurried' \in BOOLEAN
    BY <1>4 DEF ReplicaStep, ReplicaHandlerStep, Joining, startupVars, eventVars, TypeOK
  <2> QED BY <2>2, <2>3 DEF TypeOK, ReplicaTypes
<1>5. CASE UNCHANGED vars
  BY <1>5 DEF vars, startupVars, replicationVars, eventVars, TypeOK
<1> QED BY <1>2, <1>3, <1>4, <1>5 DEF Next

LEMMA InitTypes == Init => TypeOK
<1> SUFFICES ASSUME Init PROVE TypeOK
  OBVIOUS
<1>1. stored \in Directory /\ dir \in Directory /\ copy \in Directory
  BY BoundAssumption DEF Init, StartupInit, ReplicationInit, Directory
<1>2. /\ toReplica \in Seq(ReplicaReads) /\ fromReplica \in Seq(EarlierReads)
      /\ toServer \in Seq(ServerReads) /\ toClient \in Seq(ClientReads)
  BY DEF Init, StartupInit, ReplicationInit, ReplicaReads
<1>3. edits \in 0 .. MaxEvents /\ elections \in 0 .. MaxElections
  BY BoundAssumption DEF Init
<1> QED BY <1>1, <1>2, <1>3 DEF Init, StartupInit, ReplicationInit, TypeOK

\* Every variable keeps its type, for any files, contents, checksums and changes: a
\* message is only read as what it is (dripbox_expect_msg_).
THEOREM TypeInvariant == Spec => []TypeOK
BY InitTypes, TypesPreserved, PTL DEF Spec

-----------------------------------------------------------------------------
(* The client stays in step *)

Only(channel, type) == \E m : channel = <<m>> /\ m.type = type

\* The server has the request, or the client has an answer.
Awaits(request, answers) ==
  \/ Only(toServer, request) /\ toClient = << >>
  \/ toServer = << >> /\ \E type \in answers : Only(toClient, type)

LoggingIn == /\ toServer = <<[type |-> "LOGIN"], [type |-> "LIST"]>>
             /\ toClient = << >>

\* What is on the connection in each phase.
Exchange ==
  /\ phase \in {"offline", "list", "download", "running"}
  /\ phase = "offline"  => toServer = << >> /\ toClient = << >> /\ ~logged
  /\ phase = "list"     => LoggingIn \/ Awaits("LIST", {"LIST"})
  /\ phase = "download" => Awaits("DOWNLOAD", {"BYTES", "ERROR"})
  /\ phase = "running"  => /\ toServer = << >>
                           /\ \/ toClient = << >>
                              \/ \E m : toClient = <<m>> /\ m # Junk

StepInv == ~crossed => Exchange

LEMMA InitExchange == Init => StepInv
BY DEF Init, StartupInit, StepInv, Exchange

\* A message alone in its channel is the first, and nothing is behind it.
LEMMA OneMessage ==
  ASSUME NEW m, NEW s, s = <<m>>
  PROVE  /\ s # << >> /\ Head(s) = m /\ Tail(s) = << >> /\ Len(s) = 1
OBVIOUS

\* The messages by their types.
LEMMA Types ==
  /\ \A n : Download(n).type = "DOWNLOAD" /\ Delete(n).type = "DELETE"
  /\ \A n : Answer(n).type \in {"BYTES", "ERROR"}
BY DEF Download, Delete, Answer, Error

-----------------------------------------------------------------------------
\* After a request the server has it, or the client runs.
LEMMA Requests ==
  ASSUME NEW names, Request(names), toServer = << >>, toClient' = << >>
  PROVE  Exchange'
<1>1. CASE names = {}
  BY <1>1 DEF Request, Exchange
<1>2. CASE names # {}
  <2>1. phase' = "download" /\ toServer' = <<Download(First(names))>>
    BY <1>2 DEF Request
  <2>2. Only(toServer', "DOWNLOAD")
    BY <2>1, Types DEF Only
  <2> QED BY <2>1, <2>2 DEF Exchange, Awaits, Only
<1> QED BY <1>1, <1>2

LEMMA ClientSteps ==
  ASSUME StepInv, ClientStep
  PROVE  StepInv'
<1> SUFFICES ASSUME ~crossed', Client, Exchange PROVE Exchange'
  BY DEF StepInv, ClientStep, Starting, eventVars
<1>1. CASE Login
  BY <1>1 DEF Login, Exchange, LoggingIn
<1>2. CASE ReceiveList
  <2>1. toServer = << >> /\ Only(toClient, "LIST")
    BY <1>2 DEF ReceiveList, Reading, Exchange, LoggingIn, Awaits
  <2>2. Head(toClient).type = "LIST" /\ toClient' = << >>
    BY <1>2, <2>1, OneMessage DEF ReceiveList, Reading, Only
  <2>3. CASE Head(toClient).list = {}
    BY <1>2, <2>1, <2>2, <2>3 DEF ReceiveList, Exchange
  <2>4. CASE Head(toClient).list # {}
    BY <1>2, <2>1, <2>2, <2>4, Requests DEF ReceiveList
  <2> QED BY <2>3, <2>4
<1>3. CASE ReceiveFile
  <2>1. toServer = << >> /\ \E type \in {"BYTES", "ERROR"} : Only(toClient, type)
    BY <1>3 DEF ReceiveFile, Reading, Exchange, Awaits
  <2>2. Head(toClient).type \in {"BYTES", "ERROR"} /\ toClient' = << >>
    BY <1>3, <2>1, OneMessage DEF ReceiveFile, Reading, Only
  <2> QED BY <1>3, <2>1, <2>2, Requests DEF ReceiveFile
<1>4. CASE ReceiveForward
  <2>1. toServer = << >> /\ \E m : toClient = <<m>> /\ m # Junk
    BY <1>4 DEF ReceiveForward, Reading, Exchange
  <2>2. toClient' = << >> /\ Head(toClient) # Junk
    BY <1>4, <2>1, OneMessage DEF ReceiveForward, Reading
  <2> QED BY <1>4, <2>1, <2>2 DEF ReceiveForward, Exchange
<1>5. ~ReadPastPayload
  <2>1. phase \in {"download", "running"} => toClient = << >> \/ \E m : toClient = <<m>>
    BY DEF Exchange, Awaits, Only
  <2>2. \A m : toClient = <<m>> => ~(Len(toClient) > 1)
    BY OneMessage
  <2>3. toClient = << >> => ~(Len(toClient) > 1)
    OBVIOUS
  <2> QED BY <2>1, <2>2, <2>3 DEF ReadPastPayload
<1> QED BY <1>1, <1>2, <1>3, <1>4, <1>5 DEF Client

-----------------------------------------------------------------------------
(* The server *)

LEMMA HandlerSteps ==
  ASSUME StepInv, ClientHandlerStep
  PROVE  StepInv'
<1> SUFFICES ASSUME ~crossed', ClientHandlers, Exchange PROVE Exchange'
  BY DEF StepInv, ClientHandlerStep, Starting, eventVars
<1>1. CASE HandleLogin
  <2>1. phase = "list" /\ LoggingIn
    BY <1>1, OneMessage DEF HandleLogin, Reads, Exchange, Awaits, Only
  <2>2. toServer' = <<[type |-> "LIST"]>> /\ toClient' = << >> /\ phase' = "list"
    BY <1>1, <2>1 DEF HandleLogin, Reads, LoggingIn
  <2> QED BY <2>2 DEF Exchange, Awaits, Only
<1>2. CASE HandleList
  <2>1. phase = "list" /\ Only(toServer, "LIST") /\ toClient = << >>
    BY <1>2, OneMessage DEF HandleList, Reads, Exchange, LoggingIn, Awaits, Only
  <2>2. toServer' = << >> /\ phase' = "list"
    BY <1>2, <2>1, OneMessage DEF HandleList, Reads, Only
  <2>3. Only(toClient', "LIST")
    BY <1>2, <2>1 DEF HandleList, Lists, Only
  <2> QED BY <2>2, <2>3 DEF Exchange, Awaits, Only
<1>3. CASE HandleDownload
  <2>1. phase = "download" /\ Only(toServer, "DOWNLOAD") /\ toClient = << >>
    BY <1>3, OneMessage DEF HandleDownload, Reads, Exchange, LoggingIn, Awaits, Only
  <2>2. toServer' = << >> /\ phase' = "download"
    BY <1>3, <2>1, OneMessage DEF HandleDownload, Reads, Only
  <2>3. \E type \in {"BYTES", "ERROR"} : Only(toClient', type)
    BY <1>3, <2>1, Types DEF HandleDownload, Only
  <2> QED BY <2>2, <2>3 DEF Exchange, Awaits, Only
<1> QED BY <1>1, <1>2, <1>3 DEF ClientHandlers

\* What crosses nothing is sent to nobody, or to a client that runs and has read all
\* else.
LEMMA Notifies ==
  ASSUME StepInv, NEW msg, Notify(msg), ~crossed', UNCHANGED <<phase, toServer, logged>>
  PROVE  Exchange'
<1>1. Exchange
  BY DEF StepInv, Notify
<1>2. CASE ~logged
  BY <1>1, <1>2 DEF Notify, Exchange, LoggingIn, Awaits, Only
<1>3. CASE logged
  <2>1. Attentive /\ toClient' = Append(toClient, msg) /\ msg # Junk
    BY <1>3 DEF Notify
  <2>2. toClient' = <<msg>>
    BY <2>1 DEF Attentive
  <2>3. toServer' = << >> /\ phase' = "running"
    BY <1>1, <2>1 DEF Attentive, Exchange
  <2> QED BY <2>1, <2>2, <2>3 DEF Exchange
<1> QED BY <1>2, <1>3

LEMMA OtherSteps ==
  ASSUME StepInv, OtherMachine \/ Election \/ ReplicaStep \/ ReplicaHandlerStep \/ UNCHANGED vars
  PROVE  StepInv'
<1>1. ASSUME UNCHANGED <<phase, logged, toServer, toClient, crossed>> PROVE StepInv'
  BY <1>1 DEF StepInv, Exchange, LoggingIn, Awaits, Only
<1>2. ASSUME NEW msg, Notify(msg), UNCHANGED <<phase, toServer, logged>> PROVE StepInv'
  BY <1>2, Notifies DEF StepInv
<1>3. ASSUME NEW n \in Name, HandleDelete(n) PROVE StepInv'
  BY <1>2, <1>3 DEF HandleDelete
<1>4. ASSUME NEW n \in Name, NEW x \in Content, HandleUpload(n, x) PROVE StepInv'
  <2>1. CASE UNCHANGED <<toClient, crossed>>
    BY <1>1, <1>4, <2>1 DEF HandleUpload
  <2>2. CASE Notify(Upload(n, x))
    BY <1>2, <1>4, <2>2 DEF HandleUpload
  <2> QED BY <1>4, <2>1, <2>2 DEF HandleUpload
<1>5. CASE AnnounceToClients
  <2>1. CASE UNCHANGED <<toClient, crossed>>
    BY <1>1, <1>5, <2>1 DEF AnnounceToClients
  <2>2. CASE \E msg \in Announced : Notify(msg)
    BY <1>2, <1>5, <2>2 DEF AnnounceToClients
  <2> QED BY <1>5, <2>1, <2>2 DEF AnnounceToClients
<1>6. AnnounceToReplicas \/ ReplicaStep \/ ReplicaHandlerStep \/ UNCHANGED vars
        => UNCHANGED <<phase, logged, toServer, toClient, crossed>>
  BY DEF AnnounceToReplicas, ReplicaStep, ReplicaHandlerStep, Joining, vars, startupVars, eventVars
<1> QED BY <1>1, <1>3, <1>4, <1>5, <1>6 DEF OtherMachine, Election

LEMMA NextExchange == StepInv /\ [Next]_vars => StepInv'
BY ClientSteps, HandlerSteps, OtherSteps DEF Next

-----------------------------------------------------------------------------
\* Unless what the client did not ask for, a change of another machine or the
\* announcement of an election's winner, crosses its start-up or another message or
\* comes torn, it is never out of step with the server, for any number of files,
\* changes and elections (dripbox_client_list_server, dripbox_download_file,
\* dripbox_server_election_coroutine).
THEOREM StartupInStepInvariant == Spec => []StartupInStep
<1>1. StepInv => StartupInStep
  BY DEF StepInv, Exchange, StartupInStep
<1> QED BY <1>1, InitExchange, NextExchange, PTL DEF Spec

-----------------------------------------------------------------------------
(* The replica stays in step *)

\* What is on the replica's connection, as long as nothing hurried it: its request,
\* or the answer; and what it asks for is there.
Joins ==
  /\ replica \in {"joining", "waiting", "download", "idle"}
  /\ replica \in {"joining", "waiting"} => Files(copy) \cap Files(stored) = {}
  /\ replica = "joining" => /\ toReplica = <<[type |-> "ADD_REPLICA"]>>
                            /\ fromReplica = << >>
  /\ replica = "waiting" =>
       \/ fromReplica = <<[type |-> "LIST"]>> /\ toReplica = << >>
       \/ /\ fromReplica = << >>
          /\ toReplica = <<[type |-> "LIST_USER", list |-> Listing(stored)]>>
  /\ replica = "download" =>
       /\ wanted # {} /\ wanted \subseteq Files(stored)
       /\ \/ fromReplica = <<Download(First(wanted))>> /\ toReplica = << >>
          \/ fromReplica = << >> /\ Only(toReplica, "BYTES")
  /\ replica = "idle" => /\ fromReplica = << >>
                         /\ \/ toReplica = << >>
                            \/ Only(toReplica, "UPLOAD")
                            \/ Only(toReplica, "COORDINATOR")

JoinInv == New /\ ~hurried => Joins

LEMMA InitJoins == Init => JoinInv
<1> SUFFICES ASSUME Init, New PROVE Joins
  BY DEF JoinInv
<1>1. Files(copy) \cap Files(stored) = {}
  BY DEF Init, ReplicationInit, New, Files
<1> QED BY <1>1 DEF Init, ReplicationInit, Joins

\* After a fetch the earlier server has the request, or the replica is done.
LEMMA Fetches ==
  ASSUME NEW names \in SUBSET Files(stored), Fetch(names), UNCHANGED stored,
         fromReplica = << >>, toReplica' = << >>
  PROVE  Joins'
<1>1. CASE names = {}
  BY <1>1 DEF Fetch, Joins
<1>2. CASE names # {}
  <2>1. fromReplica' = <<Download(First(names))>> /\ wanted' = names /\ replica' = "download"
    BY <1>2 DEF Fetch
  <2> QED BY <1>2, <2>1 DEF Joins, Files
<1> QED BY <1>1, <1>2

\* A new replica's listing has no name in common with the server's, and the comparer
\* is not led astray.
LEMMA NoClash ==
  ASSUME New, Files(copy) \cap Files(stored) = {}
  PROVE  /\ ~Clash(Listing(stored), Listing(copy))
         /\ ~ClashWithin(Listing(stored)) /\ ~ClashWithin(Listing(copy))
<1>1. ASSUME NEW d, NEW e \in Listing(d)
      PROVE  e.name \in Files(d) /\ e = [name |-> e.name, sum |-> Checksum[d[e.name]]]
  BY DEF Listing
<1>2. \A n, k \in Name : Prefix[n] = Prefix[k] => n = k
  BY DEF New
<1>3. \A d : Files(d) \subseteq Name
  BY DEF Files
<1>4. \A d : ~ClashWithin(Listing(d))
  <2> SUFFICES ASSUME NEW d, NEW e \in Listing(d), NEW k \in Listing(d),
                      Prefix[e.name] = Prefix[k.name]
               PROVE  e = k
    BY DEF ClashWithin
  <2>1. e.name = k.name
    BY <1>1, <1>2, <1>3
  <2> QED BY <1>1, <2>1
<1>5. ~Clash(Listing(stored), Listing(copy))
  BY <1>1, <1>2, <1>3 DEF Clash
<1> QED BY <1>4, <1>5

LEMMA ReplicaJoins ==
  ASSUME JoinInv, ReplicaStep
  PROVE  JoinInv'
<1> SUFFICES ASSUME New, Joins, Replica, UNCHANGED stored PROVE Joins'
  BY DEF JoinInv, ReplicaStep, New, Replica, Accept, HandleListUser, ReceiveBytes,
         HandleReplicaUpload, HandleCoordinator, HandleJunk, ReplicaReadsPast
<1>1. CASE Accept
  <2>1. /\ replica = "joining" /\ replica' = "waiting" /\ UNCHANGED copy
        /\ toReplica = <<[type |-> "ADD_REPLICA"]>> /\ fromReplica = << >>
        /\ toReplica' = Tail(toReplica)
        /\ fromReplica' = Append(fromReplica, [type |-> "LIST"])
    BY <1>1 DEF Accept, Takes, Joins
  <2>2. toReplica' = << >> /\ fromReplica' = <<[type |-> "LIST"]>>
    BY <2>1
  <2> QED BY <2>1, <2>2 DEF Joins, Files
<1>2. CASE HandleListUser
  <2>1. /\ replica \in {"waiting", "idle"} /\ toReplica # << >>
        /\ Head(toReplica).type = "LIST_USER" /\ toReplica' = Tail(toReplica)
    BY <1>2 DEF HandleListUser, Handling, Takes
  <2>2. replica = "waiting"
    BY <2>1, OneMessage DEF Joins, Only
  <2>3. /\ fromReplica = << >>
        /\ toReplica = <<[type |-> "LIST_USER", list |-> Listing(stored)]>>
    BY <2>1, <2>2 DEF Joins
  <2>4. toReplica' = << >> /\ Head(toReplica).list = Listing(stored)
    BY <2>1, <2>3, OneMessage
  <2>5. /\ ~Clash(Listing(stored), Listing(copy))
        /\ ~ClashWithin(Listing(stored)) /\ ~ClashWithin(Listing(copy))
    BY <2>2, NoClash DEF Joins
  <2>6. Fetch({}) \/ Fetch(ToDownload(Listing(stored), Listing(copy)))
    BY <1>2, <2>4, <2>5 DEF HandleListUser
  <2>7. ToDownload(Listing(stored), Listing(copy)) \in SUBSET Files(stored)
    <3>1. \A e \in Listing(stored) : e.name \in Files(stored)
      BY DEF Listing
    <3> QED BY <3>1 DEF ToDownload, NamesOf, Difference
  <2>8. {} \in SUBSET Files(stored)
    OBVIOUS
  <2> QED BY <2>3, <2>4, <2>6, <2>7, <2>8, Fetches
<1>3. CASE ReceiveBytes
  <2>1. /\ replica = "download" /\ toReplica # << >> /\ toReplica' = Tail(toReplica)
        /\ fromReplica = << >> /\ Only(toReplica, "BYTES") /\ wanted \subseteq Files(stored)
    BY <1>3 DEF ReceiveBytes, Takes, Joins
  <2>2. toReplica' = << >> /\ Head(toReplica).type = "BYTES"
    BY <2>1, OneMessage DEF Only
  <2>3. Fetch(wanted \ {First(wanted)})
    BY <1>3, <2>2 DEF ReceiveBytes
  <2>4. wanted \ {First(wanted)} \in SUBSET Files(stored)
    BY <2>1
  <2> QED BY <2>1, <2>2, <2>3, <2>4, Fetches
<1>4. CASE HandleReplicaUpload \/ HandleCoordinator
  <2>1. /\ replica \in {"waiting", "idle"} /\ toReplica # << >>
        /\ Head(toReplica).type \in {"UPLOAD", "COORDINATOR"} /\ toReplica' = Tail(toReplica)
        /\ UNCHANGED <<replica, wanted, fromReplica>>
    BY <1>4 DEF HandleReplicaUpload, HandleCoordinator, Handling, Takes
  <2>2. /\ replica = "idle" /\ fromReplica = << >>
        /\ Only(toReplica, "UPLOAD") \/ Only(toReplica, "COORDINATOR")
    BY <2>1, OneMessage DEF Joins
  <2>3. toReplica' = << >>
    BY <2>1, <2>2, OneMessage DEF Only
  <2> QED BY <2>1, <2>2, <2>3 DEF Joins
<1>5. ~ReplicaReadsPast
  <2>1. toReplica = << >> \/ \E m : toReplica = <<m>>
    BY DEF Joins, Only
  <2>2. \A m : toReplica = <<m>> => ~(Len(toReplica) > 1)
    BY OneMessage
  <2>3. toReplica = << >> => ~(Len(toReplica) > 1)
    OBVIOUS
  <2> QED BY <2>1, <2>2, <2>3 DEF ReplicaReadsPast
<1>6. ~HandleJunk
  BY OneMessage DEF HandleJunk, Handling, Takes, Joins, Only
<1> QED BY <1>1, <1>2, <1>3, <1>4, <1>5, <1>6 DEF Replica

LEMMA EarlierServerJoins ==
  ASSUME JoinInv, ReplicaHandlerStep
  PROVE  JoinInv'
<1>0. ~hurried' => ~hurried /\ (HandleReplicaDownload \/ (HandleReplicaList(Logins) /\ ~(Logins > 1)))
  BY DEF ReplicaHandlerStep
<1> SUFFICES ASSUME New, ~hurried', Joins PROVE Joins'
  BY <1>0 DEF JoinInv, New
<1>1. CASE HandleReplicaList(Logins) /\ ~(Logins > 1)
  <2>1. Logins = 1
    BY <1>1 DEF Logins
  <2>2. /\ fromReplica # << >> /\ Head(fromReplica).type = "LIST"
        /\ fromReplica' = Tail(fromReplica) /\ toReplica' = toReplica \o ListUser(1)
        /\ UNCHANGED <<stored, copy, replica, wanted>>
    BY <1>1, <2>1 DEF HandleReplicaList, FromReplica
  <2>3. /\ replica = "waiting"
        /\ fromReplica = <<[type |-> "LIST"]>> /\ toReplica = << >>
    BY <2>2, OneMessage, Types DEF Joins
  <2>4. ListUser(1) = <<[type |-> "LIST_USER", list |-> Listing(stored)]>>
    BY DEF ListUser
  <2>5. /\ fromReplica' = << >>
        /\ toReplica' = <<[type |-> "LIST_USER", list |-> Listing(stored)]>>
    BY <2>2, <2>3, <2>4, OneMessage
  <2>6. Listing(stored)' = Listing(stored) /\ Files(stored)' = Files(stored) /\ Files(copy)' = Files(copy)
    BY <2>2 DEF Listing, Files
  <2> QED BY <2>2, <2>3, <2>5, <2>6 DEF Joins
<1>2. CASE HandleReplicaDownload
  <2>1. /\ fromReplica # << >> /\ Head(fromReplica).type = "DOWNLOAD"
        /\ fromReplica' = Tail(fromReplica)
        /\ toReplica' = Append(toReplica, Answer(Head(fromReplica).name))
        /\ UNCHANGED <<stored, copy, replica, wanted>>
    BY <1>2 DEF HandleReplicaDownload, FromReplica
  <2>2. /\ replica = "download" /\ wanted # {} /\ wanted \subseteq Files(stored)
        /\ fromReplica = <<Download(First(wanted))>> /\ toReplica = << >>
    BY <2>1, OneMessage DEF Joins
  <2>3. First(wanted) \in Files(stored)
    BY <2>2, FirstIsOne DEF Files
  <2>4. Head(fromReplica).name = First(wanted) /\ fromReplica' = << >>
    BY <2>1, <2>2, OneMessage DEF Download
  <2>5. Answer(First(wanted)).type = "BYTES"
    BY <2>3 DEF Answer, Files
  <2>6. Only(toReplica', "BYTES")
    BY <2>1, <2>2, <2>4, <2>5 DEF Only
  <2> QED BY <2>1, <2>2, <2>4, <2>6 DEF Joins, Files
<1> QED BY <1>0, <1>1, <1>2

\* What hurries nothing is sent to a replica that has synchronised and read all else.
LEMMA NotifiesReplica ==
  ASSUME JoinInv, NEW msg, msg.type \in {"UPLOAD", "COORDINATOR"}, NotifyReplica(<<msg>>),
         UNCHANGED <<copy, replica, wanted, fromReplica>>
  PROVE  JoinInv'
<1> SUFFICES ASSUME New, ~hurried' PROVE Joins'
  BY DEF JoinInv, New
<1>1. replica = "idle" /\ toReplica = << >> /\ toReplica' = toReplica \o <<msg>> /\ ~hurried
  BY DEF NotifyReplica, Settled
<1>2. toReplica' = <<msg>>
  BY <1>1
<1>3. Only(toReplica', "UPLOAD") \/ Only(toReplica', "COORDINATOR")
  BY <1>2 DEF Only
<1>4. replica' = "idle" /\ fromReplica' = << >>
  BY <1>1 DEF JoinInv, New, Joins
<1> QED BY <1>3, <1>4 DEF Joins

\* The replica does not get to see a message that is no message without being hurried.
LEMMA JunkHurries ==
  ASSUME NotifyReplica(<<Junk>>)
  PROVE  hurried'
<1>1. Contains(<<Junk>>, Junk)
  BY 1 \in 1 .. Len(<<Junk>>), <<Junk>>[1] = Junk DEF Contains
<1> QED BY <1>1, Zenon DEF NotifyReplica

LEMMA OtherJoins ==
  ASSUME JoinInv, OtherMachine \/ Election \/ ClientStep \/ ClientHandlerStep \/ UNCHANGED vars
  PROVE  JoinInv'
<1>1. ASSUME UNCHANGED <<stored, replicationVars, hurried>> PROVE JoinInv'
  BY <1>1 DEF JoinInv, New, Joins, Files, Listing, Only, replicationVars
<1>2. ASSUME NEW n \in Name, HandleDelete(n) PROVE JoinInv'
  <2> SUFFICES ASSUME New, ~hurried', Joins PROVE Joins'
    BY <1>2 DEF JoinInv, New, HandleDelete
  <2> QED BY <1>2 DEF HandleDelete, Settled, Joins, replicationVars
<1>3. ASSUME NEW n \in Name, NEW x \in Content, HandleUpload(n, x) PROVE JoinInv'
  <2>1. CASE UNCHANGED <<stored, toReplica, hurried>>
    BY <1>1, <1>3, <2>1 DEF HandleUpload, replicationVars
  <2>2. CASE NotifyReplica(Replicated(n, x))
    <3>1. Upload(n, x).type = "UPLOAD" /\ NotifyReplica(<<Upload(n, x)>>)
      BY <2>2 DEF Upload, Replicated
    <3> QED BY <1>3, <3>1, NotifiesReplica DEF HandleUpload
  <2>3. CASE NotifyReplica(<<Junk>>)
    BY <2>3, JunkHurries DEF JoinInv
  <2> QED BY <1>3, <2>1, <2>2, <2>3 DEF HandleUpload
<1>4. CASE AnnounceToReplicas
  <2>1. PICK msg \in Announced : NotifyReplica(<<msg>>)
    BY <1>4 DEF AnnounceToReplicas
  <2>2. CASE msg = Junk
    BY <2>1, <2>2, JunkHurries DEF JoinInv
  <2>3. CASE msg = Coordinator
    <3>1. msg.type = "COORDINATOR"
      BY <2>3 DEF Coordinator
    <3> QED BY <1>4, <2>1, <3>1, NotifiesReplica DEF AnnounceToReplicas
  <2> QED BY <2>2, <2>3 DEF Announced
<1>5. AnnounceToClients \/ ClientStep \/ ClientHandlerStep => UNCHANGED <<stored, replicationVars, hurried>>
  BY DEF AnnounceToClients, ClientStep, ClientHandlerStep, Starting, Client, ClientHandlers, Login,
         ReceiveList, ReceiveFile, ReceiveForward, ReadPastPayload, HandleLogin, HandleList, HandleDownload
<1>6. UNCHANGED vars => UNCHANGED <<stored, replicationVars, hurried>>
  BY DEF vars
<1> QED BY <1>1, <1>2, <1>3, <1>4, <1>5, <1>6 DEF OtherMachine, Election

\* A replica that has no file of the server's takes no message for another and meets
\* no clash of names, unless a change, an announcement or a second list hurries it or a
\* message comes torn, for any number of files (dripbox_server_handle_list_user, dripbox_download_replica_file).
THEOREM ReplicaInStepInvariant == Spec => []ReplicaInStep
<1>1. JoinInv => ReplicaInStep
  BY DEF JoinInv, Joins, ReplicaInStep
<1>2. JoinInv /\ [Next]_vars => JoinInv'
  BY ReplicaJoins, EarlierServerJoins, OtherJoins DEF Next
<1> QED BY <1>1, <1>2, InitJoins, PTL DEF Spec
=============================================================================
