------------------------------ MODULE Startup -------------------------------
(***************************************************************************)
(* A client machine that starts: it logs in, asks for the list of the      *)
(* user's files, removes and downloads what differs, and then applies what *)
(* the server forwards.                                                    *)
(*                                                                         *)
(* The client reads the answers from the connection on which the server    *)
(* also forwards the changes of the user's other machines and announces    *)
(* that it won an election.  A client that takes one for the other, or     *)
(* reads into the message behind a payload, is out of step: "lost" is the  *)
(* end of what the module says of it.  What the running client notices and *)
(* uploads itself is in FileSync.                                          *)
(***************************************************************************)
EXTENDS Storage

VARIABLES
  dir,       \* the sync_dir of the client
  phase,     \* "offline", "list", "download", "running" or "lost"
  todo,      \* the names to download, the first of them is requested
  mirrored,  \* the list it was given was not empty
  logged,    \* the server has its entry in ht_users
  toServer,  \* what the server has not read
  toClient   \* what the client has not read

startupVars == <<dir, phase, todo, mirrored, logged, toServer, toClient>>

StartupInit(contents) ==
  /\ dir \in [Name -> contents \cup {Absent}]
  /\ phase = "offline" /\ todo = {} /\ mirrored = FALSE
  /\ logged = FALSE
  /\ toServer = << >> /\ toClient = << >>

-----------------------------------------------------------------------------
(* The client *)

Login ==
  /\ phase = "offline"
  /\ phase' = "list"
  /\ toServer' = <<[type |-> "LOGIN"], [type |-> "LIST"]>>
  /\ UNCHANGED <<stored, dir, todo, mirrored, logged, toClient>>

\* The next download, or the end of the start-up.
Request(names) ==
  /\ todo' = names
  /\ phase' = IF names = {} THEN "running" ELSE "download"
  /\ toServer' = IF names = {} THEN toServer ELSE Append(toServer, Download(First(names)))

\* The next message the client reads is taken for the answer.
Reading == toClient # << >> /\ toClient' = Tail(toClient)

Lost ==
  /\ phase' = "lost"
  /\ UNCHANGED <<dir, todo, mirrored, toServer>>

ReceiveList ==
  LET msg == Head(toClient)
  IN /\ phase = "list" /\ Reading
     /\ CASE msg.type # "LIST"  -> Lost
          [] msg.type = "LIST" /\ msg.list = {} ->
               phase' = "running" /\ UNCHANGED <<dir, todo, mirrored, toServer>>
          [] OTHER ->
               /\ dir' = Without(dir, ToDelete(msg.list, Listing(dir)))
               /\ Request(ToDownload(msg.list, Listing(dir)))
               /\ mirrored' = TRUE
     /\ UNCHANGED <<stored, logged>>

\* An error leaves the file as it is; any other message is no answer.
ReceiveFile ==
  LET msg == Head(toClient)
  IN /\ phase = "download" /\ Reading
     /\ IF msg.type \in {"BYTES", "ERROR"}
        THEN /\ dir' = IF msg.type = "BYTES" THEN [dir EXCEPT ![First(todo)] = msg.data] ELSE dir
             /\ Request(todo \ {First(todo)})
             /\ UNCHANGED mirrored
        ELSE Lost
     /\ UNCHANGED <<stored, logged>>

\* A directory after a message.
Applied(d, msg) ==
  CASE msg.type = "DELETE" -> [d EXCEPT ![msg.name] = Absent]
    [] msg.type = "UPLOAD" /\ ~Same(d[msg.name], msg.sum) -> [d EXCEPT ![msg.name] = msg.data]
    [] OTHER -> d

\* Mutant: the network worker does not know the message of an election's winner.
MutantReceiveForward ==
  /\ phase = "running" /\ Reading
  /\ IF Head(toClient) \in {Coordinator, Junk} THEN Lost
     ELSE dir' = Applied(dir, Head(toClient)) /\ UNCHANGED <<phase, todo, mirrored, toServer>>
  /\ UNCHANGED <<stored, logged>>

\* The network worker, which runs after the start-up: the announced server is the one
\* it is connected to.
ReceiveForward ==
  /\ phase = "running" /\ Reading
  /\ IF Head(toClient) = Junk THEN Lost
     ELSE dir' = Applied(dir, Head(toClient)) /\ UNCHANGED <<phase, todo, mirrored, toServer>>
  /\ UNCHANGED <<stored, logged>>

\* Every read of a payload asks for its whole length: the last one can take what is
\* behind the payload.
ReadPastPayload ==
  /\ Len(toClient) > 1
  /\ \/ phase = "download" /\ Head(toClient).type = "BYTES"
     \/ phase = "running" /\ Head(toClient).type = "UPLOAD"
  /\ Lost
  /\ UNCHANGED <<stored, logged, toClient>>

Client == Login \/ ReceiveList \/ ReceiveFile \/ ReceiveForward \/ ReadPastPayload

-----------------------------------------------------------------------------
(* The server *)

Reads(type) == toServer # << >> /\ Head(toServer).type = type /\ toServer' = Tail(toServer)

HandleLogin ==
  /\ Reads("LOGIN")
  /\ logged' = TRUE
  /\ UNCHANGED <<stored, dir, phase, todo, mirrored, toClient>>

\* Mutant: there is nothing to say of an empty directory.
MutantLists == IF Files(stored) = {} THEN << >> ELSE <<[type |-> "LIST", list |-> Listing(stored)]>>

Lists == <<[type |-> "LIST", list |-> Listing(stored)]>>

HandleList ==
  /\ Reads("LIST")
  /\ toClient' = toClient \o Lists
  /\ UNCHANGED <<stored, dir, phase, todo, mirrored, logged>>

HandleDownload ==
  /\ Reads("DOWNLOAD")
  /\ toClient' = Append(toClient, Answer(Head(toServer).name))
  /\ UNCHANGED <<stored, dir, phase, todo, mirrored, logged>>

ClientHandlers == HandleLogin \/ HandleList \/ HandleDownload
=============================================================================
