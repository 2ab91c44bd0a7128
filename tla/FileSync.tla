------------------------------ MODULE FileSync ------------------------------
(***************************************************************************)
(* One file of one user, on a server and on the machines of the clients    *)
(* that are logged in.  Each client runs an inotify watcher, which uploads *)
(* what changed in its directory, and a network worker, which applies what *)
(* the server forwards to that directory; so each change that is applied   *)
(* is also noticed, and comes back to the server.                          *)
(*                                                                         *)
(* Abstractions: a content is a value; all contents but Empty have the     *)
(* same length, of at most one buffer, and a user's save is one step; a    *)
(* move into the directory is a save and a move out a removal. Error       *)
(* replies, which the client only prints, are left out. A client whose     *)
(* connection is closed takes no further part, and neither does a server   *)
(* that waits for a payload that was announced and never sent.             *)
(***************************************************************************)
EXTENDS Naturals, Sequences

CONSTANTS
  Client,    \* the machines of the user
  Value,     \* the contents users save
  Empty,     \* the content of a file that was just truncated
  Absent,    \* there is no file
  Short,     \* a payload of which nothing was sent
  Checksum,  \* dripbox_file_checksum
  MaxEdits   \* bound: how often users save or delete

Content == Value \cup {Empty}
State   == Content \cup {Absent}

ASSUME ContentAssumption  == /\ Empty \notin Value /\ Absent \notin Content
                             /\ Short \notin State
ASSUME ChecksumAssumption == Checksum \in [Content -> Nat]
ASSUME BoundAssumption    == MaxEdits \in Nat

VARIABLES
  file,       \* file[c]: the file in the sync_dir of c
  stored,     \* the file in the user's directory on the server
  events,     \* events[c]: what inotify has for the watcher of c
  watcher,    \* watcher[c]: the content whose upload was begun, or Absent
  worker,     \* worker[c]: what the network worker of c is about to do
  toServer,   \* toServer[c]: what the server has not read from c
  toClient,   \* toClient[c]: what c has not read from the server
  connected,  \* connected[c]: the connection of c was not closed
  blocked,    \* the server waits for a payload that does not come
  edits,      \* how often users saved or deleted
  deleted,    \* somebody deleted the file
  missed      \* an event of another kind shared a buffer with the one handled

vars == <<file, stored, events, watcher, worker, toServer, toClient,
          connected, blocked, edits, deleted, missed>>

Upload(sum, data) == [type |-> "UPLOAD", sum |-> sum, data |-> data]
Delete            == [type |-> "DELETE"]

Polling == [step |-> "poll"]

Init ==
  /\ stored \in Value \cup {Absent}
  /\ file = [c \in Client |-> stored]
  /\ events = [c \in Client |-> << >>]
  /\ watcher = [c \in Client |-> Absent]
  /\ worker = [c \in Client |-> Polling]
  /\ toServer = [c \in Client |-> << >>]
  /\ toClient = [c \in Client |-> << >>]
  /\ connected = [c \in Client |-> TRUE]
  /\ blocked = FALSE
  /\ edits = 0 /\ deleted = FALSE /\ missed = FALSE

Notice(c, kind) == events' = [events EXCEPT ![c] = Append(@, kind)]
Send(c, msg)    == toServer' = [toServer EXCEPT ![c] = Append(@, msg)]
Take(c)         == toClient' = [toClient EXCEPT ![c] = Tail(@)]

\* The directory entry of c is removed; a file that is open stays without a name.
Unlink(c) ==
  /\ file' = [file EXCEPT ![c] = Absent]
  /\ Notice(c, "DELETE")

Orphaned(w) == IF w.step = "fill" THEN [w EXCEPT !.linked = FALSE] ELSE w

-----------------------------------------------------------------------------
(* The user *)

Edit(c) ==
  /\ connected[c] /\ edits < MaxEdits
  /\ edits' = edits + 1
  /\ UNCHANGED <<stored, watcher, toServer, toClient, connected, blocked, missed>>

Save(c, v) ==
  /\ Edit(c)
  /\ file' = [file EXCEPT ![c] = v]
  /\ Notice(c, "CLOSE_WRITE")
  /\ UNCHANGED <<worker, deleted>>

Remove(c) ==
  /\ Edit(c)
  /\ file[c] # Absent
  /\ Unlink(c)
  /\ worker' = [worker EXCEPT ![c] = Orphaned(@)]
  /\ deleted' = TRUE

-----------------------------------------------------------------------------
(* The inotify watcher *)

\* The last event that was the first of a pair: all others in the buffer are skipped.
Handled(batch) == batch[IF Len(batch) % 2 = 1 THEN Len(batch) ELSE Len(batch) - 1]

\* Mutant: the upload goes on without the file.
MutantPayload(measured, now) == now

\* What is sent of a file that was measured before and opened now.
Payload(measured, now) ==
  CASE measured = Empty -> Empty
    [] measured # Empty /\ now = Absent -> Short
    [] OTHER -> now

\* All events there are are read, one is dispatched; an upload begins with the size
\* and the checksum.
ReadEvents(c) ==
  LET kind == Handled(events[c])
  IN /\ connected[c] /\ watcher[c] = Absent /\ events[c] # << >>
     /\ events' = [events EXCEPT ![c] = << >>]
     /\ missed' = (missed \/ \E i \in DOMAIN events[c] : events[c][i] # kind)
     /\ \/ /\ kind = "DELETE"
           /\ Send(c, Delete)
           /\ UNCHANGED watcher
        \/ /\ kind = "CLOSE_WRITE"
           /\ watcher' = [watcher EXCEPT ![c] = file[c]]
           /\ UNCHANGED toServer
     /\ UNCHANGED <<file, stored, worker, toClient, connected, blocked, edits, deleted>>

\* The file is opened and sent; sendfile closes the socket at an early end of file.
SendFile(c) ==
  /\ connected[c] /\ watcher[c] # Absent
  /\ Send(c, Upload(Checksum[watcher[c]], Payload(watcher[c], file[c])))
  /\ connected' = [connected EXCEPT ![c] = watcher[c] # Empty => file[c] # Empty]
  /\ watcher' = [watcher EXCEPT ![c] = Absent]
  /\ UNCHANGED <<file, stored, events, worker, toClient, blocked, edits, deleted, missed>>

-----------------------------------------------------------------------------
(* The network worker *)

Incoming(c, type) ==
  connected[c] /\ worker[c].step = "poll" /\ toClient[c] # << >> /\ Head(toClient[c]).type = type

\* Mutant: a file that is there is taken for the same.
MutantSame(state, sum) == state # Absent

\* The checksum of the file, if there is one, is the announced one.
Same(state, sum) == state # Absent /\ Checksum[state] = sum

ReceiveUpload(c) ==
  /\ Incoming(c, "UPLOAD")
  /\ LET msg == Head(toClient[c])
     IN worker' = [worker EXCEPT ![c] =
          IF Same(file[c], msg.sum) THEN Polling ELSE [step |-> "open", data |-> msg.data]]
  /\ Take(c)
  /\ UNCHANGED <<file, stored, events, watcher, toServer, connected, blocked, edits, deleted, missed>>

\* Mutant: the old file is removed first.
MutantTruncated(c) == Absent

Truncated(c) == Empty

\* fopen(path, "wb"): the file is created or truncated.
Open(c) ==
  /\ connected[c] /\ worker[c].step = "open"
  /\ file' = [file EXCEPT ![c] = Truncated(c)]
  /\ worker' = [worker EXCEPT ![c] = [step |-> "fill", data |-> @.data, linked |-> TRUE]]
  /\ UNCHANGED <<stored, events, watcher, toServer, toClient, connected, blocked, edits, deleted, missed>>

\* The payload is written and the file is closed.
Fill(c) ==
  /\ connected[c] /\ worker[c].step = "fill"
  /\ file' = [file EXCEPT ![c] = IF worker[c].linked THEN worker[c].data ELSE @]
  /\ Notice(c, "CLOSE_WRITE")
  /\ worker' = [worker EXCEPT ![c] = Polling]
  /\ UNCHANGED <<stored, watcher, toServer, toClient, connected, blocked, edits, deleted, missed>>

ReceiveDelete(c) ==
  /\ Incoming(c, "DELETE")
  /\ Take(c)
  /\ \/ /\ file[c] = Absent
        /\ UNCHANGED <<file, events>>
     \/ /\ file[c] # Absent
        /\ Unlink(c)
  /\ UNCHANGED <<stored, watcher, worker, toServer, connected, blocked, edits, deleted, missed>>

-----------------------------------------------------------------------------
(* The network worker of the server *)

Reads(c, type) == ~blocked /\ toServer[c] # << >> /\ Head(toServer[c]).type = type

\* Mutant: the sender is served, the others are not.
MutantReceivers(c) == {c}

\* The user's other connections.
Receivers(c) == {d \in Client \ {c} : connected[d]}

Forward(c, msg) ==
  toClient' = [d \in Client |->
    IF d \in Receivers(c) THEN Append(toClient[d], msg) ELSE toClient[d]]

\* A payload that differs is stored and forwarded with the checksum it came with.
HandleUpload(c) ==
  LET msg == Head(toServer[c])
  IN /\ Reads(c, "UPLOAD")
     /\ toServer' = [toServer EXCEPT ![c] = Tail(@)]
     /\ blocked' = (msg.data = Short)
     /\ \/ /\ Same(stored, msg.sum)
           /\ UNCHANGED <<stored, toClient>>
        \/ /\ ~Same(stored, msg.sum)
           /\ stored' = IF msg.data = Short THEN Empty ELSE msg.data
           /\ IF msg.data = Short THEN UNCHANGED toClient ELSE Forward(c, msg)
     /\ UNCHANGED <<file, events, watcher, worker, connected, edits, deleted, missed>>

HandleDelete(c) ==
  /\ Reads(c, "DELETE")
  /\ toServer' = [toServer EXCEPT ![c] = Tail(@)]
  /\ \/ /\ stored = Absent
        /\ UNCHANGED <<stored, toClient>>
     \/ /\ stored # Absent
        /\ stored' = Absent
        /\ Forward(c, Delete)
  /\ UNCHANGED <<file, events, watcher, worker, connected, blocked, edits, deleted, missed>>

User(c)          == Remove(c) \/ \E v \in Value : Save(c, v)
Watcher(c)       == ReadEvents(c) \/ SendFile(c)
NetworkWorker(c) == ReceiveUpload(c) \/ Open(c) \/ Fill(c) \/ ReceiveDelete(c)
Server(c)        == HandleUpload(c) \/ HandleDelete(c)

Next == \E c \in Client : User(c) \/ Watcher(c) \/ NetworkWorker(c) \/ Server(c)

Spec == Init /\ [][Next]_vars

\* The threads and the server's scan of its users are endless loops.
Fairness == \A c \in Client : WF_vars(Watcher(c)) /\ WF_vars(NetworkWorker(c)) /\ WF_vars(Server(c))

FairSpec == Spec /\ Fairness

-----------------------------------------------------------------------------
(* Properties *)

Message == [type : {"DELETE"}] \cup [type : {"UPLOAD"}, sum : Nat, data : Content \cup {Short}]

TypeOK ==
  /\ file \in [Client -> State] /\ stored \in State
  /\ events \in [Client -> Seq({"CLOSE_WRITE", "DELETE"})]
  /\ watcher \in [Client -> State]
  /\ worker \in [Client -> {Polling} \cup [step : {"open"}, data : Content]
                            \cup [step : {"fill"}, data : Content, linked : BOOLEAN]]
  /\ toServer \in [Client -> Seq(Message)] /\ toClient \in [Client -> Seq(Message)]
  /\ connected \in [Client -> BOOLEAN]
  /\ edits \in 0 .. MaxEdits
  /\ {blocked, deleted, missed} \subseteq BOOLEAN

Idle(c) ==
  /\ events[c] = << >> /\ watcher[c] = Absent /\ worker[c] = Polling
  /\ toServer[c] = << >> /\ toClient[c] = << >>

\* What the checksums can tell of two states of the file.
Alike(x, y) == x = y \/ (Absent \notin {x, y} /\ Checksum[x] = Checksum[y])

\* When nothing is left to do, every copy is the server's, as far as the checksums can
\* tell, whatever crossed, came back or was read while it was written - unless an
\* event was skipped (dripbox_cleint_inotify_dispatch) or the server is blocked.
AgreeWhenIdle ==
  ~missed /\ ~blocked /\ (\A c \in Client : connected[c] => Idle(c))
    => \A c \in Client : connected[c] => Alike(file[c], stored)

\* The framing of an upload breaks only where the file is deleted in the middle of it:
\* a file that is merely overwritten by the worker never blocks the server.
OnlyDeletesBlock == blocked => deleted

\* What one user does reaches the server and all others, if no other edit crosses it:
\* the changes that come back are recognised.
EditSpreads ==
  \A c \in Client, x \in Value \cup {Absent} :
    edits = 1 /\ file[c] = x /\ events[c] # << >> /\ ~Alike(x, stored)
      ~> edits > 1 \/ (Alike(x, stored) /\ \A d \in Client : Alike(x, file[d]) /\ Idle(d))
=============================================================================
