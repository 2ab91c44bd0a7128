--------------------------- MODULE FileSync_proofs ---------------------------
(***************************************************************************)
(* Proofs about FileSync for any number of machines, contents and edits,   *)
(* and any checksum.                                                       *)
(*                                                                         *)
(* A removal can block the server only through what it leaves behind: an   *)
(* event, a message, or a file that is gone while its upload has begun.    *)
(* The invariant says that none of them is there before a removal.         *)
(*                                                                         *)
(* A machine whose pending work would change nothing any more has told the *)
(* server of its file, or is about to in the last message it sent: ToldTo. *)
(* That is why the copies agree when nothing is left to do: what the       *)
(* server forwards otherwise differs from the file, so it is applied,      *)
(* noticed and uploaded again, and the machine has work.                   *)
(***************************************************************************)
EXTENDS FileSync, TLAPS

Whole == [type : {"UPLOAD"}, sum : Nat, data : Content]

\* What the server forwards is whole.
Delivered == \A c \in Client : toClient[c] \in Seq([type : {"DELETE"}] \cup Whole)

\* Before the first removal nothing tells of one.
Traceless ==
  ~deleted => \A c \in Client :
                /\ events[c] \in Seq({"CLOSE_WRITE"})
                /\ toServer[c] \in Seq(Whole) /\ toClient[c] \in Seq(Whole)
                /\ watcher[c] # Absent => file[c] # Absent

IInv == TypeOK /\ Delivered /\ Traceless /\ OnlyDeletesBlock

LEMMA InitInvariant == Init => IInv
<1> SUFFICES ASSUME Init PROVE IInv
  OBVIOUS
<1>1. TypeOK
  <2>1. stored \in State /\ Absent \in State
    BY DEF Init, State, Content
  <2>2. edits \in 0 .. MaxEdits
    BY BoundAssumption DEF Init
  <2>3. << >> \in Seq({"CLOSE_WRITE", "DELETE"}) /\ << >> \in Seq(Message)
    OBVIOUS
  <2> QED BY <2>1, <2>2, <2>3 DEF Init, TypeOK
<1>2. Delivered /\ Traceless /\ OnlyDeletesBlock
  BY DEF Init, Delivered, Traceless, OnlyDeletesBlock
<1> QED BY <1>1, <1>2 DEF IInv

\* The first of a sequence, the rest, and one more at the end.
LEMMA SeqEnds ==
  ASSUME NEW S, NEW s \in Seq(S)
  PROVE  /\ s # << >> => Head(s) \in S /\ Tail(s) \in Seq(S)
         /\ \A x \in S : Append(s, x) \in Seq(S)
OBVIOUS

\* The event that is handled is one of the buffer's.
LEMMA HandledIsEvent ==
  ASSUME NEW S, NEW s \in Seq(S), s # << >>
  PROVE  Handled(s) \in S
<1>1. Len(s) \in Nat /\ Len(s) # 0
  OBVIOUS
<1>2. (IF Len(s) % 2 = 1 THEN Len(s) ELSE Len(s) - 1) \in 1 .. Len(s)
  BY <1>1
<1> QED BY <1>2 DEF Handled

\* Messages, and what is told of the worker.
LEMMA Kinds ==
  /\ Delete \in Message /\ Delete \in [type : {"DELETE"}]
  /\ \A m \in Message : m.type = "UPLOAD" => m.sum \in Nat /\ m.data \in Content \cup {Short}
  /\ \A m \in Message : m.type = "UPLOAD" /\ m.data # Short => m \in Whole
  /\ \A sum \in Nat, x \in Content \cup {Short} : Upload(sum, x) \in Message
  /\ \A sum \in Nat, x \in Content : Upload(sum, x) \in Whole
  /\ \A m \in Whole : m.type = "UPLOAD" /\ m.data \in Content
BY DEF Delete, Message, Whole, Upload

-----------------------------------------------------------------------------
(* The user *)

LEMMA UserSteps ==
  ASSUME IInv, NEW c \in Client, User(c)
  PROVE  IInv'
<1> USE DEF IInv, TypeOK, Delivered, Traceless, OnlyDeletesBlock
<1>1. edits' \in 0 .. MaxEdits
  BY BoundAssumption DEF User, Save, Remove, Edit
<1>2. CASE Remove(c)
  <2>1. events' \in [Client -> Seq({"CLOSE_WRITE", "DELETE"})]
    BY <1>2 DEF Remove, Unlink, Notice
  <2>2. Orphaned(worker[c]) \in {Polling} \cup [step : {"open"}, data : Content]
                                  \cup [step : {"fill"}, data : Content, linked : BOOLEAN]
    BY DEF Orphaned, Polling
  <2> QED BY <1>1, <1>2, <2>1, <2>2 DEF Remove, Edit, Unlink, State
<1>3. ASSUME NEW v \in Value, Save(c, v) PROVE IInv'
  <2>1. /\ events' = [events EXCEPT ![c] = Append(@, "CLOSE_WRITE")]
        /\ file' = [file EXCEPT ![c] = v] /\ v \in State /\ v # Absent
        /\ UNCHANGED <<stored, watcher, worker, toServer, toClient, connected, blocked, deleted, missed>>
    BY <1>3, ContentAssumption DEF Save, Edit, Notice, State, Content
  <2>2. events' \in [Client -> Seq({"CLOSE_WRITE", "DELETE"})]
    BY <2>1
  <2>3. ~deleted => \A d \in Client : events'[d] \in Seq({"CLOSE_WRITE"})
    BY <2>1
  <2> QED BY <1>1, <2>1, <2>2, <2>3
<1> QED BY <1>2, <1>3 DEF User

-----------------------------------------------------------------------------
(* The watcher *)

\* What is appended to one sequence of a function leaves the others.
LEMMA SendsMessage ==
  ASSUME NEW c \in Client, NEW S, NEW m \in S, Send(c, m), DOMAIN toServer = Client,
         \A d \in Client : toServer[d] \in Seq(S)
  PROVE  \A d \in Client : toServer'[d] \in Seq(S)
BY DEF Send

LEMMA WatcherSteps ==
  ASSUME IInv, NEW c \in Client, Watcher(c)
  PROVE  IInv'
<1> USE DEF IInv, TypeOK, Delivered, Traceless, OnlyDeletesBlock
<1>1. CASE ReadEvents(c)
  <2>1. /\ events[c] # << >> /\ events' = [events EXCEPT ![c] = << >>]
        /\ UNCHANGED <<file, stored, worker, toClient, connected, blocked, edits, deleted>>
        /\ missed' \in BOOLEAN
        /\ \/ Handled(events[c]) = "DELETE" /\ Send(c, Delete) /\ UNCHANGED watcher
           \/ watcher' = [watcher EXCEPT ![c] = file[c]] /\ UNCHANGED toServer
    BY <1>1 DEF ReadEvents
  <2>2. << >> \in Seq({"CLOSE_WRITE", "DELETE"}) /\ << >> \in Seq({"CLOSE_WRITE"})
    OBVIOUS
  <2>3. CASE Handled(events[c]) = "DELETE" /\ Send(c, Delete) /\ UNCHANGED watcher
    <3>1. deleted
      BY <2>1, <2>3, HandledIsEvent
    <3>2. toServer' \in [Client -> Seq(Message)]
      BY <2>3, SendsMessage, Kinds DEF Send
    <3> QED BY <2>1, <2>2, <2>3, <3>1, <3>2
  <2>4. CASE watcher' = [watcher EXCEPT ![c] = file[c]] /\ UNCHANGED toServer
    BY <2>1, <2>2, <2>4
  <2> QED BY <2>1, <2>3, <2>4
<1>2. CASE SendFile(c)
  <2> DEFINE data == Payload(watcher[c], file[c])
             sum  == Checksum[watcher[c]]
  <2>1. watcher[c] \in Content /\ file[c] \in State /\ Empty \in Content
    BY <1>2 DEF SendFile, State, Content
  <2>2. sum \in Nat
    BY <2>1, ChecksumAssumption
  <2>3. data \in Content \cup {Short} /\ (file[c] # Absent => data \in Content)
    BY <2>1 DEF Payload, State
  <2>4. Upload(sum, data) \in Message /\ (~deleted => Upload(sum, data) \in Whole)
    BY <1>2, <2>2, <2>3, Kinds DEF SendFile
  <2>5. toServer' \in [Client -> Seq(Message)]
    BY <1>2, <2>4, SendsMessage DEF SendFile, Send
  <2>6. ~deleted => \A d \in Client : toServer'[d] \in Seq(Whole)
    BY <1>2, <2>4, SendsMessage DEF SendFile
  <2>7. watcher' = [watcher EXCEPT ![c] = Absent] /\ Absent \in State
    BY <1>2 DEF SendFile, State
  <2>8. UNCHANGED <<file, stored, events, worker, toClient, blocked, edits, deleted, missed>>
        /\ connected' \in [Client -> BOOLEAN]
    BY <1>2 DEF SendFile
  <2> HIDE DEF data, sum
  <2> QED BY <2>5, <2>6, <2>7, <2>8
<1> QED BY <1>1, <1>2 DEF Watcher

-----------------------------------------------------------------------------
(* The network worker *)

\* A message that is taken was typed, and leaves a typed rest.
LEMMA TakesMessage ==
  ASSUME IInv, NEW c \in Client, Take(c), toClient[c] # << >>
  PROVE  /\ toClient' \in [Client -> Seq(Message)] /\ Delivered'
         /\ ~deleted => /\ Head(toClient[c]) \in Whole
                        /\ \A d \in Client : toClient'[d] \in Seq(Whole)
         /\ Head(toClient[c]) \in [type : {"DELETE"}] \cup Whole
BY SeqEnds DEF IInv, TypeOK, Delivered, Traceless, Take

LEMMA WorkerSteps ==
  ASSUME IInv, NEW c \in Client, NetworkWorker(c)
  PROVE  IInv'
<1> USE DEF IInv, TypeOK, Traceless, OnlyDeletesBlock
<1>1. CASE ReceiveUpload(c)
  <2>1. Take(c) /\ toClient[c] # << >> /\ Head(toClient[c]).type = "UPLOAD"
        /\ UNCHANGED <<file, stored, events, watcher, toServer, connected, blocked, edits, deleted, missed>>
    BY <1>1 DEF ReceiveUpload, Incoming
  <2>2. Head(toClient[c]).data \in Content
    BY <2>1, TakesMessage DEF Whole
  <2>3. worker' \in [Client -> {Polling} \cup [step : {"open"}, data : Content]
                                \cup [step : {"fill"}, data : Content, linked : BOOLEAN]]
    BY <1>1, <2>2 DEF ReceiveUpload
  <2> QED BY <2>1, <2>3, TakesMessage
<1>2. CASE Open(c)
  <2>1. worker[c].data \in Content
    BY <1>2 DEF Open, Polling
  <2>2. Empty \in State /\ Empty # Absent
    BY ContentAssumption DEF State, Content
  <2>3. worker' \in [Client -> {Polling} \cup [step : {"open"}, data : Content]
                                \cup [step : {"fill"}, data : Content, linked : BOOLEAN]]
    BY <1>2, <2>1 DEF Open
  <2> QED BY <1>2, <2>2, <2>3 DEF Open, Truncated, Delivered
<1>3. CASE Fill(c)
  <2>1. worker[c].data \in Content /\ worker[c].data \in State /\ worker[c].data # Absent
    BY <1>3, ContentAssumption DEF Fill, Polling, State
  <2>2. events' \in [Client -> Seq({"CLOSE_WRITE", "DELETE"})]
        /\ (~deleted => \A d \in Client : events'[d] \in Seq({"CLOSE_WRITE"}))
    BY <1>3 DEF Fill, Notice
  <2>3. file' \in [Client -> State] /\ \A d \in Client : file[d] # Absent => file'[d] # Absent
    BY <1>3, <2>1 DEF Fill
  <2>4. worker' \in [Client -> {Polling} \cup [step : {"open"}, data : Content]
                                \cup [step : {"fill"}, data : Content, linked : BOOLEAN]]
    BY <1>3 DEF Fill
  <2>5. UNCHANGED <<stored, watcher, toServer, toClient, connected, blocked, edits, deleted, missed>>
    BY <1>3 DEF Fill
  <2>6. TypeOK' /\ Delivered' /\ OnlyDeletesBlock'
    BY <2>2, <2>3, <2>4, <2>5 DEF Delivered
  <2>7. Traceless'
    BY <2>2, <2>3, <2>5
  <2> QED BY <2>6, <2>7
<1>4. CASE ReceiveDelete(c)
  <2>1. Take(c) /\ toClient[c] # << >> /\ Head(toClient[c]).type = "DELETE"
        /\ UNCHANGED <<stored, watcher, worker, toServer, connected, blocked, edits, deleted, missed>>
    BY <1>4 DEF ReceiveDelete, Incoming
  <2>2. deleted
    BY <2>1, TakesMessage DEF Whole
  <2>3. events' \in [Client -> Seq({"CLOSE_WRITE", "DELETE"})] /\ file' \in [Client -> State]
    <3>1. CASE UNCHANGED <<file, events>>
      BY <3>1
    <3>2. CASE Unlink(c)
      BY <3>2 DEF Unlink, Notice, State
    <3> QED BY <1>4, <3>1, <3>2 DEF ReceiveDelete
  <2>4. toClient' \in [Client -> Seq(Message)] /\ Delivered'
    BY <2>1, TakesMessage
  <2> QED BY <2>1, <2>2, <2>3, <2>4
<1> QED BY <1>1, <1>2, <1>3, <1>4 DEF NetworkWorker

-----------------------------------------------------------------------------
(* The server *)

\* What is forwarded reaches the channels as it is.
LEMMA ForwardsMessage ==
  ASSUME NEW c \in Client, NEW S, NEW m \in S, Forward(c, m),
         \A d \in Client : toClient[d] \in Seq(S)
  PROVE  toClient' \in [Client -> Seq(S)]
BY SeqEnds DEF Forward

\* A message the server reads was typed, and leaves a typed rest.
LEMMA ReadsMessage ==
  ASSUME IInv, NEW c \in Client, NEW type, Reads(c, type),
         toServer' = [toServer EXCEPT ![c] = Tail(@)]
  PROVE  /\ toServer' \in [Client -> Seq(Message)] /\ Head(toServer[c]) \in Message
         /\ ~deleted => /\ Head(toServer[c]) \in Whole
                        /\ \A d \in Client : toServer'[d] \in Seq(Whole)
BY SeqEnds DEF IInv, TypeOK, Traceless, Reads

LEMMA ServerSteps ==
  ASSUME IInv, NEW c \in Client, Server(c)
  PROVE  IInv'
<1> USE DEF IInv, TypeOK, Delivered, Traceless, OnlyDeletesBlock
<1> DEFINE msg == Head(toServer[c])
<1>1. CASE HandleUpload(c)
  <2>1. /\ Reads(c, "UPLOAD") /\ toServer' = [toServer EXCEPT ![c] = Tail(@)]
        /\ blocked' = (msg.data = Short)
        /\ UNCHANGED <<file, events, watcher, worker, connected, edits, deleted, missed>>
        /\ \/ UNCHANGED <<stored, toClient>>
           \/ /\ stored' = IF msg.data = Short THEN Empty ELSE msg.data
              /\ IF msg.data = Short THEN UNCHANGED toClient ELSE Forward(c, msg)
    BY <1>1 DEF HandleUpload
  <2>2. msg \in Message /\ msg.type = "UPLOAD" /\ (~deleted => msg \in Whole)
        /\ toServer' \in [Client -> Seq(Message)]
        /\ (~deleted => \A d \in Client : toServer'[d] \in Seq(Whole))
    BY <2>1, ReadsMessage DEF Reads
  <2>3. blocked' => deleted
    BY <2>1, <2>2, Kinds, ContentAssumption DEF State
  <2>4. stored' \in State
    BY <2>1, <2>2, Kinds DEF State, Content
  <2>5. msg.data # Short => msg \in Whole
    BY <2>2, Kinds
  <2>6. CASE UNCHANGED toClient
    BY <2>1, <2>2, <2>3, <2>4, <2>6
  <2>7. CASE msg.data # Short /\ Forward(c, msg)
    <3>1. toClient' \in [Client -> Seq(Message)]
      BY <2>2, <2>7, ForwardsMessage
    <3>2. toClient' \in [Client -> Seq([type : {"DELETE"}] \cup Whole)]
      BY <2>5, <2>7, ForwardsMessage
    <3>3. ~deleted => toClient' \in [Client -> Seq(Whole)]
      BY <2>5, <2>7, ForwardsMessage
    <3> HIDE DEF msg
    <3> QED BY <2>1, <2>2, <2>3, <2>4, <3>1, <3>2, <3>3
  <2> QED BY <2>1, <2>6, <2>7
<1>2. CASE HandleDelete(c)
  <2>1. /\ Reads(c, "DELETE") /\ toServer' = [toServer EXCEPT ![c] = Tail(@)]
        /\ UNCHANGED <<file, events, watcher, worker, connected, blocked, edits, deleted, missed>>
        /\ stored' \in State
    BY <1>2 DEF HandleDelete, State
  <2>2. toServer' \in [Client -> Seq(Message)] /\ deleted
    BY <2>1, ReadsMessage, Kinds DEF Reads
  <2>3. UNCHANGED toClient \/ Forward(c, Delete)
    BY <1>2 DEF HandleDelete
  <2>4. toClient' \in [Client -> Seq(Message)]
    BY <2>3, Kinds, ForwardsMessage
  <2>5. \A d \in Client : toClient'[d] \in Seq([type : {"DELETE"}] \cup Whole)
    <3>1. CASE Forward(c, Delete)
      BY <3>1, Kinds, ForwardsMessage
    <3> QED BY <2>3, <3>1
  <2> QED BY <2>1, <2>2, <2>4, <2>5
<1> QED BY <1>1, <1>2 DEF Server

LEMMA NextInvariant == IInv /\ [Next]_vars => IInv'
<1>1. ASSUME IInv, UNCHANGED vars PROVE IInv'
  BY <1>1 DEF IInv, TypeOK, Delivered, Traceless, OnlyDeletesBlock, vars
<1> QED BY <1>1, UserSteps, WatcherSteps, WorkerSteps, ServerSteps DEF Next

-----------------------------------------------------------------------------
\* The copies, the events and the messages keep their types, whatever crosses.
THEOREM TypeInvariant == Spec => []TypeOK
<1>1. IInv => TypeOK
  BY DEF IInv
<1> QED BY <1>1, InitInvariant, NextInvariant, PTL DEF Spec

\* However many machines save and overwrite the file at once, the server only comes to
\* wait for a payload that does not come after somebody removed the file
\* (dripbox_upload_file, dripbox_server_handle_upload).
THEOREM OnlyDeletesBlockInvariant == Spec => []OnlyDeletesBlock
<1>1. IInv => OnlyDeletesBlock
  BY DEF IInv
<1> QED BY <1>1, InitInvariant, NextInvariant, PTL DEF Spec

-----------------------------------------------------------------------------
(* Agreement *)

Filling(c) == worker[c].step = "fill" /\ worker[c].linked

\* What is under way on the machine leaves the file as it is, and is not uploaded.
Still(c) ==
  /\ worker[c].step # "open" /\ ~Filling(c)
  /\ \A i \in DOMAIN events[c] : events[c][i] = "CLOSE_WRITE"
  /\ events[c] # << >> => file[c] = Absent

\* A message that leaves this state of the file as it is.
Idempotent(state, msg) ==
  IF msg.type = "UPLOAD" THEN Same(state, msg.sum) ELSE state = Absent

Heard(c) == \A i \in DOMAIN toClient[c] : Idempotent(file[c], toClient[c][i])

Tells(msg, state) ==
  IF state = Absent THEN msg = Delete ELSE msg = Upload(Checksum[state], state)

ToldTo(c) ==
  connected[c] /\ watcher[c] = Absent /\ Still(c) /\ Heard(c) =>
    IF toServer[c] = << >> THEN Alike(file[c], stored)
    ELSE Tells(toServer[c][Len(toServer[c])], file[c])

\* What was measured is still the file, unless another upload will follow.
MeasuredBy(c) == watcher[c] # Absent /\ Still(c) => watcher[c] = file[c]

\* After the event of a removal the file is gone, or is being written again.
RemovedOf(c) ==
  events[c] # << >> /\ events[c][Len(events[c])] = "DELETE" => file[c] = Absent \/ Filling(c)

Own(c) ==
  /\ MeasuredBy(c) /\ RemovedOf(c)
  /\ ~missed /\ ~blocked => ToldTo(c)

Agree == \A c \in Client : Own(c)

\* The part of the state that is the machine's own.
Local(c) == <<file[c], events[c], watcher[c], worker[c], connected[c], toServer[c], toClient[c]>>

LEMMA InitAgree == Init => Agree
BY DEF Init, Agree, Own, MeasuredBy, RemovedOf, ToldTo, Alike, Polling, Filling

\* What another machine does on its own leaves what is said of this one.
LEMMA Unaffected ==
  ASSUME NEW d \in Client, Own(d), UNCHANGED <<Local(d), stored, blocked>>, missed => missed'
  PROVE  Own(d)'
BY DEF Own, MeasuredBy, RemovedOf, ToldTo, Still, Filling, Heard, Local

LEMMA OwnSteps ==
  ASSUME IInv, NEW c \in Client, User(c) \/ Watcher(c) \/ NetworkWorker(c)
  PROVE  /\ UNCHANGED <<stored, blocked>> /\ (missed => missed')
         /\ \A d \in Client \ {c} : UNCHANGED Local(d)
<1> USE DEF IInv, TypeOK, Local
<1>1. CASE User(c)
  BY <1>1 DEF User, Save, Remove, Edit, Unlink, Notice
<1>2. CASE Watcher(c)
  BY <1>2 DEF Watcher, ReadEvents, SendFile, Send
<1>3. CASE NetworkWorker(c)
  BY <1>3 DEF NetworkWorker, ReceiveUpload, Open, Fill, ReceiveDelete, Unlink, Notice, Take
<1> QED BY <1>1, <1>2, <1>3

\* One more event: it is the last.
LEMMA Noticed ==
  ASSUME IInv, NEW c \in Client, NEW kind, Notice(c, kind)
  PROVE  /\ events'[c] # << >> /\ events'[c][Len(events'[c])] = kind
         /\ \A i \in DOMAIN events[c] : i \in DOMAIN events'[c] /\ events'[c][i] = events[c][i]
         /\ \E i \in DOMAIN events'[c] : events'[c][i] = kind
<1> DEFINE e == events[c]
<1>1. e \in Seq({"CLOSE_WRITE", "DELETE"}) /\ events'[c] = Append(e, kind)
  BY DEF IInv, TypeOK, Notice
<1> HIDE DEF e
<1>2. /\ Append(e, kind) # << >> /\ Len(Append(e, kind)) = Len(e) + 1
      /\ Append(e, kind)[Len(e) + 1] = kind /\ Len(e) + 1 \in DOMAIN Append(e, kind)
      /\ \A i \in DOMAIN e : i \in DOMAIN Append(e, kind) /\ Append(e, kind)[i] = e[i]
  BY <1>1
<1> QED BY <1>1, <1>2 DEF e

-----------------------------------------------------------------------------
(* The user *)

LEMMA UserOwn ==
  ASSUME IInv, NEW c \in Client, Own(c), User(c)
  PROVE  Own(c)'
<1>1. CASE Remove(c)
  <2>1. Notice(c, "DELETE") /\ file'[c] = Absent
    BY <1>1 DEF Remove, Unlink, IInv, TypeOK
  <2>2. ~Still(c)'
    BY <2>1, Noticed DEF Still
  <2> QED BY <2>1, <2>2 DEF Own, MeasuredBy, RemovedOf, ToldTo
<1>2. ASSUME NEW v \in Value, Save(c, v) PROVE Own(c)'
  <2>1. Notice(c, "CLOSE_WRITE") /\ file'[c] # Absent
    BY <1>2, ContentAssumption DEF Save, IInv, TypeOK, Content
  <2>2. ~Still(c)' /\ RemovedOf(c)'
    BY <2>1, Noticed DEF Still, RemovedOf
  <2> QED BY <2>2 DEF Own, MeasuredBy, ToldTo
<1> QED BY <1>1, <1>2 DEF User

-----------------------------------------------------------------------------
(* The watcher *)

\* The message sent last is the one that tells of the file.
LEMMA Sent ==
  ASSUME IInv, NEW c \in Client, NEW msg, Send(c, msg)
  PROVE  toServer'[c] # << >> /\ toServer'[c][Len(toServer'[c])] = msg
<1> DEFINE ch == toServer[c]
<1>1. ch \in Seq(Message) /\ toServer'[c] = Append(ch, msg)
  BY DEF IInv, TypeOK, Send
<1> HIDE DEF ch
<1> QED BY <1>1

LEMMA WatcherOwn ==
  ASSUME IInv, NEW c \in Client, Own(c), Watcher(c)
  PROVE  Own(c)'
<1>1. CASE ReadEvents(c)
  <2> DEFINE kind == Handled(events[c])
  <2>1. /\ events[c] # << >> /\ events'[c] = << >> /\ watcher[c] = Absent
        /\ UNCHANGED <<file, stored, worker, toClient, connected, blocked>>
        /\ missed' = (missed \/ \E i \in DOMAIN events[c] : events[c][i] # kind)
        /\ \/ kind = "DELETE" /\ Send(c, Delete) /\ UNCHANGED watcher
           \/ /\ kind = "CLOSE_WRITE" /\ watcher'[c] = file[c]
              /\ UNCHANGED toServer
    BY <1>1 DEF ReadEvents, IInv, TypeOK
  <2>2. Len(events[c]) \in DOMAIN events[c]
    BY <2>1 DEF IInv, TypeOK
  <2>3. MeasuredBy(c)' /\ RemovedOf(c)'
    BY <2>1 DEF MeasuredBy, RemovedOf
  <2>4. ASSUME ~missed', ~blocked' PROVE ToldTo(c)'
    <3>1. ~missed /\ ~blocked /\ \A i \in DOMAIN events[c] : events[c][i] = kind
      BY <2>1, <2>4
    <3>2. CASE kind = "DELETE"
      <4>1. file[c] = Absent \/ Filling(c)
        BY <2>1, <2>2, <3>1, <3>2 DEF Own, RemovedOf
      <4>2. toServer'[c] # << >> /\ toServer'[c][Len(toServer'[c])] = Delete
        BY <2>1, <3>2, Sent
      <4> QED BY <2>1, <4>1, <4>2 DEF ToldTo, Still, Filling, Tells
    <3>3. CASE kind = "CLOSE_WRITE"
      <4>1. watcher'[c] = file[c] /\ UNCHANGED toServer
        BY <2>1, <3>3
      <4>2. Still(c)' /\ file[c] = Absent => Still(c)
        BY <2>1, <3>1, <3>3 DEF Still, Filling
      <4>3. Heard(c)' => Heard(c)
        BY <2>1 DEF Heard
      <4> HIDE DEF kind
      <4> QED BY <2>1, <3>1, <4>1, <4>2, <4>3 DEF Own, ToldTo
    <3> QED BY <2>1, <3>2, <3>3
  <2> QED BY <2>3, <2>4 DEF Own
<1>2. CASE SendFile(c)
  <2>1. /\ watcher[c] # Absent /\ watcher'[c] = Absent /\ watcher[c] \in State
        /\ Send(c, Upload(Checksum[watcher[c]], Payload(watcher[c], file[c])))
        /\ UNCHANGED <<file, stored, events, worker, toClient, missed>>
    BY <1>2 DEF SendFile, IInv, TypeOK
  <2>2. Still(c)' => Still(c) /\ watcher[c] = file[c]
    BY <2>1 DEF Own, MeasuredBy, Still, Filling
  <2>3. watcher[c] = file[c] => Payload(watcher[c], file[c]) = file[c] /\ file[c] # Absent
    BY <2>1 DEF Payload
  <2>4. toServer'[c] # << >>
        /\ toServer'[c][Len(toServer'[c])] = Upload(Checksum[watcher[c]], Payload(watcher[c], file[c]))
    BY <2>1, Sent
  <2>5. ToldTo(c)'
    BY <2>1, <2>2, <2>3, <2>4 DEF ToldTo, Tells
  <2>6. MeasuredBy(c)' /\ RemovedOf(c)'
    BY <2>1 DEF Own, MeasuredBy, RemovedOf, Filling
  <2> QED BY <2>5, <2>6 DEF Own
<1> QED BY <1>1, <1>2 DEF Watcher

-----------------------------------------------------------------------------
(* The network worker *)

LEMMA WorkerOwn ==
  ASSUME IInv, NEW c \in Client, Own(c), NetworkWorker(c)
  PROVE  Own(c)'
<1>1. CASE ReceiveUpload(c)
  <2> DEFINE msg == Head(toClient[c])
  <2>1. /\ toClient[c] # << >> /\ toClient'[c] = Tail(toClient[c]) /\ msg.type = "UPLOAD"
        /\ worker[c].step = "poll"
        /\ worker'[c] = IF Same(file[c], msg.sum) THEN Polling ELSE [step |-> "open", data |-> msg.data]
        /\ UNCHANGED <<file, stored, events, watcher, toServer, connected, blocked, missed>>
    BY <1>1 DEF ReceiveUpload, Incoming, Take, IInv, TypeOK
  <2>2. Still(c)' => Still(c) /\ Same(file[c], msg.sum)
    BY <2>1 DEF Still, Filling
  <2>3. RemovedOf(c)' /\ MeasuredBy(c)'
    BY <2>1, <2>2 DEF Own, MeasuredBy, RemovedOf, Filling, Polling
  <2>4. Still(c)' /\ Heard(c)' => Heard(c)
    <3>1. \A i \in DOMAIN toClient[c] : i = 1 \/ (i - 1 \in DOMAIN toClient'[c] /\ toClient'[c][i - 1] = toClient[c][i])
      BY <2>1 DEF IInv, TypeOK
    <3>2. toClient[c][1] = msg
      BY <2>1
    <3> HIDE DEF msg
    <3> QED BY <2>1, <2>2, <3>1, <3>2 DEF Heard, Idempotent
  <2> HIDE DEF msg
  <2>5. ~missed /\ ~blocked => ToldTo(c)'
    BY <2>1, <2>2, <2>4 DEF Own, ToldTo
  <2> QED BY <2>1, <2>3, <2>5 DEF Own
<1>2. CASE Open(c)
  <2>1. Filling(c)'
    BY <1>2 DEF Open, Filling, IInv, TypeOK
  <2> QED BY <2>1 DEF Own, MeasuredBy, RemovedOf, ToldTo, Still
<1>3. CASE Fill(c)
  <2>1. /\ Notice(c, "CLOSE_WRITE") /\ worker[c].step = "fill" /\ worker'[c] = Polling
        /\ file'[c] = IF worker[c].linked THEN worker[c].data ELSE file[c]
        /\ UNCHANGED <<stored, watcher, toServer, toClient, connected, blocked, missed>>
    BY <1>3 DEF Fill, IInv, TypeOK
  <2>2. RemovedOf(c)'
    BY <2>1, Noticed DEF RemovedOf
  <2>3. CASE Filling(c)
    <3>1. file'[c] # Absent
      BY <1>3, <2>1, <2>3, ContentAssumption DEF Filling, IInv, TypeOK, Polling, Content
    <3>2. ~Still(c)'
      BY <2>1, <3>1, Noticed DEF Still
    <3> QED BY <2>2, <3>2 DEF Own, MeasuredBy, ToldTo
  <2>4. CASE ~Filling(c)
    <3>1. file'[c] = file[c]
      BY <1>3, <2>1, <2>4 DEF Filling, IInv, TypeOK, Polling
    <3>2. Still(c)' => Still(c)
      BY <2>1, <2>4, <3>1, Noticed DEF Still
    <3>3. Heard(c)' => Heard(c)
      BY <2>1, <3>1 DEF Heard
    <3> QED BY <2>1, <2>2, <3>1, <3>2, <3>3 DEF Own, MeasuredBy, ToldTo
  <2> QED BY <2>3, <2>4
<1>4. CASE ReceiveDelete(c)
  <2> DEFINE msg == Head(toClient[c])
  <2>1. /\ toClient[c] # << >> /\ toClient'[c] = Tail(toClient[c]) /\ msg.type = "DELETE"
        /\ UNCHANGED <<stored, watcher, worker, toServer, connected, blocked, missed>>
    BY <1>4 DEF ReceiveDelete, Incoming, Take, IInv, TypeOK
  <2>2. CASE file[c] # Absent /\ Unlink(c)
    <3>1. Notice(c, "DELETE") /\ file'[c] = Absent
      BY <2>2 DEF Unlink, IInv, TypeOK
    <3>2. ~Still(c)'
      BY <3>1, Noticed DEF Still
    <3> QED BY <3>1, <3>2 DEF Own, MeasuredBy, RemovedOf, ToldTo
  <2>3. CASE file[c] = Absent /\ UNCHANGED <<file, events>>
    <3>1. \A i \in DOMAIN toClient[c] : i = 1 \/ (i - 1 \in DOMAIN toClient'[c] /\ toClient'[c][i - 1] = toClient[c][i])
      BY <2>1 DEF IInv, TypeOK
    <3>2. toClient[c][1] = msg
      BY <2>1
    <3> HIDE DEF msg
    <3>3. Heard(c)' => Heard(c)
      BY <2>1, <2>3, <3>1, <3>2 DEF Heard, Idempotent
    <3> QED BY <2>1, <2>3, <3>3 DEF Own, MeasuredBy, RemovedOf, ToldTo, Still, Filling
  <2> QED BY <1>4, <2>2, <2>3 DEF ReceiveDelete
<1> QED BY <1>1, <1>2, <1>3, <1>4 DEF NetworkWorker

-----------------------------------------------------------------------------
(* The server *)

\* A message that changes what is stored changes every file that was like it.
LEMMA ChangesAlike ==
  ASSUME NEW x \in State, NEW y \in State, Alike(x, y), NEW msg, ~Idempotent(y, msg)
  PROVE  ~Idempotent(x, msg)
BY DEF Alike, Idempotent, Same

\* Who is forwarded a change of what is stored has work, or had some before.
LEMMA ForwardOwn ==
  ASSUME IInv, NEW c \in Client, NEW d \in Client \ {c}, Own(d),
         NEW msg, ~Idempotent(stored, msg), Forward(c, msg), ~blocked,
         UNCHANGED <<file[d], events[d], watcher[d], worker[d], connected[d], toServer[d], missed>>
  PROVE  Own(d)'
<1>1. MeasuredBy(d)' /\ RemovedOf(d)'
  BY DEF Own, MeasuredBy, RemovedOf, Still, Filling
<1>2. ASSUME ~missed, connected[d], watcher[d] = Absent, Still(d), Heard(d)'
      PROVE  toServer[d] # << >> /\ Tells(toServer[d][Len(toServer[d])], file[d])
  <2> DEFINE ch == toClient[d]
  <2>1. ch \in Seq(Message) /\ toClient'[d] = Append(ch, msg)
    BY <1>2 DEF Forward, Receivers, IInv, TypeOK
  <2>2. /\ \A i \in DOMAIN ch : i \in DOMAIN Append(ch, msg) /\ Append(ch, msg)[i] = ch[i]
        /\ Len(ch) + 1 \in DOMAIN Append(ch, msg) /\ Append(ch, msg)[Len(ch) + 1] = msg
    <3> HIDE DEF ch
    <3> QED BY <2>1
  <2>3. Heard(d) /\ Idempotent(file[d], msg)
    <3>1. \A i \in DOMAIN ch : Idempotent(file[d], ch[i])
      BY <1>2, <2>1, <2>2 DEF Heard
    <3>2. Idempotent(file[d], msg)
      BY <1>2, <2>1, <2>2 DEF Heard
    <3> QED BY <3>1, <3>2 DEF Heard
  <2>4. ~Alike(file[d], stored)
    BY <2>3, ChangesAlike DEF IInv, TypeOK
  <2> HIDE DEF ch
  <2> QED BY <1>2, <2>3, <2>4 DEF Own, ToldTo
<1>3. ~missed' => ToldTo(d)'
  <2>1. Still(d)' <=> Still(d)
    BY DEF Still, Filling
  <2> QED BY <1>2, <2>1 DEF ToldTo
<1> QED BY <1>1, <1>3 DEF Own

\* The last of a sequence is the last of its tail, or its head.
LEMMA LastOfTail ==
  ASSUME NEW S, NEW s \in Seq(S), s # << >>
  PROVE  /\ Tail(s) # << >> => Tail(s)[Len(Tail(s))] = s[Len(s)]
         /\ Tail(s) = << >> => s[Len(s)] = Head(s)
<1>1. Len(s) \in Nat \ {0} /\ Head(s) = s[1]
  OBVIOUS
<1>2. Tail(s) \in Seq(S) /\ Len(Tail(s)) = Len(s) - 1 /\ \A i \in 1 .. Len(s) - 1 : Tail(s)[i] = s[i + 1]
  OBVIOUS
<1>3. CASE Len(s) = 1
  <2>1. Tail(s) \in Seq(S) /\ Len(Tail(s)) = 0
    BY <1>2, <1>3
  <2>2. \A t \in Seq(S) : Len(t) = 0 => t = << >>
    OBVIOUS
  <2> QED BY <1>1, <1>3, <2>1, <2>2
<1>4. CASE Len(s) > 1
  <2>1. Tail(s)[Len(s) - 1] = s[(Len(s) - 1) + 1] /\ Tail(s) # << >>
    BY <1>1, <1>2, <1>4
  <2> QED BY <1>1, <1>2, <2>1
<1> QED BY <1>1, <1>3, <1>4

\* What the server reads of a machine, and what is behind it.
LEMMA ServerReads ==
  ASSUME IInv, NEW c \in Client, NEW type, Reads(c, type), toServer' = [toServer EXCEPT ![c] = Tail(@)]
  PROVE  /\ toServer'[c] # << >> => toServer'[c][Len(toServer'[c])] = toServer[c][Len(toServer[c])]
         /\ toServer'[c] = << >> => toServer[c][Len(toServer[c])] = Head(toServer[c])
         /\ toServer[c] # << >>
         /\ \A d \in Client \ {c} : UNCHANGED toServer[d]
<1> DEFINE ch == toServer[c]
<1>1. ch \in Seq(Message) /\ ch # << >> /\ toServer'[c] = Tail(ch)
  BY DEF IInv, TypeOK, Reads
<1>2. \A d \in Client \ {c} : UNCHANGED toServer[d]
  BY DEF IInv, TypeOK
<1> HIDE DEF ch
<1>3. /\ Tail(ch) # << >> => Tail(ch)[Len(Tail(ch))] = ch[Len(ch)]
      /\ Tail(ch) = << >> => ch[Len(ch)] = Head(ch)
  BY <1>1, LastOfTail
<1> QED BY <1>1, <1>2, <1>3 DEF ch

\* The sender of the message that is handled.
LEMMA SenderOwn ==
  ASSUME IInv, NEW c \in Client, Own(c), NEW type, Reads(c, type),
         toServer' = [toServer EXCEPT ![c] = Tail(@)],
         UNCHANGED <<file[c], events[c], watcher[c], worker[c], connected[c], toClient[c], missed>>,
         ~blocked' /\ Tells(Head(toServer[c]), file[c]) => Alike(file[c], stored')
  PROVE  Own(c)'
<1>1. MeasuredBy(c)' /\ RemovedOf(c)'
  BY DEF Own, MeasuredBy, RemovedOf, Still, Filling
<1>2. (Still(c)' <=> Still(c)) /\ (Heard(c)' <=> Heard(c))
  BY DEF Still, Filling, Heard
<1>3. ASSUME ~missed', ~blocked' PROVE ToldTo(c)'
  <2>1. ~blocked
    BY DEF Reads
  <2>2. ASSUME connected[c], watcher[c] = Absent, Still(c), Heard(c)
        PROVE Tells(toServer[c][Len(toServer[c])], file[c])
    BY <1>3, <2>1, <2>2, ServerReads DEF Own, ToldTo
  <2> QED BY <1>2, <1>3, <2>2, ServerReads DEF ToldTo
<1> QED BY <1>1, <1>3 DEF Own

LEMMA ServerOwn ==
  ASSUME IInv, NEW c \in Client, Agree, Server(c)
  PROVE  Agree'
<1> DEFINE msg == Head(toServer[c])
<1> SUFFICES ASSUME NEW d \in Client PROVE Own(d)'
  BY DEF Agree
<1>1. Own(c) /\ Own(d)
  BY DEF Agree
<1>2. CASE HandleUpload(c)
  <2>1. /\ Reads(c, "UPLOAD") /\ toServer' = [toServer EXCEPT ![c] = Tail(@)]
        /\ ~blocked /\ msg.type = "UPLOAD" /\ blocked' = (msg.data = Short)
        /\ UNCHANGED <<file, events, watcher, worker, connected, missed>>
        /\ \/ Same(stored, msg.sum) /\ UNCHANGED <<stored, toClient>>
           \/ /\ ~Same(stored, msg.sum)
              /\ stored' = IF msg.data = Short THEN Empty ELSE msg.data
              /\ IF msg.data = Short THEN UNCHANGED toClient ELSE Forward(c, msg)
    BY <1>2 DEF HandleUpload, Reads
  <2>2. UNCHANGED toClient[c]
    BY <2>1 DEF Forward, Receivers, IInv, TypeOK
  <2>3. Tells(msg, file[c]) => file[c] # Absent /\ msg.sum = Checksum[file[c]] /\ msg.data = file[c]
    BY <2>1 DEF Tells, Upload, Delete
  <2>4. ~blocked' /\ Tells(msg, file[c]) => Alike(file[c], stored')
    BY <2>1, <2>3 DEF Alike, Same
  <2>5. CASE d = c
    BY <1>1, <2>1, <2>2, <2>4, <2>5, SenderOwn
  <2>6. CASE d # c /\ UNCHANGED <<stored, toClient>>
    <3>1. UNCHANGED toServer[d]
      BY <2>1, <2>6, ServerReads
    <3>2. MeasuredBy(d)' /\ RemovedOf(d)' /\ (ToldTo(d) => ToldTo(d)')
      BY <1>1, <2>1, <2>6, <3>1 DEF Own, MeasuredBy, RemovedOf, ToldTo, Still, Filling, Heard
    <3> QED BY <1>1, <2>1, <3>2 DEF Own
  <2>7. CASE d # c /\ ~Same(stored, msg.sum) /\ msg.data = Short
    <3>1. MeasuredBy(d)' /\ RemovedOf(d)'
      BY <1>1, <2>1 DEF Own, MeasuredBy, RemovedOf, Still, Filling
    <3> QED BY <2>1, <2>7, <3>1 DEF Own
  <2>8. CASE d # c /\ ~Same(stored, msg.sum) /\ Forward(c, msg)
    <3>1. ~Idempotent(stored, msg)
      BY <2>1, <2>8 DEF Idempotent
    <3>2. UNCHANGED toServer[d]
      BY <2>1, <2>8, ServerReads
    <3> HIDE DEF msg
    <3> QED BY <1>1, <2>1, <2>8, <3>1, <3>2, ForwardOwn
  <2> QED BY <2>1, <2>5, <2>6, <2>7, <2>8
<1>3. CASE HandleDelete(c)
  <2>1. /\ Reads(c, "DELETE") /\ toServer' = [toServer EXCEPT ![c] = Tail(@)]
        /\ ~blocked /\ msg.type = "DELETE" /\ stored' = Absent
        /\ UNCHANGED <<file, events, watcher, worker, connected, blocked, missed>>
        /\ \/ UNCHANGED <<stored, toClient>>
           \/ stored # Absent /\ Forward(c, Delete)
    BY <1>3 DEF HandleDelete, Reads
  <2>2. UNCHANGED toClient[c]
    BY <2>1 DEF Forward, Receivers, IInv, TypeOK
  <2>3. Tells(msg, file[c]) => Alike(file[c], stored')
    BY <2>1 DEF Tells, Upload, Alike
  <2>4. CASE d = c
    BY <1>1, <2>1, <2>2, <2>3, <2>4, SenderOwn
  <2>5. CASE d # c /\ UNCHANGED <<stored, toClient>>
    <3>1. UNCHANGED toServer[d]
      BY <2>1, <2>5, ServerReads
    <3>2. MeasuredBy(d)' /\ RemovedOf(d)' /\ (ToldTo(d) => ToldTo(d)')
      BY <1>1, <2>1, <2>5, <3>1 DEF Own, MeasuredBy, RemovedOf, ToldTo, Still, Filling, Heard
    <3> QED BY <1>1, <2>1, <3>2 DEF Own
  <2>6. CASE d # c /\ stored # Absent /\ Forward(c, Delete)
    <3>1. ~Idempotent(stored, Delete)
      BY <2>6 DEF Idempotent, Delete
    <3>2. UNCHANGED toServer[d]
      BY <2>1, <2>6, ServerReads
    <3> QED BY <1>1, <2>1, <2>6, <3>1, <3>2, ForwardOwn
  <2> QED BY <2>1, <2>4, <2>5, <2>6
<1> QED BY <1>2, <1>3 DEF Server

-----------------------------------------------------------------------------
LEMMA NextAgree == IInv /\ Agree /\ [Next]_vars => Agree'
<1> SUFFICES ASSUME IInv, Agree, [Next]_vars PROVE Agree'
  OBVIOUS
<1>1. CASE UNCHANGED vars
  BY <1>1, Unaffected DEF vars, Local, Agree
<1>2. ASSUME NEW c \in Client, User(c) \/ Watcher(c) \/ NetworkWorker(c) PROVE Agree'
  <2>1. Own(c)'
    BY <1>2, UserOwn, WatcherOwn, WorkerOwn DEF Agree
  <2>2. ASSUME NEW d \in Client \ {c} PROVE Own(d)'
    BY <1>2, <2>2, OwnSteps, Unaffected DEF Agree
  <2> QED BY <2>1, <2>2 DEF Agree
<1>3. ASSUME NEW c \in Client, Server(c) PROVE Agree'
  BY <1>3, ServerOwn
<1> QED BY <1>1, <1>2, <1>3 DEF Next

LEMMA AgreeMeans == Agree => AgreeWhenIdle
<1> SUFFICES ASSUME Agree, ~missed, ~blocked, NEW c \in Client, connected[c], Idle(c)
             PROVE  Alike(file[c], stored)
  BY DEF AgreeWhenIdle
<1>1. Still(c) /\ Heard(c)
  BY DEF Idle, Still, Filling, Heard, Polling
<1> QED BY <1>1 DEF Agree, Own, ToldTo, Idle

\* When nothing is left to do every machine has the server's file, as far as the
\* checksums can tell, whatever saves, uploads and forwards crossed and however many
\* machines there are - unless an event was skipped or the server is blocked
\* (dripbox_cleint_inotify_dispatch, dripbox_server_handle_upload).
THEOREM AgreeWhenIdleInvariant == Spec => []AgreeWhenIdle
BY InitInvariant, NextInvariant, InitAgree, NextAgree, AgreeMeans, PTL DEF Spec
=============================================================================
