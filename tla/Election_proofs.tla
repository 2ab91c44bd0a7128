-------------------------- MODULE Election_proofs --------------------------
(***************************************************************************)
(* Proofs about Election for every set of servers, every order of          *)
(* uuid.integer, every outcome of discovery and every number of crashes.   *)
(*                                                                         *)
(* TypeOK and Signed are inductive together; FollowsOlder needs TypeOK,    *)
(* and TracksCoordinator needs Signed: the uuid that handle_add_replica    *)
(* and the COORDINATOR case store is the uuid of the entry they read from. *)
(***************************************************************************)
EXTENDS Election, TLAPS

\* The uuid in a message is the one of the server that wrote it.
From(s) == {m \in Message : m.uuid = s}
Signed  == \A s, r \in Server : channel[s][r] \in Seq(From(s))

IInv == TypeOK /\ Signed /\ FollowsOlder /\ TracksCoordinator

Channels == [Server -> [Server -> Seq(Message)]]
SignedBy(ch) == \A a, b \in Server : ch[a][b] \in Seq(From(a))

\* One cell of a table indexed by two servers is overwritten.
LEMMA GridUpdate ==
  ASSUME NEW V, NEW f \in [Server -> [Server -> V]],
         NEW s \in Server, NEW r \in Server, NEW v \in V
  PROVE  /\ [f EXCEPT ![s][r] = v] \in [Server -> [Server -> V]]
         /\ \A a, b \in Server :
              [f EXCEPT ![s][r] = v][a][b] = IF a = s /\ b = r THEN v ELSE f[a][b]
OBVIOUS

\* Writing a signed message to some entries keeps the channels typed and signed.
LEMMA PostSigned ==
  ASSUME NEW ch \in Channels, SignedBy(ch), NEW s \in Server,
         NEW R \in SUBSET Server, NEW m \in From(s)
  PROVE  /\ Post(ch, s, R, m) \in Channels
         /\ SignedBy(Post(ch, s, R, m))
<1> DEFINE row == [r \in Server |->
             IF r \in R /\ Flows(s, r) THEN Append(ch[s][r], m) ELSE ch[s][r]]
<1>1. Post(ch, s, R, m) = [ch EXCEPT ![s] = row]
  BY DEF Post
<1>2. m \in Message
  BY DEF From
<1>3. \A r \in Server : row[r] \in Seq(Message) /\ row[r] \in Seq(From(s))
  <2> TAKE r \in Server
  <2>1. ch[s][r] \in Seq(Message) /\ ch[s][r] \in Seq(From(s))
    BY DEF Channels, SignedBy
  <2>2. /\ Append(ch[s][r], m) \in Seq(Message)
        /\ Append(ch[s][r], m) \in Seq(From(s))
    BY <1>2, <2>1
  <2> QED BY <2>1, <2>2
<1>4. row \in [Server -> Seq(Message)]
  BY <1>3
<1> HIDE DEF row
<1>5. [ch EXCEPT ![s] = row] \in Channels
  BY <1>4 DEF Channels
<1>6. ASSUME NEW a \in Server, NEW b \in Server
      PROVE  [ch EXCEPT ![s] = row][a][b] \in Seq(From(a))
  BY <1>3 DEF Channels, SignedBy
<1> QED BY <1>1, <1>5, <1>6 DEF SignedBy

\* Reading the first message of a channel keeps the channels typed and signed.
LEMMA ConsumeSigned ==
  ASSUME TypeOK, Signed, NEW r \in Server, NEW s \in Server,
         channel[r][s] # << >>
  PROVE  Consume(r, s) \in Channels /\ SignedBy(Consume(r, s))
<1>1. channel[r][s] \in Seq(Message) /\ channel[r][s] \in Seq(From(r))
  BY DEF TypeOK, Signed
<1>2. Tail(channel[r][s]) \in Seq(Message) /\ Tail(channel[r][s]) \in Seq(From(r))
  BY <1>1
<1> QED BY <1>2 DEF Consume, Channels, SignedBy, TypeOK, Signed

\* So does discarding everything a connection carried.
LEMMA DiscardSigned ==
  ASSUME TypeOK, Signed, NEW r \in Server, NEW s \in Server
  PROVE  /\ [channel EXCEPT ![r][s] = << >>] \in Channels
         /\ SignedBy([channel EXCEPT ![r][s] = << >>])
<1>1. << >> \in Seq(Message) /\ << >> \in Seq(From(r))
  OBVIOUS
<1> QED BY <1>1 DEF Channels, SignedBy, TypeOK, Signed

\* The first message of a channel was written by the server at its other end.
LEMMA HeadSigned ==
  ASSUME TypeOK, Signed, NEW r \in Server, NEW s \in Server,
         channel[r][s] # << >>
  PROVE  Head(channel[r][s]).uuid = r
<1>1. channel[r][s] \in Seq(From(r))
  BY DEF Signed
<1>2. Head(channel[r][s]) \in From(r)
  BY <1>1
<1> QED BY <1>2 DEF From

\* What dripbox_server_start_election leaves: typed state, signed channels, and
\* entries only where there were entries.
LEMMA StartElectionEffect ==
  ASSUME TypeOK, NEW s \in Server, NEW st \in {"NONE", "RUNNING"},
         NEW row \in [Server -> LinkState], NEW ch \in Channels, SignedBy(ch),
         StartElection(s, st, row, ch)
  PROVE  /\ electionState' \in [Server -> {"NONE", "RUNNING"}]
         /\ co' \in [Server -> CoState]
         /\ timerDone' \in [Server -> BOOLEAN]
         /\ link' \in [Server -> [Server -> LinkState]]
         /\ \A a \in Server \ {s} : link'[a] = link[a]
         /\ \A r \in Server : link'[s][r] = "absent" => row[r] = "absent"
         /\ channel' \in Channels
         /\ SignedBy(channel')
<1>1. CASE st = "NONE"
  <2> DEFINE R == ElectionTargets(s, row)
  <2>1. R \in SUBSET Server
    BY DEF ElectionTargets
  <2>2. ElectionMsg(s) \in From(s)
    BY DEF ElectionMsg, From, Message, MessageType
  <2>3. /\ channel' = Post(ch, s, R, ElectionMsg(s))
        /\ link' = [link EXCEPT ![s] = AfterWrite(row, R)]
        /\ electionState' = [electionState EXCEPT ![s] = "RUNNING"]
        /\ co' = co \/ co' = [co EXCEPT ![s] = "wait"]
        /\ timerDone' = timerDone \/ timerDone' = [timerDone EXCEPT ![s] = FALSE]
    BY <1>1 DEF StartElection
  <2> HIDE DEF R
  <2>4. /\ AfterWrite(row, R) \in [Server -> LinkState]
        /\ \A r \in Server : AfterWrite(row, R)[r] = "absent" => row[r] = "absent"
    BY DEF AfterWrite, LinkState
  <2>5. channel' \in Channels /\ SignedBy(channel')
    BY <2>1, <2>2, <2>3, PostSigned
  <2>6. electionState' \in [Server -> {"NONE", "RUNNING"}] /\ co' \in [Server -> CoState]
    BY <2>3 DEF TypeOK, CoState
  <2>7. timerDone' \in [Server -> BOOLEAN]
    BY <2>3 DEF TypeOK
  <2>8. /\ link' \in [Server -> [Server -> LinkState]]
        /\ \A a \in Server \ {s} : link'[a] = link[a]
        /\ \A r \in Server : link'[s][r] = "absent" => row[r] = "absent"
    BY <2>3, <2>4 DEF TypeOK
  <2> QED BY <2>5, <2>6, <2>7, <2>8
<1>2. CASE st # "NONE"
  BY <1>2 DEF StartElection, TypeOK, CoState
<1> QED BY <1>1, <1>2

-----------------------------------------------------------------------------
\* A step that changes no coordinator and removes no entry keeps what relates
\* coordinators to each other and to the table.
LEMMA CoordinatorsKept ==
  ASSUME TypeOK, FollowsOlder, TracksCoordinator,
         alive' = alive, coordinator' = coordinator,
         \A a, b \in Server : link'[a][b] = "absent" => link[a][b] = "absent"
  PROVE  FollowsOlder' /\ TracksCoordinator'
BY DEF TypeOK, FollowsOlder, TracksCoordinator, HigherId

LEMMA InitInvariant == Init => IInv
<1> SUFFICES ASSUME Init PROVE IInv
  OBVIOUS
<1>1. PICK found \in Discovered :
        link = [s \in Server |-> [r \in Server |->
                  IF s # r /\ <<s, r>> \in found THEN "found" ELSE "absent"]]
  BY DEF Init
<1>2. \A s, r \in Server : channel[s][r] = << >>
  BY DEF Init
<1>3. TypeOK
  BY <1>1 DEF Init, TypeOK, Role, CoState, LinkState, ConnState
<1>4. Signed
  <2>1. \A s \in Server : << >> \in Seq(From(s))
    OBVIOUS
  <2> QED BY <1>2, <2>1 DEF Signed
<1>5. FollowsOlder /\ TracksCoordinator
  BY DEF Init, FollowsOlder, TracksCoordinator
<1> QED BY <1>3, <1>4, <1>5 DEF IInv

\* The sockets: Open, Connect and Introduce.
LEMMA SocketSteps ==
  ASSUME IInv, NEW s \in Server, NEW r \in Server,
         Open(s, r) \/ Connect(s, r) \/ Introduce(s, r)
  PROVE  IInv'
<1> USE DEF IInv
<1>1. CASE Open(s, r)
  <2>1. TypeOK'
    BY <1>1 DEF Open, TypeOK, LinkState, local
  <2>2. Signed'
    BY <1>1 DEF Open, Signed, From
  <2>3. FollowsOlder' /\ TracksCoordinator'
    BY <1>1, CoordinatorsKept DEF Open, TypeOK, local
  <2> QED BY <2>1, <2>2, <2>3
<1>2. CASE Connect(s, r)
  <2>0. PICK v \in {"connected", "error"} : link' = [link EXCEPT ![s][r] = v]
    BY <1>2 DEF Connect
  <2>1. /\ link' \in [Server -> [Server -> LinkState]]
        /\ \A a, b \in Server : link'[a][b] = "absent" => link[a][b] = "absent"
    BY <2>0, GridUpdate DEF TypeOK, LinkState
  <2>2. conn' \in [Server -> [Server -> ConnState]]
    <3>1. CASE alive[r]
      <4>1. conn' = [conn EXCEPT ![s][r] = "backlog"]
        BY <1>2, <3>1 DEF Connect
      <4> QED BY <4>1, GridUpdate DEF TypeOK, ConnState
    <3>2. CASE ~alive[r]
      BY <1>2, <3>2 DEF Connect, TypeOK
    <3> QED BY <3>1, <3>2
  <2>3. UNCHANGED <<alive, electionState, role, coordinator, co, timerDone, channel>>
    BY <1>2 DEF Connect, local
  <2>4. TypeOK' /\ Signed'
    BY <2>1, <2>2, <2>3 DEF TypeOK, Signed, From
  <2>5. FollowsOlder' /\ TracksCoordinator'
    BY <2>1, <2>3, CoordinatorsKept
  <2> QED BY <2>4, <2>5
<1>3. CASE Introduce(s, r)
  <2>1. AddReplica(s) \in From(s)
    BY DEF AddReplica, From, Message, MessageType
  <2>2. channel \in Channels /\ SignedBy(channel)
    BY DEF TypeOK, Channels, Signed, SignedBy
  <2>3. channel' \in Channels /\ SignedBy(channel')
    BY <1>3, <2>1, <2>2, PostSigned DEF Introduce
  <2>4. TypeOK'
    BY <1>3, <2>3 DEF Introduce, TypeOK, LinkState, local, Channels
  <2>5. Signed'
    BY <2>3 DEF SignedBy, Signed, From
  <2>6. FollowsOlder' /\ TracksCoordinator'
    BY <1>3, CoordinatorsKept DEF Introduce, TypeOK, local
  <2> QED BY <2>4, <2>5, <2>6
<1> QED BY <1>1, <1>2, <1>3

\* A step of a handler that ran start_election and left the coordinators alone.
LEMMA ElectionStarted ==
  ASSUME IInv, NEW s \in Server, NEW st \in {"NONE", "RUNNING"},
         NEW row \in [Server -> LinkState], NEW ch \in Channels, SignedBy(ch),
         StartElection(s, st, row, ch),
         \A b \in Server : row[b] = "absent" => link[s][b] = "absent",
         UNCHANGED <<alive, role, coordinator>>,
         conn' \in [Server -> [Server -> ConnState]]
  PROVE  IInv'
<1> USE DEF IInv
<1>1. /\ electionState' \in [Server -> {"NONE", "RUNNING"}]
      /\ co' \in [Server -> CoState]
      /\ timerDone' \in [Server -> BOOLEAN]
      /\ link' \in [Server -> [Server -> LinkState]]
      /\ \A a \in Server \ {s} : link'[a] = link[a]
      /\ \A r \in Server : link'[s][r] = "absent" => row[r] = "absent"
      /\ channel' \in Channels
      /\ SignedBy(channel')
  BY StartElectionEffect
<1>2. TypeOK'
  BY <1>1 DEF TypeOK, Channels
<1>3. Signed'
  BY <1>1 DEF Signed, SignedBy, From
<1>4. \A a, b \in Server : link'[a][b] = "absent" => link[a][b] = "absent"
  BY <1>1
<1>5. FollowsOlder' /\ TracksCoordinator'
  BY <1>4, CoordinatorsKept
<1> QED BY <1>2, <1>3, <1>5

\* The incoming worker.
LEMMA IncomingSteps ==
  ASSUME IInv, NEW s \in Server, NEW r \in Server,
         AcceptReplica(s, r) \/ AcceptElection(s, r) \/ AcceptOther(s, r)
  PROVE  IInv'
<1> USE DEF IInv
<1>0. /\ [channel EXCEPT ![r][s] = << >>] \in Channels
      /\ SignedBy([channel EXCEPT ![r][s] = << >>])
  BY DiscardSigned
<1>1. CASE AcceptReplica(s, r)
  <2> DEFINE new  == Head(channel[r][s]).uuid
             lead == IF HigherId(new, coordinator[s]) /\ HigherId(new, s)
                     THEN new ELSE coordinator[s]
  <2>1. channel[r][s] # << >> /\ alive[s]
    BY <1>1 DEF AcceptReplica, Received
  <2>2. new = r
    BY <2>1, HeadSigned
  <2>3. /\ coordinator' = [coordinator EXCEPT ![s] = lead]
        /\ role' = [role EXCEPT ![s] = IF lead = s THEN "MASTER" ELSE "REPLICA"]
    BY <1>1 DEF AcceptReplica
  <2>4. /\ lead \in Server
        /\ lead = s \/ HigherId(lead, s)
        /\ lead = coordinator[s] \/ lead = r
    BY <2>2 DEF TypeOK, FollowsOlder
  <2> HIDE DEF lead, new
  <2>5. /\ channel' \in Channels
        /\ SignedBy(channel')
    BY <1>0, <1>1, <2>1, ConsumeSigned DEF AcceptReplica
  <2>6. /\ link' \in [Server -> [Server -> LinkState]]
        /\ link'[s][r] # "absent"
        /\ \A a, b \in Server : link'[a][b] = "absent" => link[a][b] = "absent"
    <3>1. CASE link[s][r] = "absent"
      <4>1. link' = [link EXCEPT ![s][r] = "in"]
        BY <1>1, <3>1 DEF AcceptReplica
      <4> QED BY <4>1, GridUpdate DEF TypeOK, LinkState
    <3>2. CASE link[s][r] # "absent"
      <4>1. link' = link
        BY <1>1, <3>2 DEF AcceptReplica
      <4> QED BY <3>2, <4>1 DEF TypeOK
    <3> QED BY <3>1, <3>2
  <2>61. conn' \in [Server -> [Server -> ConnState]]
    <3>1. PICK v \in {"kept", "dropped"} : conn' = [conn EXCEPT ![r][s] = v]
      BY <1>1 DEF AcceptReplica, Drop
    <3> QED BY <3>1, GridUpdate DEF TypeOK, ConnState
  <2>7. TypeOK'
    <3>1. coordinator' \in [Server -> Server] /\ role' \in [Server -> Role]
      BY <2>3, <2>4 DEF TypeOK, Role
    <3>2. UNCHANGED <<alive, electionState, co, timerDone>>
      BY <1>1 DEF AcceptReplica
    <3> QED BY <2>5, <2>6, <2>61, <3>1, <3>2 DEF TypeOK, Channels
  <2>8. Signed'
    BY <2>5 DEF Signed, SignedBy, From
  <2>9. FollowsOlder'
    BY <2>3, <2>4 DEF FollowsOlder, TypeOK, HigherId
  <2>10. TracksCoordinator'
    <3>1. alive' = alive
      BY <1>1 DEF AcceptReplica
    <3>2. ASSUME NEW a \in Server, alive[a], coordinator'[a] # a
          PROVE  link'[a][coordinator'[a]] # "absent"
      <4>1. CASE a = s /\ lead = r
        BY <2>3, <2>6, <4>1 DEF TypeOK
      <4>2. CASE ~(a = s /\ lead = r)
        <5>1. coordinator'[a] = coordinator[a]
          BY <2>3, <2>4, <4>2 DEF TypeOK
        <5>2. coordinator[a] \in Server /\ link[a][coordinator[a]] # "absent"
          BY <3>2, <5>1 DEF TracksCoordinator, TypeOK
        <5> QED BY <2>6, <5>1, <5>2
      <4> QED BY <4>1, <4>2
    <3> QED BY <3>1, <3>2 DEF TracksCoordinator
  <2> QED BY <2>7, <2>8, <2>9, <2>10
<1>2. CASE AcceptElection(s, r)
  <2>1. conn' \in [Server -> [Server -> ConnState]]
    BY <1>2 DEF AcceptElection, Drop, TypeOK, ConnState
  <2>2. electionState[s] \in {"NONE", "RUNNING"} /\ link[s] \in [Server -> LinkState]
    BY DEF TypeOK
  <2> QED BY <1>0, <1>2, <2>1, <2>2, ElectionStarted DEF AcceptElection
<1>3. CASE AcceptOther(s, r)
  <2>1. TypeOK'
    BY <1>0, <1>3 DEF AcceptOther, Drop, TypeOK, ConnState, Channels, local
  <2>2. Signed'
    BY <1>0, <1>3 DEF AcceptOther, Signed, SignedBy, From
  <2>3. FollowsOlder' /\ TracksCoordinator'
    BY <1>3, CoordinatorsKept DEF AcceptOther, TypeOK, local
  <2> QED BY <2>1, <2>2, <2>3
<1> QED BY <1>1, <1>2, <1>3

\* The network worker.
LEMMA NetworkSteps ==
  ASSUME IInv, NEW s \in Server, NEW r \in Server,
         \/ PingFails(s, r) \/ HandleCoordinator(s, r) \/ HandleElection(s, r)
         \/ HandleJunk(s, r) \/ HandleEof(s, r)
  PROVE  IInv'
<1> USE DEF IInv
<1>0. /\ electionState[s] \in {"NONE", "RUNNING"}
      /\ link[s] \in [Server -> LinkState]
      /\ conn \in [Server -> [Server -> ConnState]]
      /\ channel \in Channels
      /\ SignedBy(channel)
  BY DEF TypeOK, Channels, Signed, SignedBy
<1>1. CASE PingFails(s, r)
  <2> DEFINE row == [link[s] EXCEPT ![r] = "error"]
  <2>1. /\ row \in [Server -> LinkState]
        /\ \A b \in Server : row[b] = "absent" => link[s][b] = "absent"
    BY <1>0 DEF LinkState
  <2>2. /\ StartElection(s, "NONE", row, channel)
        /\ UNCHANGED <<alive, role, coordinator>>
        /\ conn' = conn
    BY <1>1 DEF PingFails
  <2> HIDE DEF row
  <2> QED BY <1>0, <2>1, <2>2, ElectionStarted
<1>2. CASE HandleCoordinator(s, r)
  <2>1. channel[r][s] # << >> /\ alive[s] /\ link[s][r] # "absent"
    BY <1>2 DEF HandleCoordinator, Received, Readable
  <2>2. Head(channel[r][s]).uuid = r
    BY <2>1, HeadSigned
  <2>3. Consume(r, s) \in Channels /\ SignedBy(Consume(r, s))
    BY <2>1, ConsumeSigned
  <2>4. CASE Accepts(s, r)
    <3>1. /\ electionState' = [electionState EXCEPT ![s] = "NONE"]
          /\ role' = [role EXCEPT ![s] = "REPLICA"]
          /\ coordinator' = [coordinator EXCEPT ![s] = r]
          /\ channel' = Consume(r, s)
          /\ UNCHANGED <<alive, co, timerDone, link, conn>>
      BY <1>2, <2>2, <2>4 DEF HandleCoordinator
    <3>2. TypeOK'
      BY <2>3, <3>1 DEF TypeOK, Channels, Role
    <3>3. Signed'
      BY <2>3, <3>1 DEF Signed, SignedBy, From
    <3>4. FollowsOlder' /\ TracksCoordinator'
      BY <2>1, <2>4, <3>1
      DEF FollowsOlder, TracksCoordinator, TypeOK, Accepts, HigherId
    <3> QED BY <3>2, <3>3, <3>4
  <2>5. CASE ~Accepts(s, r)
    <3>1. /\ StartElection(s, "NONE", link[s], Consume(r, s))
          /\ UNCHANGED <<alive, role, coordinator, conn>>
      BY <1>2, <2>2, <2>5 DEF HandleCoordinator
    <3> QED BY <1>0, <2>3, <3>1, ElectionStarted
  <2> QED BY <2>4, <2>5
<1>3. CASE HandleElection(s, r)
  <2>1. Consume(r, s) \in Channels /\ SignedBy(Consume(r, s))
    BY <1>3, ConsumeSigned DEF HandleElection, Received
  <2>2. /\ StartElection(s, electionState[s], link[s], Consume(r, s))
        /\ UNCHANGED <<alive, role, coordinator, conn>>
    BY <1>3 DEF HandleElection
  <2> QED BY <1>0, <2>1, <2>2, ElectionStarted
<1>4. CASE HandleJunk(s, r)
  <2>1. Consume(r, s) \in Channels /\ SignedBy(Consume(r, s))
    BY <1>4, ConsumeSigned DEF HandleJunk, Received
  <2>2. TypeOK' /\ Signed'
    BY <1>4, <2>1 DEF HandleJunk, TypeOK, Signed, SignedBy, From, Channels, local
  <2>3. FollowsOlder' /\ TracksCoordinator'
    BY <1>4, CoordinatorsKept DEF HandleJunk, local
  <2> QED BY <2>2, <2>3
<1>5. CASE HandleEof(s, r)
  <2>1. PICK after \in {"shut", "error"} : link' = [link EXCEPT ![s][r] = after]
    BY <1>5 DEF HandleEof
  <2>2. /\ link' \in [Server -> [Server -> LinkState]]
        /\ \A a, b \in Server : link'[a][b] = "absent" => link[a][b] = "absent"
    BY <2>1, GridUpdate DEF TypeOK, LinkState
  <2>3. TypeOK' /\ Signed'
    BY <1>5, <2>2 DEF HandleEof, TypeOK, Signed, From, local
  <2>4. FollowsOlder' /\ TracksCoordinator'
    BY <1>5, <2>2, CoordinatorsKept DEF HandleEof, local
  <2> QED BY <2>3, <2>4
<1> QED BY <1>1, <1>2, <1>3, <1>4, <1>5

\* The election coroutine.
LEMMA CoroutineSteps ==
  ASSUME IInv, NEW s \in Server,
         \/ TimerFires(s) \/ Decide(s) \/ Win(s) \/ AnnounceBusy(s)
         \/ Announce(s) \/ Finish(s) \/ SeeNone(s) \/ Complete(s)
  PROVE  IInv'
<1> USE DEF IInv
<1>1. CASE \/ TimerFires(s) \/ Decide(s) \/ AnnounceBusy(s) \/ Finish(s)
           \/ SeeNone(s) \/ Complete(s)
  <2>1. UNCHANGED <<alive, role, coordinator, link, conn, channel>>
    BY <1>1 DEF TimerFires, Decide, AnnounceBusy, Finish, SeeNone, Complete
  <2>2. /\ electionState' \in [Server -> {"NONE", "RUNNING"}]
        /\ co' \in [Server -> CoState]
        /\ timerDone' \in [Server -> BOOLEAN]
    <3>1. electionState' \in [Server -> {"NONE", "RUNNING"}]
      BY <1>1 DEF TimerFires, Decide, AnnounceBusy, Finish, SeeNone, Complete, TypeOK
    <3>2. \/ co' = co
          \/ \E to \in CoState : co' = [co EXCEPT ![s] = to]
      BY <1>1 DEF TimerFires, Decide, AnnounceBusy, Finish, SeeNone, Complete,
                  CoGoto, CoState
    <3>3. co' \in [Server -> CoState]
      BY <3>2 DEF TypeOK
    <3>4. timerDone' = timerDone \/ timerDone' = [timerDone EXCEPT ![s] = TRUE]
      BY <1>1 DEF TimerFires, Decide, AnnounceBusy, Finish, SeeNone, Complete
    <3>5. timerDone' \in [Server -> BOOLEAN]
      BY <3>4 DEF TypeOK
    <3> QED BY <3>1, <3>3, <3>5
  <2>3. TypeOK' /\ Signed'
    BY <2>1, <2>2 DEF TypeOK, Signed, From
  <2>4. FollowsOlder' /\ TracksCoordinator'
    BY <2>1, CoordinatorsKept
  <2> QED BY <2>3, <2>4
<1>2. CASE Win(s)
  <2>1. TypeOK' /\ Signed'
    BY <1>2 DEF Win, CoGoto, TypeOK, CoState, Role, Signed, From
  <2>2. FollowsOlder' /\ TracksCoordinator'
    BY <1>2 DEF Win, TypeOK, FollowsOlder, TracksCoordinator, HigherId
  <2> QED BY <2>1, <2>2
<1>3. CASE Announce(s)
  <2> DEFINE R == AnnounceTargets(s)
  <2>1. PICK header \in {Coordinator(s), Junk(s)} :
          channel' = Post(channel, s, R, header)
    BY <1>3 DEF Announce
  <2>2. header \in From(s)
    BY DEF Coordinator, Junk, From, Message, MessageType
  <2>3. channel \in Channels /\ SignedBy(channel)
    BY DEF TypeOK, Channels, Signed, SignedBy
  <2>4. R \in SUBSET Server
    BY DEF AnnounceTargets
  <2>5. /\ link' = [link EXCEPT ![s] = AfterWrite(link[s], R)]
        /\ UNCHANGED <<alive, electionState, role, coordinator, timerDone, conn>>
        /\ co' = [co EXCEPT ![s] = "notify"]
    BY <1>3 DEF Announce, CoGoto
  <2> HIDE DEF R
  <2>6. channel' \in Channels /\ SignedBy(channel')
    BY <2>1, <2>2, <2>3, <2>4, PostSigned
  <2>7. /\ AfterWrite(link[s], R) \in [Server -> LinkState]
        /\ \A b \in Server :
             AfterWrite(link[s], R)[b] = "absent" => link[s][b] = "absent"
    BY DEF AfterWrite, TypeOK, LinkState
  <2>8. /\ link' \in [Server -> [Server -> LinkState]]
        /\ \A a, b \in Server : link'[a][b] = "absent" => link[a][b] = "absent"
    BY <2>5, <2>7 DEF TypeOK
  <2>9. TypeOK'
    BY <2>5, <2>6, <2>8 DEF TypeOK, Channels, CoState
  <2>10. Signed'
    BY <2>6 DEF Signed, SignedBy, From
  <2>11. FollowsOlder' /\ TracksCoordinator'
    BY <2>5, <2>8, CoordinatorsKept
  <2> QED BY <2>9, <2>10, <2>11
<1> QED BY <1>1, <1>2, <1>3

LEMMA CrashStep ==
  ASSUME IInv, NEW s \in Server, Crash(s)
  PROVE  IInv'
<1> USE DEF IInv
<1>1. PICK lost \in SUBSET Server :
        channel' = [a \in Server |-> [b \in Server |->
          IF b = s \/ (a = s /\ b \in lost) THEN << >> ELSE channel[a][b]]]
  BY DEF Crash
<1>2. \A a, b \in Server : channel'[a][b] \in {<< >>, channel[a][b]}
  BY <1>1
<1>3. channel' \in Channels
  BY <1>1 DEF Channels, TypeOK
<1>4. /\ alive' = [alive EXCEPT ![s] = FALSE]
      /\ electionState' = [electionState EXCEPT ![s] = "NONE"]
      /\ role' = [role EXCEPT ![s] = "MASTER"]
      /\ coordinator' = [coordinator EXCEPT ![s] = s]
      /\ co' = [co EXCEPT ![s] = "idle"]
      /\ timerDone' = [timerDone EXCEPT ![s] = FALSE]
      /\ link' = [link EXCEPT ![s] = [r \in Server |-> "absent"]]
      /\ conn' = conn
  BY DEF Crash
<1>5. TypeOK'
  BY <1>3, <1>4 DEF TypeOK, Channels, Role, CoState, LinkState
<1>6. Signed'
  <2>1. \A a \in Server : << >> \in Seq(From(a))
    OBVIOUS
  <2>2. \A a, b \in Server : channel'[a][b] \in Seq(From(a))
    BY <1>2, <2>1 DEF Signed
  <2> QED BY <2>2 DEF Signed, From
<1>7. FollowsOlder' /\ TracksCoordinator'
  BY <1>4 DEF TypeOK, FollowsOlder, TracksCoordinator, HigherId
<1> QED BY <1>5, <1>6, <1>7

LEMMA NextInvariant == IInv /\ [Next]_vars => IInv'
<1> SUFFICES ASSUME IInv, [Next]_vars PROVE IInv'
  OBVIOUS
<1>1. CASE UNCHANGED vars
  BY <1>1 DEF vars, IInv, TypeOK, Signed, From, FollowsOlder, TracksCoordinator
<1>2. ASSUME NEW s \in Server, Scheduler(s)
      PROVE  IInv'
  BY <1>2, CoroutineSteps, SocketSteps DEF Scheduler
<1>3. ASSUME NEW s \in Server, IncomingWorker(s)
      PROVE  IInv'
  BY <1>3, IncomingSteps DEF IncomingWorker
<1>4. ASSUME NEW s \in Server, NetworkWorker(s)
      PROVE  IInv'
  BY <1>4, NetworkSteps DEF NetworkWorker
<1>5. ASSUME NEW s \in Server, Crash(s)
      PROVE  IInv'
  BY <1>5, CrashStep
<1> QED BY <1>1, <1>2, <1>3, <1>4, <1>5 DEF Next

-----------------------------------------------------------------------------
\* Every reachable state is typed: the messages, sockets and coroutine states are
\* those the code knows, whatever the number of servers and crashes.
THEOREM TypeInvariant == Spec => []TypeOK
<1>1. IInv => TypeOK
  BY DEF IInv
<1> QED BY <1>1, InitInvariant, NextInvariant, PTL DEF Spec

\* A server never follows a newer server (election_higher_id guards both places
\* that store a received uuid).
THEOREM FollowsOlderInvariant == Spec => []FollowsOlder
<1>1. IInv => FollowsOlder
  BY DEF IInv
<1> QED BY <1>1, InitInvariant, NextInvariant, PTL DEF Spec

\* The coordinator that a live server follows has an entry in its ht_replicas, so
\* the ping of the network worker always has a socket to watch.
THEOREM TracksCoordinatorInvariant == Spec => []TracksCoordinator
<1>1. IInv => TracksCoordinator
  BY DEF IInv
<1> QED BY <1>1, InitInvariant, NextInvariant, PTL DEF Spec

-----------------------------------------------------------------------------
(* Connections: a pair of servers connects at most once in each direction: *)
(* Unconnected.  The probe is written once, and lies in the channel only   *)
(* as long as the connection is in the backlog: Introduces, ProbeOnce,     *)
(* ProbeWaits.  Of two crossing connections one is kept only while the     *)
(* other one was never made: KeptOnce.                                     *)

\* No probe in ch; at most one.
Plain(ch) == \A i \in 1 .. Len(ch) : ch[i].type # "ADD_REPLICA"
Once(ch)  == \A i, j \in 1 .. Len(ch) :
               ch[i].type = "ADD_REPLICA" /\ ch[j].type = "ADD_REPLICA" => i = j

\* s keeps the connection of r: it made none itself, and never will.
KeptOnce ==
  \A s, r \in Server : conn[r][s] = "kept" =>
    /\ conn[s][r] = "none"
    /\ alive[s] => \/ link[s][r] = "in"
                   \/ link[s][r] \in {"shut", "opening", "error"} /\ ~alive[r]

\* The states of an entry through which s has not connected to a live r.
Unopened == {"found", "opening", "shut", "error", "in"}

Unconnected ==
  \A s, r \in Server :
    alive[s] /\ (link[s][r] = "absent" \/ (alive[r] /\ link[s][r] \in Unopened))
      => conn[s][r] = "none"

ProbeWaits == \A s, r \in Server : conn[s][r] # "backlog" => Plain(channel[s][r])

\* Before s introduces itself.
Introduces ==
  \A s, r \in Server :
    link[s][r] = "connected" => Plain(channel[s][r]) /\ conn[s][r] # "kept"

ProbeOnce == \A s, r \in Server : Once(channel[s][r])

CInv == KeptOnce /\ Unconnected /\ ProbeWaits /\ Introduces /\ ProbeOnce

LEMMA ConnectionsInit == Init => CInv
<1> SUFFICES ASSUME Init PROVE CInv
  OBVIOUS
<1>1. \A s, r \in Server : channel[s][r] = << >> /\ conn[s][r] = "none"
  BY DEF Init
<1>2. \A s, r \in Server : link[s][r] \in {"found", "absent"}
  BY DEF Init
<1>3. Plain(<< >>) /\ Once(<< >>)
  BY DEF Plain, Once
<1> QED BY <1>1, <1>2, <1>3
        DEF CInv, KeptOnce, Unconnected, ProbeWaits, Introduces, ProbeOnce

-----------------------------------------------------------------------------
(* Sequences of messages *)

LEMMA AppendProbes ==
  ASSUME NEW ch \in Seq(Message), NEW m \in Message
  PROVE  /\ Plain(ch) => Once(Append(ch, m))
         /\ Plain(ch) /\ m.type # "ADD_REPLICA" => Plain(Append(ch, m))
         /\ Once(ch) /\ m.type # "ADD_REPLICA" => Once(Append(ch, m))
<1>1. /\ Len(Append(ch, m)) = Len(ch) + 1 /\ Len(ch) \in Nat
      /\ \A i \in 1 .. Len(ch) : Append(ch, m)[i] = ch[i]
      /\ Append(ch, m)[Len(ch) + 1] = m
  OBVIOUS
<1> QED BY <1>1 DEF Plain, Once

LEMMA TailProbes ==
  ASSUME NEW ch \in Seq(Message), ch # << >>
  PROVE  /\ Plain(ch) => Plain(Tail(ch))
         /\ Once(ch) => Once(Tail(ch))
         /\ Once(ch) /\ Head(ch).type = "ADD_REPLICA" => Plain(Tail(ch))
<1>1. /\ Len(Tail(ch)) = Len(ch) - 1 /\ Len(ch) \in Nat /\ Len(ch) # 0
      /\ \A i \in 1 .. Len(ch) - 1 : Tail(ch)[i] = ch[i + 1]
      /\ Head(ch) = ch[1]
  OBVIOUS
<1> QED BY <1>1 DEF Plain, Once

\* The channels ch have no probe that channel does not have.
Tame(ch) == \A a, b \in Server : /\ Plain(channel[a][b]) => Plain(ch[a][b])
                                 /\ Once(channel[a][b]) => Once(ch[a][b])

LEMMA PostTame ==
  ASSUME NEW ch \in Channels, Tame(ch), NEW s \in Server, NEW R \in SUBSET Server,
         NEW m \in Message, m.type # "ADD_REPLICA"
  PROVE  Tame(Post(ch, s, R, m))
<1> SUFFICES ASSUME NEW a \in Server, NEW b \in Server
             PROVE  /\ Plain(ch[a][b]) => Plain(Post(ch, s, R, m)[a][b])
                    /\ Once(ch[a][b]) => Once(Post(ch, s, R, m)[a][b])
  BY DEF Tame
<1>1. ch[a][b] \in Seq(Message)
  BY DEF Channels
<1>2. Post(ch, s, R, m)[a][b] \in {ch[a][b], Append(ch[a][b], m)}
  BY DEF Post, Channels
<1> QED BY <1>1, <1>2, AppendProbes

LEMMA ConsumeTame ==
  ASSUME TypeOK, NEW r \in Server, NEW s \in Server, channel[r][s] # << >>
  PROVE  Consume(r, s) \in Channels /\ Tame(Consume(r, s))
<1>1. channel[r][s] \in Seq(Message) /\ Tail(channel[r][s]) \in Seq(Message)
  BY DEF TypeOK
<1>2. \A a, b \in Server : Consume(r, s)[a][b] = IF a = r /\ b = s THEN Tail(channel[a][b])
                                                                  ELSE channel[a][b]
  BY DEF TypeOK, Consume
<1>3. Consume(r, s) \in Channels
  BY <1>1 DEF TypeOK, Consume, Channels
<1> QED BY <1>1, <1>2, <1>3, TailProbes DEF Tame

LEMMA DiscardTame ==
  ASSUME TypeOK, NEW r \in Server, NEW s \in Server
  PROVE  LET ch == [channel EXCEPT ![r][s] = << >>]
         IN ch \in Channels /\ Tame(ch) /\ Plain(ch[r][s])
<1>1. Plain(<< >>) /\ Once(<< >>) /\ << >> \in Seq(Message)
  BY DEF Plain, Once
<1> QED BY <1>1 DEF TypeOK, Channels, Tame

-----------------------------------------------------------------------------
(* Steps that make, keep and introduce no connection *)

\* The row of a server's sockets after: some that are not connected are opened, or
\* have failed.
Idles(row, s) ==
  \A r \in Server :
    \/ row[r] = link[s][r]
    \/ link[s][r] \in {"found", "opening", "shut", "error"} /\ row[r] \in {"opening", "error"}

\* A connection may be dropped, with all it carried.
Drops == \A a, b \in Server :
           \/ conn'[a][b] = conn[a][b]
           \/ conn[a][b] = "backlog" /\ conn'[a][b] = "dropped" /\ Plain(channel'[a][b])

LEMMA QuietStep ==
  ASSUME TypeOK, CInv, alive' = alive, Tame(channel'), Drops,
         \A s \in Server : Idles(link'[s], s)
  PROVE  CInv'
<1> USE DEF Idles, Drops
<1>1. KeptOnce'
  BY DEF CInv, KeptOnce
<1>2. Unconnected'
  BY DEF CInv, Unconnected, Unopened
<1>3. ProbeWaits' /\ ProbeOnce'
  BY DEF CInv, ProbeWaits, ProbeOnce, Tame
<1>4. Introduces'
  BY DEF CInv, Introduces, Tame
<1> QED BY <1>1, <1>2, <1>3, <1>4 DEF CInv

\* Starting an election.
LEMMA StartTame ==
  ASSUME TypeOK, NEW s \in Server, NEW st, NEW row \in [Server -> LinkState], Idles(row, s),
         NEW ch \in Channels, Tame(ch), StartElection(s, st, row, ch)
  PROVE  Tame(channel') /\ \A a \in Server : Idles(link'[a], a)
<1>1. CASE st = "NONE"
  <2> DEFINE R == ElectionTargets(s, row)
  <2>1. /\ channel' = Post(ch, s, R, ElectionMsg(s))
        /\ link' = [link EXCEPT ![s] = AfterWrite(row, R)]
        /\ R \in SUBSET Server
    BY <1>1 DEF StartElection, ElectionTargets
  <2>2. ElectionMsg(s) \in Message /\ ElectionMsg(s).type # "ADD_REPLICA"
    BY DEF ElectionMsg, Message, MessageType
  <2> HIDE DEF R
  <2>3. Tame(channel')
    BY <2>1, <2>2, PostTame
  <2>4. Idles(AfterWrite(row, R), s)
    BY DEF Idles, AfterWrite
  <2> QED BY <2>1, <2>3, <2>4 DEF TypeOK, Idles
<1>2. CASE st # "NONE"
  BY <1>2 DEF StartElection, TypeOK, Idles
<1> QED BY <1>1, <1>2

LEMMA DropDrops ==
  ASSUME TypeOK, NEW s \in Server, NEW r \in Server, conn[r][s] = "backlog", Drop(s, r),
         Plain(channel'[r][s])
  PROVE  Drops
BY DEF Drop, Drops, TypeOK

\* A handler that starts an election, or only reads.
LEMMA HandlerQuiet ==
  ASSUME TypeOK, CInv, NEW s \in Server, NEW st, NEW row \in [Server -> LinkState],
         Idles(row, s), NEW ch \in Channels, Tame(ch), StartElection(s, st, row, ch),
         alive' = alive, conn' = conn
  PROVE  CInv'
<1>1. Tame(channel') /\ \A a \in Server : Idles(link'[a], a)
  BY StartTame
<1> QED BY <1>1, QuietStep DEF Drops

LEMMA Untouched ==
  ASSUME TypeOK, CInv, UNCHANGED <<alive, conn>>, Tame(channel'), UNCHANGED link
  PROVE  CInv'
BY QuietStep DEF Drops, Idles

LEMMA CoroutineQuiet ==
  ASSUME TypeOK, CInv, NEW s \in Server,
         \/ TimerFires(s) \/ Decide(s) \/ Win(s) \/ AnnounceBusy(s)
         \/ Announce(s) \/ Finish(s) \/ SeeNone(s) \/ Complete(s)
  PROVE  CInv'
<1>1. CASE ~Announce(s)
  <2>1. UNCHANGED <<alive, link, conn, channel>>
    BY <1>1 DEF TimerFires, Decide, Win, AnnounceBusy, Finish, SeeNone, Complete
  <2> QED BY <2>1, Untouched DEF Tame
<1>2. CASE Announce(s)
  <2> DEFINE R == AnnounceTargets(s)
  <2>1. PICK header \in {Coordinator(s), Junk(s)} : channel' = Post(channel, s, R, header)
    BY <1>2 DEF Announce
  <2>2. header \in Message /\ header.type # "ADD_REPLICA"
    BY DEF Coordinator, Junk, Message, MessageType
  <2>3. R \in SUBSET Server /\ channel \in Channels /\ Tame(channel)
    BY DEF AnnounceTargets, TypeOK, Channels, Tame
  <2>4. link' = [link EXCEPT ![s] = AfterWrite(link[s], R)] /\ UNCHANGED <<alive, conn>>
    BY <1>2 DEF Announce
  <2> HIDE DEF R
  <2>5. Tame(channel')
    BY <2>1, <2>2, <2>3, PostTame
  <2>6. \A a \in Server : Idles(link'[a], a)
    BY <2>4 DEF Idles, AfterWrite, TypeOK
  <2> QED BY <2>4, <2>5, <2>6, QuietStep DEF Drops
<1> QED BY <1>1, <1>2

LEMMA NetworkQuiet ==
  ASSUME TypeOK, CInv, NEW s \in Server, NEW r \in Server,
         PingFails(s, r) \/ HandleCoordinator(s, r) \/ HandleElection(s, r) \/ HandleJunk(s, r)
  PROVE  CInv'
<1>0. link[s] \in [Server -> LinkState] /\ Idles(link[s], s)
      /\ channel \in Channels /\ Tame(channel)
  BY DEF TypeOK, Idles, Tame, Channels
<1>1. CASE PingFails(s, r)
  <2> DEFINE row == [link[s] EXCEPT ![r] = "error"]
  <2>1. row \in [Server -> LinkState] /\ Idles(row, s)
    BY <1>0, <1>1 DEF PingFails, Idles, LinkState
  <2>2. StartElection(s, "NONE", row, channel) /\ alive' = alive /\ conn' = conn
    BY <1>1 DEF PingFails
  <2> HIDE DEF row
  <2> QED BY <1>0, <2>1, <2>2, HandlerQuiet
<1>2. CASE HandleCoordinator(s, r)
  <2>1. Consume(r, s) \in Channels /\ Tame(Consume(r, s))
    BY <1>2, ConsumeTame DEF HandleCoordinator, Received
  <2>2. UNCHANGED <<alive, conn>>
    BY <1>2 DEF HandleCoordinator
  <2>3. CASE channel' = Consume(r, s) /\ UNCHANGED link
    BY <2>1, <2>2, <2>3, Untouched
  <2>4. CASE StartElection(s, "NONE", link[s], Consume(r, s))
    BY <1>0, <2>1, <2>2, <2>4, HandlerQuiet
  <2> QED BY <1>2, <2>3, <2>4 DEF HandleCoordinator
<1>3. CASE HandleElection(s, r)
  <2>1. Consume(r, s) \in Channels /\ Tame(Consume(r, s))
    BY <1>3, ConsumeTame DEF HandleElection, Received
  <2>2. StartElection(s, electionState[s], link[s], Consume(r, s)) /\ UNCHANGED <<alive, conn>>
    BY <1>3 DEF HandleElection
  <2> QED BY <1>0, <2>1, <2>2, HandlerQuiet
<1>4. CASE HandleJunk(s, r)
  <2>1. Tame(Consume(r, s))
    BY <1>4, ConsumeTame DEF HandleJunk, Received
  <2> QED BY <1>4, <2>1, Untouched DEF HandleJunk
<1> QED BY <1>1, <1>2, <1>3, <1>4

LEMMA AcceptQuiet ==
  ASSUME TypeOK, CInv, NEW s \in Server, NEW r \in Server,
         \/ AcceptElection(s, r) \/ AcceptOther(s, r)
         \/ AcceptReplica(s, r) /\ link[s][r] # "absent"
  PROVE  CInv'
<1> DEFINE ch == [channel EXCEPT ![r][s] = << >>]
<1>0. ch \in Channels /\ Tame(ch) /\ Plain(ch[r][s])
  BY DiscardTame
<1>1. link[s] \in [Server -> LinkState] /\ \A a \in Server : Idles(link[a], a)
  BY DEF TypeOK, Idles
<1>2. conn[r][s] = "backlog" /\ Drop(s, r) /\ alive' = alive
  BY DEF AcceptElection, AcceptOther, AcceptReplica
<1>3. CASE StartElection(s, electionState[s], link[s], ch)
  <2>1. Tame(channel') /\ \A a \in Server : Idles(link'[a], a)
    BY <1>0, <1>1, <1>3, StartTame
  <2>2. Plain(channel'[r][s])
    <3>1. CASE electionState[s] # "NONE"
      BY <1>0, <1>3, <3>1 DEF StartElection
    <3>2. CASE electionState[s] = "NONE"
      <4>1. channel' = Post(ch, s, ElectionTargets(s, link[s]), ElectionMsg(s))
        BY <1>3, <3>2 DEF StartElection
      <4>2. channel'[r][s] \in {ch[r][s], Append(ch[r][s], ElectionMsg(s))}
        BY <1>0, <4>1 DEF Post, Channels
      <4>3. ElectionMsg(s) \in Message /\ ElectionMsg(s).type # "ADD_REPLICA"
        BY DEF ElectionMsg, Message, MessageType
      <4>4. ch[r][s] \in Seq(Message)
        BY <1>0 DEF Channels
      <4> HIDE DEF ch
      <4> QED BY <1>0, <4>2, <4>3, <4>4, AppendProbes
    <3> QED BY <3>1, <3>2
  <2> QED BY <1>2, <2>1, <2>2, DropDrops, QuietStep
<1>4. CASE channel' = ch /\ link' = link
  <2>1. Drops
    BY <1>0, <1>2, <1>4, DropDrops
  <2> QED BY <1>0, <1>1, <1>2, <1>4, <2>1, QuietStep
<1> QED BY <1>3, <1>4 DEF AcceptElection, AcceptOther, AcceptReplica

-----------------------------------------------------------------------------
(* Steps that change what is connected *)

LEMMA KeepStep ==
  ASSUME TypeOK, CInv, NEW s \in Server, NEW r \in Server,
         AcceptReplica(s, r), link[s][r] = "absent"
  PROVE  CInv'
<1>1. /\ alive[s] /\ conn[r][s] = "backlog" /\ alive' = alive
      /\ link' = [link EXCEPT ![s][r] = "in"] /\ conn' = [conn EXCEPT ![r][s] = "kept"]
      /\ channel' = Consume(r, s)
      /\ channel[r][s] # << >> /\ Head(channel[r][s]).type = "ADD_REPLICA"
  BY DEF AcceptReplica, Received
<1>2. conn[s][r] = "none" /\ s # r
  BY <1>1 DEF CInv, Unconnected
<1>3. Tame(channel') /\ Plain(channel'[r][s])
  <2>1. Tame(channel')
    BY <1>1, ConsumeTame
  <2>2. channel[r][s] \in Seq(Message) /\ channel'[r][s] = Tail(channel[r][s])
    BY <1>1 DEF TypeOK, Consume
  <2>3. Plain(Tail(channel[r][s]))
    BY <1>1, <2>2, TailProbes DEF CInv, ProbeOnce
  <2> QED BY <2>1, <2>2, <2>3
<1>4. \A a, b \in Server : /\ conn'[a][b] = IF a = r /\ b = s THEN "kept" ELSE conn[a][b]
                          /\ link'[a][b] = IF a = s /\ b = r THEN "in" ELSE link[a][b]
  BY <1>1 DEF TypeOK
<1>5. ~Plain(channel[r][s])
  <2>1. channel[r][s] \in Seq(Message) /\ 1 \in 1 .. Len(channel[r][s])
        /\ channel[r][s][1] = Head(channel[r][s])
    BY <1>1 DEF TypeOK
  <2> QED BY <1>1, <2>1 DEF Plain
<1>6. KeptOnce'
  BY <1>1, <1>2, <1>4 DEF CInv, KeptOnce
<1>7. Unconnected'
  BY <1>1, <1>2, <1>4 DEF CInv, Unconnected, Unopened
<1>8. ProbeWaits' /\ ProbeOnce'
  BY <1>3, <1>4 DEF CInv, ProbeWaits, ProbeOnce, Tame
<1>9. Introduces'
  BY <1>3, <1>4, <1>5 DEF CInv, Introduces, Tame
<1> QED BY <1>6, <1>7, <1>8, <1>9 DEF CInv

LEMMA ConnectStep ==
  ASSUME TypeOK, CInv, NEW s \in Server, NEW r \in Server, Open(s, r) \/ Connect(s, r)
  PROVE  CInv'
<1>0. UNCHANGED <<alive, channel>> /\ Tame(channel')
  BY DEF Open, Connect, Tame
<1>1. CASE Open(s, r) \/ ~alive[r]
  <2>1. PICK v \in {"opening", "error"} : link' = [link EXCEPT ![s][r] = v]
    BY <1>1 DEF Open, Connect
  <2>2. link[s][r] \in {"found", "opening", "shut", "error"} /\ conn' = conn
    BY <1>1 DEF Open, Connect
  <2>3. \A a \in Server : Idles(link'[a], a)
    BY <2>1, <2>2 DEF TypeOK, Idles
  <2> QED BY <1>0, <2>2, <2>3, QuietStep DEF Drops
<1>2. CASE Connect(s, r) /\ alive[r]
  <2>1. /\ alive[s] /\ link[s][r] = "opening"
        /\ link' = [link EXCEPT ![s][r] = "connected"]
        /\ conn' = [conn EXCEPT ![s][r] = "backlog"]
    BY <1>2 DEF Connect
  <2>2. conn[s][r] = "none" /\ conn[r][s] # "kept" /\ Plain(channel[s][r])
    BY <1>2, <2>1 DEF CInv, Unconnected, Unopened, KeptOnce, ProbeWaits
  <2>3. \A a, b \in Server : /\ conn'[a][b] = IF a = s /\ b = r THEN "backlog" ELSE conn[a][b]
                            /\ link'[a][b] = IF a = s /\ b = r THEN "connected" ELSE link[a][b]
    BY <2>1 DEF TypeOK
  <2>4. KeptOnce'
    BY <1>0, <2>2, <2>3 DEF CInv, KeptOnce
  <2>5. Unconnected'
    BY <1>0, <2>3 DEF CInv, Unconnected, Unopened
  <2>6. ProbeWaits' /\ ProbeOnce' /\ Introduces'
    BY <1>0, <2>2, <2>3 DEF CInv, ProbeWaits, ProbeOnce, Introduces
  <2> QED BY <2>4, <2>5, <2>6 DEF CInv
<1> QED BY <1>1, <1>2

LEMMA IntroduceStep ==
  ASSUME TypeOK, CInv, NEW s \in Server, NEW r \in Server, Introduce(s, r)
  PROVE  CInv'
<1>1. /\ link[s][r] = "connected" /\ link' = [link EXCEPT ![s][r] = "out"]
      /\ channel' = Post(channel, s, {r}, AddReplica(s)) /\ UNCHANGED <<alive, conn>>
  BY DEF Introduce
<1>2. \A a, b \in Server : link'[a][b] = IF a = s /\ b = r THEN "out" ELSE link[a][b]
  BY <1>1 DEF TypeOK
<1>3. \A a, b \in Server : ~(a = s /\ b = r) => channel'[a][b] = channel[a][b]
  BY <1>1 DEF Post, TypeOK
<1>4. \/ channel'[s][r] = channel[s][r]
      \/ channel'[s][r] = Append(channel[s][r], AddReplica(s)) /\ conn[s][r] = "backlog"
  <2>1. conn[s][r] # "kept"
    BY <1>1 DEF CInv, Introduces
  <2>2. Flows(s, r) => conn[s][r] = "backlog"
    BY <1>1, <2>1 DEF Flows
  <2>3. channel'[s][r] = IF Flows(s, r) THEN Append(channel[s][r], AddReplica(s))
                                        ELSE channel[s][r]
    BY <1>1 DEF Post, TypeOK
  <2> QED BY <2>2, <2>3
<1>5. Plain(channel[s][r]) /\ Once(channel[s][r])
  BY <1>1 DEF CInv, Introduces, ProbeOnce
<1>6. Once(channel'[s][r])
  <2>1. AddReplica(s) \in Message /\ channel[s][r] \in Seq(Message)
    BY DEF AddReplica, Message, MessageType, TypeOK
  <2> QED BY <1>4, <1>5, <2>1, AppendProbes
<1>7. KeptOnce' /\ Unconnected'
  BY <1>1, <1>2 DEF CInv, KeptOnce, Unconnected, Unopened
<1>8. \A a, b \in Server : conn[a][b] # "backlog" => Plain(channel'[a][b])
  BY <1>3, <1>4, <1>5 DEF CInv, ProbeWaits
<1>9. ProbeWaits'
  BY <1>1, <1>8 DEF ProbeWaits
<1>10. ProbeOnce'
  BY <1>3, <1>6 DEF CInv, ProbeOnce
<1>11. Introduces'
  <2>1. ASSUME NEW a \in Server, NEW b \in Server, link'[a][b] = "connected"
        PROVE  Plain(channel'[a][b]) /\ conn'[a][b] # "kept"
    <3>1. ~(a = s /\ b = r)
      BY <1>2, <2>1
    <3>2. link[a][b] = "connected"
      BY <1>2, <2>1, <3>1
    <3>3. channel'[a][b] = channel[a][b] /\ conn' = conn
      BY <1>1, <1>3, <3>1
    <3> QED BY <3>2, <3>3 DEF CInv, Introduces
  <2> QED BY <2>1 DEF Introduces
<1> QED BY <1>7, <1>9, <1>10, <1>11 DEF CInv

LEMMA EofStep ==
  ASSUME TypeOK, CInv, NEW s \in Server, NEW r \in Server, HandleEof(s, r)
  PROVE  CInv'
<1>1. ~alive[r] /\ link[s][r] # "absent" /\ UNCHANGED <<alive, conn, channel>>
  BY DEF HandleEof, Connected
<1>2. PICK after \in {"shut", "error"} : link' = [link EXCEPT ![s][r] = after]
  BY DEF HandleEof
<1>3. \A a, b \in Server : link'[a][b] = IF a = s /\ b = r THEN after ELSE link[a][b]
  BY <1>2 DEF TypeOK
<1>4. KeptOnce' /\ Unconnected'
  BY <1>1, <1>3 DEF CInv, KeptOnce, Unconnected
<1>5. ProbeWaits' /\ ProbeOnce' /\ Introduces'
  BY <1>1, <1>3 DEF CInv, ProbeWaits, ProbeOnce, Introduces
<1> QED BY <1>4, <1>5 DEF CInv

LEMMA CrashConnections ==
  ASSUME TypeOK, CInv, NEW s \in Server, Crash(s)
  PROVE  CInv'
<1>1. /\ \A a \in Server : alive'[a] => a # s /\ alive[a]
      /\ \A a \in Server : ~alive[a] => ~alive'[a]
      /\ \A a, b \in Server : link'[a][b] = IF a = s THEN "absent" ELSE link[a][b]
      /\ \A a, b \in Server : channel'[a][b] \in {<< >>, channel[a][b]}
      /\ conn' = conn
  <2>1. PICK lost \in SUBSET Server :
          channel' = [a \in Server |-> [b \in Server |->
            IF b = s \/ (a = s /\ b \in lost) THEN << >> ELSE channel[a][b]]]
    BY DEF Crash
  <2>2. \A a, b \in Server : channel'[a][b] \in {<< >>, channel[a][b]}
    BY <2>1
  <2>3. /\ alive' = [alive EXCEPT ![s] = FALSE]
        /\ link' = [link EXCEPT ![s] = [r \in Server |-> "absent"]]
        /\ conn' = conn
    BY DEF Crash
  <2> QED BY <2>2, <2>3 DEF TypeOK
<1>2. Plain(<< >>) /\ Once(<< >>)
  BY DEF Plain, Once
<1>3. Tame(channel')
  BY <1>1, <1>2 DEF Tame
<1>4. KeptOnce' /\ Unconnected'
  BY <1>1 DEF CInv, KeptOnce, Unconnected
<1>5. ProbeWaits' /\ ProbeOnce' /\ Introduces'
  BY <1>1, <1>3 DEF CInv, ProbeWaits, ProbeOnce, Introduces, Tame
<1> QED BY <1>4, <1>5 DEF CInv

LEMMA ConnectionsNext == TypeOK /\ CInv /\ [Next]_vars => CInv'
<1> SUFFICES ASSUME TypeOK, CInv, [Next]_vars PROVE CInv'
  OBVIOUS
<1>1. CASE UNCHANGED vars
  BY <1>1, Untouched DEF vars, Tame
<1>2. ASSUME NEW s \in Server, Scheduler(s) PROVE CInv'
  BY <1>2, CoroutineQuiet, ConnectStep, IntroduceStep DEF Scheduler
<1>3. ASSUME NEW s \in Server, IncomingWorker(s) PROVE CInv'
  BY <1>3, AcceptQuiet, KeepStep DEF IncomingWorker
<1>4. ASSUME NEW s \in Server, NetworkWorker(s) PROVE CInv'
  BY <1>4, NetworkQuiet, EofStep DEF NetworkWorker
<1>5. ASSUME NEW s \in Server, Crash(s) PROVE CInv'
  BY <1>5, CrashConnections
<1> QED BY <1>1, <1>2, <1>3, <1>4, <1>5 DEF Next

LEMMA ConnectionsInvariant == Spec => []CInv
BY ConnectionsInit, ConnectionsNext, TypeInvariant, PTL DEF Spec

-----------------------------------------------------------------------------
\* However the probes of a pair cross, at most one of its two connections is kept
\* (server.c:966).
THEOREM OneConnectionInvariant == Spec => []OneConnection
<1>1. CInv => OneConnection
  BY DEF CInv, KeptOnce, OneConnection
<1> QED BY <1>1, ConnectionsInvariant, PTL

\* The network worker never finds a probe at the head of a connection it reads, in
\* whatever order probes, elections and announcements were written (server.c:826).
THEOREM NoRedundantProbeInvariant == Spec => []NoRedundantProbe
<1>1. ASSUME TypeOK, CInv PROVE NoRedundantProbe
  <2>1. ASSUME NEW s \in Server, NEW r \in Server, Readable(s, r)
        PROVE  ~Received(channel, s, r, "ADD_REPLICA")
    <3>1. conn[r][s] # "backlog"
      BY <1>1, <2>1 DEF CInv, KeptOnce, Readable
    <3>2. Plain(channel[r][s]) /\ channel[r][s] \in Seq(Message)
      BY <1>1, <3>1 DEF CInv, ProbeWaits, TypeOK
    <3>3. channel[r][s] # << >> => 1 \in 1 .. Len(channel[r][s])
                                   /\ channel[r][s][1] = Head(channel[r][s])
      BY <3>2
    <3> QED BY <3>2, <3>3 DEF Plain, Received
  <2> QED BY <2>1 DEF NoRedundantProbe
<1> QED BY <1>1, TypeInvariant, ConnectionsInvariant, PTL
=============================================================================
