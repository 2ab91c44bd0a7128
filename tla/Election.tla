------------------------------ MODULE Election ------------------------------
(***************************************************************************)
(* The coordinator election of DripBox servers (src/server.c).             *)
(*                                                                         *)
(* A server runs three threads.  The scheduler (server_main) resumes       *)
(* coroutines: one connects the replicas found by multicast, one is the    *)
(* election.  The incoming worker accepts connections and reads the first  *)
(* message of each; the network worker scans the replica table, pings the  *)
(* coordinator and handles one message per readable socket.  Handlers of   *)
(* the two workers hold m_replicas, so each is one action here; the        *)
(* election coroutine reads and writes the election state WITHOUT the      *)
(* monitor, so it is split at every point where a handler can come between *)
(* a test and its use.                                                     *)
(*                                                                         *)
(* Abstractions: an entry's socket is connected to the server whose uuid   *)
(* the entry holds; a crashed server does not come back; clients and files *)
(* are not in this module.                                                 *)
(***************************************************************************)
EXTENDS Integers, Sequences, FiniteSets

CONSTANTS
  Server,      \* the servers, each named by the timestamp of its uuid
  IntRank,     \* the order of uuid.integer, which the byte layout makes independent
  Discovered,  \* the possible outcomes of multicast: sets of <<finder, found>>
  MaxCrashes   \* bound: how many servers may crash

ASSUME ServerAssumption     == Server \subseteq Nat /\ IsFiniteSet(Server)
ASSUME IntRankAssumption    == IntRank \in [Server -> Nat]
ASSUME DiscoveredAssumption == Discovered \subseteq SUBSET (Server \X Server)
ASSUME CrashesAssumption    == MaxCrashes \in Nat

\* Mutant: the comparison the other way round.
MutantHigherId(a, b) == a > b

\* election_higher_id: the smaller (older) timestamp wins.
HigherId(a, b) == a < b

MessageType == {"ADD_REPLICA", "ELECTION", "COORDINATOR", "JUNK"}
Message     == [type : MessageType, uuid : Server]

Role == {"MASTER", "REPLICA"}

(***************************************************************************)
(* A replica entry's socket: no entry; fd -1 since discovery; opened but   *)
(* not connected; connected but the probe is not written; connected by us; *)
(* accepted from the peer; fd -1 after end of file; error code set.        *)
(***************************************************************************)
LinkState ==
  {"absent", "found", "opening", "connected", "out", "in", "shut", "error"}
NoFd      == {"absent", "found", "shut"}
Connected == {"connected", "out", "in"}

\* What the peer did with the connection that s opened to it.
ConnState == {"none", "backlog", "kept", "dropped"}

(***************************************************************************)
(* Where the election coroutine stands: not scheduled (CREATED or          *)
(* COMPLETED); suspended in the timer loop; past the loop's test with the  *)
(* timer completed; won and about to take m_replicas with the header it    *)
(* just built; the same after a yield, when the header on the stack is no  *)
(* longer defined; about to take m_users; past a test that saw NONE.       *)
(***************************************************************************)
CoState == {"idle", "wait", "decided", "announce", "reannounce", "notify",
            "exiting"}

VARIABLES
  alive,          \* alive[s]: the process runs
  electionState,  \* election_state
  role,           \* server_role
  coordinator,    \* coordinator_uuid
  co,             \* election_coroutine_handle
  timerDone,      \* the coroutine's timer is CO_COMPLETED_SUCESSFULY
  link,           \* link[s][r]: the socket of the entry for r in s's ht_replicas
  conn,           \* conn[s][r]: r's side of the connection s opened to r
  channel         \* channel[s][r]: bytes s wrote and r has not read

vars == <<alive, electionState, role, coordinator, co, timerDone, link, conn,
          channel>>
local == <<electionState, role, coordinator, co, timerDone>>

\* Mutant: the probe names the coordinator instead of the sender.
MutantAddReplica(s) == [type |-> "ADD_REPLICA", uuid |-> coordinator[s]]
\* Mutant: the header is sent before its uuid is filled in.
MutantCoordinator(s) == [type |-> "COORDINATOR", uuid |-> 0]

AddReplica(s)  == [type |-> "ADD_REPLICA", uuid |-> s]
ElectionMsg(s) == [type |-> "ELECTION",    uuid |-> s]
Coordinator(s) == [type |-> "COORDINATOR", uuid |-> s]
\* The bytes of a header that was never written: the reader matches no case.
Junk(s)        == [type |-> "JUNK",        uuid |-> s]

Init ==
  /\ alive         = [s \in Server |-> TRUE]
  /\ electionState = [s \in Server |-> "NONE"]
  /\ role          = [s \in Server |-> "MASTER"]
  /\ coordinator   = [s \in Server |-> s]
  /\ co            = [s \in Server |-> "idle"]
  /\ timerDone     = [s \in Server |-> FALSE]
  /\ \E found \in Discovered :
       link = [s \in Server |-> [r \in Server |->
                 IF s # r /\ <<s, r>> \in found THEN "found" ELSE "absent"]]
  /\ conn          = [s \in Server |-> [r \in Server |-> "none"]]
  /\ channel       = [s \in Server |-> [r \in Server |-> << >>]]

-----------------------------------------------------------------------------
(* Sockets *)

\* Bytes written to the entry for r can still reach a socket that r reads.
Flows(s, r) ==
  /\ alive[r]
  /\ \/ link[s][r] = "in"
     \/ /\ link[s][r] \in {"connected", "out"}
        /\ conn[s][r] \in {"backlog", "kept"}

\* The network worker of s reads what r wrote: both ends are in a table.
Readable(s, r) ==
  /\ alive[s]
  /\ \/ /\ link[s][r] = "in"
        /\ conn[r][s] = "kept"
     \/ /\ link[s][r] \in {"connected", "out"}
        /\ conn[s][r] = "kept"

Received(ch, s, r, type) ==
  ch[r][s] # << >> /\ Head(ch[r][s]).type = type

\* Mutant: the message is left in the socket (MSG_PEEK).
MutantConsume(r, s) == channel

Consume(r, s) == [channel EXCEPT ![r][s] = Tail(@)]

\* socket_write of m to the entries of the servers in R.
Post(ch, s, R, m) ==
  [ch EXCEPT ![s] = [r \in Server |->
     IF r \in R /\ Flows(s, r) THEN Append(ch[s][r], m) ELSE ch[s][r]]]

\* A write to a socket that is open but not connected sets its error code.
AfterWrite(row, R) ==
  [r \in Server |-> IF r \in R /\ row[r] = "opening" THEN "error" ELSE row[r]]

\* connect_replicas: an entry without a descriptor gets a new socket.
Open(s, r) ==
  /\ alive[s]
  /\ link[s][r] \in {"found", "shut"}
  /\ link' = [link EXCEPT ![s][r] = "opening"]
  /\ UNCHANGED <<alive, local, conn, channel>>

\* connect_replica_async, socket_connect: refused by a dead peer.
Connect(s, r) ==
  /\ alive[s]
  /\ link[s][r] = "opening"
  /\ IF alive[r]
       THEN /\ link' = [link EXCEPT ![s][r] = "connected"]
            /\ conn' = [conn EXCEPT ![s][r] = "backlog"]
       ELSE /\ link' = [link EXCEPT ![s][r] = "error"]
            /\ UNCHANGED conn
  /\ UNCHANGED <<alive, local, channel>>

\* connect_replica_async: the ADD_REPLICA probe follows the connect.
Introduce(s, r) ==
  /\ alive[s]
  /\ link[s][r] = "connected"
  /\ link' = [link EXCEPT ![s][r] = "out"]
  /\ channel' = Post(channel, s, {r}, AddReplica(s))
  /\ UNCHANGED <<alive, local, conn>>

-----------------------------------------------------------------------------
(* dripbox_server_start_election *)

\* The entries it writes ELECTION to: a descriptor, and not a larger integer.
ElectionTargets(s, row) ==
  {r \in Server : row[r] \notin NoFd /\ ~(IntRank[s] < IntRank[r])}

\* Started in election state st with the sockets row and the channels ch.
StartElection(s, st, row, ch) ==
  IF st = "NONE"
  THEN /\ channel' = Post(ch, s, ElectionTargets(s, row), ElectionMsg(s))
       /\ link' = [link EXCEPT ![s] = AfterWrite(row, ElectionTargets(s, row))]
       /\ electionState' = [electionState EXCEPT ![s] = "RUNNING"]
       /\ IF co[s] = "idle"
            THEN /\ co' = [co EXCEPT ![s] = "wait"]
                 /\ timerDone' = [timerDone EXCEPT ![s] = FALSE]
            ELSE UNCHANGED <<co, timerDone>>
  ELSE /\ channel' = ch
       /\ link' = [link EXCEPT ![s] = row]
       /\ electionState' = [electionState EXCEPT ![s] = st]
       /\ UNCHANGED <<co, timerDone>>

-----------------------------------------------------------------------------
(* The incoming worker: the first message of an accepted connection *)

\* Mutant: the socket replaces the one in the table.
MutantDrop(s, r) == conn' = [conn EXCEPT ![r][s] = "kept"]

\* Accepted and never stored: nobody reads the rest of the connection.
Drop(s, r) == conn' = [conn EXCEPT ![r][s] = "dropped"]

\* handle_add_replica
AcceptReplica(s, r) ==
  /\ alive[s]
  /\ conn[r][s] = "backlog"
  /\ Received(channel, s, r, "ADD_REPLICA")
  /\ LET new == Head(channel[r][s]).uuid
         lead == IF HigherId(new, coordinator[s]) /\ HigherId(new, s)
                 THEN new ELSE coordinator[s]
     IN /\ coordinator' = [coordinator EXCEPT ![s] = lead]
        /\ role' = [role EXCEPT ![s] = IF lead = s THEN "MASTER" ELSE "REPLICA"]
  /\ IF link[s][r] = "absent"
       THEN /\ link' = [link EXCEPT ![s][r] = "in"]
            /\ conn' = [conn EXCEPT ![r][s] = "kept"]
            /\ channel' = Consume(r, s)
       ELSE /\ Drop(s, r)
            /\ channel' = [channel EXCEPT ![r][s] = << >>]
            /\ UNCHANGED link
  /\ UNCHANGED <<alive, electionState, co, timerDone>>

\* An ELECTION that overtook the probe: the connection is not stored.
AcceptElection(s, r) ==
  /\ alive[s]
  /\ conn[r][s] = "backlog"
  /\ Received(channel, s, r, "ELECTION")
  /\ Drop(s, r)
  /\ StartElection(s, electionState[s], link[s],
                   [channel EXCEPT ![r][s] = << >>])
  /\ UNCHANGED <<alive, role, coordinator>>

\* Any other first message is reported and the connection is not stored.
AcceptOther(s, r) ==
  /\ alive[s]
  /\ conn[r][s] = "backlog"
  /\ \/ Received(channel, s, r, "COORDINATOR")
     \/ Received(channel, s, r, "JUNK")
  /\ Drop(s, r)
  /\ channel' = [channel EXCEPT ![r][s] = << >>]
  /\ UNCHANGED <<alive, local, link>>

-----------------------------------------------------------------------------
(* The network worker: the scan of ht_replicas *)

\* The ping finds the coordinator's socket without a connection or in error.
PingFails(s, r) ==
  /\ alive[s]
  /\ electionState[s] = "NONE"
  /\ role[s] = "REPLICA"
  /\ r = coordinator[s]
  /\ link[s][r] \in {"found", "opening", "shut", "error"}
  /\ StartElection(s, "NONE", [link[s] EXCEPT ![r] = "error"], channel)
  /\ UNCHANGED <<alive, role, coordinator, conn>>

\* Mutant: any other server's announcement is accepted.
MutantAccepts(s, new) == new # s

\* A COORDINATOR message is obeyed only if it names an older server.
Accepts(s, new) == HigherId(new, s)

HandleCoordinator(s, r) ==
  /\ Readable(s, r)
  /\ Received(channel, s, r, "COORDINATOR")
  /\ LET new == Head(channel[r][s]).uuid IN
     IF Accepts(s, new)
     THEN /\ electionState' = [electionState EXCEPT ![s] = "NONE"]
          /\ role' = [role EXCEPT ![s] = "REPLICA"]
          /\ coordinator' = [coordinator EXCEPT ![s] = new]
          /\ channel' = Consume(r, s)
          /\ UNCHANGED <<co, timerDone, link>>
     ELSE /\ StartElection(s, "NONE", link[s], Consume(r, s))
          /\ UNCHANGED <<role, coordinator>>
  /\ UNCHANGED <<alive, conn>>

HandleElection(s, r) ==
  /\ Readable(s, r)
  /\ Received(channel, s, r, "ELECTION")
  /\ StartElection(s, electionState[s], link[s], Consume(r, s))
  /\ UNCHANGED <<alive, role, coordinator, conn>>

\* Bytes that are no message: read and reported.
HandleJunk(s, r) ==
  /\ Readable(s, r)
  /\ Received(channel, s, r, "JUNK")
  /\ channel' = Consume(r, s)
  /\ UNCHANGED <<alive, local, link, conn>>

\* The peer is gone: recv returns 0 and the socket is closed, or it is reset.
HandleEof(s, r) ==
  /\ alive[s]
  /\ ~alive[r]
  /\ link[s][r] \in Connected
  /\ channel[r][s] = << >>
  /\ \E after \in {"shut", "error"} : link' = [link EXCEPT ![s][r] = after]
  /\ UNCHANGED <<alive, local, conn, channel>>

-----------------------------------------------------------------------------
(* The election coroutine, resumed by the scheduler *)

CoGoto(s, from, to) ==
  /\ alive[s]
  /\ co[s] = from
  /\ co' = [co EXCEPT ![s] = to]

\* co_resume(&timer): the delay has elapsed.
TimerFires(s) ==
  /\ alive[s]
  /\ co[s] = "wait"
  /\ ~timerDone[s]
  /\ timerDone' = [timerDone EXCEPT ![s] = TRUE]
  /\ UNCHANGED <<alive, electionState, role, coordinator, co, link, conn, channel>>

\* The loop's test and the test of the timer, before anything is written.
Decide(s) ==
  /\ CoGoto(s, "wait", "decided")
  /\ electionState[s] # "NONE"
  /\ timerDone[s]
  /\ UNCHANGED <<alive, electionState, role, coordinator, timerDone, link, conn,
                 channel>>

\* The write to the DNS socket, which was never connected, only sets its error.
Win(s) ==
  /\ CoGoto(s, "decided", "announce")
  /\ role' = [role EXCEPT ![s] = "MASTER"]
  /\ coordinator' = [coordinator EXCEPT ![s] = s]
  /\ UNCHANGED <<alive, electionState, timerDone, link, conn, channel>>

\* m_replicas is busy: the coroutine yields with the header on the C stack.
AnnounceBusy(s) ==
  /\ CoGoto(s, "announce", "reannounce")
  /\ UNCHANGED <<alive, electionState, role, coordinator, timerDone, link, conn,
                 channel>>

AnnounceTargets(s) == {r \in Server : link[s][r] \notin NoFd}

\* Under m_replicas: the same header is written to every open replica.
Announce(s) ==
  /\ \/ CoGoto(s, "announce", "notify")
     \/ CoGoto(s, "reannounce", "notify")
  /\ \E header \in {Coordinator(s), Junk(s)} :
       /\ co[s] = "announce" => header = Coordinator(s)
       /\ channel' = Post(channel, s, AnnounceTargets(s), header)
  /\ link' = [link EXCEPT ![s] = AfterWrite(link[s], AnnounceTargets(s))]
  /\ UNCHANGED <<alive, electionState, role, coordinator, timerDone, conn>>

\* Mutant: the election state is not reset.
MutantFinish(s) ==
  /\ CoGoto(s, "notify", "wait")
  /\ UNCHANGED <<alive, electionState, role, coordinator, timerDone, link, conn,
                 channel>>

\* The clients were notified under m_users; the election is over.
Finish(s) ==
  /\ CoGoto(s, "notify", "wait")
  /\ electionState' = [electionState EXCEPT ![s] = "NONE"]
  /\ UNCHANGED <<alive, role, coordinator, timerDone, link, conn, channel>>

\* The loop's test sees NONE ...
SeeNone(s) ==
  /\ CoGoto(s, "wait", "exiting")
  /\ electionState[s] = "NONE"
  /\ UNCHANGED <<alive, electionState, role, coordinator, timerDone, link, conn,
                 channel>>

\* ... and only then CO_END marks the coroutine completed.
Complete(s) ==
  /\ CoGoto(s, "exiting", "idle")
  /\ UNCHANGED <<alive, electionState, role, coordinator, timerDone, link, conn,
                 channel>>

-----------------------------------------------------------------------------
\* The process dies; what it wrote to the peers in lost is reset with it.
Crash(s) ==
  /\ alive[s]
  /\ Cardinality({r \in Server : ~alive[r]}) < MaxCrashes
  /\ alive' = [alive EXCEPT ![s] = FALSE]
  /\ electionState' = [electionState EXCEPT ![s] = "NONE"]
  /\ role'          = [role EXCEPT ![s] = "MASTER"]
  /\ coordinator'   = [coordinator EXCEPT ![s] = s]
  /\ co'            = [co EXCEPT ![s] = "idle"]
  /\ timerDone'     = [timerDone EXCEPT ![s] = FALSE]
  /\ link'          = [link EXCEPT ![s] = [r \in Server |-> "absent"]]
  /\ \E lost \in SUBSET Server :
       channel' = [a \in Server |-> [b \in Server |->
         IF b = s \/ (a = s /\ b \in lost) THEN << >> ELSE channel[a][b]]]
  /\ UNCHANGED conn

Scheduler(s) ==
  \/ TimerFires(s) \/ Decide(s) \/ Win(s) \/ AnnounceBusy(s) \/ Announce(s)
  \/ Finish(s) \/ SeeNone(s) \/ Complete(s)
  \/ \E r \in Server : Open(s, r) \/ Connect(s, r) \/ Introduce(s, r)

IncomingWorker(s) ==
  \E r \in Server : AcceptReplica(s, r) \/ AcceptElection(s, r) \/ AcceptOther(s, r)

NetworkWorker(s) ==
  \E r \in Server : \/ PingFails(s, r) \/ HandleCoordinator(s, r)
                    \/ HandleElection(s, r) \/ HandleJunk(s, r) \/ HandleEof(s, r)

Next ==
  \E s \in Server : Scheduler(s) \/ IncomingWorker(s) \/ NetworkWorker(s) \/ Crash(s)

Spec == Init /\ [][Next]_vars

\* One resumption of the election coroutine that gets past the monitors.
Resume(s) ==
  \/ TimerFires(s) \/ Decide(s) \/ Win(s) \/ Announce(s)
  \/ Finish(s) \/ SeeNone(s) \/ Complete(s)

(***************************************************************************)
(* The scheduler and the two workers are endless loops that poll every     *)
(* coroutine, connection and entry in turn, so whatever stays possible for *)
(* one of them is done: weak fairness per coroutine, connection and entry. *)
(* The monitor is released between two scans, so a coroutine that retries  *)
(* monitor_try_enter gets it: Announce is enabled until taken.             *)
(***************************************************************************)
Fairness ==
  \A s \in Server :
    /\ WF_vars(Resume(s))
    /\ \A r \in Server \ {s} :
         /\ WF_vars(Open(s, r) \/ Connect(s, r) \/ Introduce(s, r))
         /\ WF_vars(AcceptReplica(s, r) \/ AcceptElection(s, r) \/ AcceptOther(s, r))
         /\ WF_vars(PingFails(s, r))
         /\ WF_vars(HandleCoordinator(s, r) \/ HandleElection(s, r) \/ HandleJunk(s, r))
         /\ WF_vars(HandleEof(s, r))

FairSpec == Spec /\ Fairness

-----------------------------------------------------------------------------
(* Properties *)

TypeOK ==
  /\ alive         \in [Server -> BOOLEAN]
  /\ electionState \in [Server -> {"NONE", "RUNNING"}]
  /\ role          \in [Server -> Role]
  /\ coordinator   \in [Server -> Server]
  /\ co            \in [Server -> CoState]
  /\ timerDone     \in [Server -> BOOLEAN]
  /\ link          \in [Server -> [Server -> LinkState]]
  /\ conn          \in [Server -> [Server -> ConnState]]
  /\ channel       \in [Server -> [Server -> Seq(Message)]]

\* A server follows itself or an older server, whatever order the probes,
\* announcements and timeouts come in (the guards of handle_add_replica and of
\* the COORDINATOR case, and what the senders put in the messages).
FollowsOlder ==
  \A s \in Server : coordinator[s] = s \/ HigherId(coordinator[s], s)

\* A server that follows another has an entry for it: the ping, which looks for
\* the entry whose uuid is coordinator_uuid, always finds what to ping.
TracksCoordinator ==
  \A s \in Server : alive[s] /\ coordinator[s] # s => link[s][coordinator[s]] # "absent"

\* The probe of a connection is never read by the network worker, which would
\* report a "Redundant add replica attempt by server process".
NoRedundantProbe ==
  \A s, r \in Server : Readable(s, r) => ~Received(channel, s, r, "ADD_REPLICA")

\* Of two servers that found each other at most one keeps the connection of the
\* other: no pair of entries ever reads two streams of one peer.
OneConnection ==
  \A s, r \in Server : ~(conn[s][r] = "kept" /\ conn[r][s] = "kept")

\* Comment of start_election: the coroutine of a previous election that is not
\* completed needs no scheduling "since it's already running".
RunningElectionHasCoroutine ==
  \A s \in Server : electionState[s] = "RUNNING" => co[s] # "idle"

\* Comment of start_election: newer replicas "will be notified by the coordinator
\* message anyway": a winner's announcement reaches every live newer server its
\* entry for which is connected.
NewerAreNotified ==
  [][\A s, r \in Server :
       /\ co[s] \in {"announce", "reannounce"} /\ co'[s] = "notify"
       /\ HigherId(s, r) /\ alive[r] /\ link[s][r] = "out"
       => \E i \in 1 .. Len(channel'[s][r]) : channel'[s][r][i] = Coordinator(s)]_vars

\* An election that its coroutine carries out ends: the timeout, the monitors and
\* the messages of other servers never keep it running for ever.
ElectionEnds ==
  \A s \in Server :
    electionState[s] = "RUNNING" /\ co[s] \notin {"idle", "exiting"}
      ~> electionState[s] = "NONE"


\* As long as none crashes, servers that boot in the order of their uuids, each found
\* by all earlier ones, end up all following the oldest.
OldestLeads ==
  [](\A s \in Server : alive[s]) =>
    <>[](\A s \in Server : \A oldest \in Server :
           (\A r \in Server : oldest <= r) => coordinator[s] = oldest)
=============================================================================
