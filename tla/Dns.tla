-------------------------------- MODULE Dns --------------------------------
(***************************************************************************)
(* The name service (src/dns.c) and those who ask it: a server registers   *)
(* before it starts (server_main), a client asks for the main server, and  *)
(* asks again whenever it loses it (client_main).  Both wait for the       *)
(* answer with a blocking read and no timeout.                             *)
(*                                                                         *)
(* The service runs two threads.  The main thread handles one datagram at  *)
(* a time and writes main_server, uuid first and address second, WITHOUT   *)
(* the monitor m_dns; it queues a request that it cannot answer yet.  The  *)
(* dispatcher answers the queued requests under m_dns.                     *)
(*                                                                         *)
(* Abstractions: a host's address is its name.  The elections among the    *)
(* servers (module Election) are left open: any server that serves may     *)
(* win one while the last winner does not serve.  Datagrams of types ELECTION and COORDINATOR are   *)
(* left out: nobody sends the first, and no write of the second succeeds.  *)
(***************************************************************************)
EXTENDS Naturals, Sequences, FiniteSets, SequencesExt

CONSTANTS
  Server, Client,  \* the hosts that register, and those that only ask
  Nobody,          \* the zero of main_server
  NoAnswer,        \* nothing is on its way
  Rank,            \* the order in which the service compares the uuids
  MaxLost,         \* bound: how many datagrams may be lost
  MaxCrashes       \* bound: how many servers may crash

Host == Server \cup Client

ASSUME HostAssumption   == Server \cap Client = {} /\ Nobody \notin Host
                           /\ NoAnswer \notin Host \cup {Nobody}
ASSUME RankAssumption   == /\ Rank \in [Server -> Nat]
                           /\ \A s, t \in Server : Rank[s] = Rank[t] => s = t
ASSUME BoundsAssumption == MaxLost \in Nat /\ MaxCrashes \in Nat

VARIABLES
  uuid, addr,   \* main_server
  queue,        \* enqueued_dns_requests
  pc, remote,   \* what the main thread does next, and for whom
  dispatching,  \* the dispatcher is inside m_dns
  request,      \* request[h]: the datagram of h on its way to the service
  answer,       \* answer[h]: the address on its way back
  lost,         \* how many datagrams were lost
  state,        \* where each host stands
  target,       \* target[c]: the server that c connects to
  once,         \* once[c]: connected_once
  leader        \* the winner of the last election

service == <<uuid, addr, queue, pc, remote, dispatching>>
network == <<request, answer, lost>>
hosts   == <<state, target, once>>
vars    == <<service, network, hosts, leader>>

Init ==
  /\ uuid = Nobody /\ addr = Nobody
  /\ queue = << >>
  /\ pc = "poll" /\ remote = Nobody
  /\ dispatching = FALSE
  /\ request = [h \in Host |-> "none"]
  /\ answer  = [h \in Host |-> NoAnswer]
  /\ lost    = 0
  /\ state   = [h \in Host |-> "start"]
  /\ target  = [c \in Client |-> Nobody]
  /\ once    = [c \in Client |-> FALSE]
  /\ leader  = Nobody

-----------------------------------------------------------------------------
(* The main thread of the service *)

Older(s, t) == Rank[s] < Rank[t]

\* Mutants: the first, or the last, server that registers is the main server.
MutantFirst(s) == uuid = Nobody
MutantLast(s)  == TRUE

\* The registering server becomes the main server.
TakesOver(s) == uuid = Nobody \/ Older(s, uuid)

\* Mutant: no break after the requests, every asker registers.
MutantRegisters(h) == TakesOver(h)

Registers(h) == request[h] = "ADD_REPLICA" /\ TakesOver(h)

\* One datagram is read; a server that takes over has its uuid written.
Receive(h) ==
  /\ pc = "poll"
  /\ request[h] # "none"
  /\ request' = [request EXCEPT ![h] = "none"]
  /\ remote' = h
  /\ IF Registers(h)
       THEN uuid' = h /\ pc' = "address"
       ELSE pc' = "schedule" /\ UNCHANGED uuid
  /\ UNCHANGED <<addr, queue, dispatching, answer, lost, hosts, leader>>

\* Mutant: the first address is kept.
MutantAddress == IF addr = Nobody THEN remote ELSE addr

Address == remote

WriteAddress ==
  /\ pc = "address"
  /\ addr' = Address
  /\ pc' = "schedule"
  /\ UNCHANGED <<uuid, queue, remote, dispatching, network, hosts, leader>>

\* Mutant: the request is queued and answered all the same (no monitor_return).
MutantEnqueue ==
  /\ pc = "schedule" /\ uuid = Nobody /\ ~dispatching
  /\ queue' = Append(queue, remote)
  /\ answer' = [answer EXCEPT ![remote] = addr]
  /\ pc' = "poll"
  /\ UNCHANGED <<uuid, addr, remote, dispatching, request, lost, hosts, leader>>

\* schedule_dns_request, no main server: queued under m_dns.
Enqueue ==
  /\ pc = "schedule" /\ uuid = Nobody /\ ~dispatching
  /\ queue' = Append(queue, remote)
  /\ pc' = "poll"
  /\ UNCHANGED <<uuid, addr, remote, dispatching, network, hosts, leader>>

\* schedule_dns_request, the main server is known.
Reply ==
  /\ pc = "schedule" /\ uuid # Nobody
  /\ answer' = [answer EXCEPT ![remote] = addr]
  /\ pc' = "poll"
  /\ UNCHANGED <<uuid, addr, queue, remote, dispatching, request, lost, hosts, leader>>

-----------------------------------------------------------------------------
(* The dispatcher *)

EnterMonitor ==
  /\ ~dispatching /\ uuid # Nobody
  /\ dispatching' = TRUE
  /\ UNCHANGED <<uuid, addr, queue, pc, remote, network, hosts, leader>>

\* Mutant: the request is answered and stays in the array.
MutantRest == queue

\* What dynamic_array_pop leaves: the latest request is taken first.
Rest == Front(queue)

Dispatch ==
  /\ dispatching /\ queue # << >>
  /\ answer' = [answer EXCEPT ![Last(queue)] = addr]
  /\ queue' = Rest
  /\ UNCHANGED <<uuid, addr, pc, remote, dispatching, request, lost, hosts, leader>>

ExitMonitor ==
  /\ dispatching /\ queue = << >>
  /\ dispatching' = FALSE
  /\ UNCHANGED <<uuid, addr, queue, pc, remote, network, hosts, leader>>

-----------------------------------------------------------------------------
(* The hosts *)

Ask(h, type) ==
  /\ request' = [request EXCEPT ![h] = type]
  /\ state'   = [state EXCEPT ![h] = "waiting"]

\* server_main: the listener is open, the registration is sent.
Register(s) ==
  /\ state[s] = "start"
  /\ Ask(s, "ADD_REPLICA")
  /\ UNCHANGED <<service, answer, lost, target, once, leader>>

\* The answer has come: the server serves.
Serve(s) ==
  /\ state[s] = "waiting" /\ answer[s] # NoAnswer
  /\ answer' = [answer EXCEPT ![s] = NoAnswer]
  /\ state'  = [state EXCEPT ![s] = "serving"]
  /\ UNCHANGED <<service, request, lost, target, once, leader>>

Crashed == {s \in Server : state[s] = "dead"}

Crash(s) ==
  /\ state[s] \in {"waiting", "serving"}
  /\ Cardinality(Crashed) < MaxCrashes
  /\ state'  = [state EXCEPT ![s] = "dead"]
  /\ answer' = [answer EXCEPT ![s] = NoAnswer]
  /\ UNCHANGED <<service, request, lost, target, once, leader>>

\* Its listener exists: a connection is accepted.
Listens(a) == a \in Server /\ state[a] \in {"waiting", "serving"}

\* client_main, from the label retry.
AskMain(c) ==
  /\ state[c] \in {"start", "retry"}
  /\ Ask(c, "DNS")
  /\ UNCHANGED <<service, answer, lost, target, once, leader>>

Learn(c) ==
  /\ state[c] = "waiting" /\ answer[c] # NoAnswer
  /\ answer' = [answer EXCEPT ![c] = NoAnswer]
  /\ target' = [target EXCEPT ![c] = answer[c]]
  /\ state'  = [state EXCEPT ![c] = "connecting"]
  /\ UNCHANGED <<service, request, lost, once, leader>>

\* The connection is refused: retried only if there was one before.
Reach(c) ==
  /\ state[c] = "connecting"
  /\ state' = [state EXCEPT ![c] =
       IF Listens(target[c]) THEN "login" ELSE IF once[c] THEN "retry" ELSE "exited"]
  /\ UNCHANGED <<service, network, target, once, leader>>

\* Login and first list; a server lost meanwhile shows as an error or as a close.
Login(c) ==
  /\ state[c] = "login"
  /\ \/ /\ ~Listens(target[c])
        /\ state' = [state EXCEPT ![c] = "exited"]
        /\ UNCHANGED once
     \/ /\ state[target[c]] # "waiting"
        /\ state' = [state EXCEPT ![c] = "connected"]
        /\ once'  = [once EXCEPT ![c] = TRUE]
  /\ UNCHANGED <<service, network, target, leader>>

\* The socket of the leader is closed or in error: goto retry.
Disconnect(c) ==
  /\ state[c] = "connected" /\ ~Listens(target[c])
  /\ state' = [state EXCEPT ![c] = "retry"]
  /\ UNCHANGED <<service, network, target, once, leader>>

-----------------------------------------------------------------------------
(* The network *)

Lose(h) ==
  /\ lost < MaxLost
  /\ lost' = lost + 1
  /\ \/ /\ request[h] # "none"
        /\ request' = [request EXCEPT ![h] = "none"]
        /\ UNCHANGED answer
     \/ /\ answer[h] # NoAnswer
        /\ answer' = [answer EXCEPT ![h] = NoAnswer]
        /\ UNCHANGED request
  /\ UNCHANGED <<service, hosts, leader>>

\* The winner of an election writes COORDINATOR to the service, on a socket that
\* was never connected: the write fails and the service is not told.
Elect(s) ==
  /\ state[s] = "serving"
  /\ leader \in Server => state[leader] = "dead"
  /\ leader' = s
  /\ UNCHANGED <<service, network, hosts>>

MainThread == (\E h \in Host : Receive(h)) \/ WriteAddress \/ Enqueue \/ Reply
Dispatcher == EnterMonitor \/ Dispatch \/ ExitMonitor
ServerMain(s) == Register(s) \/ Serve(s)
ClientMain(c) == AskMain(c) \/ Learn(c) \/ Reach(c) \/ Login(c) \/ Disconnect(c)

Next ==
  \/ MainThread \/ Dispatcher
  \/ \E s \in Server : ServerMain(s) \/ Crash(s) \/ Elect(s)
  \/ \E c \in Client : ClientMain(c)
  \/ \E h \in Host : Lose(h)

Spec == Init /\ [][Next]_vars

\* Both threads poll in endless loops, datagrams are read in the order of their
\* arrival, and the mains go on when they can.
Fairness ==
  /\ WF_vars(MainThread) /\ WF_vars(Dispatcher)
  /\ \A h \in Host : SF_vars(Receive(h))
  /\ \A s \in Server : WF_vars(ServerMain(s))
  /\ \A c \in Client : WF_vars(ClientMain(c))

FairSpec == Spec /\ Fairness

-----------------------------------------------------------------------------
(* Properties *)

TypeOK ==
  /\ {uuid, addr, leader} \subseteq Server \cup {Nobody}
  /\ queue \in Seq(Host)
  /\ pc \in {"poll", "address", "schedule"} /\ remote \in Host \cup {Nobody}
  /\ dispatching \in BOOLEAN
  /\ request \in [Host -> {"none", "ADD_REPLICA", "DNS"}]
  /\ answer \in [Host -> Server \cup {Nobody, NoAnswer}]
  /\ lost \in 0 .. MaxLost
  /\ state \in [Host -> {"start", "waiting", "serving", "dead",
                          "connecting", "login", "connected", "retry", "exited"}]
  /\ target \in [Client -> Server \cup {Nobody}]
  /\ once \in [Client -> BOOLEAN]

Bit(b) == IF b THEN 1 ELSE 0

\* Where a request or its answer can be: on its way, with the main thread, queued,
\* or on its way back.
Outstanding(h) ==
  Bit(request[h] # "none") + Bit(pc # "poll" /\ remote = h)
    + Cardinality({i \in DOMAIN queue : queue[i] = h}) + Bit(answer[h] # NoAnswer)

\* A request is in one place at a time, in none unless its host waits, and only a
\* lost datagram makes it vanish: neither thread answers twice or forgets a request
\* (schedule_dns_request, dispatch_dns_requests_worker).
OneAnswer ==
  \A h \in Host :
    /\ Outstanding(h) <= 1
    /\ state[h] \notin {"waiting", "dead"} => Outstanding(h) = 0
    /\ state[h] = "waiting" /\ lost = 0 => Outstanding(h) = 1

\* The main server is the oldest of those the service has answered: whatever the
\* order of registrations, requests and answers (dns.c:106).
OldestIsMain ==
  \A s \in Server :
    state[s] = "serving" \/ answer[s] # NoAnswer => uuid = s \/ Older(uuid, s)

\* A server that was named to anybody, and so is connected to, is the main server
\* or newer: a late answer never names one that is still to take over.
NamedIsNotOlder ==
  \A a \in {answer[h] : h \in Host} \cup {target[c] : c \in Client} :
    a \in Server => a = uuid \/ Older(uuid, a)

\* Who waits is answered, dispatcher and main thread taking turns, unless a datagram
\* is lost: there is no timeout.
RequestsAnswered ==
  \A h \in Host : state[h] = "waiting" ~> state[h] # "waiting" \/ lost > 0

\* An answer names the main server of the moment. The exception is the dispatcher's
\* between the main thread's two writes, which take place outside m_dns (dns.c:107): it
\* then names the last main server, or nobody at the first registration.
AnswersMainServer ==
  [][\A h \in Host :
       answer'[h] \notin {answer[h], NoAnswer} =>
         answer'[h] = uuid \/ (dispatching /\ pc = "address")]_vars

\* "Notify dns" (server.c:1089): the service comes to name the winner of an election.
WinnerIsNamed == \A s \in Server : leader = s ~> addr = s \/ state[s] = "dead"

=============================================================================
