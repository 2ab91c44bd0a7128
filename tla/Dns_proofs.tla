----------------------------- MODULE Dns_proofs ------------------------------
(***************************************************************************)
(* Proofs about Dns for any number of servers, clients, lost datagrams and *)
(* crashes, and every order of the uuids.                                  *)
(*                                                                         *)
(* uuid only ever moves to an older server, so what once was at or behind  *)
(* it stays there.  The invariant says so of the server in hand, of the    *)
(* address that is written after the uuid, of the answers on their way and *)
(* of the targets; and that no server's request is ever queued.            *)
(*                                                                         *)
(* That a request gets one answer is a count of the places where it can be *)
(* (Placed); what an answer names follows from the address being behind    *)
(* the uuid only between the two writes (AddressIsMain).                   *)
(***************************************************************************)
EXTENDS Dns, FiniteSetTheorems, TLAPS

\* The main server is a, or older.
Behind(a) == uuid \in Server /\ (uuid = a \/ Older(uuid, a))

\* Servers register, clients ask.
Asks == \A h \in Host : /\ request[h] = "ADD_REPLICA" => h \in Server
                        /\ request[h] = "DNS" => h \in Client

\* Whom the main thread has in hand.
InHand == /\ pc = "address" => remote \in Server /\ uuid = remote
          /\ pc = "schedule" => remote \in Host /\ (remote \in Server => Behind(remote))

Queued == queue \in Seq(Client)

AddressBehind == addr \in Server => Behind(addr)

AnsweredBehind == \A s \in Server : state[s] = "serving" \/ answer[s] # NoAnswer => Behind(s)

NamedBehind == /\ \A h \in Host : answer[h] \in Server => Behind(answer[h])
               /\ \A c \in Client : target[c] \in Server => Behind(target[c])

IInv == /\ TypeOK /\ Asks /\ InHand /\ Queued
        /\ AddressBehind /\ AnsweredBehind /\ NamedBehind

LEMMA InitInvariant == Init => IInv
<1> SUFFICES ASSUME Init PROVE IInv
  OBVIOUS
<1>1. lost \in 0 .. MaxLost
  BY BoundsAssumption DEF Init
<1>2. queue \in Seq(Host) /\ queue \in Seq(Client)
  BY DEF Init
<1>3. TypeOK
  BY <1>1, <1>2 DEF Init, TypeOK
<1>4. Asks /\ InHand /\ Queued
  BY <1>2 DEF Init, Asks, InHand, Queued
<1>5. AddressBehind /\ AnsweredBehind /\ NamedBehind
  BY HostAssumption DEF Init, AddressBehind, AnsweredBehind, NamedBehind, Host
<1> QED BY <1>3, <1>4, <1>5 DEF IInv

\* What is at or behind the main server stays there when another takes over.
LEMMA BehindStays ==
  ASSUME TypeOK, NEW h \in Server, TakesOver(h), uuid' = h, NEW a \in Server, Behind(a)
  PROVE  Behind(a)'
<1>1. uuid # Nobody /\ Rank[h] < Rank[uuid]
  BY HostAssumption DEF TakesOver, Behind, Host, Older
<1>2. Rank[h] \in Nat /\ Rank[uuid] \in Nat /\ Rank[a] \in Nat
  BY RankAssumption DEF Behind
<1> QED BY <1>1, <1>2 DEF Behind, Older

\* A server that does not take over is behind the main server.
LEMMA OthersAreBehind ==
  ASSUME TypeOK, NEW h \in Server, ~TakesOver(h)
  PROVE  Behind(h)
BY RankAssumption DEF TypeOK, TakesOver, Behind, Older

\* The latest request and the rest of the queue.
LEMMA QueueEnd ==
  ASSUME Queued, queue # << >>
  PROVE  Last(queue) \in Client /\ Rest \in Seq(Client)
BY DEF Queued, Last, Rest, Front

-----------------------------------------------------------------------------
(* The service *)

LEMMA ReceiveStep ==
  ASSUME IInv, NEW h \in Host, Receive(h)
  PROVE  IInv'
<1>1. CASE Registers(h)
  <2>1. h \in Server /\ TakesOver(h) /\ uuid' = h /\ pc' = "address" /\ remote' = h
    BY <1>1 DEF Receive, Registers, IInv, Asks
  <2>2. UNCHANGED <<addr, queue, dispatching, answer, lost, hosts, leader>>
    BY DEF Receive
  <2>3. \A a \in Server : Behind(a) => Behind(a)'
    BY <2>1, BehindStays DEF IInv
  <2>4. TypeOK'
    BY <2>1, <2>2 DEF Receive, IInv, TypeOK, hosts, Host
  <2>5. AddressBehind' /\ AnsweredBehind' /\ NamedBehind'
    BY <2>2, <2>3 DEF IInv, AddressBehind, AnsweredBehind, NamedBehind, hosts
  <2>6. Asks' /\ InHand' /\ Queued'
    BY <2>1, <2>2 DEF Receive, IInv, TypeOK, Asks, InHand, Queued
  <2> QED BY <2>4, <2>5, <2>6 DEF IInv
<1>2. CASE ~Registers(h)
  <2>1. UNCHANGED <<uuid, addr, queue, dispatching, answer, lost, hosts, leader>>
        /\ pc' = "schedule" /\ remote' = h
    BY <1>2 DEF Receive
  <2>2. h \in Server => Behind(h)
    BY <1>2, OthersAreBehind, HostAssumption DEF Receive, Registers, IInv, Asks, TypeOK
  <2>3. TypeOK' /\ Asks'
    BY <2>1 DEF Receive, IInv, TypeOK, Asks, hosts
  <2> QED BY <2>1, <2>2, <2>3 DEF IInv, InHand, Queued, AddressBehind, AnsweredBehind,
                                  NamedBehind, Behind, hosts
<1> QED BY <1>1, <1>2

LEMMA MainThreadSteps ==
  ASSUME IInv, MainThread
  PROVE  IInv'
<1> USE DEF IInv, TypeOK, Asks, InHand, Queued, AddressBehind, AnsweredBehind, NamedBehind,
            Behind, network, hosts
<1>1. CASE \E h \in Host : Receive(h)
  BY <1>1, ReceiveStep
<1>2. CASE WriteAddress
  BY <1>2, HostAssumption DEF WriteAddress, Address, Host
<1>3. CASE Enqueue
  <2>1. remote \in Client
    BY <1>3, HostAssumption DEF Enqueue, Host
  <2>2. queue' \in Seq(Client) /\ queue' \in Seq(Host)
    BY <1>3, <2>1 DEF Enqueue, Host
  <2> QED BY <1>3, <2>2 DEF Enqueue
<1>4. CASE Reply
  BY <1>4 DEF Reply, Host
<1> QED BY <1>1, <1>2, <1>3, <1>4 DEF MainThread

LEMMA DispatcherSteps ==
  ASSUME IInv, Dispatcher
  PROVE  IInv'
<1> USE DEF IInv, TypeOK, Asks, InHand, AddressBehind, AnsweredBehind, NamedBehind,
            Behind, network, hosts
<1>1. CASE EnterMonitor
  BY <1>1 DEF EnterMonitor, Queued
<1>2. CASE Dispatch
  <2>1. Last(queue) \in Client /\ queue' \in Seq(Client)
    BY <1>2, QueueEnd DEF Dispatch
  <2>2. Last(queue) \notin Server /\ queue' \in Seq(Host)
    BY <2>1, HostAssumption DEF Host
  <2> QED BY <1>2, <2>1, <2>2 DEF Dispatch, Queued, Host
<1>3. CASE ExitMonitor
  BY <1>3 DEF ExitMonitor, Queued
<1> QED BY <1>1, <1>2, <1>3 DEF Dispatcher

-----------------------------------------------------------------------------
(* The hosts and the network *)

\* A login decides the client's state and no more than whether it asks again.
LEMMA LoginEffect ==
  ASSUME NEW c \in Client, once \in [Client -> BOOLEAN], Login(c)
  PROVE  /\ UNCHANGED <<service, network, target, leader>>
         /\ once' \in [Client -> BOOLEAN]
         /\ \/ state' = [state EXCEPT ![c] = "exited"]
            \/ state' = [state EXCEPT ![c] = "connected"]
<1>1. UNCHANGED <<service, network, target, leader>>
  BY DEF Login
<1>2. once' \in [Client -> BOOLEAN]
  BY DEF Login
<1> QED BY <1>1, <1>2 DEF Login

LEMMA HostSteps ==
  ASSUME IInv,
         \/ \E s \in Server : ServerMain(s) \/ Crash(s) \/ Elect(s)
         \/ \E c \in Client : ClientMain(c)
  PROVE  IInv'
<1> USE HostAssumption
    DEF IInv, TypeOK, Asks, InHand, Queued, AddressBehind, AnsweredBehind, NamedBehind, Behind,
        service, network, hosts, Host
<1>1. ASSUME NEW s \in Server, Register(s) PROVE IInv'
  BY <1>1 DEF Register, Ask
<1>2. ASSUME NEW s \in Server, Serve(s) PROVE IInv'
  BY <1>2 DEF Serve
<1>3. ASSUME NEW s \in Server, Crash(s) PROVE IInv'
  BY <1>3 DEF Crash
<1>4. ASSUME NEW s \in Server, Elect(s) PROVE IInv'
  BY <1>4 DEF Elect
<1>5. ASSUME NEW c \in Client, AskMain(c) PROVE IInv'
  BY <1>5 DEF AskMain, Ask
<1>6. ASSUME NEW c \in Client, Learn(c) PROVE IInv'
  BY <1>6 DEF Learn
<1>7. ASSUME NEW c \in Client, Reach(c) PROVE IInv'
  BY <1>7 DEF Reach
<1>8. ASSUME NEW c \in Client, Login(c) PROVE IInv'
  <2>1. /\ UNCHANGED <<service, network, target, leader>>
        /\ once' \in [Client -> BOOLEAN]
        /\ \/ state' = [state EXCEPT ![c] = "exited"]
           \/ state' = [state EXCEPT ![c] = "connected"]
    <3>1. once \in [Client -> BOOLEAN]
      OBVIOUS
    <3> HIDE DEF IInv
    <3> QED BY ONLY <1>8, <3>1, LoginEffect
  <2>2. CASE state' = [state EXCEPT ![c] = "exited"]
    BY <2>1, <2>2
  <2>3. CASE state' = [state EXCEPT ![c] = "connected"]
    BY <2>1, <2>3
  <2> QED BY <2>1, <2>2, <2>3
<1>9. ASSUME NEW c \in Client, Disconnect(c) PROVE IInv'
  BY <1>9 DEF Disconnect
<1> QED BY <1>1, <1>2, <1>3, <1>4, <1>5, <1>6, <1>7, <1>8, <1>9 DEF ServerMain, ClientMain

LEMMA LoseStep ==
  ASSUME IInv, NEW h \in Host, Lose(h)
  PROVE  IInv'
BY HostAssumption, BoundsAssumption
DEF Lose, IInv, TypeOK, Asks, InHand, Queued, AddressBehind, AnsweredBehind, NamedBehind, Behind,
    service, hosts, Host

LEMMA NextInvariant == IInv /\ [Next]_vars => IInv'
<1>1. ASSUME IInv, UNCHANGED vars PROVE IInv'
  BY <1>1 DEF IInv, TypeOK, Asks, InHand, Queued, AddressBehind, AnsweredBehind, NamedBehind,
              Behind, vars, service, network, hosts
<1> QED BY <1>1, MainThreadSteps, DispatcherSteps, HostSteps, LoseStep DEF Next

-----------------------------------------------------------------------------
(* One answer to each request *)

\* The places where a request or its answer can be.
Asked(h)    == request[h] # "none"
Handled(h)  == pc # "poll" /\ remote = h
Waits(h)    == \E i \in DOMAIN queue : queue[i] = h
Answered(h) == answer[h] # NoAnswer

OnePlace(h) ==
  /\ Asked(h)   => ~Handled(h) /\ ~Waits(h) /\ ~Answered(h)
  /\ Handled(h) => ~Waits(h) /\ ~Answered(h)
  /\ Waits(h)   => ~Answered(h)

Somewhere(h) == Asked(h) \/ Handled(h) \/ Waits(h) \/ Answered(h)

QueuedOnce == \A i, j \in DOMAIN queue : queue[i] = queue[j] => i = j

Placed ==
  /\ QueuedOnce
  /\ \A h \in Host :
       /\ OnePlace(h)
       /\ Somewhere(h) => state[h] \in {"waiting", "dead"}
       /\ state[h] = "waiting" /\ lost = 0 => Somewhere(h)

\* With no host twice in the queue, the indices at which one stands are one or none.
LEMMA QueuePlaces ==
  ASSUME queue \in Seq(Host), QueuedOnce, NEW h \in Host
  PROVE  Cardinality({i \in DOMAIN queue : queue[i] = h}) = Bit(Waits(h))
<1> DEFINE places == {i \in DOMAIN queue : queue[i] = h}
<1>1. CASE Waits(h)
  <2>1. PICK i \in DOMAIN queue : queue[i] = h
    BY <1>1 DEF Waits
  <2>2. places = {i}
    BY <2>1 DEF QueuedOnce
  <2>3. Cardinality(places) = 1
    BY <2>2, FS_Singleton
  <2> QED BY <1>1, <2>3 DEF Bit
<1>2. CASE ~Waits(h)
  <2>1. places = {}
    BY <1>2 DEF Waits
  <2>2. Cardinality(places) = 0
    BY <2>1, FS_EmptySet
  <2> QED BY <1>2, <2>2 DEF Bit
<1> QED BY <1>1, <1>2

LEMMA PlacedIsOneAnswer == TypeOK /\ Placed => OneAnswer
<1> SUFFICES ASSUME TypeOK, Placed, NEW h \in Host
             PROVE  /\ Outstanding(h) <= 1
                    /\ state[h] \notin {"waiting", "dead"} => Outstanding(h) = 0
                    /\ state[h] = "waiting" /\ lost = 0 => Outstanding(h) = 1
  BY DEF OneAnswer
<1>1. Outstanding(h) = Bit(Asked(h)) + Bit(Handled(h)) + Bit(Waits(h)) + Bit(Answered(h))
  BY QueuePlaces DEF Outstanding, Asked, Handled, Answered, TypeOK, Placed
<1>2. OnePlace(h) /\ (Somewhere(h) => state[h] \in {"waiting", "dead"})
      /\ (state[h] = "waiting" /\ lost = 0 => Somewhere(h))
  BY DEF Placed
<1> HIDE DEF Asked, Handled, Waits, Answered
<1> QED BY <1>1, <1>2 DEF OnePlace, Somewhere, Bit

\* A request moves on from place to place, and nothing else is asked meanwhile.
LEMMA PlacedByMainThread ==
  ASSUME IInv, Placed, MainThread
  PROVE  Placed'
<1> USE DEF Placed, QueuedOnce, OnePlace, Somewhere, Asked, Handled, Waits, Answered, hosts, network
<1> TypeOK
  BY DEF IInv
<1>1. ASSUME NEW h \in Host, Receive(h) PROVE Placed'
  BY <1>1 DEF Receive, TypeOK
<1>2. CASE WriteAddress
  BY <1>2 DEF WriteAddress
<1>3. CASE Enqueue
  <2>1. /\ pc = "schedule" /\ pc' = "poll" /\ remote \in Host
        /\ queue' = Append(queue, remote) /\ queue \in Seq(Host)
        /\ UNCHANGED <<remote, network, hosts>>
    BY <1>3 DEF Enqueue, IInv, InHand, TypeOK
  <2>2. /\ DOMAIN queue' = DOMAIN queue \cup {Len(queue) + 1} /\ Len(queue) + 1 \notin DOMAIN queue
        /\ \A i \in DOMAIN queue : queue'[i] = queue[i]
        /\ queue'[Len(queue) + 1] = remote
    BY <2>1
  <2>3. Handled(remote)
    BY <2>1
  <2>4. \A h \in Host : Waits(h)' <=> Waits(h) \/ h = remote
    BY <2>2
  <2>5. QueuedOnce'
    BY <2>2, <2>3, <2>1
  <2> QED BY <2>1, <2>3, <2>4, <2>5
<1>4. CASE Reply
  <2>1. /\ pc = "schedule" /\ pc' = "poll" /\ remote \in Host
        /\ answer' = [answer EXCEPT ![remote] = addr]
        /\ UNCHANGED <<queue, remote, request, lost, hosts>>
    BY <1>4 DEF Reply, IInv, InHand
  <2>2. addr # NoAnswer
    BY HostAssumption DEF TypeOK, Host
  <2>3. Handled(remote) /\ \A h \in Host : Answered(h)' <=> Answered(h) \/ h = remote
    BY <2>1, <2>2 DEF TypeOK
  <2> QED BY <2>1, <2>3
<1> QED BY <1>1, <1>2, <1>3, <1>4 DEF MainThread

LEMMA PlacedByDispatcher ==
  ASSUME IInv, Placed, Dispatcher
  PROVE  Placed'
<1> USE DEF Placed, QueuedOnce, OnePlace, Somewhere, Asked, Handled, Waits, Answered, hosts, network
<1>1. CASE EnterMonitor \/ ExitMonitor
  BY <1>1 DEF EnterMonitor, ExitMonitor
<1>2. CASE Dispatch
  <2> DEFINE last == queue[Len(queue)]
  <2>1. /\ queue # << >> /\ queue \in Seq(Host) /\ queue' = Rest /\ last \in Host
        /\ answer' = [answer EXCEPT ![last] = addr]
        /\ UNCHANGED <<pc, remote, request, lost, hosts>>
    BY <1>2 DEF Dispatch, Last, IInv, TypeOK
  <2>2. /\ DOMAIN queue = DOMAIN queue' \cup {Len(queue)} /\ Len(queue) \notin DOMAIN queue'
        /\ \A i \in DOMAIN queue' : queue'[i] = queue[i]
    <3>1. queue' = SubSeq(queue, 1, Len(queue) - 1)
      BY <2>1 DEF Rest, Front
    <3>2. Len(queue) \in Nat \ {0} /\ DOMAIN queue = 1 .. Len(queue)
      BY <2>1
    <3>3. DOMAIN queue' = 1 .. Len(queue) - 1 /\ \A i \in 1 .. Len(queue) - 1 : queue'[i] = queue[i]
      BY ONLY <2>1, <3>1, <3>2
    <3> QED BY ONLY <3>2, <3>3
  <2>3. Waits(last)
    BY <2>2
  <2>4. addr # NoAnswer /\ answer \in [Host -> Server \cup {Nobody, NoAnswer}]
    BY HostAssumption DEF IInv, TypeOK, Host
  <2>5. \A h \in Host : Answered(h)' <=> Answered(h) \/ h = last
    BY <2>1, <2>4
  <2>6. ASSUME NEW h \in Host PROVE Waits(h)' <=> Waits(h) /\ h # last
    <3>1. ASSUME NEW i \in DOMAIN queue' PROVE queue'[i] = queue[i] /\ queue[i] # last
      BY <2>2
    <3>2. ASSUME NEW i \in DOMAIN queue, queue[i] # last PROVE i \in DOMAIN queue'
      BY <2>2, <3>2
    <3> HIDE DEF last
    <3> QED BY <2>2, <3>1, <3>2
  <2>7. QueuedOnce'
    BY <2>2
  <2> HIDE DEF last
  <2> QED BY <2>1, <2>3, <2>5, <2>6, <2>7
<1> QED BY <1>1, <1>2 DEF Dispatcher

LEMMA PlacedByOthers ==
  ASSUME IInv, Placed,
         \/ \E s \in Server : ServerMain(s) \/ Crash(s) \/ Elect(s)
         \/ \E c \in Client : ClientMain(c)
         \/ \E h \in Host : Lose(h)
  PROVE  Placed'
<1> USE HostAssumption, BoundsAssumption
    DEF Placed, QueuedOnce, OnePlace, Somewhere, Asked, Handled, Waits, Answered,
        service, network, hosts, Host
<1> TypeOK
  BY DEF IInv
<1>1. ASSUME NEW s \in Server, Register(s) PROVE Placed'
  BY <1>1 DEF Register, Ask, TypeOK
<1>2. ASSUME NEW s \in Server, Serve(s) PROVE Placed'
  BY <1>2 DEF Serve, TypeOK
<1>3. ASSUME NEW s \in Server, Crash(s) PROVE Placed'
  BY <1>3 DEF Crash, TypeOK
<1>4. ASSUME NEW s \in Server, Elect(s) PROVE Placed'
  BY <1>4 DEF Elect
<1>5. ASSUME NEW c \in Client, AskMain(c) PROVE Placed'
  BY <1>5 DEF AskMain, Ask, TypeOK
<1>6. ASSUME NEW c \in Client, Learn(c) PROVE Placed'
  BY <1>6 DEF Learn, TypeOK
<1>7. ASSUME NEW c \in Client, Reach(c) PROVE Placed'
  BY <1>7 DEF Reach, TypeOK
<1>8. ASSUME NEW c \in Client, Login(c) PROVE Placed'
  BY <1>8, LoginEffect DEF Login, TypeOK
<1>9. ASSUME NEW c \in Client, Disconnect(c) PROVE Placed'
  BY <1>9 DEF Disconnect, TypeOK
<1>10. ASSUME NEW h \in Host, Lose(h) PROVE Placed'
  BY <1>10 DEF Lose, TypeOK
<1> QED BY <1>1, <1>2, <1>3, <1>4, <1>5, <1>6, <1>7, <1>8, <1>9, <1>10 DEF ServerMain, ClientMain

LEMMA PlacedInvariant == IInv /\ Placed /\ [Next]_vars => Placed'
<1>1. ASSUME Placed, UNCHANGED vars PROVE Placed'
  BY <1>1 DEF Placed, QueuedOnce, OnePlace, Somewhere, Asked, Handled, Waits, Answered,
              vars, service, network, hosts
<1> QED BY <1>1, PlacedByMainThread, PlacedByDispatcher, PlacedByOthers DEF Next

-----------------------------------------------------------------------------
\* The service's state, the datagrams and the hosts' states keep their types for any
\* number of hosts.
THEOREM TypeInvariant == Spec => []TypeOK
<1>1. IInv => TypeOK
  BY DEF IInv
<1> QED BY <1>1, InitInvariant, NextInvariant, PTL DEF Spec

\* Of the servers that were answered none is older than the main server, in whatever
\* order registrations and requests arrive (dns.c:102).
THEOREM OldestIsMainInvariant == Spec => []OldestIsMain
<1>1. IInv => OldestIsMain
  BY DEF IInv, AnsweredBehind, OldestIsMain, Behind
<1> QED BY <1>1, InitInvariant, NextInvariant, PTL DEF Spec

\* No answer on its way and no target of a client is older than the main server,
\* although uuid and address are written apart (dns.c:107).
THEOREM NamedIsNotOlderInvariant == Spec => []NamedIsNotOlder
<1>1. IInv => NamedIsNotOlder
  BY DEF IInv, NamedBehind, NamedIsNotOlder, Behind
<1> QED BY <1>1, InitInvariant, NextInvariant, PTL DEF Spec

\* A request is in one place at a time, in none unless its host waits, and vanishes
\* only with a lost datagram: neither thread answers twice or forgets a request, for
\* any number of hosts (schedule_dns_request, dispatch_dns_requests_worker).
THEOREM OneAnswerInvariant == Spec => []OneAnswer
<1>1. IInv /\ Placed => OneAnswer
  BY PlacedIsOneAnswer DEF IInv
<1>2. Init => Placed
  BY HostAssumption DEF Init, Placed, QueuedOnce, OnePlace, Somewhere, Asked, Handled, Waits, Answered
<1> QED BY <1>1, <1>2, InitInvariant, NextInvariant, PlacedInvariant, PTL DEF Spec

-----------------------------------------------------------------------------
(* What an answer names *)

\* Between the two writes, and only there, the address is not the main server's.
AddressIsMain == pc # "address" => addr = uuid

LEMMA AddressIsMainInvariant == IInv /\ AddressIsMain /\ [Next]_vars => AddressIsMain'
<1> SUFFICES ASSUME IInv, AddressIsMain, [Next]_vars PROVE AddressIsMain'
  OBVIOUS
<1> USE DEF AddressIsMain
<1>1. CASE MainThread
  BY <1>1 DEF MainThread, Receive, WriteAddress, Address, Enqueue, Reply, IInv, InHand
<1>2. ASSUME UNCHANGED service PROVE AddressIsMain'
  BY <1>2 DEF service
<1>3. CASE Dispatcher
  BY <1>3 DEF Dispatcher, EnterMonitor, Dispatch, ExitMonitor
<1>4. ASSUME NEW s \in Server, ServerMain(s) \/ Crash(s) \/ Elect(s) PROVE UNCHANGED service
  BY <1>4 DEF ServerMain, Register, Serve, Crash, Elect
<1>5. ASSUME NEW c \in Client, ClientMain(c) PROVE UNCHANGED service
  BY <1>5 DEF ClientMain, AskMain, Learn, Reach, Login, Disconnect
<1>6. ASSUME NEW h \in Host, Lose(h) PROVE UNCHANGED service
  BY <1>6 DEF Lose
<1> QED BY <1>1, <1>2, <1>3, <1>4, <1>5, <1>6 DEF Next, vars

\* Who an answer may name when the step is taken.
NamesMain ==
  \A h \in Host :
    answer'[h] \notin {answer[h], NoAnswer} =>
      answer'[h] = uuid \/ (dispatching /\ pc = "address")

LEMMA AnswerNames == IInv /\ AddressIsMain /\ [Next]_vars => NamesMain
<1> SUFFICES ASSUME IInv, AddressIsMain, [Next]_vars PROVE NamesMain
  OBVIOUS
<1> USE DEF NamesMain
<1>1. ASSUME UNCHANGED answer PROVE NamesMain
  BY <1>1
<1>2. ASSUME NEW h \in Host, answer' = [answer EXCEPT ![h] = NoAnswer] PROVE NamesMain
  BY <1>2 DEF IInv, TypeOK
<1>3. CASE MainThread
  <2>1. CASE Reply
    BY <2>1 DEF Reply, AddressIsMain, IInv, TypeOK
  <2> QED BY <1>1, <1>3, <2>1 DEF MainThread, Receive, WriteAddress, Enqueue, network
<1>4. CASE Dispatcher
  <2>1. CASE Dispatch
    BY <2>1 DEF Dispatch, AddressIsMain, IInv, TypeOK
  <2> QED BY <1>1, <1>4, <2>1 DEF Dispatcher, EnterMonitor, ExitMonitor, network
<1>5. ASSUME NEW s \in Server, ServerMain(s) \/ Crash(s) \/ Elect(s) PROVE NamesMain
  <2>1. UNCHANGED answer \/ answer' = [answer EXCEPT ![s] = NoAnswer]
    BY <1>5 DEF ServerMain, Register, Serve, Crash, Elect, network
  <2> QED BY <1>1, <1>2, <2>1 DEF Host
<1>6. ASSUME NEW c \in Client, ClientMain(c) PROVE NamesMain
  <2>1. UNCHANGED answer \/ answer' = [answer EXCEPT ![c] = NoAnswer]
    BY <1>6 DEF ClientMain, AskMain, Learn, Reach, Login, Disconnect, network
  <2> QED BY <1>1, <1>2, <2>1 DEF Host
<1>7. ASSUME NEW h \in Host, Lose(h) PROVE NamesMain
  BY <1>1, <1>2, <1>7 DEF Lose
<1>8. CASE UNCHANGED vars
  BY <1>1, <1>8 DEF vars, network
<1> QED BY <1>3, <1>4, <1>5, <1>6, <1>7, <1>8 DEF Next

\* Each answer names the main server of the moment, but for one the dispatcher sends
\* between the main thread's two writes (dns.c:107).
THEOREM AnswersMainServerTheorem == Spec => AnswersMainServer
<1>1. Init => AddressIsMain
  BY DEF Init, AddressIsMain
<1>2. IInv /\ AddressIsMain /\ [Next]_vars => [NamesMain]_vars
  BY AnswerNames
<1>3. Spec => [][NamesMain]_vars
  BY <1>1, <1>2, InitInvariant, NextInvariant, AddressIsMainInvariant, PTL DEF Spec
<1> QED BY <1>3 DEF AnswersMainServer, NamesMain
=============================================================================
