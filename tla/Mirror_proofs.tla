---------------------------- MODULE Mirror_proofs ----------------------------
(***************************************************************************)
(* Proofs about the directories in Sync: a client that starts and a        *)
(* replica that joins come to have the server's files, for any number of   *)
(* files, and of changes and elections meanwhile.                          *)
(*                                                                         *)
(* The argument follows one file.  Until the list is read, the list or the *)
(* changes behind it say what the file is; while files are downloaded, it  *)
(* is there already, is still to be fetched, or is in the answer; and what *)
(* comes before what is waited for takes the reader out of step, which the *)
(* first disjuncts of both invariants say.                                 *)
(***************************************************************************)
EXTENDS Sync_proofs

(* States of a file, up to checksums *)

LEMMA AlikeIsEquality ==
  /\ \A x : Alike(x, x)
  /\ \A x, y : Alike(x, y) => Alike(y, x)
  /\ \A x, y, z : Alike(x, y) /\ Alike(y, z) => Alike(x, z)
BY DEF Alike

\* What has the checksum of x is alike to x.
LEMMA SameIsAlike ==
  ASSUME NEW x \in Content, NEW y, Same(y, Checksum[x])
  PROVE  Alike(y, x)
BY ContentAssumption DEF Same, Alike

-----------------------------------------------------------------------------
(* Messages that are on their way *)

LEMMA NoMessages ==
  ASSUME NEW k \in Nat, NEW n, NEW x
  PROVE  Untouched(<< >>, k, n) /\ ~Remade(<< >>, k, n, x)
BY DEF Untouched, Remade

\* Behind the only message there is none.
LEMMA OnlyMessage ==
  ASSUME NEW m, NEW n, NEW x
  PROVE  Untouched(<<m>>, 1, n) /\ ~Remade(<<m>>, 1, n, x)
BY DEF Untouched, Remade

\* It does not change what is read first.
LEMMA SameHead ==
  ASSUME NEW S, NEW s \in Seq(S), s # << >>
  PROVE  \A m : Append(s, m) # << >> /\ Head(Append(s, m)) = Head(s)
OBVIOUS

\* One more message: it decides, or what was true stays true.
LEMMA OneMore ==
  ASSUME NEW S, NEW s \in Seq(S), NEW m \in S, NEW k \in 0 .. Len(s), NEW n, NEW x
  PROVE  /\ Changes(m, n) /\ Alike(Made(m), x) => Remade(Append(s, m), k, n, x)
         /\ ~Changes(m, n) /\ Remade(s, k, n, x) => Remade(Append(s, m), k, n, x)
         /\ ~Changes(m, n) /\ Untouched(s, k, n) => Untouched(Append(s, m), k, n)
<1> DEFINE t == Append(s, m)
<1>1. /\ DOMAIN t = 1 .. Len(s) + 1 /\ DOMAIN s = 1 .. Len(s) /\ Len(s) \in Nat
      /\ t[Len(s) + 1] = m /\ \A i \in 1 .. Len(s) : t[i] = s[i]
  OBVIOUS
<1> HIDE DEF t
<1>2. ASSUME Changes(m, n), Alike(Made(m), x) PROVE Remade(t, k, n, x)
  <2>1. Untouched(t, Len(s) + 1, n)
    BY <1>1 DEF Untouched
  <2> QED BY <1>1, <1>2, <2>1 DEF Remade
<1>3. \A i \in 0 .. Len(s) : ~Changes(m, n) /\ Untouched(s, i, n) => Untouched(t, i, n)
  BY <1>1 DEF Untouched
<1>4. ASSUME ~Changes(m, n), Remade(s, k, n, x) PROVE Remade(t, k, n, x)
  <2>1. PICK i \in DOMAIN s : i > k /\ Changes(s[i], n) /\ Alike(Made(s[i]), x) /\ Untouched(s, i, n)
    BY <1>4 DEF Remade
  <2>2. i \in DOMAIN t /\ t[i] = s[i] /\ Untouched(t, i, n)
    BY <1>1, <1>3, <1>4, <2>1
  <2> QED BY <2>1, <2>2 DEF Remade
<1> QED BY <1>2, <1>3, <1>4 DEF t

\* The first message is taken: what is true behind it is true of the rest.
LEMMA OneLess ==
  ASSUME NEW S, NEW s \in Seq(S), s # << >>, NEW k \in 1 .. Len(s), NEW n, NEW x
  PROVE  /\ Untouched(s, k, n) => Untouched(Tail(s), k - 1, n)
         /\ Remade(s, k, n, x) => Remade(Tail(s), k - 1, n, x)
<1> DEFINE t == Tail(s)
<1>1. /\ DOMAIN t = 1 .. Len(s) - 1 /\ DOMAIN s = 1 .. Len(s) /\ Len(s) \in Nat
      /\ \A i \in 1 .. Len(s) - 1 : t[i] = s[i + 1]
  OBVIOUS
<1> HIDE DEF t
<1>2. \A i \in 1 .. Len(s) : Untouched(s, i, n) => Untouched(t, i - 1, n)
  BY <1>1 DEF Untouched
<1>3. ASSUME Remade(s, k, n, x) PROVE Remade(t, k - 1, n, x)
  <2>1. PICK i \in DOMAIN s : i > k /\ Changes(s[i], n) /\ Alike(Made(s[i]), x) /\ Untouched(s, i, n)
    BY <1>3 DEF Remade
  <2>2. i - 1 \in DOMAIN t /\ t[i - 1] = s[i] /\ Untouched(t, i - 1, n) /\ i - 1 > k - 1
    BY <1>1, <1>2, <2>1
  <2> QED BY <2>1, <2>2 DEF Remade
<1> QED BY <1>2, <1>3 DEF t

\* What is true of all messages, by the first of them.
LEMMA FirstTaken ==
  ASSUME NEW S, NEW s \in Seq(S), s # << >>, NEW n, NEW x
  PROVE  /\ Untouched(s, 0, n) => ~Changes(Head(s), n) /\ Untouched(Tail(s), 0, n)
         /\ Remade(s, 0, n, x) =>
              \/ Remade(Tail(s), 0, n, x)
              \/ Changes(Head(s), n) /\ Alike(Made(Head(s)), x) /\ Untouched(Tail(s), 0, n)
<1>1. 1 \in DOMAIN s /\ s[1] = Head(s) /\ DOMAIN s = 1 .. Len(s) /\ Len(s) \in Nat /\ 1 \in 1 .. Len(s)
  OBVIOUS
<1>2. /\ Untouched(s, 1, n) => Untouched(Tail(s), 0, n)
      /\ Remade(s, 1, n, x) => Remade(Tail(s), 0, n, x)
  <2>1. 1 - 1 = 0
    OBVIOUS
  <2> QED BY <1>1, <2>1, OneLess
<1>3. Untouched(s, 0, n) => ~Changes(Head(s), n) /\ Untouched(s, 1, n)
  BY <1>1 DEF Untouched
<1>4. ASSUME Remade(s, 0, n, x), ~Remade(s, 1, n, x)
      PROVE  Changes(Head(s), n) /\ Alike(Made(Head(s)), x) /\ Untouched(s, 1, n)
  <2>1. PICK i \in DOMAIN s : Changes(s[i], n) /\ Alike(Made(s[i]), x) /\ Untouched(s, i, n)
    BY <1>4 DEF Remade
  <2>2. ~(i > 1)
    BY <1>4, <2>1 DEF Remade
  <2>3. i = 1
    BY <1>1, <2>2
  <2> QED BY <1>1, <2>1, <2>3
<1> QED BY <1>2, <1>3, <1>4

\* A message that is applied leaves the file what it becomes.
LEMMA AppliedBecomes ==
  ASSUME NEW d \in Directory, NEW S, S \subseteq ClientReads \cup ReplicaReads,
         NEW s \in Seq(S), s # << >>, NEW n \in Name, Becomes(d, s, n)
  PROVE  Becomes(Applied(d, Head(s)), Tail(s), n)
<1> DEFINE m == Head(s)
<1>1. m \in ServerReads \cup ClientReads \cup EarlierReads \cup ReplicaReads
  OBVIOUS
<1>2. Changes(m, n) => Alike(Applied(d, m)[n], Made(m))
  <2> SUFFICES ASSUME Changes(m, n) PROVE Alike(Applied(d, m)[n], Made(m))
    OBVIOUS
  <2>1. CASE m.type = "DELETE"
    BY <2>1, AlikeIsEquality DEF Applied, Changes, Made, Directory
  <2>2. CASE m.type = "UPLOAD"
    <3>1. m.data \in Content /\ m.sum = Checksum[m.data] /\ m.name = n /\ Made(m) = m.data
      BY <1>1, <2>2, Fields DEF Changes, Made
    <3>2. CASE Same(d[n], m.sum)
      <4>1. Applied(d, m) = d
        BY <2>2, <3>1, <3>2 DEF Applied
      <4> QED BY <3>1, <3>2, <4>1, SameIsAlike
    <3>3. CASE ~Same(d[n], m.sum)
      <4>1. Applied(d, m)[n] = m.data
        BY <2>2, <3>1, <3>3 DEF Applied, Directory
      <4> QED BY <3>1, <4>1, AlikeIsEquality
    <3> QED BY <3>2, <3>3
  <2> QED BY <2>1, <2>2 DEF Changes
<1>3. ~Changes(m, n) => Applied(d, m)[n] = d[n]
  BY DEF Applied, Changes, Directory
<1> HIDE DEF m
<1>4. CASE Untouched(s, 0, n) /\ Alike(d[n], stored[n])
  BY <1>3, <1>4, FirstTaken DEF Becomes, m
<1>5. CASE Remade(s, 0, n, stored[n])
  BY <1>2, <1>5, FirstTaken, AlikeIsEquality DEF Becomes, m
<1> QED BY <1>4, <1>5 DEF Becomes

-----------------------------------------------------------------------------
(* The comparison of two directories *)

\* What a list says of a file: it is not there, or it is and has the checksum.
ListSays(list, n) ==
  /\ \A e \in list : e.name = n => Same(stored[n], e.sum)
  /\ n \in Files(stored) => \E e \in list : e.name = n

LEMMA ListingSays == \A n \in Name : ListSays(Listing(stored), n)
<1> SUFFICES ASSUME NEW n \in Name PROVE ListSays(Listing(stored), n)
  OBVIOUS
<1>1. \A e \in Listing(stored) : e.name \in Files(stored) /\ e.sum = Checksum[stored[e.name]]
  BY DEF Listing
<1>2. n \in Files(stored) => [name |-> n, sum |-> Checksum[stored[n]]] \in Listing(stored)
  BY DEF Listing
<1>3. n \in Files(stored) => \E e \in Listing(stored) : e.name = n
  <2> DEFINE e == [name |-> n, sum |-> Checksum[stored[n]]]
  <2>1. e.name = n
    OBVIOUS
  <2> QED BY <1>2, <2>1
<1> QED BY <1>1, <1>3 DEF ListSays, Same, Files

\* A file that is not downloaded is the one on the list, or was removed.
LEMMA ComparedByList ==
  ASSUME stored \in Directory, NEW d \in Directory, NEW list \in SUBSET Entry, NEW n \in Name,
         ListSays(list, n)
  PROVE  /\ n \in ToDownload(list, Listing(d)) => n \in Files(stored)
         /\ n \notin ToDownload(list, Listing(d)) =>
              Alike(Without(d, ToDelete(list, Listing(d)))[n], stored[n])
<1>1. \A k \in Listing(d) : k.name \in Files(d) /\ k.sum = Checksum[d[k.name]]
  BY DEF Listing
<1>2. ASSUME n \in ToDownload(list, Listing(d)) PROVE n \in Files(stored)
  BY <1>2 DEF ToDownload, NamesOf, Difference, ListSays, Same, Files
<1>3. ASSUME n \notin ToDownload(list, Listing(d)), n \notin Files(stored)
      PROVE  Without(d, ToDelete(list, Listing(d)))[n] = stored[n]
  <2>1. \A e \in list : e.name # n
    BY <1>3 DEF ListSays, Same, Files
  <2>2. n \in Files(d) => n \in ToDelete(list, Listing(d))
    <3> SUFFICES ASSUME n \in Files(d) PROVE n \in ToDelete(list, Listing(d))
      OBVIOUS
    <3> DEFINE k == [name |-> n, sum |-> Checksum[d[n]]]
    <3>1. k \in Listing(d) /\ k.name = n
      BY DEF Listing
    <3>2. ~Has(list, k, SameName)
      BY <2>1, <3>1 DEF Has, SameName
    <3> QED BY <3>1, <3>2 DEF ToDelete, NamesOf, Difference
  <2> QED BY <1>3, <2>2 DEF Without, Files
<1>4. ASSUME n \notin ToDownload(list, Listing(d)), n \in Files(stored)
      PROVE  Alike(Without(d, ToDelete(list, Listing(d)))[n], stored[n])
  <2>1. PICK e \in list : e.name = n /\ e.sum = Checksum[stored[n]]
    BY <1>4 DEF ListSays, Same
  <2>2. Has(Listing(d), e, SameFile)
    BY <1>4, <2>1 DEF ToDownload, NamesOf, Difference
  <2>3. n \in Files(d) /\ Checksum[d[n]] = Checksum[stored[n]]
    BY <1>1, <2>1, <2>2 DEF Has, SameFile
  <2>4. n \notin ToDelete(list, Listing(d))
    BY <2>1 DEF ToDelete, NamesOf, Difference, Has, SameName
  <2>5. Without(d, ToDelete(list, Listing(d)))[n] = d[n]
    BY <2>4 DEF Without
  <2> QED BY <1>4, <2>3, <2>5 DEF Alike, Files
<1> QED BY <1>2, <1>3, <1>4, AlikeIsEquality

-----------------------------------------------------------------------------
(* The client *)

\* What the server writes without being asked.
Unasked == {"UPLOAD", "DELETE", "COORDINATOR", "JUNK"}

\* What it reads next is nothing it waits for.
Misled == /\ phase \in {"list", "download"} /\ toClient # << >>
          /\ Head(toClient).type \in Unasked

\* The answer is there, and nothing that was asked for is behind it.
Answered(type) ==
  /\ toServer = << >> /\ toClient # << >> /\ Head(toClient).type = type
  /\ \A i \in DOMAIN toClient : i > 1 => toClient[i].type \in Unasked

Listed(n) ==
  \/ Untouched(toClient, 1, n) /\ ListSays(Head(toClient).list, n)
  \/ Remade(toClient, 1, n, stored[n])

\* The file is still to be downloaded, or is there.
Due(n) == IF n \in todo THEN n \in Files(stored) ELSE Alike(dir[n], stored[n])

Served(n) ==
  \/ /\ Untouched(toClient, 1, n)
     /\ IF n = First(todo) THEN Alike(Head(toClient).data, stored[n]) ELSE Due(n)
  \/ Remade(toClient, 1, n, stored[n])

ListCame == Answered("LIST") /\ \A n \in Name : Listed(n)

Requested == /\ toServer = <<Download(First(todo))>> /\ toClient = << >>
             /\ \A n \in Name : Due(n)

FileCame == Answered("BYTES") /\ \A n \in Name : Served(n)

Follows ==
  /\ phase = "offline" => toServer = << >> /\ toClient = << >> /\ ~logged
  /\ phase \in {"list", "download", "running"} => logged \/ LoggingIn
  /\ phase \in {"offline", "list"} => ~mirrored
  /\ phase = "list" => \/ LoggingIn
                       \/ toServer = <<[type |-> "LIST"]>> /\ toClient = << >>
                       \/ ListCame
  /\ phase = "download" => todo # {} /\ (Requested \/ FileCame)
  /\ phase = "running" => toServer = << >> /\ StartupMirrors

ClientInv == TypeOK /\ (Misled \/ Follows)

LEMMA InitFollows == Init => Follows
BY DEF Init, StartupInit, Follows

\* The next request, after a list or a file was taken: what is not requested any more
\* is there, or was changed behind it.
LEMMA NextRequest ==
  ASSUME TypeOK, TypeOK', logged, UNCHANGED <<stored, logged>>, toServer = << >>, Reading,
         \A i \in DOMAIN toClient : i > 1 => toClient[i].type \in Unasked,
         NEW names \in SUBSET Name, Request(names),
         \A n \in Name :
           \/ /\ Untouched(toClient, 1, n)
              /\ IF n \in names THEN n \in Files(stored) ELSE Alike(dir'[n], stored[n])
           \/ Remade(toClient, 1, n, stored[n])
  PROVE  Misled' \/ Follows'
<1>1. /\ toClient # << >> /\ toClient' = Tail(toClient) /\ toClient \in Seq(ClientReads)
      /\ todo' = names /\ 1 \in 1 .. Len(toClient)
  BY DEF Reading, Request, TypeOK
<1>2. \A n \in Name : \/ /\ Untouched(toClient', 0, n)
                         /\ IF n \in names THEN n \in Files(stored) ELSE Alike(dir'[n], stored[n])
                      \/ Remade(toClient', 0, n, stored[n])
  <2>1. 1 - 1 = 0
    OBVIOUS
  <2> QED BY <1>1, <2>1, OneLess
<1>3. CASE names = {}
  <2>1. phase' = "running" /\ toServer' = << >> /\ logged'
    BY <1>3 DEF Request
  <2>2. StartupMirrors'
    BY <1>2, <1>3 DEF StartupMirrors, Becomes
  <2> QED BY <2>1, <2>2 DEF Follows
<1>4. CASE names # {}
  <2>1. phase' = "download" /\ toServer' = <<Download(First(todo'))>> /\ logged'
    BY <1>1, <1>4 DEF Request
  <2>2. CASE toClient' = << >>
    <3>1. \A n \in Name : ~Remade(toClient', 0, n, stored[n])
      BY <2>2, NoMessages
    <3>2. \A n \in Name : Due(n)'
      BY <1>1, <1>2, <3>1 DEF Due, Files
    <3>3. Requested'
      BY <2>1, <2>2, <3>2 DEF Requested
    <3> QED BY <1>1, <1>4, <2>1, <3>3 DEF Follows
  <2>3. CASE toClient' # << >>
    <3>1. 2 \in DOMAIN toClient /\ Head(toClient') = toClient[2]
      BY <1>1, <2>3
    <3> QED BY <2>1, <2>3, <3>1 DEF Misled
  <2> QED BY <2>2, <2>3
<1> QED BY <1>3, <1>4

LEMMA ClientFollows ==
  ASSUME ClientInv, TypeOK', ClientStep
  PROVE  Misled' \/ Follows'
<1> USE DEF ClientInv
<1>0. Client
  BY DEF ClientStep
<1>1. CASE Login
  BY <1>1 DEF Login, Follows, LoggingIn, Misled
<1>2. CASE ReceiveList
  <2>1. phase = "list" /\ Reading /\ UNCHANGED <<stored, logged>>
    BY <1>2 DEF ReceiveList
  <2>2. CASE Misled
    <3>1. Head(toClient).type # "LIST"
      BY <2>2 DEF Misled, Unasked
    <3>2. phase' = "lost"
      BY <1>2, <3>1 DEF ReceiveList, Lost
    <3> QED BY <3>2 DEF Follows
  <2>3. CASE ~Misled
    <3> DEFINE list == Head(toClient).list
    <3>1. ListCame /\ logged /\ ~mirrored
      BY <2>1, <2>3, OneMessage DEF Reading, Follows, LoggingIn
    <3>2. Head(toClient).type = "LIST" /\ toServer = << >> /\ Head(toClient) \in ClientReads
      BY <3>1, SeqEnds DEF ListCame, Answered, TypeOK
    <3>3. list \in SUBSET Entry
      BY <3>2, Fields
    <3>4. CASE list = {}
      <4>1. phase' = "running" /\ UNCHANGED <<mirrored, toServer>>
        BY <1>2, <3>2, <3>4 DEF ReceiveList
      <4> QED BY <2>1, <3>1, <3>2, <4>1 DEF Follows, StartupMirrors
    <3>5. CASE list # {}
      <4> DEFINE names == ToDownload(list, Listing(dir))
      <4>1. dir' = Without(dir, ToDelete(list, Listing(dir))) /\ Request(names)
        BY <1>2, <3>2, <3>5 DEF ReceiveList
      <4>2. names \in SUBSET Name
        BY <3>3, Comparisons DEF TypeOK
      <4>3. ASSUME NEW n \in Name
            PROVE  \/ /\ Untouched(toClient, 1, n)
                      /\ IF n \in names THEN n \in Files(stored) ELSE Alike(dir'[n], stored[n])
                   \/ Remade(toClient, 1, n, stored[n])
        <5>1. CASE Untouched(toClient, 1, n) /\ ListSays(list, n)
          BY <3>3, <4>1, <5>1, ComparedByList DEF TypeOK
        <5>2. CASE Remade(toClient, 1, n, stored[n])
          BY <5>2
        <5> QED BY <3>1, <5>1, <5>2 DEF ListCame, Listed
      <4>4. \A i \in DOMAIN toClient : i > 1 => toClient[i].type \in Unasked
        BY <3>1 DEF ListCame, Answered
      <4> HIDE DEF names, list
      <4> QED BY <2>1, <3>1, <3>2, <4>1, <4>2, <4>3, <4>4, NextRequest
    <3> QED BY <3>4, <3>5
  <2> QED BY <2>2, <2>3
<1>3. CASE ReceiveFile
  <2>1. phase = "download" /\ Reading /\ UNCHANGED <<stored, logged>>
    BY <1>3 DEF ReceiveFile
  <2>2. CASE Misled
    <3>1. Head(toClient).type \notin {"BYTES", "ERROR"}
      BY <2>2 DEF Misled, Unasked
    <3>2. phase' = "lost"
      BY <1>3, <3>1 DEF ReceiveFile, Lost
    <3> QED BY <3>2 DEF Follows
  <2>3. CASE ~Misled
    <3> DEFINE f == First(todo)
               names == todo \ {f}
    <3>1. FileCame /\ todo # {}
      BY <2>1, <2>3 DEF Reading, Follows, Requested
    <3>2. Head(toClient).type = "BYTES" /\ toServer = << >>
      BY <3>1 DEF FileCame, Answered
    <3>3. logged
      BY <2>1, <2>3, <3>2 DEF Follows, LoggingIn
    <3>4. dir' = [dir EXCEPT ![f] = Head(toClient).data] /\ Request(names)
      BY <1>3, <3>2 DEF ReceiveFile
    <3>5. f \in Name /\ f \in todo /\ names \in SUBSET Name
      BY <3>1, FirstIsOne DEF TypeOK
    <3>6. ASSUME NEW n \in Name
          PROVE  \/ /\ Untouched(toClient, 1, n)
                    /\ IF n \in names THEN n \in Files(stored) ELSE Alike(dir'[n], stored[n])
                 \/ Remade(toClient, 1, n, stored[n])
      <4>1. n = f => dir'[n] = Head(toClient).data
        BY <3>4, <3>5 DEF TypeOK, Directory
      <4>2. n # f => dir'[n] = dir[n]
        BY <3>4, <3>5 DEF TypeOK, Directory
      <4>3. Served(n)
        BY <3>1 DEF FileCame
      <4> QED BY <4>1, <4>2, <4>3 DEF Served, Due
    <3>7. \A i \in DOMAIN toClient : i > 1 => toClient[i].type \in Unasked
      BY <3>1 DEF FileCame, Answered
    <3> HIDE DEF f, names
    <3> QED BY <2>1, <3>2, <3>3, <3>4, <3>5, <3>6, <3>7, NextRequest
  <2> QED BY <2>2, <2>3
<1>4. CASE ReceiveForward
  <2>0. CASE Head(toClient) = Junk
    BY <1>4, <2>0 DEF ReceiveForward, Lost, Follows
  <2> SUFFICES ASSUME Head(toClient) # Junk PROVE Follows'
    BY <2>0
  <2>1. /\ phase = "running" /\ Reading /\ dir' = Applied(dir, Head(toClient))
        /\ UNCHANGED <<stored, phase, todo, mirrored, logged, toServer>>
    BY <1>4 DEF ReceiveForward
  <2>2. Follows
    BY <2>1 DEF Misled
  <2>3. ASSUME NEW n \in Name, mirrored PROVE Becomes(dir', toClient', n)
    <3>1. Becomes(dir, toClient, n)
      BY <2>1, <2>2, <2>3 DEF Follows, StartupMirrors
    <3> QED BY <2>1, <3>1, AppliedBecomes DEF Reading, TypeOK
  <2>4. StartupMirrors'
    BY <2>1, <2>3 DEF StartupMirrors, Becomes
  <2>5. ~LoggingIn
    BY <2>1, <2>2 DEF Follows, LoggingIn
  <2> QED BY <2>1, <2>2, <2>4, <2>5 DEF Follows
<1>5. CASE ReadPastPayload
  BY <1>5 DEF ReadPastPayload, Lost, Follows
<1> QED BY <1>0, <1>1, <1>2, <1>3, <1>4, <1>5 DEF Client

LEMMA HandlersFollow ==
  ASSUME ClientInv, ClientHandlerStep
  PROVE  Misled' \/ Follows'
<1> USE DEF ClientInv
<1>0. /\ UNCHANGED <<stored, dir, phase, todo, mirrored>> /\ toServer # << >>
      /\ toServer' = Tail(toServer)
      /\ HandleLogin \/ HandleList \/ HandleDownload
  BY DEF ClientHandlerStep, ClientHandlers, HandleLogin, HandleList, HandleDownload, Reads
<1>1. CASE Misled
  <2>1. toClient' # << >> /\ Head(toClient') = Head(toClient)
    <3>1. HandleLogin => toClient' = toClient
      BY DEF HandleLogin
    <3>2. HandleList => toClient' = Append(toClient, [type |-> "LIST", list |-> Listing(stored)])
      BY DEF HandleList, Lists, TypeOK
    <3>3. HandleDownload => toClient' = Append(toClient, Answer(Head(toServer).name))
      BY DEF HandleDownload
    <3>4. \A m : Append(toClient, m) # << >> /\ Head(Append(toClient, m)) = Head(toClient)
      <4>1. toClient \in Seq(ClientReads) /\ toClient # << >>
        BY <1>1 DEF Misled, TypeOK
      <4> QED BY <4>1, SameHead
    <3> QED BY <1>0, <1>1, <3>1, <3>2, <3>3, <3>4 DEF Misled
  <2> QED BY <1>0, <1>1, <2>1 DEF Misled
<1>2. CASE phase = "lost"
  BY <1>0, <1>2 DEF Follows
<1>3. ASSUME ~Misled, phase # "lost"
      PROVE  \/ phase = "list" /\ LoggingIn /\ Head(toServer).type = "LOGIN"
             \/ /\ phase = "list" /\ toServer = <<[type |-> "LIST"]>> /\ toClient = << >>
                /\ logged /\ Head(toServer).type = "LIST"
             \/ /\ phase = "download" /\ Requested /\ todo # {} /\ logged
                /\ Head(toServer).type = "DOWNLOAD"
  <2>1. phase \in {"list", "download"}
    BY <1>0, <1>3 DEF Follows, TypeOK
  <2>2. CASE phase = "list"
    <3>1. LoggingIn \/ (toServer = <<[type |-> "LIST"]>> /\ toClient = << >>)
      BY <1>0, <1>3, <2>2 DEF Follows, ListCame, Answered
    <3>2. ASSUME LoggingIn PROVE Head(toServer).type = "LOGIN"
      BY <3>2 DEF LoggingIn
    <3>3. ASSUME toServer = <<[type |-> "LIST"]>> PROVE Head(toServer).type = "LIST" /\ ~LoggingIn
      BY <3>3 DEF LoggingIn
    <3> QED BY <1>3, <2>2, <3>1, <3>2, <3>3 DEF Follows
  <2>3. CASE phase = "download"
    <3>1. Requested /\ todo # {}
      BY <1>0, <1>3, <2>3 DEF Follows, FileCame, Answered
    <3>2. Head(toServer).type = "DOWNLOAD" /\ ~LoggingIn
      BY <3>1, OneMessage, Types DEF Requested, LoggingIn
    <3> QED BY <1>3, <2>3, <3>1, <3>2 DEF Follows
  <2> QED BY <2>1, <2>2, <2>3
<1>4. CASE HandleLogin /\ ~Misled /\ phase # "lost"
  <2>1. Head(toServer).type = "LOGIN" /\ logged' = TRUE /\ UNCHANGED toClient
    BY <1>4 DEF HandleLogin, Reads
  <2>2. phase = "list" /\ LoggingIn
    BY <1>3, <1>4, <2>1
  <2>3. toServer' = <<[type |-> "LIST"]>> /\ toClient' = << >>
    BY <1>0, <2>1, <2>2 DEF LoggingIn
  <2> QED BY <1>0, <1>4, <2>1, <2>2, <2>3 DEF Follows
<1>5. CASE HandleList /\ ~Misled /\ phase # "lost"
  <2> DEFINE msg == [type |-> "LIST", list |-> Listing(stored)]
  <2>1. Head(toServer).type = "LIST" /\ toClient' = toClient \o <<msg>> /\ UNCHANGED logged
    BY <1>5 DEF HandleList, Reads, Lists
  <2>2. /\ phase = "list" /\ toServer = <<[type |-> "LIST"]>> /\ toClient = << >> /\ ~mirrored
    BY <1>3, <1>5, <2>1 DEF Follows
  <2>3. toServer' = << >> /\ toClient' = <<msg>> /\ logged
    BY <1>0, <1>3, <1>5, <2>1, <2>2
  <2>4. Head(toClient') = msg /\ DOMAIN toClient' = {1}
    BY <2>3
  <2>5. \A n \in Name : Listed(n)'
    <3> SUFFICES ASSUME NEW n \in Name PROVE Listed(n)'
      OBVIOUS
    <3>1. Untouched(toClient', 1, n)
      BY <2>3, OnlyMessage
    <3>2. ListSays(Listing(stored), n)'
      BY <1>0, ListingSays DEF ListSays, Files, Listing
    <3>3. Listing(stored)' = Head(toClient').list
      BY <1>0, <2>4 DEF Listing, Files
    <3> QED BY <3>1, <3>2, <3>3 DEF Listed
  <2>6. ListCame'
    BY <2>3, <2>4, <2>5 DEF ListCame, Answered
  <2> QED BY <1>0, <2>1, <2>2, <2>3, <2>6 DEF Follows
<1>6. CASE HandleDownload /\ ~Misled /\ phase # "lost"
  <2>1. /\ Head(toServer).type = "DOWNLOAD" /\ UNCHANGED logged
        /\ toClient' = Append(toClient, Answer(Head(toServer).name))
    BY <1>6 DEF HandleDownload, Reads
  <2>2. phase = "download" /\ Requested /\ todo # {} /\ logged
    BY <1>3, <1>6, <2>1
  <2>3. First(todo) \in todo /\ First(todo) \in Name
    BY <2>2, FirstIsOne DEF TypeOK
  <2>4. First(todo) \in Files(stored)
    BY <2>2, <2>3 DEF Requested, Due
  <2> DEFINE msg == [type |-> "BYTES", data |-> stored[First(todo)]]
  <2>5. /\ toServer' = << >> /\ toClient' = <<msg>>
    <3>1. Head(toServer).name = First(todo) /\ toServer' = << >> /\ toClient = << >>
      BY <1>0, <2>2, OneMessage DEF Requested, Download
    <3>2. Answer(First(todo)) = msg
      BY <2>4 DEF Answer, Files
    <3> QED BY <2>1, <3>1, <3>2
  <2>6. Head(toClient') = msg /\ DOMAIN toClient' = {1}
    BY <2>5
  <2>7. \A n \in Name : Served(n)'
    <3> SUFFICES ASSUME NEW n \in Name PROVE Served(n)'
      OBVIOUS
    <3>1. Untouched(toClient', 1, n)
      BY <2>5, OnlyMessage
    <3>2. Due(n)' /\ First(todo') = First(todo) /\ stored' = stored
      BY <1>0, <2>2 DEF Requested, Due, Files
    <3>3. n = First(todo) => Alike(Head(toClient').data, stored[n])
      BY <2>6, AlikeIsEquality
    <3> QED BY <3>1, <3>2, <3>3 DEF Served
  <2>8. FileCame'
    BY <2>5, <2>6, <2>7 DEF FileCame, Answered
  <2> QED BY <1>0, <2>1, <2>2, <2>8 DEF Follows
<1> QED BY <1>0, <1>1, <1>2, <1>4, <1>5, <1>6

\* A message says what the files it changes have become.
Tells(msg) == \A j \in Name : \/ Changes(msg, j) /\ Alike(Made(msg), stored'[j])
                              \/ ~Changes(msg, j) /\ stored'[j] = stored[j]

\* What the server writes to the client unasked says what the files are, or is what the
\* client reads instead of its answer.
LEMMA NotifiedFollows ==
  ASSUME ClientInv, NEW msg \in ClientReads, msg.type \in Unasked, Tells(msg),
         Notify(msg), UNCHANGED <<dir, phase, todo, mirrored, logged, toServer>>
  PROVE  Misled' \/ Follows'
<1>1. CASE Misled
  <2>1. toClient' # << >> /\ Head(toClient') = Head(toClient)
    <3>1. \A m : Append(toClient, m) # << >> /\ Head(Append(toClient, m)) = Head(toClient)
      <4>1. toClient \in Seq(ClientReads) /\ toClient # << >>
        BY <1>1 DEF Misled, ClientInv, TypeOK
      <4> QED BY <4>1, SameHead
    <3> QED BY <1>1, <3>1 DEF Notify, Misled
  <2> QED BY <1>1, <2>1 DEF Misled
<1>2. CASE phase = "lost"
  BY <1>2 DEF Follows
<1>3. ASSUME ~Misled, phase # "lost", ~logged PROVE Follows'
  <2>1. Follows /\ toClient' = toClient
    BY <1>3 DEF ClientInv, Notify
  <2>2. phase = "offline" \/ (phase = "list" /\ LoggingIn)
    <3>1. ASSUME LoggingIn PROVE phase \notin {"download", "running"}
      <4>1. Len(toServer) = 2
        BY <3>1 DEF LoggingIn
      <4>2. \A m : toServer = <<m>> => Len(toServer) = 1
        OBVIOUS
      <4>3. toServer = << >> => Len(toServer) = 0
        OBVIOUS
      <4> QED BY <2>1, <4>1, <4>2, <4>3 DEF Follows, Requested, FileCame, Answered
    <3> QED BY <1>3, <2>1, <3>1 DEF Follows, ClientInv, TypeOK
  <2> QED BY <2>1, <2>2 DEF Follows, LoggingIn
<1>4. ASSUME ~Misled, phase # "lost", logged PROVE Misled' \/ Follows'
  <2>1. /\ Follows /\ phase # "offline" /\ logged' = logged
        /\ toClient' = Append(toClient, msg) /\ toClient \in Seq(ClientReads)
    BY <1>4 DEF ClientInv, Notify, Follows, TypeOK
  <2>2. ASSUME toClient = << >>, phase \in {"list", "download"} PROVE Misled'
    <3>1. toClient' # << >> /\ Head(toClient') = msg
      BY <2>1, <2>2
    <3> QED BY <2>1, <2>2, <3>1 DEF Misled
  <2>3. ASSUME NEW k \in 0 .. Len(toClient), NEW j \in Name
        PROVE  \/ Remade(toClient', k, j, stored'[j])
               \/ /\ Untouched(toClient, k, j) => Untouched(toClient', k, j)
                  /\ Remade(toClient, k, j, stored[j]) => Remade(toClient', k, j, stored'[j])
                  /\ stored'[j] = stored[j]
    <3>1. CASE Changes(msg, j) /\ Alike(Made(msg), stored'[j])
      BY <2>1, <3>1, OneMore
    <3>2. CASE ~Changes(msg, j) /\ stored'[j] = stored[j]
      BY <2>1, <3>2, OneMore
    <3> QED BY <3>1, <3>2 DEF Tells
  <2>4. ASSUME toClient # << >>
        PROVE  /\ toClient' # << >> /\ Head(toClient') = Head(toClient) /\ 1 \in 0 .. Len(toClient)
               /\ \A i \in DOMAIN toClient' :
                    \/ i \in DOMAIN toClient /\ toClient'[i] = toClient[i]
                    \/ toClient'[i] = msg
    BY <2>1, <2>4
  <2>5. /\ Answered("LIST") => Answered("LIST")'
        /\ Answered("BYTES") => Answered("BYTES")'
    BY <2>1, <2>4 DEF Answered
  <2>6. CASE phase = "list" /\ toClient # << >>
    <3>1. ListCame
      BY <2>1, <2>6 DEF Follows, LoggingIn
    <3>2. \A j \in Name : Listed(j)'
      BY <2>3, <2>4, <2>6, <3>1 DEF ListCame, Listed, ListSays, Files
    <3>3. ListCame'
      BY <2>5, <3>1, <3>2 DEF ListCame
    <3> QED BY <1>4, <2>1, <2>6, <3>3 DEF Follows
  <2>7. CASE phase = "download" /\ toClient # << >>
    <3>1. FileCame /\ todo # {}
      BY <2>1, <2>7 DEF Follows, Requested
    <3>2. \A j \in Name : Served(j)'
      BY <2>3, <2>4, <2>7, <3>1 DEF FileCame, Served, Due, Files
    <3>3. FileCame'
      BY <2>5, <3>1, <3>2 DEF FileCame
    <3> QED BY <1>4, <2>1, <2>7, <3>1, <3>3 DEF Follows
  <2>8. CASE phase = "running"
    <3>1. 0 \in 0 .. Len(toClient)
      BY <2>1
    <3>2. StartupMirrors'
      BY <2>1, <2>3, <2>8, <3>1 DEF Follows, StartupMirrors, Becomes
    <3> QED BY <1>4, <2>1, <2>8, <3>2 DEF Follows
  <2> QED BY <1>4, <2>1, <2>2, <2>6, <2>7, <2>8 DEF ClientInv, TypeOK
<1> QED BY <1>1, <1>2, <1>3, <1>4

\* The changes of the other machine, and an announcement.
LEMMA Telling ==
  ASSUME TypeOK
  PROVE  /\ \A n \in Name : stored' = [stored EXCEPT ![n] = Absent] =>
              Tells(Delete(n)) /\ Delete(n) \in ClientReads
         /\ \A n \in Name, x \in Content : stored' = [stored EXCEPT ![n] = x] =>
              Tells(Upload(n, x)) /\ Upload(n, x) \in ClientReads \cap ReplicaReads
         /\ \A msg \in Announced : stored' = stored => Tells(msg) /\ msg \in ClientReads \cap ReplicaReads
<1>1. ASSUME NEW n \in Name, stored' = [stored EXCEPT ![n] = Absent] PROVE Tells(Delete(n))
  <2>1. /\ \A j : Changes(Delete(n), j) <=> j = n
        /\ Made(Delete(n)) = Absent
    BY DEF Delete, Changes, Made
  <2>2. stored'[n] = Absent /\ \A k \in Name : k # n => stored'[k] = stored[k]
    BY <1>1 DEF TypeOK, Directory
  <2> QED BY <2>1, <2>2, AlikeIsEquality DEF Tells
<1>2. ASSUME NEW n \in Name, NEW x \in Content, stored' = [stored EXCEPT ![n] = x]
      PROVE  Tells(Upload(n, x))
  <2>1. /\ \A j : Changes(Upload(n, x), j) <=> j = n
        /\ Made(Upload(n, x)) = x
    BY DEF Upload, Changes, Made
  <2>2. stored'[n] = x /\ \A k \in Name : k # n => stored'[k] = stored[k]
    BY <1>2 DEF TypeOK, Directory
  <2> QED BY <2>1, <2>2, AlikeIsEquality DEF Tells
<1>3. ASSUME NEW msg \in Announced, stored' = stored PROVE Tells(msg)
  BY <1>3 DEF Tells, Changes, Announced, Coordinator, Junk
<1>4. \A n \in Name : Delete(n) \in ClientReads
  BY DEF ClientReads, FileMessage, Delete
<1>5. \A n \in Name, x \in Content : Upload(n, x) \in ClientReads \cap ReplicaReads
  BY UploadIsMessage DEF ClientReads, ReplicaReads
<1>6. Announced \subseteq ClientReads \cap ReplicaReads
  BY DEF ClientReads, ReplicaReads
<1> QED BY <1>1, <1>2, <1>3, <1>4, <1>5, <1>6

LEMMA MessageTypes ==
  /\ \A n : Delete(n).type = "DELETE"
  /\ \A n, x : Upload(n, x).type = "UPLOAD"
  /\ Coordinator.type = "COORDINATOR" /\ Junk.type = "JUNK"
BY DEF Delete, Upload, Coordinator, Junk

LEMMA OthersFollow ==
  ASSUME ClientInv, OtherMachine \/ Election \/ ReplicaStep \/ ReplicaHandlerStep \/ UNCHANGED vars
  PROVE  Misled' \/ Follows'
<1>0. TypeOK
  BY DEF ClientInv
<1>1. ASSUME UNCHANGED <<stored, dir, phase, todo, mirrored, logged, toServer, toClient>>
      PROVE  Misled' \/ Follows'
  BY <1>1 DEF ClientInv, Misled, Follows, LoggingIn, ListCame, Requested, FileCame, Answered, Listed,
              Served, Due, ListSays, Files, StartupMirrors, Becomes
<1>2. ASSUME NEW n \in Name, HandleDelete(n) PROVE Misled' \/ Follows'
  <2>1. Tells(Delete(n)) /\ Delete(n) \in ClientReads /\ Delete(n).type \in Unasked
    BY <1>0, <1>2, Telling, MessageTypes DEF HandleDelete, Unasked
  <2> QED BY <1>2, <2>1, NotifiedFollows DEF HandleDelete
<1>3. ASSUME NEW n \in Name, NEW x \in Content, HandleUpload(n, x) PROVE Misled' \/ Follows'
  <2>1. CASE UNCHANGED <<stored, toClient>>
    BY <1>1, <1>3, <2>1 DEF HandleUpload
  <2>2. CASE stored' = [stored EXCEPT ![n] = x] /\ Notify(Upload(n, x))
    <3>1. Tells(Upload(n, x)) /\ Upload(n, x) \in ClientReads /\ Upload(n, x).type \in Unasked
      BY <1>0, <2>2, Telling, MessageTypes DEF Unasked
    <3> QED BY <1>3, <2>2, <3>1, NotifiedFollows DEF HandleUpload
  <2> QED BY <1>3, <2>1, <2>2 DEF HandleUpload
<1>4. CASE AnnounceToClients
  <2>1. CASE UNCHANGED toClient
    BY <1>1, <1>4, <2>1 DEF AnnounceToClients
  <2>2. ASSUME NEW msg \in Announced, Notify(msg) PROVE Misled' \/ Follows'
    <3>1. Tells(msg) /\ msg \in ClientReads /\ msg.type \in Unasked
      BY <1>0, <1>4, Telling, MessageTypes DEF AnnounceToClients, Announced, Unasked
    <3> QED BY <1>4, <2>2, <3>1, NotifiedFollows DEF AnnounceToClients
  <2> QED BY <1>4, <2>1, <2>2 DEF AnnounceToClients
<1>5. AnnounceToReplicas \/ ReplicaStep \/ ReplicaHandlerStep \/ UNCHANGED vars
        => UNCHANGED <<stored, dir, phase, todo, mirrored, logged, toServer, toClient>>
  BY DEF AnnounceToReplicas, ReplicaStep, ReplicaHandlerStep, Joining, vars, startupVars, Replica, Accept,
         HandleListUser, ReceiveBytes, HandleReplicaUpload, HandleCoordinator, HandleJunk,
         ReplicaReadsPast, HandleReplicaList, HandleReplicaDownload
<1> QED BY <1>1, <1>2, <1>3, <1>4, <1>5 DEF OtherMachine, Election

\* A client that was given a list has the server's directory once it applied what is
\* on its way, for any number of files, and of changes and announcements that
\* arrive meanwhile (dripbox_client_list_server, dripbox_client_network_worker).
THEOREM StartupMirrorsInvariant == Spec => []StartupMirrors
<1>1. Init => ClientInv
  BY InitTypes, InitFollows DEF ClientInv
<1>2. ClientInv /\ [Next]_vars => ClientInv'
  <2>1. ClientInv /\ [Next]_vars => TypeOK'
    BY TypesPreserved DEF ClientInv
  <2> QED BY <2>1, ClientFollows, HandlersFollow, OthersFollow DEF Next, ClientInv
<1>3. ClientInv => StartupMirrors
  BY DEF ClientInv, Misled, Follows, StartupMirrors
<1> QED BY <1>1, <1>2, <1>3, PTL DEF Spec

-----------------------------------------------------------------------------
(* The replica *)

\* What it reads next is not the file it waits for.
Misread == /\ replica = "download" /\ toReplica # << >>
           /\ Head(toReplica).type # "BYTES"

\* A message is torn: what is behind it is of no use.
Garbled == ~Whole(toReplica)

Forwarded == {"UPLOAD", "COORDINATOR"}

OnlyForwarded(k) == \A i \in DOMAIN toReplica : i > k => toReplica[i].type \in Forwarded

\* A list and the changes behind it say what the file is.
Covered(i, n) ==
  \/ Untouched(toReplica, i, n) /\ ListSays(toReplica[i].list, n)
  \/ Remade(toReplica, i, n, stored[n])

\* The lists of all who are logged in were sent at once.
ListsCame ==
  /\ fromReplica = << >>
  /\ \A i \in DOMAIN toReplica : toReplica[i].type \in Forwarded \cup {"LIST_USER"}
  /\ \A i, j \in DOMAIN toReplica :
       toReplica[i].type = "LIST_USER" /\ toReplica[j].type = "LIST_USER"
         => toReplica[i].list = toReplica[j].list
  /\ \A i \in DOMAIN toReplica :
       toReplica[i].type = "LIST_USER" => \A n \in Files(stored) : Covered(i, n)

Synced(n) == n \in wanted \/ Alike(copy[n], stored[n])

Fetching == /\ fromReplica = <<Download(First(wanted))>> /\ toReplica = << >>
            /\ \A n \in Files(stored) : Synced(n)

Sent(n) ==
  \/ /\ Untouched(toReplica, 1, n)
     /\ IF n = First(wanted) THEN Alike(Head(toReplica).data, stored[n]) ELSE Synced(n)
  \/ Remade(toReplica, 1, n, stored[n])

BytesCame == /\ fromReplica = << >> /\ toReplica # << >> /\ OnlyForwarded(1)
             /\ \A n \in Files(stored) : Sent(n)

\* A list that asks for nothing.
Nothing(m) == m.type = "LIST_USER" /\ m.list = {}

Agrees == \A n \in Files(stored) : Becomes(copy, toReplica, n)

KeepsUp ==
  /\ replica = "joining"  => toReplica # << >> /\ fromReplica = << >> /\ OnlyForwarded(1)
  /\ replica = "waiting"  => \/ fromReplica = <<[type |-> "LIST"]>> /\ OnlyForwarded(0)
                             \/ ListsCame
  /\ replica = "download" => wanted # {} /\ (Fetching \/ BytesCame)
  /\ replica = "idle"     =>
       /\ fromReplica = << >> /\ Agrees
       /\ \A i \in DOMAIN toReplica : toReplica[i].type \in Forwarded \/ Nothing(toReplica[i])

ReplicaInv == TypeOK /\ (Misread \/ KeepsUp)

LEMMA InitKeepsUp == Init => KeepsUp
BY DEF Init, ReplicationInit, KeepsUp, OnlyForwarded

\* A torn message stays where it is, until it is the first.
LEMMA JunkStays ==
  ASSUME NEW s \in Seq(ReplicaReads), Contains(s, Junk)
  PROVE  /\ s # << >> /\ (Head(s) # Junk => Contains(Tail(s), Junk))
         /\ \A t \in Seq(ReplicaReads) : Contains(s \o t, Junk)
<1>1. PICK i \in 1 .. Len(s) : s[i] = Junk
  BY DEF Contains
<1>2. s # << >>
  BY <1>1
<1>3. ASSUME Head(s) # Junk PROVE Contains(Tail(s), Junk)
  <2>1. i > 1 /\ Len(Tail(s)) = Len(s) - 1 /\ Tail(s)[i - 1] = s[i]
    BY <1>1, <1>2, <1>3
  <2>2. i - 1 \in 1 .. Len(Tail(s))
    BY <2>1
  <2> QED BY <1>1, <2>1, <2>2 DEF Contains
<1>4. ASSUME NEW t \in Seq(ReplicaReads) PROVE Contains(s \o t, Junk)
  <2>1. i \in 1 .. Len(s \o t) /\ (s \o t)[i] = s[i]
    BY <1>1
  <2> QED BY <1>1, <2>1 DEF Contains
<1> QED BY <1>2, <1>3, <1>4

LEMMA JunkIsLast ==
  ASSUME NEW s \in Seq(ReplicaReads)
  PROVE  Contains(s \o <<Junk>>, Junk)
<1>1. Len(s) + 1 \in 1 .. Len(s \o <<Junk>>) /\ (s \o <<Junk>>)[Len(s) + 1] = Junk
  OBVIOUS
<1> QED BY <1>1 DEF Contains

\* What is true of all messages is true of those behind one that changes nothing.
LEMMA FirstSkipped ==
  ASSUME NEW S, NEW s \in Seq(S), s # << >>, NEW n, NEW x, ~Changes(Head(s), n)
  PROVE  /\ Untouched(s, 0, n) => Untouched(s, 1, n)
         /\ Remade(s, 0, n, x) => Remade(s, 1, n, x)
<1>1. 1 \in DOMAIN s /\ s[1] = Head(s) /\ DOMAIN s = 1 .. Len(s) /\ Len(s) \in Nat
  OBVIOUS
<1>2. \A i \in DOMAIN s : Changes(s[i], n) => i > 1
  BY <1>1
<1> QED BY <1>2 DEF Untouched, Remade

\* The next request, after a list or a file was taken: a file of the server is
\* requested, or there, or was changed behind what was taken.
LEMMA NextFetch ==
  ASSUME TypeOK, UNCHANGED stored, fromReplica = << >>, Takes,
         NEW names \in SUBSET Name, Fetch(names),
         \A i \in DOMAIN toReplica :
           i > 1 => /\ toReplica[i].type \in Forwarded \cup {"LIST_USER"}
                    /\ names = {} => toReplica[i].type \in Forwarded \/ Nothing(toReplica[i]),
         \A n \in Files(stored) :
           \/ Untouched(toReplica, 1, n) /\ (n \in names \/ Alike(copy'[n], stored[n]))
           \/ Remade(toReplica, 1, n, stored[n])
  PROVE  Misread' \/ KeepsUp'
<1>1. /\ toReplica # << >> /\ toReplica' = Tail(toReplica) /\ toReplica \in Seq(ReplicaReads)
      /\ wanted' = names /\ 1 \in 1 .. Len(toReplica) /\ Files(stored)' = Files(stored)
  BY DEF Takes, Fetch, TypeOK, Files
<1>2. \A n \in Files(stored) :
        \/ Untouched(toReplica', 0, n) /\ (n \in names \/ Alike(copy'[n], stored[n]))
        \/ Remade(toReplica', 0, n, stored[n])
  <2>1. 1 - 1 = 0
    OBVIOUS
  <2> QED BY <1>1, <2>1, OneLess
<1>3. \A i \in DOMAIN toReplica' : i + 1 \in DOMAIN toReplica /\ i + 1 > 1 /\ toReplica'[i] = toReplica[i + 1]
  BY <1>1
<1>4. CASE names = {}
  <2>1. replica' = "idle" /\ fromReplica' = << >>
    BY <1>4 DEF Fetch
  <2>2. Agrees'
    BY <1>1, <1>2, <1>4 DEF Agrees, Becomes
  <2>3. \A i \in DOMAIN toReplica' : toReplica'[i].type \in Forwarded \/ Nothing(toReplica'[i])
    BY <1>3, <1>4
  <2> QED BY <2>1, <2>2, <2>3 DEF KeepsUp
<1>5. CASE names # {}
  <2>1. replica' = "download" /\ fromReplica' = <<Download(First(wanted'))>>
    BY <1>1, <1>5 DEF Fetch
  <2>2. CASE toReplica' = << >>
    <3>1. \A n \in Name : ~Remade(toReplica', 0, n, stored[n])
      BY <2>2, NoMessages
    <3>2. \A n \in Files(stored) : n \in Name /\ Synced(n)'
      BY <1>1, <1>2, <3>1 DEF Synced, Files
    <3>3. Fetching'
      BY <1>1, <2>1, <2>2, <3>2 DEF Fetching
    <3> QED BY <1>1, <1>5, <2>1, <3>3 DEF KeepsUp
  <2>3. CASE toReplica' # << >>
    <3>1. 1 \in DOMAIN toReplica' /\ Head(toReplica') = toReplica'[1]
      BY <1>1, <2>3
    <3>2. Head(toReplica').type \in Forwarded \cup {"LIST_USER"}
      BY <1>3, <3>1
    <3> QED BY <2>1, <2>3, <3>2 DEF Misread, Forwarded
  <2> QED BY <2>2, <2>3
<1> QED BY <1>4, <1>5

\* A list that does not clash with the copy asks for something.
LEMMA ListAsks ==
  ASSUME NEW list, NEW d, list # {}, ~Clash(list, Listing(d))
  PROVE  ToDownload(list, Listing(d)) # {}
<1>1. PICK e \in list : TRUE
  OBVIOUS
<1>2. ~Has(Listing(d), e, SameFile)
  <2>1. \A k \in Listing(d) : k.name # e.name
    BY DEF Clash
  <2> QED BY <2>1 DEF Has, SameFile
<1>3. e.name \in ToDownload(list, Listing(d))
  BY <1>2 DEF ToDownload, Difference, NamesOf
<1> QED BY <1>3

LEMMA ListUserKeepsUp ==
  ASSUME ReplicaInv, HandleListUser
  PROVE  Misread' \/ KeepsUp'
<1> DEFINE list == Head(toReplica).list
<1>1. /\ replica \in {"waiting", "idle"} /\ Takes /\ toReplica # << >> /\ KeepsUp /\ TypeOK
      /\ Head(toReplica).type = "LIST_USER" /\ UNCHANGED stored
  BY DEF HandleListUser, Handling, Takes, ReplicaInv, Misread
<1>2. /\ toReplica \in Seq(ReplicaReads) /\ 1 \in DOMAIN toReplica /\ toReplica[1] = Head(toReplica)
      /\ Head(toReplica) \in ReplicaReads
  BY <1>1, SeqEnds DEF TypeOK
<1>3. list \in SUBSET Entry
  BY <1>1, <1>2, Fields
<1>4. CASE replica = "idle"
  <2>1. /\ fromReplica = << >> /\ Agrees
        /\ \A i \in DOMAIN toReplica : toReplica[i].type \in Forwarded \/ Nothing(toReplica[i])
    BY <1>1, <1>4 DEF KeepsUp
  <2>2. Nothing(Head(toReplica))
    BY <1>1, <1>2, <2>1 DEF Forwarded
  <2>3. Fetch({}) /\ UNCHANGED copy
    BY <2>2 DEF HandleListUser, Nothing
  <2>4. \A n : ~Changes(Head(toReplica), n)
    BY <1>1 DEF Changes
  <2>5. \A n \in Files(stored) :
          \/ Untouched(toReplica, 1, n) /\ (n \in {} \/ Alike(copy'[n], stored[n]))
          \/ Remade(toReplica, 1, n, stored[n])
    BY <1>1, <1>2, <1>4, <2>1, <2>3, <2>4, FirstSkipped DEF Agrees, Becomes
  <2>6. \A i \in DOMAIN toReplica : toReplica[i].type \in Forwarded \cup {"LIST_USER"}
    BY <2>1 DEF Nothing
  <2> QED BY <1>1, <2>1, <2>3, <2>5, <2>6, NextFetch
<1>5. CASE replica = "waiting"
  <2>1. ListsCame
    BY <1>1, <1>2, <1>5 DEF KeepsUp, OnlyForwarded, Forwarded
  <2>2. /\ fromReplica = << >> /\ \A n \in Files(stored) : Covered(1, n)
        /\ \A i \in DOMAIN toReplica : toReplica[i].type \in Forwarded \cup {"LIST_USER"}
        /\ \A i \in DOMAIN toReplica : toReplica[i].type = "LIST_USER" => toReplica[i].list = list
    BY <1>1, <1>2, <2>1 DEF ListsCame
  <2>3. CASE list = {}
    <3>1. Fetch({}) /\ UNCHANGED copy
      BY <2>3 DEF HandleListUser
    <3>2. \A n \in Files(stored) : Remade(toReplica, 1, n, stored[n])
      BY <1>2, <2>2, <2>3 DEF Covered, ListSays
    <3>3. \A i \in DOMAIN toReplica : toReplica[i].type \in Forwarded \/ Nothing(toReplica[i])
      BY <2>2, <2>3 DEF Nothing
    <3> QED BY <1>1, <2>2, <3>1, <3>2, <3>3, NextFetch
  <2>4. CASE list # {}
    <3> DEFINE names == ToDownload(list, Listing(copy))
    <3>1. \/ Fails("dead")
          \/ /\ ~Clash(list, Listing(copy)) /\ Fetch(names)
             /\ copy' = Without(copy, ToDelete(list, Listing(copy)))
      BY <2>4 DEF HandleListUser
    <3>2. CASE Fails("dead")
      BY <3>2 DEF Fails, KeepsUp
    <3>3. CASE /\ ~Clash(list, Listing(copy)) /\ Fetch(names)
               /\ copy' = Without(copy, ToDelete(list, Listing(copy)))
      <4>1. names \in SUBSET Name /\ names # {}
        BY <1>1, <1>3, <2>4, <3>3, Comparisons, ListAsks DEF TypeOK
      <4>2. ASSUME NEW n \in Files(stored)
            PROVE  \/ Untouched(toReplica, 1, n) /\ (n \in names \/ Alike(copy'[n], stored[n]))
                   \/ Remade(toReplica, 1, n, stored[n])
        <5>1. n \in Name
          BY DEF Files
        <5>2. ListSays(list, n) => n \in names \/ Alike(copy'[n], stored[n])
          BY <1>1, <1>3, <3>3, <5>1, ComparedByList DEF TypeOK
        <5> QED BY <1>2, <2>2, <5>2 DEF Covered
      <4> HIDE DEF names, list
      <4> QED BY <1>1, <2>2, <3>3, <4>1, <4>2, NextFetch
    <3> QED BY <3>1, <3>2, <3>3
  <2> QED BY <2>3, <2>4
<1> QED BY <1>1, <1>4, <1>5

LEMMA BytesKeepUp ==
  ASSUME ReplicaInv, ReceiveBytes
  PROVE  Misread' \/ KeepsUp'
<1>1. replica = "download" /\ Takes /\ toReplica # << >> /\ UNCHANGED stored /\ TypeOK
  BY DEF ReceiveBytes, Takes, ReplicaInv
<1>2. CASE Head(toReplica).type # "BYTES"
  BY <1>2 DEF ReceiveBytes, Fails, KeepsUp
<1>3. CASE Head(toReplica).type = "BYTES"
  <2> DEFINE f == First(wanted)
             names == wanted \ {f}
  <2>1. BytesCame /\ wanted # {}
    BY <1>1, <1>3 DEF ReplicaInv, Misread, KeepsUp, Fetching
  <2>2. copy' = [copy EXCEPT ![f] = Head(toReplica).data] /\ Fetch(names)
    BY <1>3 DEF ReceiveBytes
  <2>3. f \in Name /\ f \in wanted /\ names \in SUBSET Name
    BY <1>1, <2>1, FirstIsOne DEF TypeOK
  <2>4. ASSUME NEW n \in Files(stored)
        PROVE  \/ Untouched(toReplica, 1, n) /\ (n \in names \/ Alike(copy'[n], stored[n]))
               \/ Remade(toReplica, 1, n, stored[n])
    <3>1. n \in Name /\ Sent(n)
      BY <2>1 DEF BytesCame, Files
    <3>2. n = f => copy'[n] = Head(toReplica).data
      BY <1>1, <2>2, <2>3 DEF TypeOK, Directory
    <3>3. n # f => copy'[n] = copy[n]
      BY <1>1, <2>2, <2>3, <3>1 DEF TypeOK, Directory
    <3> QED BY <3>1, <3>2, <3>3 DEF Sent, Synced
  <2>5. fromReplica = << >> /\ \A i \in DOMAIN toReplica : i > 1 => toReplica[i].type \in Forwarded
    BY <2>1 DEF BytesCame, OnlyForwarded
  <2> HIDE DEF f, names
  <2> QED BY <1>1, <2>2, <2>3, <2>4, <2>5, NextFetch
<1> QED BY <1>2, <1>3

LEMMA ForwardedKeepsUp ==
  ASSUME ReplicaInv, HandleReplicaUpload \/ HandleCoordinator
  PROVE  Misread' \/ KeepsUp'
<1>1. /\ replica \in {"waiting", "idle"} /\ toReplica # << >> /\ toReplica' = Tail(toReplica)
      /\ KeepsUp /\ TypeOK /\ Head(toReplica).type \in Forwarded
      /\ UNCHANGED <<stored, replica, wanted, fromReplica>>
  BY DEF HandleReplicaUpload, HandleCoordinator, Handling, Takes, ReplicaInv, Misread, Forwarded
<1>2. /\ toReplica \in Seq(ReplicaReads) /\ Files(stored)' = Files(stored)
      /\ \A i \in DOMAIN toReplica' :
           /\ i + 1 \in DOMAIN toReplica /\ toReplica'[i] = toReplica[i + 1]
           /\ i + 1 \in 1 .. Len(toReplica) /\ (i + 1) - 1 = i /\ (i > 0 => i + 1 > 0)
  <2>1. toReplica \in Seq(ReplicaReads) /\ Files(stored)' = Files(stored)
    BY <1>1 DEF TypeOK, Files
  <2>2. /\ DOMAIN toReplica = 1 .. Len(toReplica) /\ Len(toReplica) \in Nat
        /\ DOMAIN toReplica' = 1 .. Len(toReplica) - 1
        /\ \A i \in 1 .. Len(toReplica) - 1 : toReplica'[i] = toReplica[i + 1]
    BY <1>1, <2>1
  <2> QED BY <2>1, <2>2
<1>3. CASE replica = "waiting"
  <2>1. OnlyForwarded(0) => OnlyForwarded(0)'
    BY <1>2 DEF OnlyForwarded
  <2>2. ASSUME ListsCame PROVE ListsCame'
    <3>1. ASSUME NEW i \in DOMAIN toReplica', NEW n \in Files(stored), Covered(i + 1, n)
          PROVE  Covered(i, n)'
      <4>1. /\ Untouched(toReplica, i + 1, n) => Untouched(toReplica', i, n)
            /\ Remade(toReplica, i + 1, n, stored[n]) => Remade(toReplica', i, n, stored[n])
        BY <1>1, <1>2, OneLess
      <4> QED BY <1>1, <1>2, <3>1, <4>1 DEF Covered, ListSays, Files
    <3> QED BY <1>1, <1>2, <2>2, <3>1 DEF ListsCame
  <2> QED BY <1>1, <1>3, <2>1, <2>2 DEF KeepsUp
<1>4. CASE replica = "idle"
  <2>1. copy' = Applied(copy, Head(toReplica))
    <3>1. CASE HandleReplicaUpload
      BY <3>1 DEF HandleReplicaUpload, Handling, Applied
    <3>2. CASE HandleCoordinator
      BY <3>2 DEF HandleCoordinator, Handling, Applied
    <3> QED BY <3>1, <3>2
  <2>2. ASSUME NEW n \in Files(stored) PROVE Becomes(copy', toReplica', n)
    <3>1. n \in Name /\ Becomes(copy, toReplica, n)
      BY <1>1, <1>4 DEF KeepsUp, Agrees, Files
    <3> QED BY <1>1, <1>2, <2>1, <3>1, AppliedBecomes DEF TypeOK
  <2>3. Agrees'
    BY <1>1, <1>2, <2>2 DEF Agrees, Becomes
  <2> QED BY <1>1, <1>2, <1>4, <2>3 DEF KeepsUp
<1> QED BY <1>1, <1>3, <1>4

LEMMA ReplicaKeepsUp ==
  ASSUME ReplicaInv, ReplicaStep
  PROVE  Misread' \/ KeepsUp'
<1>1. CASE Accept
  <2>1. /\ replica = "joining" /\ KeepsUp /\ toReplica # << >> /\ toReplica' = Tail(toReplica)
        /\ replica' = "waiting" /\ toReplica \in Seq(ReplicaReads)
        /\ fromReplica' = Append(fromReplica, [type |-> "LIST"])
    BY <1>1 DEF Accept, Takes, ReplicaInv, Misread, TypeOK
  <2>2. fromReplica' = <<[type |-> "LIST"]>>
    BY <2>1 DEF KeepsUp
  <2>3. OnlyForwarded(0)'
    BY <2>1 DEF KeepsUp, OnlyForwarded
  <2> QED BY <2>1, <2>2, <2>3 DEF KeepsUp
<1>2. CASE ReplicaReadsPast
  BY <1>2 DEF ReplicaReadsPast, Fails, KeepsUp
<1>3. CASE HandleJunk
  BY <1>3 DEF HandleJunk, Fails, KeepsUp
<1> QED BY <1>1, <1>2, <1>3, ListUserKeepsUp, BytesKeepUp, ForwardedKeepsUp DEF ReplicaStep, Replica

LEMMA EarlierServerKeepsUp ==
  ASSUME ReplicaInv, ReplicaHandlerStep
  PROVE  Misread' \/ KeepsUp'
<1>0. /\ UNCHANGED <<stored, copy, replica, wanted>> /\ TypeOK /\ toReplica \in Seq(ReplicaReads)
      /\ fromReplica # << >> /\ fromReplica' = Tail(fromReplica)
      /\ Files(stored)' = Files(stored)
  BY DEF ReplicaHandlerStep, HandleReplicaList, HandleReplicaDownload, FromReplica, ReplicaInv,
         TypeOK, Files
<1>1. \/ /\ HandleReplicaList(Logins) /\ Head(fromReplica).type = "LIST"
         /\ toReplica' = toReplica \o ListUser(Logins)
      \/ /\ HandleReplicaDownload /\ Head(fromReplica).type = "DOWNLOAD"
         /\ toReplica' = Append(toReplica, Answer(Head(fromReplica).name))
  BY DEF ReplicaHandlerStep, HandleReplicaList, HandleReplicaDownload, FromReplica
<1> DEFINE msg == [type |-> "LIST_USER", list |-> Listing(stored)]
<1>2. /\ Len(ListUser(Logins)) = Logins /\ Logins \in 1 .. 2 /\ ListUser(Logins) \in Seq({msg})
      /\ \A i \in 1 .. Logins : ListUser(Logins)[i] = msg
  BY DEF Logins, ListUser
<1>3. CASE Misread
  <2>1. toReplica' # << >> /\ Head(toReplica') = Head(toReplica)
    <3>1. \A m : /\ Append(toReplica, m) # << >>
                 /\ Head(Append(toReplica, m)) = Head(toReplica)
      BY <1>0, <1>3 DEF Misread
    <3>2. /\ toReplica \o ListUser(Logins) # << >>
          /\ Head(toReplica \o ListUser(Logins)) = Head(toReplica)
      BY <1>0, <1>2, <1>3 DEF Misread
    <3> QED BY <1>1, <3>1, <3>2
  <2> QED BY <1>0, <1>3, <2>1 DEF Misread
<1>4. CASE replica \in {"lost", "dead"}
  BY <1>0, <1>4 DEF KeepsUp
<1>5. ASSUME ~Misread, replica \notin {"lost", "dead"}
      PROVE  \/ /\ replica = "waiting" /\ fromReplica = <<[type |-> "LIST"]>> /\ OnlyForwarded(0)
                /\ Head(fromReplica).type = "LIST"
             \/ /\ replica = "download" /\ wanted # {} /\ Fetching
                /\ Head(fromReplica).type = "DOWNLOAD"
  <2>1. \/ replica = "waiting" /\ fromReplica = <<[type |-> "LIST"]>> /\ OnlyForwarded(0)
        \/ replica = "download" /\ wanted # {} /\ Fetching
    BY <1>0, <1>5 DEF ReplicaInv, KeepsUp, ListsCame, BytesCame, TypeOK
  <2> QED BY <2>1, OneMessage, Types DEF Fetching
<1>6. CASE HandleReplicaList(Logins) /\ ~Misread /\ replica \notin {"lost", "dead"}
  <2>1. /\ replica = "waiting" /\ fromReplica' = << >> /\ OnlyForwarded(0)
        /\ toReplica' = toReplica \o ListUser(Logins)
    <3>1. Head(fromReplica).type = "LIST" /\ toReplica' = toReplica \o ListUser(Logins)
      BY <1>6 DEF HandleReplicaList, FromReplica
    <3>2. replica = "waiting" /\ fromReplica = <<[type |-> "LIST"]>> /\ OnlyForwarded(0)
      BY <1>5, <1>6, <3>1
    <3> QED BY <1>0, <3>1, <3>2, OneMessage
  <2> DEFINE l == Len(toReplica)
  <2>2. /\ l \in Nat /\ DOMAIN toReplica' = 1 .. l + Logins
        /\ \A i \in 1 .. l : toReplica'[i].type \in Forwarded
        /\ \A i \in DOMAIN toReplica' : i > l => toReplica'[i] = msg
    <3>1. DOMAIN toReplica = 1 .. l /\ l \in Nat /\ \A i \in 1 .. l : toReplica'[i] = toReplica[i]
      BY <1>0, <1>2, <2>1
    <3>2. DOMAIN toReplica' = 1 .. l + Logins
      BY <1>0, <1>2, <2>1
    <3>3. ASSUME NEW i \in DOMAIN toReplica', i > l PROVE toReplica'[i] = msg
      <4>1. i - l \in 1 .. Logins /\ toReplica'[i] = ListUser(Logins)[i - l]
        BY <1>0, <1>2, <2>1, <3>1, <3>2, <3>3
      <4> QED BY <1>2, <4>1
    <3>4. \A i \in 1 .. l : toReplica[i].type \in Forwarded
      BY <2>1, <3>1 DEF OnlyForwarded
    <3> HIDE DEF l
    <3> QED BY <3>1, <3>2, <3>3, <3>4
  <2>3. ASSUME NEW i \in DOMAIN toReplica', toReplica'[i].type = "LIST_USER"
        PROVE  i > l /\ toReplica'[i].list = Listing(stored)
    BY <1>2, <2>2, <2>3 DEF Forwarded
  <2>4. ASSUME NEW i \in DOMAIN toReplica', toReplica'[i].type = "LIST_USER", NEW n \in Files(stored)
        PROVE  Covered(i, n)'
    <3>1. Untouched(toReplica', i, n)
      BY <1>2, <2>2, <2>3, <2>4 DEF Untouched, Changes
    <3>2. ListSays(Listing(stored), n)' /\ Listing(stored)' = toReplica'[i].list
      <4>1. ListSays(Listing(stored), n) /\ stored' = stored
        BY <1>0, ListingSays DEF Files
      <4> QED BY <1>0, <2>3, <2>4, <4>1 DEF ListSays, Listing, Files
    <3> QED BY <3>1, <3>2 DEF Covered
  <2>5. ListsCame'
    <3>1. \A i \in DOMAIN toReplica' : toReplica'[i].type \in Forwarded \cup {"LIST_USER"}
      BY <1>2, <2>2
    <3> QED BY <1>0, <2>1, <2>3, <2>4, <3>1 DEF ListsCame
  <2> QED BY <1>0, <2>1, <2>5 DEF KeepsUp
<1>7. CASE HandleReplicaDownload /\ ~Misread /\ replica \notin {"lost", "dead"}
  <2> DEFINE f == First(wanted)
  <2>1. replica = "download" /\ wanted # {} /\ Fetching
    BY <1>5, <1>7 DEF HandleReplicaDownload, FromReplica
  <2>2. f \in Name
    BY <1>0, <2>1, FirstIsOne DEF TypeOK
  <2>3. fromReplica' = << >> /\ toReplica' = <<Answer(f)>>
    <3>1. Head(fromReplica).name = f /\ Tail(fromReplica) = << >> /\ toReplica = << >>
      BY <2>1, OneMessage DEF Fetching, Download
    <3> QED BY <1>0, <1>7, <3>1 DEF HandleReplicaDownload
  <2>4. CASE f \notin Files(stored)
    <3>1. toReplica' # << >> /\ Head(toReplica').type # "BYTES"
      BY <2>2, <2>3, <2>4 DEF Answer, Error, Files
    <3> QED BY <1>0, <2>1, <3>1 DEF Misread
  <2>5. CASE f \in Files(stored)
    <3>1. Head(toReplica').data = stored[f] /\ DOMAIN toReplica' = {1}
      BY <2>3, <2>5 DEF Answer, Files
    <3>2. ASSUME NEW n \in Files(stored) PROVE Sent(n)'
      <4>1. Untouched(toReplica', 1, n)
        BY <2>3, OnlyMessage
      <4>2. Synced(n)' /\ First(wanted') = f
        BY <1>0, <2>1 DEF Fetching, Synced
      <4>3. n = f => Alike(Head(toReplica').data, stored[n])
        BY <3>1, AlikeIsEquality
      <4> QED BY <1>0, <4>1, <4>2, <4>3 DEF Sent
    <3>3. BytesCame'
      BY <1>0, <2>3, <3>1, <3>2 DEF BytesCame, OnlyForwarded
    <3> QED BY <1>0, <2>1, <3>3 DEF KeepsUp
  <2> QED BY <2>4, <2>5
<1> QED BY <1>1, <1>3, <1>4, <1>6, <1>7

\* Without a new file the server asks no more of the replica than before.
LEMMA LessStored ==
  ASSUME ReplicaInv, UNCHANGED replicationVars,
         \A n \in Files(stored)' : n \in Files(stored) /\ stored'[n] = stored[n]
  PROVE  Misread' \/ KeepsUp'
<1>1. Misread => Misread'
  BY DEF Misread, replicationVars
<1>2. \A i, n : n \in Files(stored)' /\ Covered(i, n) => Covered(i, n)'
  BY DEF Covered, ListSays, replicationVars, Files
<1>3. \A n \in Files(stored)' : Synced(n) => Synced(n)'
  BY DEF Synced, replicationVars
<1>4. \A n \in Files(stored)' : Sent(n) => Sent(n)'
  BY <1>3 DEF Sent, replicationVars
<1>5. /\ ListsCame => ListsCame'
      /\ Fetching => Fetching'
      /\ BytesCame => BytesCame'
  BY <1>2, <1>3, <1>4 DEF ListsCame, Fetching, BytesCame, OnlyForwarded, replicationVars
<1>6. Agrees => Agrees'
  BY DEF Agrees, Becomes, replicationVars
<1>7. KeepsUp => KeepsUp'
  BY <1>5, <1>6 DEF KeepsUp, OnlyForwarded, replicationVars
<1> QED BY <1>1, <1>7 DEF ReplicaInv

\* What the server writes to the replica unasked comes behind all else, and says what
\* the files are.
LEMMA NotifiedKeepsUp ==
  ASSUME ReplicaInv, NEW msg \in ReplicaReads, msg.type \in Forwarded, Tells(msg), stored' \in Directory,
         NotifyReplica(<<msg>>), UNCHANGED <<copy, replica, wanted, fromReplica>>
  PROVE  Misread' \/ KeepsUp'
<1> DEFINE l == Len(toReplica)
<1>1. /\ TypeOK /\ toReplica \in Seq(ReplicaReads) /\ toReplica' = Append(toReplica, msg)
      /\ l = Len(toReplica)
  BY DEF ReplicaInv, TypeOK, NotifyReplica
<1> HIDE DEF l
<1>2. \A j \in Files(stored)' :
        j \in Name /\ (~Changes(msg, j) => j \in Files(stored) /\ stored'[j] = stored[j])
  BY <1>1 DEF Tells, Files
<1>3. ASSUME NEW k \in 0 .. l, NEW j \in Name
      PROVE  /\ Changes(msg, j) => Remade(toReplica', k, j, stored'[j])
             /\ ~Changes(msg, j) => /\ Untouched(toReplica, k, j) => Untouched(toReplica', k, j)
                                    /\ Remade(toReplica, k, j, stored[j]) /\ stored'[j] = stored[j]
                                         => Remade(toReplica', k, j, stored'[j])
  <2>1. Changes(msg, j) => Alike(Made(msg), stored'[j])
    BY DEF Tells
  <2>2. \A y : /\ Changes(msg, j) /\ Alike(Made(msg), y) => Remade(toReplica', k, j, y)
               /\ ~Changes(msg, j) /\ Remade(toReplica, k, j, y) => Remade(toReplica', k, j, y)
               /\ ~Changes(msg, j) /\ Untouched(toReplica, k, j) => Untouched(toReplica', k, j)
    BY <1>1, OneMore
  <2> QED BY <2>1, <2>2
<1>4. /\ l \in Nat /\ DOMAIN toReplica = 1 .. l /\ DOMAIN toReplica' = 1 .. l + 1 /\ toReplica' # << >>
      /\ toReplica'[l + 1] = msg /\ \A i \in 1 .. l : toReplica'[i] = toReplica[i]
      /\ toReplica = << >> => l = 0 /\ Head(toReplica') = msg
      /\ toReplica # << >> => Head(toReplica') = Head(toReplica) /\ 1 \in 1 .. l
  BY <1>1
<1>5. CASE Misread
  BY <1>4, <1>5 DEF Misread
<1>6. \A k \in Nat : l >= k /\ OnlyForwarded(k) => OnlyForwarded(k)'
  BY <1>1, <1>4 DEF OnlyForwarded
<1>7. ASSUME ListsCame PROVE ListsCame'
  <2>1. ASSUME NEW i \in 1 .. l, toReplica[i].type = "LIST_USER", NEW j \in Files(stored)'
        PROVE  Covered(i, j)'
    <3>1. ~Changes(msg, j) => Covered(i, j)
      BY <1>2, <1>4, <1>7, <2>1 DEF ListsCame
    <3>2. i \in 0 .. l
      BY <1>4
    <3> QED BY <1>2, <1>3, <1>4, <3>1, <3>2 DEF Covered, ListSays, Files
  <2>2. \A i \in DOMAIN toReplica' : toReplica'[i].type = "LIST_USER" => i \in 1 .. l
    BY <1>4 DEF Forwarded
  <2>3. \A i \in DOMAIN toReplica' : toReplica'[i].type \in Forwarded \cup {"LIST_USER"}
    BY <1>1, <1>4, <1>7 DEF ListsCame
  <2>4. \A i, j \in DOMAIN toReplica' :
          toReplica'[i].type = "LIST_USER" /\ toReplica'[j].type = "LIST_USER"
            => toReplica'[i].list = toReplica'[j].list
    BY <1>4, <1>7, <2>2 DEF ListsCame
  <2>5. \A i \in DOMAIN toReplica' :
          toReplica'[i].type = "LIST_USER" => \A j \in Files(stored)' : Covered(i, j)'
    BY <1>4, <2>1, <2>2
  <2> QED BY <1>7, <2>3, <2>4, <2>5 DEF ListsCame
<1>8. ASSUME BytesCame PROVE BytesCame'
  <2>1. 1 \in 0 .. l
    BY <1>4, <1>8 DEF BytesCame
  <2>2. ASSUME NEW j \in Files(stored)' PROVE Sent(j)'
    BY <1>2, <1>3, <1>4, <1>8, <2>1, <2>2 DEF BytesCame, Sent, Synced
  <2>3. OnlyForwarded(1)'
    BY <1>4, <1>6, <1>8 DEF BytesCame
  <2> QED BY <1>4, <1>8, <2>2, <2>3 DEF BytesCame
<1>9. ASSUME Fetching, replica = "download" PROVE Misread'
  BY <1>4, <1>9 DEF Fetching, Misread, Forwarded
<1>10. ASSUME Agrees PROVE Agrees'
  <2>1. 0 \in 0 .. l
    BY <1>4
  <2> QED BY <1>2, <1>3, <1>10, <2>1 DEF Agrees, Becomes
<1>11. ASSUME KeepsUp PROVE Misread' \/ KeepsUp'
  <2>1. CASE replica = "joining"
    <3>1. toReplica # << >> /\ l >= 1 /\ OnlyForwarded(1) /\ fromReplica = << >>
      BY <1>4, <1>11, <2>1 DEF KeepsUp
    <3> QED BY <1>4, <1>6, <2>1, <3>1 DEF KeepsUp
  <2>2. CASE replica = "waiting"
    BY <1>4, <1>6, <1>7, <1>11, <2>2 DEF KeepsUp
  <2>3. CASE replica = "download"
    BY <1>8, <1>9, <1>11, <2>3 DEF KeepsUp
  <2>4. CASE replica = "idle"
    <3>1. \A i \in DOMAIN toReplica' : toReplica'[i].type \in Forwarded \/ Nothing(toReplica'[i])
      BY <1>1, <1>4, <1>11, <2>4 DEF KeepsUp
    <3> QED BY <1>10, <1>11, <2>4, <3>1 DEF KeepsUp
  <2>5. CASE replica \in {"lost", "dead"}
    BY <2>5 DEF KeepsUp
  <2> QED BY <1>1, <2>1, <2>2, <2>3, <2>4, <2>5 DEF TypeOK
<1> QED BY <1>5, <1>11 DEF ReplicaInv

LEMMA OthersKeepUp ==
  ASSUME ReplicaInv, TypeOK', OtherMachine \/ Election \/ ClientStep \/ ClientHandlerStep \/ UNCHANGED vars
  PROVE  Garbled' \/ Misread' \/ KeepsUp'
<1>0. TypeOK /\ stored' \in Directory
  BY DEF ReplicaInv, TypeOK
<1>1. ASSUME UNCHANGED <<stored, replicationVars>> PROVE Misread' \/ KeepsUp'
  BY <1>1, LessStored DEF Files
<1>2. ASSUME NEW n \in Name, HandleDelete(n) PROVE Misread' \/ KeepsUp'
  <2>1. \A k \in Files(stored)' : k \in Files(stored) /\ stored'[k] = stored[k]
    BY <1>0, <1>2 DEF HandleDelete, TypeOK, Directory, Files
  <2> QED BY <1>2, <2>1, LessStored DEF HandleDelete
<1>3. NotifyReplica(<<Junk>>) => Garbled'
  BY <1>0, JunkIsLast DEF NotifyReplica, Garbled, Whole, TypeOK
<1>4. ASSUME NEW n \in Name, NEW x \in Content, HandleUpload(n, x) PROVE Garbled' \/ Misread' \/ KeepsUp'
  <2>1. CASE UNCHANGED <<stored, toReplica>>
    BY <1>1, <1>4, <2>1 DEF HandleUpload, replicationVars
  <2>2. CASE stored' = [stored EXCEPT ![n] = x] /\ NotifyReplica(Replicated(n, x))
    <3>1. Tells(Upload(n, x)) /\ Upload(n, x) \in ReplicaReads /\ Upload(n, x).type \in Forwarded
      BY <1>0, <2>2, Telling, MessageTypes DEF Forwarded
    <3> QED BY <1>0, <1>4, <2>2, <3>1, NotifiedKeepsUp DEF HandleUpload, Replicated
  <2> QED BY <1>3, <1>4, <2>1, <2>2 DEF HandleUpload
<1>5. CASE AnnounceToReplicas
  <2>1. CASE NotifyReplica(<<Coordinator>>)
    <3>1. Tells(Coordinator) /\ Coordinator \in ReplicaReads /\ Coordinator.type \in Forwarded
      BY <1>0, <1>5, Telling, MessageTypes DEF AnnounceToReplicas, Announced, Forwarded
    <3> QED BY <1>0, <1>5, <2>1, <3>1, NotifiedKeepsUp DEF AnnounceToReplicas
  <2> QED BY <1>3, <1>5, <2>1 DEF AnnounceToReplicas, Announced
<1>6. AnnounceToClients \/ ClientStep \/ ClientHandlerStep => UNCHANGED <<stored, replicationVars>>
  BY DEF AnnounceToClients, ClientStep, ClientHandlerStep, Starting, Client, ClientHandlers, Login,
         ReceiveList, ReceiveFile, ReceiveForward, ReadPastPayload, HandleLogin, HandleList, HandleDownload
<1>7. UNCHANGED vars => UNCHANGED <<stored, replicationVars>>
  BY DEF vars
<1> QED BY <1>1, <1>2, <1>4, <1>5, <1>6, <1>7 DEF OtherMachine, Election

\* Behind a torn message nothing is said of the replica's files, until it reads it.
LEMMA GarbledStays ==
  ASSUME TypeOK, Garbled, [Next]_vars
  PROVE  Garbled' \/ KeepsUp'
<1>1. toReplica \in Seq(ReplicaReads) /\ Contains(toReplica, Junk)
  BY DEF TypeOK, Garbled, Whole
<1>2. ASSUME NEW t \in Seq(ReplicaReads), toReplica' = toReplica \o t PROVE Garbled'
  BY <1>1, <1>2, JunkStays DEF Garbled, Whole
<1>3. ASSUME UNCHANGED toReplica PROVE Garbled'
  BY <1>3 DEF Garbled, Whole
<1>4. ASSUME Takes, Head(toReplica).type # "JUNK" PROVE Garbled'
  BY <1>1, <1>4, JunkStays, MessageTypes DEF Takes, Garbled, Whole
<1>5. ASSUME NEW how \in {"lost", "dead"}, Fails(how) PROVE KeepsUp'
  BY <1>5 DEF Fails, KeepsUp
<1>6. CASE ReplicaStep
  <2>1. CASE Accept \/ HandleListUser \/ HandleReplicaUpload \/ HandleCoordinator
    <3>1. Takes /\ Head(toReplica).type # "JUNK"
      BY <2>1 DEF Accept, HandleListUser, HandleReplicaUpload, HandleCoordinator, Handling
    <3> QED BY <1>4, <3>1
  <2>2. CASE HandleJunk \/ ReplicaReadsPast
    <3>1. Fails("lost")
      BY <2>2 DEF HandleJunk, ReplicaReadsPast
    <3> QED BY <1>5, <3>1
  <2>3. CASE ReceiveBytes
    <3>1. Takes /\ (Head(toReplica).type = "BYTES" \/ Fails("lost"))
      BY <2>3 DEF ReceiveBytes
    <3> QED BY <1>4, <1>5, <3>1
  <2> QED BY <1>6, <2>1, <2>2, <2>3 DEF ReplicaStep, Replica
<1>7. CASE ReplicaHandlerStep
  <2>1. CASE HandleReplicaList(Logins)
    <3>1. ListUser(Logins) \in Seq(ReplicaReads)
      <4>1. [type |-> "LIST_USER", list |-> Listing(stored)] \in ReplicaReads /\ Logins \in Nat
        BY ListingIsEntries DEF ReplicaReads, Logins, TypeOK
      <4> QED BY <4>1 DEF ListUser
    <3> QED BY <1>2, <2>1, <3>1 DEF HandleReplicaList
  <2>2. CASE HandleReplicaDownload
    <3>1. Answer(Head(fromReplica).name) \in ReplicaReads
      <4>1. Head(fromReplica) \in EarlierReads /\ Head(fromReplica).type = "DOWNLOAD"
        BY <2>2, SeqEnds DEF HandleReplicaDownload, FromReplica, TypeOK
      <4>2. Head(fromReplica).name \in Name
        BY <4>1, Fields
      <4> QED BY <4>2, AnswerIsMessage DEF ReplicaReads, TypeOK
    <3>2. Append(toReplica, Answer(Head(fromReplica).name)) = toReplica \o <<Answer(Head(fromReplica).name)>>
      BY <1>1
    <3>3. <<Answer(Head(fromReplica).name)>> \in Seq(ReplicaReads)
      BY <3>1
    <3> QED BY <1>2, <2>2, <3>2, <3>3 DEF HandleReplicaDownload
  <2> QED BY <1>7, <2>1, <2>2 DEF ReplicaHandlerStep
<1>8. ASSUME NEW msg \in ReplicaReads, NotifyReplica(<<msg>>) PROVE Garbled'
  <2>1. <<msg>> \in Seq(ReplicaReads) /\ toReplica' = toReplica \o <<msg>>
    BY <1>8 DEF NotifyReplica
  <2> QED BY <1>2, <2>1
<1>9. CASE OtherMachine \/ Election
  <2>1. \A n \in Name : HandleDelete(n) => UNCHANGED toReplica
    BY DEF HandleDelete, replicationVars
  <2>2. ASSUME NEW n \in Name, NEW x \in Content, HandleUpload(n, x) PROVE Garbled'
    <3>1. Upload(n, x) \in ReplicaReads /\ Junk \in ReplicaReads
      BY UploadIsMessage DEF ReplicaReads, Announced
    <3> QED BY <1>3, <1>8, <2>2, <3>1 DEF HandleUpload, Replicated
  <2>3. AnnounceToReplicas => Garbled'
    BY <1>8 DEF AnnounceToReplicas, ReplicaReads
  <2>4. AnnounceToClients => UNCHANGED toReplica
    BY DEF AnnounceToClients, replicationVars
  <2> QED BY <1>3, <1>9, <2>1, <2>2, <2>3, <2>4 DEF OtherMachine, Election
<1>10. ClientStep \/ ClientHandlerStep \/ UNCHANGED vars => UNCHANGED toReplica
  BY DEF ClientStep, ClientHandlerStep, Starting, vars, replicationVars
<1> QED BY <1>3, <1>6, <1>7, <1>9, <1>10 DEF Next

SyncInv == TypeOK /\ (Garbled \/ Misread \/ KeepsUp)

\* A replica that has synchronised stores every file of the server once it applied
\* what is on its way, unless that is torn, for any number of files, changes and
\* elections, whatever it had before
\* (dripbox_server_handle_list_user, dripbox_handle_replica_upload).
THEOREM ReplicaAgreesInvariant == Spec => []ReplicaAgrees
<1>1. Init => SyncInv
  BY InitTypes, InitKeepsUp DEF SyncInv
<1>2. SyncInv /\ [Next]_vars => SyncInv'
  <2> SUFFICES ASSUME SyncInv, [Next]_vars PROVE Garbled' \/ Misread' \/ KeepsUp'
    BY TypesPreserved DEF SyncInv
  <2>1. TypeOK'
    BY TypesPreserved DEF SyncInv
  <2>2. CASE Garbled
    BY <2>2, GarbledStays DEF SyncInv
  <2>3. CASE ReplicaInv
    BY <2>1, <2>3, ReplicaKeepsUp, EarlierServerKeepsUp, OthersKeepUp DEF Next
  <2> QED BY <2>2, <2>3 DEF SyncInv, ReplicaInv
<1>3. SyncInv => ReplicaAgrees
  BY DEF SyncInv, Garbled, Misread, KeepsUp, ReplicaAgrees, Agrees
<1> QED BY <1>1, <1>2, <1>3, PTL DEF Spec
=============================================================================
