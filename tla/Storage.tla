------------------------------ MODULE Storage -------------------------------
(***************************************************************************)
(* The directory of one user on a server, and how two directories are      *)
(* compared: by a listing of names and checksums, and the difference of    *)
(* two listings.  A listing has each name once and is sorted: the names    *)
(* are numbers, so a set of entries says all of it.                        *)
(***************************************************************************)
EXTENDS Integers, Sequences, FiniteSets, SequencesExt

CONSTANTS
  Name,      \* the names of files
  Content,   \* the contents of files
  Absent,    \* there is no file
  Checksum   \* dripbox_file_checksum

ASSUME NameAssumption     == Name \subseteq Nat /\ IsFiniteSet(Name)
ASSUME ContentAssumption  == Absent \notin Content
ASSUME ChecksumAssumption == Checksum \in [Content -> Nat]

VARIABLE stored   \* the user's directory on the server

\* The checksum of a file of at most one buffer: dripbox_checksum subtracts each byte
\* from zero, dripbox_file_checksum the result from zero again.
BufferChecksum(bytes) == FoldLeft(LAMBDA chk, b : (chk - b) % 256, 0, bytes)
FileChecksum(bytes)   == (0 - BufferChecksum(bytes)) % 256

Directory == [Name -> Content \cup {Absent}]
Entry     == [name : Name, sum : Nat]

Files(dir) == {n \in Name : dir[n] # Absent}

Listing(dir) == {[name |-> n, sum |-> Checksum[dir[n]]] : n \in Files(dir)}

\* Mutant: one name is enough for two files to be the same.
MutantSameFile == {"name"}

\* The fields by which two entries are compared.
SameFile == {"name", "sum"}
SameName == {"name"}

Has(array, e, fields) == \E k \in array : \A f \in fields : k[f] = e[f]

Difference(a, b, fields) == {e \in a : ~Has(b, e, fields)}

NamesOf(entries) == {e.name : e \in entries}

\* scandir sorts by name: the first of them is the next.
First(names) == CHOOSE n \in names : \A k \in names : n <= k

ToDownload(server, client) == NamesOf(Difference(server, client, SameFile))
ToDelete(server, client)   == NamesOf(Difference(client, server, SameName))

Without(dir, names) == [n \in Name |-> IF n \in names THEN Absent ELSE dir[n]]

\* The file is there and has the announced checksum.
Same(state, sum) == state # Absent /\ Checksum[state] = sum

\* What the checksums can tell of two states of a file.
Alike(x, y) == x = y \/ (Absent \notin {x, y} /\ Checksum[x] = Checksum[y])

\* The messages about files.
Upload(n, x) == [type |-> "UPLOAD", name |-> n, sum |-> Checksum[x], data |-> x]
Delete(n)    == [type |-> "DELETE", name |-> n]
Download(n)  == [type |-> "DOWNLOAD", name |-> n]
Error        == [type |-> "ERROR"]

\* The message of an election's winner, and bytes that are no message.
Coordinator == [type |-> "COORDINATOR"]
Junk        == [type |-> "JUNK"]

\* Mutant: whatever is there is sent.
MutantAnswer(n) == [type |-> "BYTES", data |-> stored[n]]

\* What is sent to who asks for a file.
Answer(n) == IF stored[n] = Absent THEN Error ELSE [type |-> "BYTES", data |-> stored[n]]

FileMessage == {Upload(n, x) : n \in Name, x \in Content}
                 \cup [type : {"DELETE", "DOWNLOAD"}, name : Name]
                 \cup [type : {"BYTES"}, data : Content] \cup {Error}
=============================================================================
