------------------------------- MODULE MCSync -------------------------------
(* Instances of Sync for TLC. *)
EXTENDS Sync

\* A content is its bytes.
Bytes == {<<1>>, <<2>>}

Initially == {<<1>>}

Sums == [x \in Content |-> FileChecksum(x)]

\* The names differ in their first eight bytes.
Starts == [n \in Name |-> n]
=============================================================================
