----------------------------- MODULE MCFileSync -----------------------------
(* Instances of FileSync for TLC. *)
EXTENDS FileSync

\* Values above 2 have the checksum of 2.
Sums == [x \in Content |-> IF x = Empty THEN 0 ELSE IF x > 2 THEN 2 ELSE x]

=============================================================================
