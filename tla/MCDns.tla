------------------------------- MODULE MCDns -------------------------------
(* Instances of Dns for TLC: the order in which the service has the servers. *)
EXTENDS Dns

SameOrder == [s \in Server |-> s]

=============================================================================
