---------------------------- MODULE MCMembership ----------------------------
(* An instance of Membership for TLC. *)
EXTENDS Membership

\* All addresses share one bucket of ht_users.
Colliding == [h \in Key |-> 0]
=============================================================================
