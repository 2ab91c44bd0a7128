----------------------------- MODULE MCElection -----------------------------
(* Instances of Election for TLC: who found whom, and the two uuid orders. *)
EXTENDS Election

\* uuid.integer orders the servers as their timestamps do ...
SameOrder == [s \in Server |-> s]
\* ... or the other way round.
ReversedOrder == [s \in Server |-> 10 - s]

\* Each server was found by every server that booted before it.
BootOrder == {{p \in Server \X Server : p[1] < p[2]}}
\* The byte order of the timestamp can also make the later server the older one,
\* and two of the servers that boot together find each other.
AnyBoot ==
  LET earlier == {p \in Server \X Server : p[1] < p[2]}
      later   == {p \in Server \X Server : p[1] > p[2]}
  IN {earlier, later} \cup {earlier \cup {p} : p \in later}

=============================================================================
