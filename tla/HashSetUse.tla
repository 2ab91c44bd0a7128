----------------------------- MODULE HashSetUse -----------------------------
(***************************************************************************)
(* The table of hash_set.h in the hands of its callers, with the set of    *)
(* keys they have put in and not taken out.  The replica table is filled,  *)
(* the tests fill a table and then drain it, the user table mixes both.    *)
(***************************************************************************)
EXTENDS HashSet

CONSTANT Usage
ASSUME UsageAssumption == Usage \in {"drain", "any"}

VARIABLES
  present,  \* the keys the callers have put in and not taken out
  draining  \* something was taken out

useVars == <<vars, present, draining>>

UseInit == Init /\ present = {} /\ draining = FALSE

MayInsert    == Usage = "drain" => ~draining
MayLookUp(k) == Usage = "drain" => ~draining \/ k \in present
MayRemove(k) == Usage = "drain" => k \in present

UseNext ==
  \E k \in Key :
    \/ /\ MayInsert
       /\ \E v \in Value : Insert(k, v) \/ Update(k, v)
       /\ present' = present \cup {k}
       /\ UNCHANGED draining
    \/ /\ MayLookUp(k)
       /\ Contains(k)
       /\ UNCHANGED <<present, draining>>
    \/ /\ MayRemove(k)
       /\ Remove(k)
       /\ present' = present \ {k}
       /\ draining' = TRUE

UseSpec == UseInit /\ [][UseNext]_useVars

-----------------------------------------------------------------------------
\* A loop over the capacity that skips unused entries, as the network worker and
\* the replication do, visits every key that is present exactly once.
VisitsPresentOnce ==
  /\ {KeyAt(table, i) : i \in Live(table)} = present
  /\ Cardinality(Live(table)) = Cardinality(present)

\* length, which decides when to grow and where the next entry goes, counts the
\* entries in use.
LengthCountsLive == table.length = Cardinality(Live(table))

\* No call leaves the arrays, loops for ever or fails assert(sanity).
Sane == ~table.broken

\* The answers: insert is refused exactly for a key that was present, contains and
\* remove succeed exactly for one.
AnswersRight ==
  [][\A k \in Key :
       result' # result /\ result'.key = k =>
         /\ result'.op = "insert" => result'.ok = (k \notin present)
         /\ result'.op \in {"contains", "remove"} => result'.ok = (k \in present)]_useVars

\* The test of the table: "Duplicate insert should fail", and the insert of a key
\* that is not present succeeds (assert(result) after each of them).
FreshInsertSucceeds ==
  [][\A k \in Key \ present :
       present' = present \cup {k} /\ result'.key = k /\ result'.op = "insert"
       => result'.ok]_useVars

\* A table that is filled, and then at most drained, is a dictionary: every call
\* changes it and answers as the abstract one does, through every growth.
Dict == INSTANCE Dictionary WITH content <- Content(table)
IsDictionary == Dict!Spec
=============================================================================
