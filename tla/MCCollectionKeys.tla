--------------------------- MODULE MCCollectionKeys ---------------------------
(***************************************************************************)
(* TLC instance of CollectionKeys.                                         *)
(***************************************************************************)
EXTENDS CollectionKeys, TLC

CONSTANTS m1, m2, m3, a1, a2, r1, r2

\* One app has two mandates.
TwoOfOneApp == [m \in Mandates |-> IF m = m2 THEN a2 ELSE a1]

\* Four requests of every operation one after the other, for two apps; three about
\* who reads, for three mandates; or three that overlap and read replicas.
Sharing == {"authorize", "revoke", "revoke_rotate"}
SerialAndOverlapping ==
    {[serial |-> TRUE, crashes |-> TRUE, ops |-> AllOps,
      mandates |-> {m1, m2}, requests |-> 4],
     [serial |-> TRUE, crashes |-> TRUE, ops |-> Sharing,
      mandates |-> Mandates, requests |-> 3],
     [serial |-> FALSE, crashes |-> FALSE, ops |-> Sharing,
      mandates |-> {m1, m2}, requests |-> 3]}

\* Nothing tells one record from another.
RecordsAlike == Permutations(Records)
=============================================================================
