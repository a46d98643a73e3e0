--------------------------- MODULE MCSchemaRegistry ---------------------------
(***************************************************************************)
(* TLC instances of SchemaRegistry.  Registrations disagree on the         *)
(* document of s1; instances, and the other identifiers, are               *)
(* interchangeable.                                                        *)
(***************************************************************************)
EXTENDS SchemaRegistry, TLC

CONSTANTS s1, d1, d2

DisputeOnOne ==
    {[id |-> s, doc |-> d1] : s \in Ids} \cup {[id |-> s1, doc |-> d2]}

Symmetry == Permutations(Instances) \cup Permutations(Ids \ {s1})
=============================================================================
