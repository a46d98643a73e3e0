-------------------------- MODULE MCEthosKeystore --------------------------
(* A public section and one of the circle; an agent for the whole circle    *)
(* and one whose mandate has a section_scope that does not match it.        *)
EXTENDS EthosKeystore, TLC

CONSTANTS p1, c1, d1, d2

Places == (p1 :> "public") @@ (c1 :> "circle")
Spheres == [d \in {d1, d2} |-> "circle"]
Scopes == (d1 :> {c1}) @@ (d2 :> {})
=============================================================================
