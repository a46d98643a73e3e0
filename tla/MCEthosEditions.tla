--------------------------- MODULE MCEthosEditions ---------------------------
(* A public section and one of the circle; an agent that may write the      *)
(* circle and read the log.                                                 *)
EXTENDS EthosEditions, TLC

CONSTANTS p1, c1, a1

Places == (p1 :> "public") @@ (c1 :> "circle")
Circle == [a \in Agents |-> "circle"]

\* Bundles that travel, bundles and a death, rotations and a death, and a mandate for
\* the log alone.
SharedOrRotated ==
    {[writes |-> 2, editions |-> 4, rotates |-> {}, shares |-> TRUE, ticks |-> {1},
      deaths |-> 0, logOnly |-> {}],
     [writes |-> 2, editions |-> 3, rotates |-> {}, shares |-> TRUE, ticks |-> {1},
      deaths |-> 1, logOnly |-> {}],
     [writes |-> 3, editions |-> 4, rotates |-> {"public", "circle", "self"},
      shares |-> FALSE, ticks |-> {0, 1}, deaths |-> 1, logOnly |-> {}],
     [writes |-> 2, editions |-> 4, rotates |-> {"circle"}, shares |-> FALSE,
      ticks |-> {1}, deaths |-> 1, logOnly |-> {a1}]}
=============================================================================
