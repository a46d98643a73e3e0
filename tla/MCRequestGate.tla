----------------------------- MODULE MCRequestGate -----------------------------
(***************************************************************************)
(* TLC instance of RequestGate.  The unit of time is 15 s.                 *)
(***************************************************************************)
EXTENDS RequestGate

CONSTANTS i1, i2, m1, agent

\* The second instance's clock is slow.
Slow == [i \in Instances |-> IF i = i2 THEN -1 ELSE 0]

DataMandate(verb) ==
    [sphere |-> "public", scopes |-> {[family |-> "data", verb |-> verb,
                                       zone |-> "contacts", selector |-> NoKey]},
     grantee |-> [id |-> "agent", key |-> agent], compute |-> NoKey, counter |-> {},
     sections |-> NoKey, ttl |-> 1]

\* One delegate may read.
Reader == [m \in {m1} |-> DataMandate("read")]

\* The assets PDS adds 60 s to the 30 s of the envelope.
Margins == [s \in Services |-> IF s = "data" THEN 2 ELSE 6]

\* Envelopes that come again, or an owner who publishes, rotates, voids, revokes.
AgainOrChanging ==
    {[until |-> 4, changes |-> 0, ttls |-> {1, 3}, drifts |-> {0}, stamps |-> {},
      signers |-> {"data", "public"}, methods |-> {"read", "write"}, again |-> TRUE],
     [until |-> 5, changes |-> 1, ttls |-> {3}, drifts |-> {0}, stamps |-> {0},
      signers |-> {"data"}, methods |-> {"read"}, again |-> FALSE]}
=============================================================================
