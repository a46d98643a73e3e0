--------------------------- MODULE MCMissionHarness ---------------------------
(***************************************************************************)
(* TLC instances of MissionHarness: two harnesses and two missions.        *)
(***************************************************************************)
EXTENDS MissionHarness, TLC

CONSTANTS m1, m2

Mailbox(kind, posted, requeued, started) ==
    [kind |-> kind, posted |-> posted, answers |-> requeued, restarts |-> started]

\* Two missions, or one that is answered while harnesses come and go.
MCMailboxes == {Mailbox("contract", {m1, m2}, 0, 1), Mailbox("contract", {m1}, 2, 2),
                Mailbox("gateway", {m1}, 2, 2)}

GatewayMailboxes == {b \in MCMailboxes : b.kind = "gateway"}
=============================================================================
