---------------------------- MODULE MCAgentHost ----------------------------
\* One run of AgentHost.  A behaviour follows one plan: a few about the edits of a
\* session, whole sequences of them or a few at a time, and the others about the
\* host around it.
EXTENDS AgentHost

MCPresent == {<<"circle", "s1">>}
MCZoneOf == ("m1" :> "circle")

MCOffered == ("files" :> {"read", "write"}) @@ ("mail" :> {"send"})
\* Of files, one tool is granted by its own scope; of mail, all by that of the server.
MCToolScopes == ("files" :> ("read" :> <<"files", "read">>)) @@ ("mail" :> Nothing)
MCScopes == {<<"files", "read">>, <<"mcp", "mail">>}

NoEdits == [calls |-> 0, overlap |-> FALSE, auto |-> FALSE, ops |-> {},
            authorities |-> {}, outside |-> 0, deaths |-> {}]
NoHost == [registry |-> <<>>, requests |-> 1, dispatches |-> 0, auditLog |-> TRUE,
           stops |-> FALSE]
Alone(ops, n) == [NoEdits EXCEPT !.calls = n, !.ops = ops, !.authorities = {Owner}]

MCPlans ==
    { \* one call at a time
      Alone(Ops, 5) @@ NoHost,
      \* calls that overlap
      [Alone({"add", "delete", "commit"}, 4) EXCEPT !.overlap = TRUE] @@ NoHost,
      \* two authorities, a mandate that ends, and another writer
      [Alone({"append", "commit"}, 3) EXCEPT !.overlap = TRUE, !.authorities = {Owner, "m1"},
             !.outside = 1, !.deaths = {"revoked", "expired"}] @@ NoHost,
      \* a host that commits by itself
      [Alone(Ops, 2) EXCEPT !.overlap = TRUE, !.auto = TRUE, !.authorities = {Owner, "m1"},
             !.outside = 1, !.deaths = {"expired"}] @@ NoHost,
      \* edits of a session that ends
      Alone({"body", "commit"}, 3) @@ [NoHost EXCEPT !.requests = 2, !.stops = TRUE],
      \* sessions and their clients
      NoEdits @@ [NoHost EXCEPT !.registry = <<"files", "mail">>, !.requests = 2,
                                !.dispatches = 1, !.stops = TRUE],
      \* calls, with an audit log and without
      [NoEdits EXCEPT !.deaths = {"revoked", "expired"}] @@
          [NoHost EXCEPT !.registry = <<"mail">>, !.dispatches = 2],
      [NoEdits EXCEPT !.deaths = {"revoked", "expired"}] @@
          [NoHost EXCEPT !.registry = <<"files">>, !.dispatches = 2, !.auditLog = FALSE,
                         !.stops = TRUE] }
=============================================================================
