------------------------------ MODULE AgentHost ------------------------------
(***************************************************************************)
(* The HTTP host an agent talks to: http.ts, gateway.ts,                   *)
(* action-federation.ts, llm-proxy.ts and the wiring of bin.ts in          *)
(* packages/mcp/src, around the editing session of EditSession.            *)
(*                                                                         *)
(* Each MCP session has a server of its own.  Before the session opens,    *)
(* the gateway connects to the downstream servers its mandate grants and   *)
(* registers their tools; a call of one is checked, dispatched, audited    *)
(* and answered.  Actions go the same way to a hand over a socket, and the *)
(* proxy forwards inference requests.  One mandate, the pack's, covers all *)
(* of it.  The first session is the one whose edits EditSession models.    *)
(*                                                                         *)
(* Abstractions.  A tool is a downstream server and a name.  What is sent  *)
(* downstream takes effect or not, at any time until it is answered or     *)
(* later: the host cannot know.  The MCP SDK is external: its transport    *)
(* assigns a session id during initialize, and keeps it when it closes.    *)
(***************************************************************************)
EXTENDS EditSession

CONSTANTS
    Pack,       \* the mandate of the pack the host runs under
    Offered,    \* the names of the tools that each downstream server offers
    ToolScopes, \* for each server, the scopes its tools are mapped to
    Scopes      \* the scopes of the mandate

\* Plans have, besides: the registry; how many requests name no known session, and
\* how many calls are for others to carry out; whether there is an --audit-log, and
\* whether the host is stopped.
ASSUME HostAssumption ==
    /\ Pack \in Mandates
    /\ \A p \in Plans : /\ p.registry \in Seq(DOMAIN Offered \cap DOMAIN ToolScopes)
                        /\ p.requests \in Nat /\ p.dispatches \in Nat
                        /\ p.auditLog \in BOOLEAN /\ p.stops \in BOOLEAN

VARIABLES
    host,       \* listening, closed or dead
    sessions,   \* every session there has been
    known,      \* those in the map of http.ts
    clients,    \* open downstream clients, pairs of a session and a server
    tools,      \* registered tools: the session, the server and the name
    dispatches, \* calls of tools, actions and inferences
    audit,      \* the audit log: which call, and what it says of it
    effects     \* calls that took effect downstream

hostVars == <<host, sessions, known, clients, tools, dispatches, audit, effects>>
vars == <<editVars, hostVars>>

\* The session whose edits are modelled.
Home == 1
IsOpen(s) == s \in known /\ sessions[s].step = "open" /\ host = "listening"
-----------------------------------------------------------------------------
(***************************************************************************)
(* Scopes and liveness                                                     *)
(***************************************************************************)

ServerScope(server) == <<"mcp", server>>

toolScopeGranted(server, tool) ==
    \/ ServerScope(server) \in Scopes
    \/ tool \in DOMAIN ToolScopes[server] /\ ToolScopes[server][tool] \in Scopes

serverScopeGranted(server) ==
    \/ ServerScope(server) \in Scopes
    \/ \E tool \in DOMAIN ToolScopes[server] : ToolScopes[server][tool] \in Scopes

isMandateWindowLive == Pack \in DOMAIN dead => dead[Pack] # "expired"

\* Mutant: only the window is looked at.
WindowOnly == isMandateWindowLive

\* packLiveness: the window, and a fresh lookup of a revocation.
packLiveness == isMandateWindowLive /\ Pack \notin DOMAIN dead
-----------------------------------------------------------------------------
(***************************************************************************)
(* Sessions                                                                *)
(***************************************************************************)

\* A request that names no session of the map makes one, be it an initialize or a
\* request of a session that is gone.  Outside the window there is no federation.
newSession(kind) ==
    /\ host = "listening"
    /\ Len(sessions) < plan.requests
    /\ sessions' = Append(sessions,
          [kind |-> kind, step |-> "federating",
           rest |-> IF isMandateWindowLive THEN plan.registry ELSE <<>>])
    /\ UNCHANGED <<host, known, clients, tools, dispatches, audit, effects>>

\* federate, one server of the registry: it is skipped without a grant; connected,
\* and its granted tools registered; or the connection, the list or one of the
\* tools fails: the client is closed and the tools registered before it stay.
federate(s) ==
    LET server == Head(sessions[s].rest)
        granted == {t \in Offered[server] : toolScopeGranted(server, t)}
        Register(some) == tools' = tools \cup ({s} \X {server} \X some) IN
    /\ sessions[s].step = "federating" /\ sessions[s].rest # <<>>
    /\ sessions' = [sessions EXCEPT ![s].rest = Tail(@)]
    /\ \/ ~serverScopeGranted(server) /\ UNCHANGED <<clients, tools>>
       \/ /\ serverScopeGranted(server)
          /\ clients' = clients \cup {<<s, server>>} /\ Register(granted)
       \/ /\ serverScopeGranted(server)
          /\ UNCHANGED clients /\ \E some \in SUBSET granted : Register(some)
    /\ UNCHANGED <<host, known, dispatches, audit, effects>>

\* The transport is connected and handles the request.  Only an initialize gives a
\* session its id, and with it a place in the map.
OpenSession(s) ==
    /\ sessions[s].step = "federating" /\ sessions[s].rest = <<>>
    /\ sessions' = [sessions EXCEPT ![s].step = "open"]
    /\ known' = IF sessions[s].kind = "initialize" THEN known \cup {s} ELSE known
    /\ UNCHANGED <<host, clients, tools, dispatches, audit, effects>>

\* Mutant: the clients of a session outlive it.
StillOpen(closing) == clients

\* teardown, for these sessions.
TornDown(closing) == {c \in clients : c[1] \notin closing}

\* A client deletes its session.  The transport closes; onclose takes the session
\* out of the map and disposes of its clients.  The request that did this is of a
\* session with an id, and so puts it back into the map when it is done.
DeleteSession(s) ==
    /\ plan.stops
    /\ IsOpen(s)
    /\ sessions' = [sessions EXCEPT ![s].step = "closed"]
    /\ clients' = TornDown({s})
    /\ UNCHANGED <<host, known, tools, dispatches, audit, effects>>

\* close: the listener, and every session of the map.  What is under way goes on.
close ==
    /\ plan.stops
    /\ host = "listening"
    /\ host' = "closed"
    /\ sessions' = [s \in DOMAIN sessions |->
                      [sessions[s] EXCEPT !.step = IF s \in known THEN "closed" ELSE @]]
    /\ clients' = TornDown(known)
    /\ known' = {}
    /\ UNCHANGED <<tools, dispatches, audit, effects>>
-----------------------------------------------------------------------------
(***************************************************************************)
(* Calls that others carry out                                             *)
(***************************************************************************)

\* ended: had the mandate ended by then?  That is history, as are sent, which
\* says that the call left the host, and unlogged, that its audit entry failed.
Arrives(s, kind, server, tool) ==
    /\ host = "listening"
    /\ Len(dispatches) < plan.dispatches
    /\ dispatches' = Append(dispatches,
          [session |-> s, kind |-> kind, server |-> server, tool |-> tool,
           step |-> "begun", status |-> "none", ended |-> Pack \in DOMAIN dead,
           sent |-> FALSE, unlogged |-> FALSE])
    /\ UNCHANGED <<host, sessions, known, clients, tools, audit, effects>>

CallTool(s, server, tool) == IsOpen(s) /\ <<s, server, tool>> \in tools
                             /\ Arrives(s, "tool", server, tool)
CallAction(s) == IsOpen(s) /\ Arrives(s, "action", None, None)
\* The proxy asks for no session.
Infer == Arrives(None, "inference", None, None)

\* What is known of a call, before it is told.
Conclude(d, status) ==
    /\ dispatches' = [dispatches EXCEPT ![d].step = "concluded", ![d].status = status]
    /\ UNCHANGED <<host, sessions, known, clients, tools, audit, effects>>

\* The liveness check, the scope check of a tool, the parameter check of an action.
Deny(d) ==
    LET call == dispatches[d] IN
    /\ call.step = "begun"
    /\ \/ ~packLiveness
       \/ call.kind = "tool" /\ ~toolScopeGranted(call.server, call.tool)
       \/ call.kind = "action"
    /\ Conclude(d, "denied")

\* It passes them and is sent.  The call of a client that is closed fails at once.
Dispatch(d) ==
    LET call == dispatches[d] IN
    /\ call.step = "begun"
    /\ packLiveness
    /\ call.kind = "tool" => toolScopeGranted(call.server, call.tool)
    /\ IF call.kind = "tool" /\ <<call.session, call.server>> \notin clients
       THEN Conclude(d, "error")
       ELSE /\ dispatches' = [dispatches EXCEPT ![d].step = "sent", ![d].sent = TRUE]
            /\ UNCHANGED <<host, sessions, known, clients, tools, audit, effects>>

\* It takes effect, now or after the host has given it up.
TakeEffect(d) ==
    /\ dispatches[d].sent /\ d \notin effects
    /\ effects' = effects \cup {d}
    /\ UNCHANGED <<host, sessions, known, clients, tools, dispatches, audit>>

\* callDownstream, wsActionDispatch and httpActionDispatch: a report, if it took
\* effect; or an error: refused, timed out, cut off or closed.
Hear(d) ==
    /\ dispatches[d].step = "sent"
    /\ \/ d \in effects /\ Conclude(d, "ok")
       \/ Conclude(d, "error")

\* Mutant: only successes are audited.
SuccessLine(d) ==
    IF dispatches[d].status = "ok" THEN <<[call |-> d, status |-> "ok"]>> ELSE <<>>

\* What emit writes of a call.  Tools have a log by default; actions only have the
\* one that --audit-log names; inferences leave metadata on stdout.
AuditLine(d) ==
    IF dispatches[d].kind \in IF plan.auditLog THEN {"tool", "action"} ELSE {"tool"}
    THEN <<[call |-> d, status |-> dispatches[d].status]>> ELSE <<>>

\* emit, and the answer.  A sink that fails does not fail the call.
Answered(d) ==
    /\ dispatches[d].step = "concluded"
    /\ \E logged \in BOOLEAN :
          /\ audit' = IF logged THEN audit \o AuditLine(d) ELSE audit
          /\ dispatches' = [dispatches EXCEPT ![d].step = "answered",
                                              ![d].unlogged = ~logged]
    /\ UNCHANGED <<host, sessions, known, clients, tools, effects>>
-----------------------------------------------------------------------------
(***************************************************************************)
(* The host as a whole                                                     *)
(***************************************************************************)

Init ==
    /\ EditInit
    /\ host = "listening"
    /\ sessions = <<>> /\ dispatches = <<>> /\ audit = <<>>
    /\ known = {} /\ clients = {} /\ tools = {} /\ effects = {}

\* The edits of the home session: its calls begin while it is open, and what has
\* begun goes on when it closes.
Edit ==
    /\ host # "dead"
    /\ EditNext
    /\ Len(calls') > Len(calls) \/ discarded' # discarded => IsOpen(Home)
    /\ UNCHANGED hostVars

\* A step of the gateway, while the process is alive.
Serve ==
    /\ host # "dead"
    /\ \/ \E kind \in {"initialize", "stray"} : newSession(kind)
       \/ \E s \in DOMAIN sessions :
             federate(s) \/ OpenSession(s) \/ DeleteSession(s) \/ CallAction(s)
       \/ \E t \in tools : CallTool(t[1], t[2], t[3])
       \/ Infer
       \/ \E d \in DOMAIN dispatches : Deny(d) \/ Dispatch(d) \/ Hear(d) \/ Answered(d)
       \/ close
    /\ UNCHANGED editVars

\* The process is killed: downstream clients go with it, and so does the open
\* transaction.
Kill ==
    /\ plan.stops /\ host # "dead"
    /\ host' = "dead"
    /\ clients' = {} /\ known' = {}
    /\ tx' = None
    /\ discarded' = discarded \cup ({tx} \ {None})
    /\ contested' = contested \cup {calls[c].batch : c \in Committing}
    /\ UNCHANGED <<plan, ethos, editions, batches, calls, dead, outside, raced, crowded,
                   stale, sessions, tools, dispatches, audit, effects>>

Next ==
    \/ Edit
    \/ Serve
    \/ \E d \in DOMAIN dispatches : TakeEffect(d) /\ UNCHANGED editVars
    \/ Kill

Spec == Init /\ [][Next]_vars
-----------------------------------------------------------------------------
(***************************************************************************)
(* Properties                                                              *)
(***************************************************************************)

\* Nothing takes effect, no tool, action or inference, for a call that arrived when
\* the mandate of the pack had been revoked or had expired.
EndedMandateReachesNothing ==
    \A d \in effects : ~dispatches[d].ended

\* The audit log tells what happened.  What it calls ok took effect, what it calls
\* denied never will; and of a call that was answered, what took effect is in it,
\* unless its line could not be written or it has no log at all.
AuditTellsWhatHappened ==
    /\ \A i \in DOMAIN audit :
          /\ audit[i].status = "ok" => audit[i].call \in effects
          /\ audit[i].status = "denied" => audit[i].call \notin effects
    /\ \A d \in effects :
          \/ dispatches[d].step # "answered" \/ dispatches[d].unlogged
          \/ dispatches[d].kind = "inference"
          \/ dispatches[d].kind = "action" /\ ~plan.auditLog
          \/ \E i \in DOMAIN audit : audit[i].call = d /\ audit[i].status # "denied"

\* Every open downstream client has a session that will close it: one in the map,
\* or one that is being set up.  A request of a session that is gone is the
\* exception, and so is a session that was being set up when the host closed.
ClientsAreOwned ==
    \A c \in clients :
        LET s == sessions[c[1]] IN
        /\ s.step # "closed"
        /\ \/ c[1] \in known \/ s.step = "federating"
           \/ s.kind = "stray"
=============================================================================
