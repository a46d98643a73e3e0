---------------------------- MODULE AgentHostProofs ----------------------------
(***************************************************************************)
(* Agents, from both sides: what the host of an agent lets through to      *)
(* downstream servers, what its audit log says of it, and who closes its   *)
(* clients (AgentHost); what becomes of the edits of its home session      *)
(* (EditSession); and who runs a mission, how often (MissionHarness).  For *)
(* every registry, set of mandates, and number of sessions, calls,         *)
(* missions and harnesses.                                                 *)
(*                                                                         *)
(* To the first part an edit is a step that leaves the host alone and in   *)
(* which mandates only end; to the second a step of the gateway changes    *)
(* nothing, and a kill discards what was open.  The third stands alone.    *)
(* Between the second and the third: what a batch of edits amounts to, and *)
(* that an edition says what its calls were told.                          *)
(***************************************************************************)
EXTENDS AgentHost, MissionHarness, FiniteSetTheorems, SequenceTheorems,
        WellFoundedInduction, TLAPS

Servers == DOMAIN Offered
Names == UNION {Offered[s] : s \in Servers}
Statuses == {"none", "ok", "error", "denied"}

Session == [kind : {"initialize", "stray"}, step : {"federating", "open", "closed"},
            rest : Seq(Servers)]

Call == [session : Nat, kind : {"tool", "action", "inference"},
         server : Servers \cup {None}, tool : Names \cup {None},
         step : {"begun", "sent", "concluded", "answered"}, status : Statuses,
         ended : BOOLEAN, sent : BOOLEAN, unlogged : BOOLEAN]

Line == [call : Nat, status : Statuses]

SessionsTypeOK ==
    /\ plan \in Plans
    /\ host \in {"listening", "closed", "dead"}
    /\ sessions \in Seq(Session)
    /\ known \subseteq DOMAIN sessions
    /\ \A c \in clients : c[1] \in DOMAIN sessions
    /\ \A t \in tools : t[1] \in DOMAIN sessions /\ t[2] \in Servers /\ t[3] \in Names

CallsTypeOK ==
    /\ dispatches \in Seq(Call)
    /\ audit \in Seq(Line)
    /\ effects \subseteq DOMAIN dispatches

\* A call that was sent had a live mandate when it arrived.  What is denied was not
\* sent, and what is called ok took effect.
CallsAreSound ==
    \A d \in DOMAIN dispatches :
        LET call == dispatches[d] IN
        /\ call.ended => Pack \in DOMAIN dead
        /\ call.sent => ~call.ended
        /\ call.step = "begun" => ~call.sent /\ call.status = "none"
        /\ call.step = "sent" => call.sent
        /\ call.status = "denied" => ~call.sent
        /\ call.status = "ok" => d \in effects

EffectsWereSent == \A d \in effects : dispatches[d].sent

\* A line is of a call that was answered, and says what became of it.
LinesAreTrue ==
    \A i \in DOMAIN audit :
        /\ audit[i].call \in DOMAIN dispatches
        /\ dispatches[audit[i].call].step = "answered"
        /\ audit[i].status = dispatches[audit[i].call].status

\* A call that was answered and has a log has a line there.
Logged(call) ==
    call.step = "answered" /\ ~call.unlogged
    /\ (call.kind = "tool" \/ (call.kind = "action" /\ plan.auditLog))
AnswersAreLogged ==
    \A d \in DOMAIN dispatches :
        Logged(dispatches[d]) => \E i \in DOMAIN audit : audit[i].call = d

HostInv == SessionsTypeOK /\ CallsTypeOK /\ CallsAreSound /\ EffectsWereSent
           /\ LinesAreTrue /\ AnswersAreLogged /\ ClientsAreOwned
-----------------------------------------------------------------------------
\* No step of the edits takes a mandate back that has ended, or changes the plan.
LEMMA EditsOnlyEndMandates ==
    EditNext => DOMAIN dead \subseteq DOMAIN dead' /\ plan' = plan
<1> SUFFICES ASSUME EditNext PROVE DOMAIN dead \subseteq DOMAIN dead' /\ plan' = plan
  OBVIOUS
<1> USE DEF Refuse, Answer, Push, Looked, Seal, Arrive, editHistory
<1>1. ASSUME NEW op, NEW auth, NEW section, BeginWrite(op, auth, section)
      PROVE  dead' = dead /\ plan' = plan
  BY <1>1 DEF BeginWrite
<1>2. ASSUME NEW auth, NEW z, BeginAdd(auth, z) PROVE dead' = dead /\ plan' = plan
  BY <1>1, <1>2 DEF BeginAdd
<1>3. CASE BeginCommit
  BY <1>3 DEF BeginCommit
<1>4. ASSUME NEW c, StageAtOnce(c) \/ EnrollAndLook(c) \/ LookForAppend(c)
      PROVE  dead' = dead /\ plan' = plan
  BY <1>4 DEF StageAtOnce, EnrollAndLook, LookForAppend
<1>5. ASSUME NEW c, ReadPersisted(c) \/ StageSeen(c)
      PROVE  dead' = dead /\ plan' = plan
  BY <1>5 DEF ReadPersisted, StageSeen
<1>6. ASSUME NEW c, WriteNow(c) \/ Apply(c) \/ Finish(c)
      PROVE  dead' = dead /\ plan' = plan
  BY <1>6 DEF WriteNow, Apply, Finish
<1>7. CASE Discard
  BY <1>7 DEF Discard
<1>8. ASSUME NEW s, WriteBeside(s) PROVE dead' = dead /\ plan' = plan
  BY <1>8 DEF WriteBeside
<1>9. ASSUME NEW m, NEW why, MandateEnds(m, why)
      PROVE  DOMAIN dead \subseteq DOMAIN dead' /\ plan' = plan
  BY <1>9 DEF MandateEnds, With
<1>10. QED
  BY <1>1, <1>2, <1>3, <1>4, <1>5, <1>6, <1>7, <1>8, <1>9 DEF EditNext
LEMMA HostInit == Init => HostInv
<1> SUFFICES ASSUME Init PROVE HostInv
  OBVIOUS
<1> USE DEF Init
<1>1. SessionsTypeOK /\ CallsTypeOK
  BY DEF SessionsTypeOK, CallsTypeOK, EditInit
<1>2. CallsAreSound /\ EffectsWereSent /\ LinesAreTrue /\ AnswersAreLogged /\ ClientsAreOwned
  BY DEF CallsAreSound, EffectsWereSent, LinesAreTrue, AnswersAreLogged, ClientsAreOwned
<1>3. QED
  BY <1>1, <1>2 DEF HostInv

\* What a step that leaves the calls, their lines and their effects alone keeps.
CallsStay == /\ dispatches' = dispatches /\ audit' = audit /\ effects' = effects
             /\ plan' = plan /\ DOMAIN dead \subseteq DOMAIN dead'

LEMMA CallsStayTrue ==
    ASSUME HostInv, CallsStay
    PROVE  CallsTypeOK' /\ CallsAreSound' /\ EffectsWereSent' /\ LinesAreTrue'
           /\ AnswersAreLogged'
<1> USE DEF HostInv, CallsStay
<1>1. CallsAreSound'
  BY DEF CallsAreSound
<1>2. CallsTypeOK' /\ EffectsWereSent' /\ LinesAreTrue'
  BY DEF CallsTypeOK, EffectsWereSent, LinesAreTrue
<1>3. AnswersAreLogged'
  BY DEF AnswersAreLogged, Logged
<1>4. QED
  BY <1>1, <1>2, <1>3

\* Some session gets another step.
LEMMA StepOfSession ==
    ASSUME NEW t \in Seq(Session), NEW s \in DOMAIN t,
           NEW step \in {"federating", "open", "closed"}
    PROVE  LET u == [t EXCEPT ![s].step = step] IN
           /\ u \in Seq(Session) /\ DOMAIN u = DOMAIN t
           /\ \A r \in DOMAIN t : r # s => u[r] = t[r]
           /\ u[s].step = step /\ u[s].kind = t[s].kind
<1> DEFINE e == [t[s] EXCEPT !.step = step]
<1>1. t[s] \in Session
  OBVIOUS
<1>2. e \in Session /\ e.step = step /\ e.kind = t[s].kind
  BY <1>1 DEF Session
<1> HIDE DEF e
<1>3. [t EXCEPT ![s] = e] \in Seq(Session)
  BY <1>2
<1>4. QED
  BY <1>2, <1>3 DEF e

\* The steps of a session: setting it up, and the ways it ends.
SessionStep == /\ plan' = plan /\ dead' = dead
               /\ \/ \E kind \in {"initialize", "stray"} : newSession(kind)
                  \/ \E s \in DOMAIN sessions :
                        federate(s) \/ OpenSession(s) \/ DeleteSession(s)
                  \/ close

LEMMA NewSessionKeeps ==
    ASSUME SessionsTypeOK, ClientsAreOwned, plan' = plan,
           NEW kind \in {"initialize", "stray"}, newSession(kind)
    PROVE  SessionsTypeOK' /\ ClientsAreOwned'
<1> DEFINE rest == IF isMandateWindowLive THEN plan.registry ELSE <<>>
           new == [kind |-> kind, step |-> "federating", rest |-> rest]
<1>1. new \in Session
  <2>1. plan.registry \in Seq(DOMAIN Offered \cap DOMAIN ToolScopes)
    BY HostAssumption DEF SessionsTypeOK
  <2>2. \A q \in Seq(DOMAIN Offered \cap DOMAIN ToolScopes) : q \in Seq(Servers)
    BY DEF Servers
  <2>3. rest \in Seq(Servers)
    BY <2>1, <2>2
  <2> HIDE DEF rest
  <2>4. QED
    BY <2>3 DEF Session
<1>2. sessions \in Seq(Session) /\ sessions' = Append(sessions, new)
  BY DEF newSession, SessionsTypeOK
<1> HIDE DEF new
<1>3. /\ sessions' \in Seq(Session) /\ DOMAIN sessions \subseteq DOMAIN sessions'
      /\ \A s \in DOMAIN sessions : sessions'[s] = sessions[s]
  BY <1>1, <1>2
<1>4. host' = host /\ known' = known /\ clients' = clients /\ tools' = tools
  BY DEF newSession
<1>5. SessionsTypeOK'
  BY <1>3, <1>4 DEF SessionsTypeOK
<1>6. ClientsAreOwned'
  BY <1>3, <1>4 DEF ClientsAreOwned, SessionsTypeOK
<1>7. QED
  BY <1>5, <1>6

LEMMA FederateKeeps ==
    ASSUME SessionsTypeOK, ClientsAreOwned, plan' = plan,
           NEW s \in DOMAIN sessions, federate(s)
    PROVE  SessionsTypeOK' /\ ClientsAreOwned'
<1> DEFINE server == Head(sessions[s].rest)
           rest == Tail(sessions[s].rest)
           e == [sessions[s] EXCEPT !.rest = rest]
<1>1. /\ sessions \in Seq(Session) /\ sessions[s] \in Session
      /\ sessions[s].rest # <<>> /\ sessions[s].step = "federating"
  BY DEF SessionsTypeOK, federate
<1>2. sessions[s].rest \in Seq(Servers)
  BY <1>1 DEF Session
<1>3. server \in Servers /\ rest \in Seq(Servers)
  BY <1>1, <1>2
<1>4. sessions' = [sessions EXCEPT ![s] = e]
  BY DEF federate
<1>5. /\ host' = host /\ known' = known /\ clients' \subseteq clients \cup {<<s, server>>}
      /\ \E some \in SUBSET Offered[server] :
            tools' = tools \/ tools' = tools \cup ({s} \X {server} \X some)
  BY DEF federate
<1> HIDE DEF server, rest
<1>6. e \in Session /\ e.step = sessions[s].step /\ e.kind = sessions[s].kind
  BY <1>1, <1>3 DEF Session
<1> HIDE DEF e
<1>7. /\ sessions' \in Seq(Session) /\ DOMAIN sessions' = DOMAIN sessions
      /\ \A t \in DOMAIN sessions : /\ sessions'[t].step = sessions[t].step
                                    /\ sessions'[t].kind = sessions[t].kind
  BY <1>1, <1>4, <1>6
<1>8. \A t \in tools' : t[1] \in DOMAIN sessions /\ t[2] \in Servers /\ t[3] \in Names
  <2>1. Offered[server] \subseteq Names
    BY <1>3 DEF Names
  <2>2. \A t \in tools : t[1] \in DOMAIN sessions /\ t[2] \in Servers /\ t[3] \in Names
    BY DEF SessionsTypeOK
  <2>3. ASSUME NEW some \in SUBSET Offered[server], NEW t \in {s} \X {server} \X some
        PROVE  t[1] \in DOMAIN sessions /\ t[2] \in Servers /\ t[3] \in Names
    BY <1>3, <2>1
  <2>4. QED
    BY <1>5, <2>2, <2>3
<1>9. \A c \in clients' : c[1] \in DOMAIN sessions
  BY <1>5 DEF SessionsTypeOK
<1>12. SessionsTypeOK'
  BY <1>5, <1>7, <1>8, <1>9 DEF SessionsTypeOK
<1>10. ClientsAreOwned'
  <2>1. ASSUME NEW c \in clients'
        PROVE  LET t == sessions'[c[1]] IN
               /\ t.step # "closed"
               /\ \/ c[1] \in known' \/ t.step = "federating" \/ t.kind = "stray"
    <3>1. CASE c \in clients
      BY <1>5, <1>7, <3>1 DEF ClientsAreOwned, SessionsTypeOK
    <3>2. CASE c = <<s, server>>
      BY <1>1, <1>7, <3>2
    <3>3. QED
      BY <1>5, <3>1, <3>2
  <2>2. QED
    BY <2>1 DEF ClientsAreOwned
<1>11. QED
  BY <1>10, <1>12

LEMMA OpenSessionKeeps ==
    ASSUME SessionsTypeOK, ClientsAreOwned, plan' = plan,
           NEW s \in DOMAIN sessions, OpenSession(s)
    PROVE  SessionsTypeOK' /\ ClientsAreOwned'
<1>1. /\ sessions' = [sessions EXCEPT ![s].step = "open"]
      /\ known' = IF sessions[s].kind = "initialize" THEN known \cup {s} ELSE known
      /\ host' = host /\ clients' = clients /\ tools' = tools
  BY DEF OpenSession
<1>2. sessions \in Seq(Session) /\ sessions[s].kind \in {"initialize", "stray"}
  <2>1. sessions \in Seq(Session)
    BY DEF SessionsTypeOK
  <2>2. sessions[s] \in Session
    BY <2>1
  <2>3. QED
    BY <2>1, <2>2 DEF Session
<1>3. /\ sessions' \in Seq(Session) /\ DOMAIN sessions' = DOMAIN sessions
      /\ \A t \in DOMAIN sessions : t # s => sessions'[t] = sessions[t]
      /\ sessions'[s].step = "open" /\ sessions'[s].kind = sessions[s].kind
  BY <1>1, <1>2, StepOfSession
<1>4. SessionsTypeOK'
  BY <1>1, <1>3 DEF SessionsTypeOK
<1>5. ClientsAreOwned'
  BY <1>1, <1>2, <1>3 DEF ClientsAreOwned, SessionsTypeOK
<1>6. QED
  BY <1>4, <1>5

LEMMA DeleteSessionKeeps ==
    ASSUME SessionsTypeOK, ClientsAreOwned, plan' = plan,
           NEW s \in DOMAIN sessions, DeleteSession(s)
    PROVE  SessionsTypeOK' /\ ClientsAreOwned'
<1>1. /\ sessions' = [sessions EXCEPT ![s].step = "closed"]
      /\ clients' = {c \in clients : c[1] # s}
      /\ host' = host /\ known' = known /\ tools' = tools
  BY DEF DeleteSession, TornDown
<1>2. sessions \in Seq(Session)
  BY DEF SessionsTypeOK
<1>3. /\ sessions' \in Seq(Session) /\ DOMAIN sessions' = DOMAIN sessions
      /\ \A t \in DOMAIN sessions : t # s => sessions'[t] = sessions[t]
  BY <1>1, <1>2, StepOfSession
<1>4. SessionsTypeOK'
  BY <1>1, <1>3 DEF SessionsTypeOK
<1>5. ClientsAreOwned'
  BY <1>1, <1>3 DEF ClientsAreOwned, SessionsTypeOK
<1>6. QED
  BY <1>4, <1>5

LEMMA CloseKeeps ==
    ASSUME SessionsTypeOK, ClientsAreOwned, plan' = plan, close
    PROVE  SessionsTypeOK' /\ ClientsAreOwned'
<1> DEFINE Closed(s) == [sessions[s] EXCEPT !.step = IF s \in known THEN "closed" ELSE @]
<1>1. /\ sessions' = [s \in DOMAIN sessions |-> Closed(s)]
      /\ clients' = {c \in clients : c[1] \notin known}
      /\ host' = "closed" /\ known' = {} /\ tools' = tools
  BY DEF close, TornDown
<1>2. sessions \in Seq(Session) /\ \A s \in DOMAIN sessions : sessions[s] \in Session
  BY DEF SessionsTypeOK
<1>3. ASSUME NEW s \in DOMAIN sessions
      PROVE  Closed(s) \in Session /\ (s \notin known => Closed(s) = sessions[s])
  <2>1. sessions[s] \in Session
    BY <1>2
  <2>2. QED
    BY <2>1 DEF Session
<1> HIDE DEF Closed
<1>4. /\ sessions' \in Seq(Session) /\ DOMAIN sessions' = DOMAIN sessions
      /\ \A s \in DOMAIN sessions : s \notin known => sessions'[s] = sessions[s]
  BY <1>1, <1>2, <1>3
<1>5. SessionsTypeOK'
  BY <1>1, <1>4 DEF SessionsTypeOK
<1>6. ClientsAreOwned'
  BY <1>1, <1>4 DEF ClientsAreOwned, SessionsTypeOK
<1>7. QED
  BY <1>5, <1>6

LEMMA SessionsKeepHostInv == HostInv /\ SessionStep => HostInv'
<1> SUFFICES ASSUME HostInv, SessionStep PROVE HostInv'
  OBVIOUS
<1>1. CallsStay
  BY DEF SessionStep, CallsStay, newSession, federate, OpenSession, DeleteSession, close
<1>2. SessionsTypeOK' /\ ClientsAreOwned'
  BY NewSessionKeeps, FederateKeeps, OpenSessionKeeps, DeleteSessionKeeps, CloseKeeps
  DEF SessionStep, HostInv
<1>3. QED
  BY <1>1, <1>2, CallsStayTrue DEF HostInv
-----------------------------------------------------------------------------
\* The steps of a call leave the sessions alone.
SessionsStay == /\ host' = host /\ sessions' = sessions /\ known' = known
                /\ clients' = clients /\ tools' = tools
                /\ plan' = plan /\ dead' = dead

LEMMA SessionsStayTrue ==
    ASSUME HostInv, SessionsStay
    PROVE  SessionsTypeOK' /\ ClientsAreOwned'
<1>1. SessionsTypeOK'
  BY DEF HostInv, SessionsStay, SessionsTypeOK
<1>2. ClientsAreOwned'
  BY DEF HostInv, SessionsStay, ClientsAreOwned
<1>3. QED
  BY <1>1, <1>2

LEMMA ArrivalKeepsHostInv ==
    ASSUME HostInv, plan' = plan, dead' = dead, NEW s \in Nat,
           NEW kind \in {"tool", "action", "inference"},
           NEW server \in Servers \cup {None}, NEW tool \in Names \cup {None},
           Arrives(s, kind, server, tool)
    PROVE  HostInv'
<1> DEFINE was == Pack \in DOMAIN dead
           new == [session |-> s, kind |-> kind, server |-> server, tool |-> tool,
                   step |-> "begun", status |-> "none", ended |-> was,
                   sent |-> FALSE, unlogged |-> FALSE]
<1>1. /\ new \in Call /\ new.step = "begun" /\ new.status = "none" /\ ~new.sent
      /\ new.ended => Pack \in DOMAIN dead
  <2>1. was \in BOOLEAN
    OBVIOUS
  <2>2. new.ended => Pack \in DOMAIN dead
    OBVIOUS
  <2> HIDE DEF was
  <2>3. QED
    BY <2>1, <2>2 DEF Call, Statuses
<1>2. dispatches' = Append(dispatches, new) /\ audit' = audit /\ effects' = effects
  BY DEF Arrives
<1>3. dispatches \in Seq(Call) /\ effects \subseteq DOMAIN dispatches
  BY DEF HostInv, CallsTypeOK
<1> HIDE DEF new
<1>4. /\ dispatches' \in Seq(Call)
      /\ DOMAIN dispatches' = DOMAIN dispatches \cup {Len(dispatches) + 1}
      /\ Len(dispatches) + 1 \notin DOMAIN dispatches
      /\ dispatches'[Len(dispatches) + 1] = new
      /\ \A d \in DOMAIN dispatches : dispatches'[d] = dispatches[d]
  BY <1>1, <1>2, <1>3
<1>5. CallsTypeOK'
  BY <1>2, <1>4 DEF HostInv, CallsTypeOK
<1>6. CallsAreSound'
  BY <1>1, <1>2, <1>4 DEF HostInv, CallsAreSound
<1>7. EffectsWereSent' /\ LinesAreTrue'
  BY <1>2, <1>3, <1>4 DEF HostInv, EffectsWereSent, LinesAreTrue
<1>8. AnswersAreLogged'
  BY <1>1, <1>2, <1>4 DEF HostInv, AnswersAreLogged, Logged
<1>9. SessionsTypeOK' /\ ClientsAreOwned'
  BY SessionsStayTrue DEF SessionsStay, Arrives
<1>10. QED
  BY <1>5, <1>6, <1>7, <1>8, <1>9 DEF HostInv

LEMMA ConclusionKeepsHostInv ==
    ASSUME HostInv, plan' = plan, dead' = dead, NEW d \in DOMAIN dispatches,
           NEW outcome \in {"ok", "error", "denied"}, Conclude(d, outcome),
           dispatches[d].step \in {"begun", "sent"},
           outcome = "denied" => dispatches[d].step = "begun",
           outcome = "ok" => d \in effects
    PROVE  HostInv'
<1> DEFINE call == dispatches[d]
           e == [call EXCEPT !.step = "concluded", !.status = outcome]
<1>1. dispatches \in Seq(Call) /\ call \in Call /\ effects \subseteq DOMAIN dispatches
  BY DEF HostInv, CallsTypeOK
<1>2. /\ e \in Call /\ e.step = "concluded" /\ e.status = outcome
      /\ e.ended = call.ended /\ e.sent = call.sent
  BY <1>1 DEF Call, Statuses
<1>3. dispatches' = [dispatches EXCEPT ![d] = e] /\ audit' = audit /\ effects' = effects
  BY <1>1 DEF Conclude
<1> HIDE DEF e
<1>4. /\ dispatches' \in Seq(Call) /\ DOMAIN dispatches' = DOMAIN dispatches
      /\ dispatches'[d] = e
      /\ \A x \in DOMAIN dispatches : x # d => dispatches'[x] = dispatches[x]
  BY <1>1, <1>2, <1>3
<1>5. CallsTypeOK'
  BY <1>3, <1>4 DEF HostInv, CallsTypeOK
<1>6. CallsAreSound'
  BY <1>2, <1>3, <1>4 DEF HostInv, CallsAreSound
<1>7. EffectsWereSent'
  BY <1>1, <1>2, <1>3, <1>4 DEF HostInv, EffectsWereSent
<1>8. LinesAreTrue'
  BY <1>3, <1>4 DEF HostInv, LinesAreTrue
<1>9. AnswersAreLogged'
  BY <1>2, <1>3, <1>4 DEF HostInv, AnswersAreLogged, Logged
<1>10. SessionsTypeOK' /\ ClientsAreOwned'
  BY SessionsStayTrue DEF SessionsStay, Conclude
<1>11. QED
  BY <1>5, <1>6, <1>7, <1>8, <1>9, <1>10 DEF HostInv

\* A call is sent while the mandate is live, and so it was when the call arrived.
LEMMA DispatchKeepsHostInv ==
    ASSUME HostInv, plan' = plan, dead' = dead, NEW d \in DOMAIN dispatches, Dispatch(d)
    PROVE  HostInv'
<1> DEFINE call == dispatches[d]
           e == [call EXCEPT !.step = "sent", !.sent = TRUE]
<1>1. CASE Conclude(d, "error")
  BY <1>1, ConclusionKeepsHostInv DEF Dispatch
<1>2. CASE /\ dispatches' = [dispatches EXCEPT ![d].step = "sent", ![d].sent = TRUE]
           /\ UNCHANGED <<host, sessions, known, clients, tools, audit, effects>>
  <2>1. dispatches \in Seq(Call) /\ call \in Call /\ effects \subseteq DOMAIN dispatches
    BY DEF HostInv, CallsTypeOK
  <2>2. /\ e \in Call /\ e.step = "sent" /\ e.status = call.status
        /\ e.ended = call.ended /\ e.sent
    BY <2>1 DEF Call, Statuses
  <2>3. ~call.ended /\ call.step = "begun" /\ ~call.sent
    BY DEF HostInv, CallsAreSound, Dispatch, packLiveness
  <2>4. dispatches' = [dispatches EXCEPT ![d] = e] /\ audit' = audit /\ effects' = effects
    BY <1>2, <2>1
  <2> HIDE DEF e
  <2>5. /\ dispatches' \in Seq(Call) /\ DOMAIN dispatches' = DOMAIN dispatches
        /\ dispatches'[d] = e
        /\ \A x \in DOMAIN dispatches : x # d => dispatches'[x] = dispatches[x]
    BY <2>1, <2>2, <2>4
  <2>6. call.status # "denied"
    BY <2>3 DEF HostInv, CallsAreSound, Dispatch
  <2>7. CallsTypeOK' /\ EffectsWereSent'
    BY <2>1, <2>2, <2>4, <2>5 DEF HostInv, CallsTypeOK, EffectsWereSent
  <2>8. CallsAreSound'
    BY <2>2, <2>3, <2>4, <2>5, <2>6 DEF HostInv, CallsAreSound
  <2>9. LinesAreTrue'
    BY <2>3, <2>4, <2>5 DEF HostInv, LinesAreTrue
  <2>10. AnswersAreLogged'
    BY <2>2, <2>4, <2>5 DEF HostInv, AnswersAreLogged, Logged
  <2>11. SessionsTypeOK' /\ ClientsAreOwned'
    BY <1>2, SessionsStayTrue DEF SessionsStay
  <2>12. QED
    BY <2>7, <2>8, <2>9, <2>10, <2>11 DEF HostInv
<1>3. QED
  BY <1>1, <1>2 DEF Dispatch

\* The lines that an answer adds are of this call, and there is one if it has a log.
LEMMA AnswerKeepsHostInv ==
    ASSUME HostInv, plan' = plan, dead' = dead, NEW d \in DOMAIN dispatches, Answered(d)
    PROVE  HostInv'
<1> DEFINE call == dispatches[d]
           line == [call |-> d, status |-> call.status]
           hasLog == call.kind = "tool" \/ (call.kind = "action" /\ plan.auditLog)
<1>1. /\ dispatches \in Seq(Call) /\ call \in Call /\ audit \in Seq(Line)
      /\ effects \subseteq DOMAIN dispatches /\ call.step = "concluded"
  BY DEF HostInv, CallsTypeOK, Answered
<1>2. PICK logged \in BOOLEAN :
         /\ audit' = IF logged THEN audit \o AuditLine(d) ELSE audit
         /\ dispatches' = [dispatches EXCEPT ![d].step = "answered", ![d].unlogged = ~logged]
  BY DEF Answered
<1> DEFINE e == [call EXCEPT !.step = "answered", !.unlogged = ~logged]
<1>3. /\ e \in Call /\ e.step = "answered" /\ e.status = call.status
      /\ e.kind = call.kind /\ e.ended = call.ended /\ e.sent = call.sent
      /\ e.unlogged = ~logged
  BY <1>1 DEF Call
<1>4. dispatches' = [dispatches EXCEPT ![d] = e] /\ effects' = effects
  BY <1>1, <1>2 DEF Answered
<1> HIDE DEF e
<1>5. /\ dispatches' \in Seq(Call) /\ DOMAIN dispatches' = DOMAIN dispatches
      /\ dispatches'[d] = e
      /\ \A x \in DOMAIN dispatches : x # d => dispatches'[x] = dispatches[x]
  BY <1>1, <1>3, <1>4
<1>6. AuditLine(d) = IF hasLog THEN <<line>> ELSE <<>>
  BY DEF AuditLine
<1>7. line \in Line /\ line.call = d /\ line.status = call.status
  BY <1>1 DEF Line, Call
<1> HIDE DEF line, hasLog
<1>8. audit' = audit \/ audit' = Append(audit, line)
  BY <1>1, <1>2, <1>6, <1>7
<1>9. /\ audit' \in Seq(Line) /\ DOMAIN audit \subseteq DOMAIN audit'
      /\ \A i \in DOMAIN audit : audit'[i] = audit[i]
      /\ \A i \in DOMAIN audit' : i \notin DOMAIN audit => audit'[i] = line
  <2>1. CASE audit' = audit
    BY <1>1, <2>1
  <2>2. CASE audit' = Append(audit, line)
    <3>1. audit' \in Seq(Line) /\ Len(audit') = Len(audit) + 1
      BY <1>1, <1>7, <2>2
    <3>2. DOMAIN audit' = 1..Len(audit') /\ DOMAIN audit = 1..Len(audit) /\ Len(audit) \in Nat
      BY <1>1, <3>1
    <3>3. \A i \in DOMAIN audit : audit'[i] = audit[i]
      BY <1>1, <1>7, <2>2
    <3>4. audit'[Len(audit) + 1] = line
      BY <1>1, <1>7, <2>2
    <3>5. QED
      BY <3>1, <3>2, <3>3, <3>4
  <2>3. QED
    BY <1>8, <2>1, <2>2
<1>10. logged /\ hasLog => \E i \in DOMAIN audit' : audit'[i].call = d
  <2>1. SUFFICES ASSUME logged, hasLog PROVE \E i \in DOMAIN audit' : audit'[i].call = d
    OBVIOUS
  <2>2. audit' = Append(audit, line)
    BY <1>1, <1>2, <1>6, <1>7, <2>1
  <2>3. Len(audit) + 1 \in DOMAIN audit' /\ audit'[Len(audit) + 1] = line
    BY <1>1, <1>7, <2>2
  <2>4. QED
    BY <1>7, <2>3
<1>11. CallsTypeOK'
  BY <1>4, <1>5, <1>9 DEF HostInv, CallsTypeOK
<1>12. CallsAreSound'
  BY <1>1, <1>3, <1>4, <1>5 DEF HostInv, CallsAreSound
<1>13. EffectsWereSent'
  BY <1>1, <1>3, <1>4, <1>5 DEF HostInv, EffectsWereSent
<1>14. LinesAreTrue'
  <2>1. \A i \in DOMAIN audit : audit[i].call # d
    BY <1>1 DEF HostInv, LinesAreTrue
  <2>2. QED
    BY <1>3, <1>5, <1>7, <1>9, <2>1 DEF HostInv, LinesAreTrue
<1>15. AnswersAreLogged'
  <2>1. ASSUME NEW x \in DOMAIN dispatches, x # d, Logged(dispatches[x])'
        PROVE  \E i \in DOMAIN audit' : audit'[i].call = x
    <3>1. \E i \in DOMAIN audit : audit[i].call = x
      BY <1>5, <2>1 DEF HostInv, AnswersAreLogged, Logged
    <3>2. QED
      BY <1>9, <3>1
  <2>2. Logged(dispatches[d])' => logged /\ hasLog
    BY <1>3, <1>5 DEF Logged, hasLog
  <2>3. QED
    BY <1>5, <1>10, <2>1, <2>2 DEF AnswersAreLogged
<1>16. SessionsTypeOK' /\ ClientsAreOwned'
  BY SessionsStayTrue DEF SessionsStay, Answered
<1>17. QED
  BY <1>11, <1>12, <1>13, <1>14, <1>15, <1>16 DEF HostInv

LEMMA EffectKeepsHostInv ==
    ASSUME HostInv, UNCHANGED editVars, NEW d \in DOMAIN dispatches, TakeEffect(d)
    PROVE  HostInv'
<1>1. /\ effects' = effects \cup {d} /\ dispatches' = dispatches /\ audit' = audit
      /\ plan' = plan /\ dead' = dead /\ dispatches[d].sent
  BY DEF TakeEffect, editVars
<1>2. CallsTypeOK' /\ EffectsWereSent' /\ LinesAreTrue' /\ CallsAreSound'
  BY <1>1 DEF HostInv, CallsTypeOK, EffectsWereSent, LinesAreTrue, CallsAreSound
<1>3. AnswersAreLogged'
  BY <1>1 DEF HostInv, AnswersAreLogged, Logged
<1>4. SessionsTypeOK' /\ ClientsAreOwned'
  BY <1>1, SessionsStayTrue DEF SessionsStay, TakeEffect
<1>5. QED
  BY <1>2, <1>3, <1>4 DEF HostInv

LEMMA KillKeepsHostInv == HostInv /\ Kill => HostInv'
<1> SUFFICES ASSUME HostInv, Kill PROVE HostInv'
  OBVIOUS
<1>1. CallsStay
  BY DEF Kill, CallsStay
<1>2. SessionsTypeOK' /\ ClientsAreOwned'
  BY DEF Kill, HostInv, SessionsTypeOK, ClientsAreOwned
<1>3. QED
  BY <1>1, <1>2, CallsStayTrue DEF HostInv

LEMMA EditKeepsHostInv == HostInv /\ Edit => HostInv'
<1> SUFFICES ASSUME HostInv, Edit PROVE HostInv'
  OBVIOUS
<1>1. CallsStay /\ sessions' = sessions /\ known' = known /\ clients' = clients
      /\ tools' = tools /\ host' = host /\ plan' = plan
  BY EditsOnlyEndMandates DEF Edit, CallsStay, hostVars
<1>2. SessionsTypeOK' /\ ClientsAreOwned'
  BY <1>1 DEF HostInv, SessionsTypeOK, ClientsAreOwned
<1>3. QED
  BY <1>1, <1>2, CallsStayTrue DEF HostInv

LEMMA ServeKeepsHostInv == HostInv /\ Serve => HostInv'
<1> SUFFICES ASSUME HostInv, Serve PROVE HostInv'
  OBVIOUS
<1>1. plan' = plan /\ dead' = dead
  BY DEF Serve, editVars
<1>2. CASE SessionStep
  BY <1>2, SessionsKeepHostInv
<1>3. ASSUME NEW s \in DOMAIN sessions, CallAction(s) PROVE HostInv'
  <2>1. s \in Nat
    BY DEF HostInv, SessionsTypeOK
  <2>2. QED
    BY <1>1, <1>3, <2>1, ArrivalKeepsHostInv DEF CallAction
<1>4. ASSUME NEW t \in tools, CallTool(t[1], t[2], t[3]) PROVE HostInv'
  <2>1. t[1] \in Nat /\ t[2] \in Servers /\ t[3] \in Names
    BY DEF HostInv, SessionsTypeOK
  <2>2. Arrives(t[1], "tool", t[2], t[3])
    BY <1>4 DEF CallTool
  <2>3. QED
    BY <1>1, <2>1, <2>2, ArrivalKeepsHostInv
<1>5. CASE Infer
  BY <1>1, <1>5, ArrivalKeepsHostInv DEF Infer, None
<1>6. ASSUME NEW d \in DOMAIN dispatches, Deny(d) PROVE HostInv'
  BY <1>1, <1>6, ConclusionKeepsHostInv DEF Deny
<1>7. ASSUME NEW d \in DOMAIN dispatches, Hear(d) PROVE HostInv'
  <2>1. CASE d \in effects /\ Conclude(d, "ok")
    BY <1>1, <1>7, <2>1, ConclusionKeepsHostInv DEF Hear
  <2>2. CASE Conclude(d, "error")
    BY <1>1, <1>7, <2>2, ConclusionKeepsHostInv DEF Hear
  <2>3. QED
    BY <1>7, <2>1, <2>2 DEF Hear
<1>8. ASSUME NEW d \in DOMAIN dispatches, Dispatch(d) \/ Answered(d) PROVE HostInv'
  BY <1>1, <1>8, DispatchKeepsHostInv, AnswerKeepsHostInv
<1>9. QED
  BY <1>1, <1>2, <1>3, <1>4, <1>5, <1>6, <1>7, <1>8 DEF Serve, SessionStep

\* The invariant of the host, whatever the edits of its sessions do.
THEOREM HostInvariant == Spec => []HostInv
<1>1. HostInv /\ [Next]_vars => HostInv'
  <2> SUFFICES ASSUME HostInv, [Next]_vars PROVE HostInv'
    OBVIOUS
  <2>1. ASSUME NEW d \in DOMAIN dispatches, TakeEffect(d), UNCHANGED editVars
        PROVE  HostInv'
    BY <2>1, EffectKeepsHostInv
  <2>2. CASE UNCHANGED vars
    <3>1. CallsStay /\ SessionsStay
      BY <2>2 DEF vars, editVars, hostVars, CallsStay, SessionsStay
    <3>2. QED
      BY <3>1, CallsStayTrue, SessionsStayTrue DEF HostInv
  <2>3. QED
    BY <2>1, <2>2, EditKeepsHostInv, ServeKeepsHostInv, KillKeepsHostInv DEF Next
<1>2. QED
  BY <1>1, HostInit, PTL DEF Spec

\* No call that arrives once the mandate of the pack has ended has an effect, tool,
\* action or inference, whatever the downstream servers and the hand do.
THEOREM EndedMandatesReachNothing == Spec => []EndedMandateReachesNothing
<1>1. HostInv => EndedMandateReachesNothing
  BY DEF HostInv, CallsTypeOK, EffectsWereSent, CallsAreSound, EndedMandateReachesNothing
<1>2. QED
  BY <1>1, HostInvariant, PTL

\* The audit log tells what happened: what it says is so, and of the calls that have
\* a log it leaves out only those whose line could not be written.
THEOREM AuditsTell == Spec => []AuditTellsWhatHappened
<1>1. HostInv => AuditTellsWhatHappened
  <2> SUFFICES ASSUME HostInv PROVE AuditTellsWhatHappened
    OBVIOUS
  <2>1. ASSUME NEW i \in DOMAIN audit
        PROVE  /\ audit[i].status = "ok" => audit[i].call \in effects
               /\ audit[i].status = "denied" => audit[i].call \notin effects
    BY DEF HostInv, LinesAreTrue, CallsAreSound, EffectsWereSent
  <2>2. ASSUME NEW d \in effects, dispatches[d].step = "answered", ~dispatches[d].unlogged,
               dispatches[d].kind # "inference",
               ~(dispatches[d].kind = "action" /\ ~plan.auditLog)
        PROVE  \E i \in DOMAIN audit : audit[i].call = d /\ audit[i].status # "denied"
    <3>1. d \in DOMAIN dispatches /\ dispatches[d] \in Call /\ plan.auditLog \in BOOLEAN
      BY HostAssumption DEF HostInv, CallsTypeOK, SessionsTypeOK
    <3>2. Logged(dispatches[d])
      BY <2>2, <3>1 DEF Logged, Call
    <3>3. PICK i \in DOMAIN audit : audit[i].call = d
      BY <3>1, <3>2 DEF HostInv, AnswersAreLogged
    <3>4. QED
      BY <2>1, <3>3
  <2>3. QED
    BY <2>1, <2>2 DEF AuditTellsWhatHappened
<1>2. QED
  BY <1>1, HostInvariant, PTL

\* An open downstream client has a session that will close it, but for the requests
\* of sessions that are gone and the sessions being set up when the host closes.
THEOREM ClientsAreAlwaysOwned == Spec => []ClientsAreOwned
<1>1. HostInv => ClientsAreOwned
  BY DEF HostInv
<1>2. QED
  BY <1>1, HostInvariant, PTL
-----------------------------------------------------------------------------
(***************************************************************************)
(* The edits of the session: a write that was told staged is in one place, *)
(* and editions have one authority.                                        *)
(***************************************************************************)

Fields == {"op", "auth", "section", "batch", "step", "view", "seen", "answer"}

\* A call, at any stage: what it is of, and the transaction it has in hand.
CallIsSound(c) ==
    LET call == calls[c] IN
    /\ DOMAIN call = Fields
    /\ call.op \in Ops
    /\ call.step \in {"begun", "reading", "seen", "applied", "done"}
    /\ call.answer \in {"none", "refused", "staged", "written", "committed"}
    /\ call.step # "done" => call.answer = "none"
    /\ call.step = "begun" /\ call.op # "commit" => call.batch = None
    /\ call.op = "append" /\ call.step # "done" => call.batch = None
    /\ IF call.op = "commit" THEN call.step \notin {"reading", "seen"}
       ELSE call.step # "applied"
    /\ call.op \in {"title", "body", "delete"} /\ call.step \in {"reading", "seen"}
         => call.batch # None
    /\ call.op = "commit" \/ call.answer = "staged" => call.batch # None
    /\ call.answer \in {"staged", "written"} => call.op # "commit"
    /\ call.batch # None => call.batch \in DOMAIN batches /\ call.auth = batches[call.batch].auth
    /\ call.op # "commit" /\ call.auth # Owner => ZoneOf[call.auth] = call.section[1]

CallsAreTyped == \A c \in DOMAIN calls : CallIsSound(c)

\* A write that is in a batch was staged in it, and a batch has one authority.
BatchesAreSound ==
    \A t \in DOMAIN batches :
        /\ DOMAIN batches[t] = {"auth", "writes"}
        /\ \A j \in DOMAIN batches[t].writes :
              LET w == batches[t].writes[j] IN
              /\ w.by \in DOMAIN calls
              /\ calls[w.by].answer = "staged" /\ calls[w.by].batch = t
              /\ w.section = calls[w.by].section

\* An edition is of a batch, of which it has the writes, or of one call.
EditionsAreOf ==
    \A i \in DOMAIN editions :
        LET e == editions[i] IN
        /\ e.batch # None => e.batch \in DOMAIN batches /\ e.auth = batches[e.batch].auth
        /\ \A j \in DOMAIN e.writes :
              LET w == e.writes[j] IN
              /\ w.by \in DOMAIN calls /\ w.section = calls[w.by].section
              /\ IF e.batch = None
                 THEN calls[w.by].answer = "written" /\ calls[w.by].auth = e.auth
                 ELSE calls[w.by].answer = "staged" /\ calls[w.by].batch = e.batch

TxIsSound == tx # None => tx \in DOMAIN batches
DiscardedAreBatches == discarded \subseteq DOMAIN batches

\* A write that is not noted as raced has the transaction for itself.
WritesAreAlone ==
    \A c \in Writing \ raced :
        /\ Committing = {}
        /\ host # "dead" /\ calls[c].batch # None => tx = calls[c].batch

CommitsOn(t) == {d \in Committing : calls[d].batch = t}
AppliedOn(t) == {d \in CommitsOn(t) : calls[d].step = "applied"}
EditionsOf(t) == {i \in DOMAIN editions : editions[i].batch = t}

\* A transaction that is not contested: one commit at a time, and one edition.
CommitsAreAlone ==
    \A t \in DOMAIN batches \ contested :
        /\ \A d, e \in CommitsOn(t) : d = e
        /\ \A i, j \in EditionsOf(t) : i = j
        /\ \A d \in CommitsOn(t) : EditionsOf(t) = {} <=> calls[d].step = "begun"
        /\ tx = t /\ EditionsOf(t) # {} => AppliedOn(t) # {}
        /\ t \in discarded => tx # t /\ EditionsOf(t) = {} /\ CommitsOn(t) = {}

\* A write that was staged while no other call was out is in its batch, and goes with it.
Settled(c) == calls[c].answer = "staged" /\ c \notin raced /\ calls[c].batch \notin contested

KeptIn(c, t) ==
    /\ \E j \in DOMAIN batches[t].writes : batches[t].writes[j].by = c
    /\ tx = t => Committing = CommitsOn(t)
    /\ EditionsOf(t) \subseteq SealedIn(c)
    /\ tx # t /\ EditionsOf(t) = {} => t \in discarded

StagedStays == \A c \in DOMAIN calls : Settled(c) => KeptIn(c, calls[c].batch)

EditInv == /\ CallsAreTyped /\ BatchesAreSound /\ EditionsAreOf /\ TxIsSound
           /\ DiscardedAreBatches /\ WritesAreAlone /\ CommitsAreAlone /\ StagedStays

-----------------------------------------------------------------------------
IsSeq(s) == \E S : s \in Seq(S)

\* What is a sequence stays one.
Shapes == /\ IsSeq(calls) /\ IsSeq(batches) /\ IsSeq(editions)
          /\ \A t \in DOMAIN batches : IsSeq(batches[t].writes)

LEMMA AppendedTo ==
    ASSUME NEW s, IsSeq(s), NEW e
    PROVE  /\ Len(s) \in Nat /\ DOMAIN s = 1..Len(s) /\ Len(s) + 1 \notin DOMAIN s
           /\ IsSeq(Append(s, e))
           /\ DOMAIN Append(s, e) = DOMAIN s \cup {Len(s) + 1}
           /\ \A i \in DOMAIN s : Append(s, e)[i] = s[i]
           /\ Append(s, e)[Len(s) + 1] = e
<1>1. PICK S : s \in Seq(S)
  BY DEF IsSeq
<1>2. s \in Seq(S \cup {e})
  BY <1>1, SeqMonotonic
<1>3. /\ Append(s, e) \in Seq(S \cup {e})
      /\ Len(Append(s, e)) = Len(s) + 1
      /\ \A i \in 1..Len(s) : Append(s, e)[i] = s[i]
      /\ Append(s, e)[Len(s) + 1] = e
  BY <1>2, AppendProperties
<1>4. Len(s) \in Nat /\ DOMAIN s = 1..Len(s)
  BY <1>1, LenProperties
<1>5. DOMAIN Append(s, e) = 1..(Len(s) + 1)
  BY <1>3, LenProperties
<1>6. DOMAIN Append(s, e) = DOMAIN s \cup {Len(s) + 1} /\ Len(s) + 1 \notin DOMAIN s
  BY <1>4, <1>5
<1>7. QED
  BY <1>3, <1>4, <1>6 DEF IsSeq

LEMMA ChangedAt ==
    ASSUME NEW s, IsSeq(s), NEW i, NEW e
    PROVE  IsSeq([s EXCEPT ![i] = e])
<1>1. PICK S : s \in Seq(S)
  BY DEF IsSeq
<1>2. PICK n \in Nat : s \in [1..n -> S]
  BY <1>1, SeqDef
<1>3. [s EXCEPT ![i] = e] \in [1..n -> S \cup {e}]
  BY <1>2
<1>4. [s EXCEPT ![i] = e] \in Seq(S \cup {e})
  <2>1. Seq(S \cup {e}) = UNION {[1..m -> S \cup {e}] : m \in Nat}
    BY SeqDef
  <2>2. QED
    BY <1>3, <2>1
<1>5. QED
  BY <1>4 DEF IsSeq
-----------------------------------------------------------------------------
\* One call is taken further, the others stay.
Moves(c, step, answer, batch) ==
    /\ c \in DOMAIN calls /\ IsSeq(calls') /\ DOMAIN calls' = DOMAIN calls
    /\ \A d \in DOMAIN calls : d # c => calls'[d] = calls[d]
    /\ DOMAIN calls'[c] = DOMAIN calls[c]
    /\ calls'[c].op = calls[c].op /\ calls'[c].auth = calls[c].auth
    /\ calls'[c].section = calls[c].section
    /\ calls'[c].step = step /\ calls'[c].answer = answer /\ calls'[c].batch = batch

LEMMA RecordsChange ==
    ASSUME Shapes, NEW c \in DOMAIN calls, DOMAIN calls[c] = Fields, NEW r,
           calls' = [calls EXCEPT ![c] = r], DOMAIN r = Fields,
           r.op = calls[c].op, r.auth = calls[c].auth, r.section = calls[c].section
    PROVE  Moves(c, r.step, r.answer, r.batch)
<1>1. IsSeq(calls')
  BY ChangedAt DEF Shapes
<1>2. QED
  BY <1>1 DEF Moves

LEMMA AnswerMoves ==
    ASSUME Shapes, NEW c \in DOMAIN calls, DOMAIN calls[c] = Fields, NEW answer,
           Answer(c, answer)
    PROVE  Moves(c, "done", answer, calls[c].batch)
<1> DEFINE r == [calls[c] EXCEPT !.step = "done", !.answer = answer]
<1>1. calls' = [calls EXCEPT ![c] = r]
  BY DEF Answer
<1>2. /\ DOMAIN r = Fields /\ r.op = calls[c].op /\ r.auth = calls[c].auth
      /\ r.section = calls[c].section /\ r.step = "done" /\ r.answer = answer
      /\ r.batch = calls[c].batch
  BY DEF Fields
<1> HIDE DEF r
<1>3. QED
  BY <1>1, <1>2, RecordsChange

LEMMA PushMoves ==
    ASSUME Shapes, NEW c \in DOMAIN calls, DOMAIN calls[c] = Fields, NEW batch, NEW all,
           Push(c, batch, all)
    PROVE  Moves(c, "done", "staged", batch)
<1> DEFINE r == [calls[c] EXCEPT !.step = "done", !.answer = "staged", !.batch = batch]
<1>1. calls' = [calls EXCEPT ![c] = r]
  BY DEF Push
<1>2. /\ DOMAIN r = Fields /\ r.op = calls[c].op /\ r.auth = calls[c].auth
      /\ r.section = calls[c].section /\ r.step = "done" /\ r.answer = "staged"
      /\ r.batch = batch
  BY DEF Fields
<1> HIDE DEF r
<1>3. QED
  BY <1>1, <1>2, RecordsChange

LEMMA LookMoves ==
    ASSUME Shapes, NEW c \in DOMAIN calls, DOMAIN calls[c] = Fields, NEW batch, NEW view,
           Looked(c, view, batch), calls[c].answer = "none"
    PROVE  \/ Moves(c, "done", "refused", batch)
           \/ Moves(c, "seen", "none", batch)
           \/ Moves(c, "reading", "none", batch)
<1> DEFINE step == CASE view.at = "gone" -> "done" [] view.at = "session" -> "seen"
                      [] OTHER -> "reading"
           answer == IF view.at = "gone" THEN "refused" ELSE "none"
           over == IF view.at = "storage" /\ view.change # Nothing THEN "over" ELSE view.at
           r == [calls[c] EXCEPT !.batch = batch, !.view = over, !.step = step,
                                 !.answer = answer, !.seen = Changed(Blank, view.change)]
<1>1. calls' = [calls EXCEPT ![c] = r]
  BY DEF Looked, Fields
<1>2. /\ DOMAIN r = Fields /\ r.op = calls[c].op /\ r.auth = calls[c].auth
      /\ r.section = calls[c].section /\ r.step = step /\ r.answer = answer
      /\ r.batch = batch
  BY DEF Fields
<1> HIDE DEF r
<1>3. Moves(c, step, answer, batch)
  BY <1>1, <1>2, RecordsChange
<1>4. \/ step = "done" /\ answer = "refused"
      \/ step = "seen" /\ answer = "none"
      \/ step = "reading" /\ answer = "none"
  OBVIOUS
<1> HIDE DEF step, answer
<1>5. QED
  BY <1>3, <1>4

\* Where the calls are, after one of them was taken further.
LEMMA MovedSets ==
    ASSUME NEW c, NEW step, NEW answer, NEW batch, Moves(c, step, answer, batch)
    PROVE  /\ InFlight' = IF step = "done" THEN InFlight \ {c} ELSE InFlight \cup {c}
           /\ c \in InFlight =>
                 /\ Writing' = IF step = "done" THEN Writing \ {c} ELSE Writing
                 /\ Committing' = IF step = "done" THEN Committing \ {c} ELSE Committing
           /\ \A d \in DOMAIN calls :
                 /\ calls'[d].op = calls[d].op
                 /\ d # c => /\ calls'[d].step = calls[d].step
                             /\ calls'[d].answer = calls[d].answer
                             /\ calls'[d].batch = calls[d].batch
<1>1. /\ DOMAIN calls' = DOMAIN calls /\ c \in DOMAIN calls
      /\ \A d \in DOMAIN calls : d # c => calls'[d] = calls[d]
      /\ calls'[c].op = calls[c].op /\ calls'[c].step = step
  BY DEF Moves
<1>2. \A d \in DOMAIN calls :
        /\ calls'[d].op = calls[d].op
        /\ d # c => /\ calls'[d].step = calls[d].step /\ calls'[d].answer = calls[d].answer
                    /\ calls'[d].batch = calls[d].batch
  BY <1>1
<1>3. InFlight' = IF step = "done" THEN InFlight \ {c} ELSE InFlight \cup {c}
  BY <1>1, <1>2 DEF InFlight
<1>4. ASSUME c \in InFlight
      PROVE  /\ Writing' = IF step = "done" THEN Writing \ {c} ELSE Writing
             /\ Committing' = IF step = "done" THEN Committing \ {c} ELSE Committing
  <2>1. InFlight' = IF step = "done" THEN InFlight \ {c} ELSE InFlight
    BY <1>3, <1>4
  <2>2. \A d \in InFlight' : calls'[d].op = calls[d].op
    BY <1>2, <1>1 DEF InFlight
  <2>3. Writing' = {d \in InFlight' : calls[d].op \in WriteOps}
    BY <2>2 DEF Writing
  <2>4. Committing' = {d \in InFlight' : calls[d].op = "commit"}
    BY <2>2 DEF Committing
  <2>5. QED
    BY <2>1, <2>3, <2>4 DEF Writing, Committing
<1>5. QED
  BY <1>2, <1>3, <1>4

\* What stays of a transaction while a call of none, or of the same, is taken further.
LEMMA MovedCommits ==
    ASSUME NEW c \in InFlight, NEW step, NEW answer, NEW batch,
           Moves(c, step, answer, batch), calls[c].op = "commit" => batch = calls[c].batch,
           NEW t
    PROVE  CommitsOn(t)' = IF step = "done" THEN CommitsOn(t) \ {c} ELSE CommitsOn(t)
<1>1. /\ Committing' = IF step = "done" THEN Committing \ {c} ELSE Committing
      /\ \A d \in DOMAIN calls : d # c => calls'[d].batch = calls[d].batch
      /\ calls'[c].batch = batch
  BY MovedSets DEF Moves
<1>2. \A d \in Committing : d \in DOMAIN calls /\ calls[d].op = "commit"
  BY DEF Committing, InFlight
<1>3. \A d \in Committing : calls'[d].batch = calls[d].batch
  BY <1>1, <1>2
<1>4. QED
  BY <1>1, <1>3 DEF CommitsOn

\* A call arrives.
Joins(op, auth, section, batch) ==
    LET n == Len(calls) + 1 IN
    /\ IsSeq(calls') /\ n \notin DOMAIN calls /\ DOMAIN calls' = DOMAIN calls \cup {n}
    /\ \A d \in DOMAIN calls : calls'[d] = calls[d]
    /\ DOMAIN calls'[n] = Fields
    /\ calls'[n].op = op /\ calls'[n].auth = auth /\ calls'[n].section = section
    /\ calls'[n].batch = batch /\ calls'[n].step = "begun" /\ calls'[n].answer = "none"

LEMMA ArriveJoins ==
    ASSUME Shapes, NEW op, NEW auth, NEW section, NEW batch, Arrive(op, auth, section, batch)
    PROVE  Joins(op, auth, section, batch)
<1> DEFINE r == [op |-> op, auth |-> auth, section |-> section, batch |-> batch,
                 step |-> "begun", view |-> "none", seen |-> Blank, answer |-> "none"]
<1>1. calls' = Append(calls, r)
  BY DEF Arrive
<1>2. /\ DOMAIN r = Fields /\ r.op = op /\ r.auth = auth /\ r.section = section
      /\ r.batch = batch /\ r.step = "begun" /\ r.answer = "none"
  BY DEF Fields
<1> HIDE DEF r
<1>3. /\ IsSeq(calls') /\ Len(calls) + 1 \notin DOMAIN calls
      /\ DOMAIN calls' = DOMAIN calls \cup {Len(calls) + 1}
      /\ \A d \in DOMAIN calls : calls'[d] = calls[d]
      /\ calls'[Len(calls) + 1] = r
  BY <1>1, AppendedTo DEF Shapes
<1>4. QED
  BY <1>2, <1>3 DEF Joins

LEMMA JoinedSets ==
    ASSUME NEW op \in Ops, NEW auth, NEW section, NEW batch,
           Joins(op, auth, section, batch)
    PROVE  LET n == Len(calls) + 1 IN
           /\ Writing' = IF op = "commit" THEN Writing ELSE Writing \cup {n}
           /\ Committing' = IF op = "commit" THEN Committing \cup {n} ELSE Committing
           /\ \A t : CommitsOn(t)' = IF op = "commit" /\ batch = t THEN CommitsOn(t) \cup {n}
                                     ELSE CommitsOn(t)
<1> DEFINE n == Len(calls) + 1
<1>1. /\ DOMAIN calls' = DOMAIN calls \cup {n} /\ n \notin DOMAIN calls
      /\ \A d \in DOMAIN calls : calls'[d] = calls[d]
      /\ calls'[n].op = op /\ calls'[n].batch = batch /\ calls'[n].step = "begun"
  BY DEF Joins
<1> HIDE DEF n
<1>2. InFlight' = InFlight \cup {n}
  BY <1>1 DEF InFlight
<1>3. \A d \in InFlight : calls'[d] = calls[d] /\ d # n
  BY <1>1 DEF InFlight
<1>4. Writing' = IF op = "commit" THEN Writing ELSE Writing \cup {n}
  BY <1>1, <1>2, <1>3 DEF Writing, Ops, WriteOps
<1>5. Committing' = IF op = "commit" THEN Committing \cup {n} ELSE Committing
  BY <1>1, <1>2, <1>3 DEF Committing
<1>6. ASSUME NEW t
      PROVE  CommitsOn(t)' = IF op = "commit" /\ batch = t THEN CommitsOn(t) \cup {n}
                             ELSE CommitsOn(t)
  <2>1. \A d \in Committing : calls'[d] = calls[d]
    BY <1>3 DEF Committing
  <2>2. QED
    BY <1>1, <1>5, <2>1 DEF CommitsOn
<1>7. QED
  BY <1>4, <1>5, <1>6 DEF n
-----------------------------------------------------------------------------
\* What was answered stays, and so do the transactions and who they are of.
AnswersStay == \A d \in DOMAIN calls :
                  /\ d \in DOMAIN calls'
                  /\ calls[d].step = "done" => calls'[d] = calls[d]
BatchesGrow == \A t \in DOMAIN batches :
                  t \in DOMAIN batches' /\ batches'[t].auth = batches[t].auth

LEMMA MovedAnswersStay ==
    ASSUME NEW c \in InFlight, NEW step, NEW answer, NEW batch, Moves(c, step, answer, batch)
    PROVE  AnswersStay
BY DEF Moves, AnswersStay, InFlight

LEMMA JoinedAnswersStay ==
    ASSUME NEW op, NEW auth, NEW section, NEW batch, Joins(op, auth, section, batch)
    PROVE  AnswersStay
BY DEF Joins, AnswersStay

LEMMA WriteStaysSound ==
    ASSUME CallsAreTyped, BatchesAreSound, AnswersStay,
           NEW t \in DOMAIN batches, NEW j \in DOMAIN batches[t].writes
    PROVE  LET w == batches[t].writes[j] IN
           /\ w.by \in DOMAIN calls'
           /\ calls'[w.by].answer = "staged" /\ calls'[w.by].batch = t
           /\ w.section = calls'[w.by].section
<1> DEFINE w == batches[t].writes[j]
<1>1. /\ w.by \in DOMAIN calls /\ calls[w.by].answer = "staged" /\ calls[w.by].batch = t
      /\ w.section = calls[w.by].section
  BY DEF BatchesAreSound
<1>2. calls[w.by].step = "done"
  BY <1>1 DEF CallsAreTyped, CallIsSound
<1>3. w.by \in DOMAIN calls' /\ calls'[w.by] = calls[w.by]
  BY <1>1, <1>2 DEF AnswersStay
<1>4. QED
  BY <1>1, <1>3

LEMMA BatchesStaySound ==
    ASSUME CallsAreTyped, BatchesAreSound, AnswersStay, batches' = batches
    PROVE  BatchesAreSound'
BY WriteStaysSound DEF BatchesAreSound

LEMMA EditionStaysSound ==
    ASSUME CallsAreTyped, EditionsAreOf, AnswersStay, BatchesGrow, NEW i \in DOMAIN editions
    PROVE  LET e == editions[i] IN
        /\ e.batch # None => e.batch \in DOMAIN batches' /\ e.auth = batches'[e.batch].auth
        /\ \A j \in DOMAIN e.writes :
              LET w == e.writes[j] IN
              /\ w.by \in DOMAIN calls' /\ w.section = calls'[w.by].section
              /\ IF e.batch = None
                 THEN calls'[w.by].answer = "written" /\ calls'[w.by].auth = e.auth
                 ELSE calls'[w.by].answer = "staged" /\ calls'[w.by].batch = e.batch
<1> DEFINE e == editions[i]
<1>1. e.batch # None => e.batch \in DOMAIN batches' /\ e.auth = batches'[e.batch].auth
  BY DEF EditionsAreOf, BatchesGrow
<1>2. ASSUME NEW j \in DOMAIN e.writes
      PROVE  LET w == e.writes[j] IN
             /\ w.by \in DOMAIN calls' /\ w.section = calls'[w.by].section
             /\ IF e.batch = None
                THEN calls'[w.by].answer = "written" /\ calls'[w.by].auth = e.auth
                ELSE calls'[w.by].answer = "staged" /\ calls'[w.by].batch = e.batch
  <2> DEFINE w == e.writes[j]
  <2>1. /\ w.by \in DOMAIN calls /\ w.section = calls[w.by].section
        /\ IF e.batch = None
           THEN calls[w.by].answer = "written" /\ calls[w.by].auth = e.auth
           ELSE calls[w.by].answer = "staged" /\ calls[w.by].batch = e.batch
    BY DEF EditionsAreOf
  <2>2. calls[w.by].step = "done"
    BY <2>1 DEF CallsAreTyped, CallIsSound
  <2>3. w.by \in DOMAIN calls' /\ calls'[w.by] = calls[w.by]
    BY <2>1, <2>2 DEF AnswersStay
  <2>4. QED
    BY <2>1, <2>3
<1>3. QED
  BY <1>1, <1>2

LEMMA EditionsStaySound ==
    ASSUME CallsAreTyped, EditionsAreOf, AnswersStay, BatchesGrow, editions' = editions
    PROVE  EditionsAreOf'
BY EditionStaysSound DEF EditionsAreOf

\* The calls that nothing is done to.
LEMMA OthersStayTyped ==
    ASSUME CallsAreTyped, BatchesGrow, NEW d \in DOMAIN calls, calls'[d] = calls[d]
    PROVE  CallIsSound(d)'
<1>1. CallIsSound(d)
  BY DEF CallsAreTyped
<1>2. QED
  BY <1>1 DEF CallIsSound, BatchesGrow

LEMMA MovedStayTyped ==
    ASSUME CallsAreTyped, BatchesGrow, NEW c, NEW step, NEW answer, NEW batch,
           Moves(c, step, answer, batch), CallIsSound(c)'
    PROVE  CallsAreTyped'
BY OthersStayTyped DEF Moves, CallsAreTyped

LEMMA JoinedStayTyped ==
    ASSUME CallsAreTyped, BatchesGrow, NEW op, NEW auth, NEW section, NEW batch,
           Joins(op, auth, section, batch), NEW n, n = Len(calls) + 1, CallIsSound(n)'
    PROVE  CallsAreTyped'
<1>1. \A d \in DOMAIN calls : CallIsSound(d)'
  BY OthersStayTyped DEF Joins
<1>2. DOMAIN calls' = DOMAIN calls \cup {n}
  BY DEF Joins
<1>3. QED
  BY <1>1, <1>2 DEF CallsAreTyped

\* A number that no transaction has yet.
LEMMA NewBatch ==
    ASSUME EditInv, NEW n, n \notin DOMAIN batches, n # None
    PROVE  CommitsOn(n) = {} /\ EditionsOf(n) = {} /\ n \notin discarded
<1>1. ASSUME NEW d \in Committing PROVE calls[d].batch # n
  <2>1. d \in DOMAIN calls /\ calls[d].op = "commit"
    BY DEF Committing, InFlight
  <2>2. QED
    BY <2>1 DEF EditInv, CallsAreTyped, CallIsSound
<1>2. ASSUME NEW i \in DOMAIN editions PROVE editions[i].batch # n
  BY DEF EditInv, EditionsAreOf
<1>3. QED
  BY <1>1, <1>2 DEF CommitsOn, EditionsOf, EditInv, DiscardedAreBatches
-----------------------------------------------------------------------------
\* The transactions while no commit and no discard has a step: one may be opened.
Opening == /\ tx' = tx \/ tx = None
           /\ tx' # None => tx' \in DOMAIN batches'
           /\ tx' # tx => tx' \notin DOMAIN batches
           /\ \A t \in DOMAIN batches' : t \in DOMAIN batches \/ (t = tx' /\ t # None)
WritesGrow == \A t \in DOMAIN batches :
                /\ t \in DOMAIN batches' /\ batches'[t].auth = batches[t].auth
                /\ \A j \in DOMAIN batches[t].writes :
                      /\ j \in DOMAIN batches'[t].writes
                      /\ batches'[t].writes[j] = batches[t].writes[j]

LEMMA OpeningKeepsCommits ==
    ASSUME EditInv, Opening, UNCHANGED <<editions, discarded, contested>>,
           \A t : CommitsOn(t)' = CommitsOn(t),
           \A d \in Committing : calls'[d].step = calls[d].step
    PROVE  CommitsAreAlone'
<1>1. \A t : EditionsOf(t)' = EditionsOf(t)
  BY DEF EditionsOf
<1>2. \A t : AppliedOn(t)' = AppliedOn(t)
  BY DEF AppliedOn, CommitsOn
<1>3. ASSUME NEW t \in DOMAIN batches' \ contested'
      PROVE  /\ \A d, e \in CommitsOn(t)' : d = e
             /\ \A i, j \in EditionsOf(t)' : i = j
             /\ \A d \in CommitsOn(t)' : EditionsOf(t)' = {} <=> calls'[d].step = "begun"
             /\ tx' = t /\ EditionsOf(t)' # {} => AppliedOn(t)' # {}
             /\ t \in discarded' => tx' # t /\ EditionsOf(t)' = {} /\ CommitsOn(t)' = {}
  <2>1. CASE t \in DOMAIN batches
    <3>1. /\ \A d, e \in CommitsOn(t) : d = e
          /\ \A i, j \in EditionsOf(t) : i = j
          /\ \A d \in CommitsOn(t) : EditionsOf(t) = {} <=> calls[d].step = "begun"
          /\ tx = t /\ EditionsOf(t) # {} => AppliedOn(t) # {}
          /\ t \in discarded => tx # t /\ EditionsOf(t) = {} /\ CommitsOn(t) = {}
      BY <1>3, <2>1 DEF EditInv, CommitsAreAlone
    <3>2. tx' = t => tx = t
      BY <2>1 DEF Opening
    <3>3. \A d \in CommitsOn(t) : calls'[d].step = calls[d].step
      BY DEF CommitsOn
    <3>4. QED
      BY <1>1, <1>2, <3>1, <3>2, <3>3
  <2>2. CASE t \notin DOMAIN batches
    <3>1. t # None
      BY <1>3, <2>2 DEF Opening
    <3>2. CommitsOn(t) = {} /\ EditionsOf(t) = {} /\ t \notin discarded
      BY <2>2, <3>1, NewBatch
    <3>3. QED
      BY <1>1, <3>2
  <2>3. QED
    BY <2>1, <2>2
<1>4. QED
  BY <1>3 DEF CommitsAreAlone

\* A write that was settled before stays so.
LEMMA OpeningKeepsStaged ==
    ASSUME EditInv, Opening, WritesGrow, AnswersStay,
           UNCHANGED <<editions, discarded, contested, raced, Committing>>,
           \A t : CommitsOn(t)' = CommitsOn(t),
           NEW d \in DOMAIN calls, Settled(d), NEW t, t = calls[d].batch
    PROVE  calls'[d].batch = t /\ KeptIn(d, t)'
<1>1. calls[d].step = "done" /\ t # None /\ t \in DOMAIN batches
  BY DEF Settled, EditInv, CallsAreTyped, CallIsSound
<1>2. calls'[d] = calls[d]
  BY <1>1 DEF AnswersStay
<1>3. KeptIn(d, t)
  BY DEF EditInv, StagedStays
<1>4. \E j \in DOMAIN batches'[t].writes : batches'[t].writes[j].by = d
  BY <1>1, <1>3 DEF WritesGrow, KeptIn
<1>5. EditionsOf(t)' = EditionsOf(t) /\ SealedIn(d)' = SealedIn(d)
  BY DEF EditionsOf, SealedIn
<1>6. tx' = t <=> tx = t
  BY <1>1 DEF Opening
<1>7. CommitsOn(t)' = CommitsOn(t)
  OBVIOUS
<1>8. QED
  BY <1>2, <1>3, <1>4, <1>5, <1>6, <1>7 DEF KeptIn

\* A write is taken further: it looks, it reads, it is refused, or it is staged.
LEMMA WriteMoves ==
    ASSUME EditInv, NEW c \in Writing, NEW step, NEW answer, NEW batch,
           Moves(c, step, answer, batch), Opening, WritesGrow,
           UNCHANGED <<editions, discarded, contested, raced>>,
           host' # "dead" => host # "dead", host # "dead",
           CallIsSound(c)', BatchesAreSound', answer # "written",
           batch # None /\ c \notin raced => tx' = batch,
           answer = "staged" => \E j \in DOMAIN batches'[batch].writes :
                                    batches'[batch].writes[j].by = c
    PROVE  EditInv'
<1>1. c \in InFlight /\ c \in DOMAIN calls /\ calls[c].op # "commit" /\ calls[c].step # "done"
  BY DEF Writing, InFlight, WriteOps
<1>2. AnswersStay /\ BatchesGrow
  BY <1>1, MovedAnswersStay DEF WritesGrow, BatchesGrow
<1>3. CallsAreTyped /\ BatchesAreSound /\ EditionsAreOf /\ TxIsSound /\ DiscardedAreBatches
  BY DEF EditInv
<1>4. CallsAreTyped' /\ EditionsAreOf'
  BY <1>2, <1>3, MovedStayTyped, EditionsStaySound
<1>5. TxIsSound' /\ DiscardedAreBatches'
  BY <1>3 DEF TxIsSound, DiscardedAreBatches, Opening, WritesGrow
<1>6. c \notin Committing
  BY <1>1 DEF Committing
<1>7. Committing' = Committing /\ \A t : CommitsOn(t)' = CommitsOn(t)
  <2>1. Committing' = Committing
    BY <1>1, <1>6, MovedSets
  <2>2. \A t : c \notin CommitsOn(t)
    BY <1>6 DEF CommitsOn
  <2>3. QED
    BY <1>1, <2>1, <2>2, MovedCommits
<1>8. Writing' \subseteq Writing /\ (step = "done" => c \notin Writing')
  BY <1>1, MovedSets
<1>9. \A d \in Committing : calls'[d].step = calls[d].step
  BY <1>6, MovedSets DEF Committing, InFlight
<1>10. CommitsAreAlone'
  BY <1>7, <1>9, OpeningKeepsCommits
<1>11. WritesAreAlone'
  <2>1. ASSUME NEW d \in Writing' \ raced'
        PROVE  /\ Committing' = {}
               /\ host' # "dead" /\ calls'[d].batch # None => tx' = calls'[d].batch
    <3>1. Committing' = {} /\ d \in DOMAIN calls
      BY <1>7, <1>8, <2>1 DEF EditInv, WritesAreAlone, Writing, InFlight
    <3>2. CASE d = c
      BY <3>1, <3>2, <2>1 DEF Moves
    <3>3. CASE d # c
      <4>1. calls'[d].batch = calls[d].batch /\ d \in Writing \ raced
        BY <1>8, <2>1, <3>1, <3>3, MovedSets
      <4>2. calls[d].batch # None => tx = calls[d].batch
        BY <4>1 DEF EditInv, WritesAreAlone
      <4>3. QED
        BY <3>1, <4>1, <4>2 DEF Opening
    <3>4. QED
      BY <3>2, <3>3
  <2>2. QED
    BY <2>1 DEF WritesAreAlone
<1>12. StagedStays'
  <2>1. ASSUME NEW d \in DOMAIN calls', Settled(d)', NEW t, t = calls'[d].batch
        PROVE  KeptIn(d, t)'
    <3>1. d \in DOMAIN calls
      BY DEF Moves
    <3>2. CASE d # c
      <4>1. Settled(d)
        BY <2>1, <3>1, <3>2, MovedSets DEF Settled
      <4>2. t = calls[d].batch
        BY <2>1, <3>1, <3>2, MovedSets
      <4>3. QED
        BY <1>2, <1>7, <3>1, <4>1, <4>2, OpeningKeepsStaged
    <3>3. CASE d = c
      <4>1. answer = "staged" /\ calls'[c].batch = batch /\ c \notin raced
            /\ batch \notin contested
        BY <2>1, <3>3 DEF Settled, Moves
      <4>2. calls'[c].answer = "staged"
        BY <2>1, <3>3 DEF Settled
      <4>3. batch # None /\ batch \in DOMAIN batches'
        BY <4>1, <4>2 DEF CallIsSound
      <4>4. Committing = {} /\ tx' = batch
        BY <4>1, <4>3 DEF EditInv, WritesAreAlone
      <4>5. CommitsOn(batch)' = {}
        BY <1>7, <4>4 DEF CommitsOn
      <4>6. EditionsOf(batch)' = {}
        BY <1>10, <4>1, <4>3, <4>4, <4>5 DEF CommitsAreAlone, AppliedOn
      <4>7. QED
        BY <1>7, <2>1, <3>3, <4>1, <4>4, <4>5, <4>6 DEF KeptIn
    <3>4. QED
      BY <3>2, <3>3
  <2>2. QED
    BY <2>1 DEF StagedStays, KeptIn
<1>13. QED
  BY <1>4, <1>5, <1>10, <1>11, <1>12 DEF EditInv

Stay == UNCHANGED <<editions, discarded, contested, raced>> /\ host' = host /\ host # "dead"

LEMMA QuietWriteKeeps ==
    ASSUME EditInv, Shapes, NEW c \in Writing, NEW step \in {"reading", "seen", "done"},
           NEW answer \in {"none", "refused"}, NEW batch, batch = calls[c].batch,
           Moves(c, step, answer, batch), step # "done" => answer = "none",
           calls[c].op \in {"title", "body", "delete"} /\ step # "done" => batch # None,
           UNCHANGED <<tx, batches>>, Stay
    PROVE  EditInv' /\ Shapes'
<1>1. c \in InFlight /\ c \in DOMAIN calls /\ CallIsSound(c) /\ calls[c].op # "commit"
      /\ calls[c].step # "done"
  BY DEF Writing, InFlight, WriteOps, EditInv, CallsAreTyped
<1>2. AnswersStay
  BY <1>1, MovedAnswersStay
<1>3. CallIsSound(c)'
  BY <1>1 DEF CallIsSound, Moves
<1>4. Opening /\ WritesGrow
  BY DEF Opening, WritesGrow, EditInv, TxIsSound
<1>5. BatchesAreSound'
  BY <1>2, BatchesStaySound DEF EditInv
<1>6. batch # None /\ c \notin raced => tx' = batch
  BY DEF EditInv, WritesAreAlone, Stay
<1>7. EditInv'
  BY <1>3, <1>4, <1>5, <1>6, WriteMoves DEF Stay
<1>8. Shapes'
  BY DEF Shapes, Stay, Moves
<1>9. QED
  BY <1>7, <1>8

\* The transaction that a write enrols in is the open one or a new one.
LEMMA EnrolledIs ==
    ASSUME EditInv, Shapes, NEW auth, CanEnroll(auth)
    PROVE  LET all == BatchesWith(auth)
               n == Enrolled IN
           /\ n # None /\ DOMAIN all = DOMAIN batches \cup {n} /\ IsSeq(all)
           /\ \A t \in DOMAIN batches : all[t] = batches[t]
           /\ all[n].auth = auth /\ DOMAIN all[n] = {"auth", "writes"} /\ IsSeq(all[n].writes)
           /\ IF tx = None THEN n \notin DOMAIN batches /\ DOMAIN all[n].writes = {}
              ELSE n = tx /\ all = batches
<1>1. CASE tx = None
  <2> DEFINE r == [auth |-> auth, writes |-> <<>>]
  <2>1. BatchesWith(auth) = Append(batches, r) /\ Enrolled = Len(batches) + 1
    BY <1>1 DEF BatchesWith, Enrolled
  <2>2. /\ Len(batches) \in Nat /\ Len(batches) + 1 \notin DOMAIN batches
        /\ IsSeq(Append(batches, r))
        /\ DOMAIN Append(batches, r) = DOMAIN batches \cup {Len(batches) + 1}
        /\ \A i \in DOMAIN batches : Append(batches, r)[i] = batches[i]
        /\ Append(batches, r)[Len(batches) + 1] = r
    BY AppendedTo DEF Shapes
  <2>3. r.auth = auth /\ DOMAIN r = {"auth", "writes"} /\ r.writes = <<>>
    OBVIOUS
  <2>4. IsSeq(<<>>) /\ DOMAIN <<>> = {}
    BY EmptySeq DEF IsSeq
  <2> HIDE DEF r
  <2>5. QED
    BY <1>1, <2>1, <2>2, <2>3, <2>4 DEF None
<1>2. CASE tx # None
  BY <1>2 DEF EditInv, TxIsSound, BatchesAreSound, CanEnroll, BatchesWith, Enrolled, Shapes
<1>3. QED
  BY <1>1, <1>2

LEMMA EnrollKeeps ==
    ASSUME EditInv, Shapes, NEW c \in InFlight, EnrollAndLook(c), Stay
    PROVE  EditInv' /\ Shapes'
<1>1. c \in Writing /\ c \in DOMAIN calls /\ CallIsSound(c) /\ calls[c].op # "commit"
  BY DEF EnrollAndLook, Writing, InFlight, WriteOps, EditInv, CallsAreTyped
<1>2. DOMAIN calls[c] = Fields /\ calls[c].answer = "none" /\ calls[c].step = "begun"
      /\ calls[c].op \in {"title", "body", "delete"}
  BY <1>1 DEF CallIsSound, EnrollAndLook
<1>3. CASE CanEnroll(calls[c].auth)
  <2> DEFINE n == Enrolled
             all == BatchesWith(calls[c].auth)
  <2>1. /\ tx' = n /\ batches' = all
        /\ \E view : Looked(c, view, n)
    BY <1>3 DEF EnrollAndLook
  <2>2. /\ n # None /\ DOMAIN all = DOMAIN batches \cup {n} /\ IsSeq(all)
        /\ \A t \in DOMAIN batches : all[t] = batches[t]
        /\ all[n].auth = calls[c].auth /\ DOMAIN all[n] = {"auth", "writes"}
        /\ IsSeq(all[n].writes)
        /\ IF tx = None THEN n \notin DOMAIN batches /\ DOMAIN all[n].writes = {}
           ELSE n = tx /\ all = batches
    BY <1>3, EnrolledIs
  <2> HIDE DEF n, all
  <2>3. \/ Moves(c, "done", "refused", n)
        \/ Moves(c, "seen", "none", n)
        \/ Moves(c, "reading", "none", n)
    BY <1>1, <1>2, <2>1, LookMoves
  <2>4. PICK step \in {"done", "seen", "reading"}, answer \in {"none", "refused"} :
           Moves(c, step, answer, n) /\ (step # "done" => answer = "none")
    BY <2>3
  <2>5. CallIsSound(c)'
    BY <1>1, <1>2, <2>1, <2>2, <2>4 DEF CallIsSound, Moves
  <2>6. Opening /\ WritesGrow
    BY <2>1, <2>2 DEF Opening, WritesGrow, EditInv, TxIsSound
  <2>7. AnswersStay
    BY <2>4, MovedAnswersStay
  <2>8. BatchesAreSound'
    <3>1. ASSUME NEW t \in DOMAIN batches'
          PROVE  /\ DOMAIN batches'[t] = {"auth", "writes"}
                 /\ \A j \in DOMAIN batches'[t].writes :
                       t \in DOMAIN batches /\ batches'[t] = batches[t]
      BY <2>1, <2>2 DEF EditInv, BatchesAreSound
    <3>2. QED
      BY <2>7, <3>1, WriteStaysSound DEF EditInv, BatchesAreSound
  <2>9. EditInv'
    BY <1>1, <2>1, <2>4, <2>5, <2>6, <2>8, WriteMoves DEF Stay
  <2>10. Shapes'
    BY <2>1, <2>2, <2>4 DEF Shapes, Stay, Moves
  <2>11. QED
    BY <2>9, <2>10
<1>4. CASE ~CanEnroll(calls[c].auth)
  <2>1. Answer(c, "refused") /\ UNCHANGED <<tx, batches>>
    BY <1>4 DEF EnrollAndLook, Refuse
  <2>2. Moves(c, "done", "refused", calls[c].batch)
    BY <1>1, <1>2, <2>1, AnswerMoves
  <2>3. QED
    BY <1>1, <2>1, <2>2, QuietWriteKeeps
<1>5. QED
  BY <1>3, <1>4

LEMMA LookKeeps ==
    ASSUME EditInv, Shapes, NEW c \in InFlight, LookForAppend(c), Stay
    PROVE  EditInv' /\ Shapes'
<1>1. c \in Writing /\ c \in DOMAIN calls /\ CallIsSound(c) /\ calls[c].op = "append"
      /\ calls[c].step = "begun"
  BY DEF LookForAppend, Writing, InFlight, WriteOps, EditInv, CallsAreTyped
<1>2. DOMAIN calls[c] = Fields /\ calls[c].answer = "none" /\ calls[c].batch = None
  BY <1>1 DEF CallIsSound
<1>3. (\E view : Looked(c, view, None)) /\ UNCHANGED <<tx, batches>>
  BY DEF LookForAppend
<1>4. \/ Moves(c, "done", "refused", None)
      \/ Moves(c, "seen", "none", None)
      \/ Moves(c, "reading", "none", None)
  BY <1>1, <1>2, <1>3, LookMoves
<1>5. QED
  BY <1>1, <1>2, <1>3, <1>4, QuietWriteKeeps

LEMMA ReadKeeps ==
    ASSUME EditInv, Shapes, NEW c \in InFlight, ReadPersisted(c), Stay
    PROVE  EditInv' /\ Shapes'
<1>1. c \in DOMAIN calls /\ CallIsSound(c) /\ calls[c].step = "reading"
  BY DEF ReadPersisted, InFlight, EditInv, CallsAreTyped
<1>2. DOMAIN calls[c] = Fields /\ calls[c].answer = "none" /\ UNCHANGED <<tx, batches>>
  BY <1>1 DEF CallIsSound, ReadPersisted, Refuse
<1>3. CASE calls[c].op # "commit"
  <2>1. c \in Writing
    BY <1>1, <1>3 DEF Writing, CallIsSound, Ops
  <2>2. CASE Refuse(c)
    <3>1. Moves(c, "done", "refused", calls[c].batch)
      BY <1>1, <1>2, <2>2, AnswerMoves DEF Refuse
    <3>2. QED
      BY <1>2, <2>1, <3>1, QuietWriteKeeps
  <2>3. CASE \E v : calls' = [calls EXCEPT ![c].step = "seen", ![c].seen = v]
    <3>1. PICK v : calls' = [calls EXCEPT ![c].step = "seen", ![c].seen = v]
      BY <2>3
    <3> DEFINE r == [calls[c] EXCEPT !.step = "seen", !.seen = v]
    <3>2. calls' = [calls EXCEPT ![c] = r]
      BY <3>1
    <3>3. /\ DOMAIN r = Fields /\ r.op = calls[c].op /\ r.auth = calls[c].auth
          /\ r.section = calls[c].section /\ r.step = "seen" /\ r.answer = "none"
          /\ r.batch = calls[c].batch
      BY <1>2 DEF Fields
    <3> HIDE DEF r
    <3>4. Moves(c, "seen", "none", calls[c].batch)
      BY <1>1, <1>2, <3>2, <3>3, RecordsChange
    <3>5. calls[c].op \in {"title", "body", "delete"} => calls[c].batch # None
      BY <1>1 DEF CallIsSound
    <3>6. QED
      BY <1>2, <2>1, <3>4, <3>5, QuietWriteKeeps
  <2>4. QED
    BY <2>2, <2>3 DEF ReadPersisted
<1>4. CASE calls[c].op = "commit"
  BY <1>1, <1>4 DEF CallIsSound
<1>5. QED
  BY <1>3, <1>4

\* A write is staged, in the open transaction or in one it opens.
LEMMA PushKeeps ==
    ASSUME EditInv, Shapes, NEW c \in Writing, NEW all, NEW b \in DOMAIN all,
           Push(c, b, all), Stay, b # None, c \notin raced => tx' = b,
           IsSeq(all), \A t \in DOMAIN batches : t \in DOMAIN all /\ all[t] = batches[t],
           all[b].auth = calls[c].auth, DOMAIN all[b] = {"auth", "writes"},
           IsSeq(all[b].writes), b \notin DOMAIN batches => DOMAIN all[b].writes = {},
           DOMAIN all = DOMAIN batches \cup {b},
           \/ tx' = tx /\ b \in DOMAIN batches
           \/ tx = None /\ tx' = b /\ b \notin DOMAIN batches
    PROVE  EditInv' /\ Shapes'
<1>1. c \in InFlight /\ c \in DOMAIN calls /\ CallIsSound(c) /\ calls[c].op # "commit"
      /\ calls[c].step # "done"
  BY DEF Writing, InFlight, WriteOps, EditInv, CallsAreTyped
<1>2. Moves(c, "done", "staged", b)
  BY <1>1, PushMoves DEF CallIsSound
<1> DEFINE ws == all[b].writes
           w == EditOf(c)
           r == [all[b] EXCEPT !.writes = Append(ws, w)]
<1>3. batches' = [all EXCEPT ![b] = r]
  BY DEF Push
<1>4. /\ DOMAIN Append(ws, w) = DOMAIN ws \cup {Len(ws) + 1} /\ IsSeq(Append(ws, w))
      /\ \A j \in DOMAIN ws : Append(ws, w)[j] = ws[j]
      /\ Append(ws, w)[Len(ws) + 1] = w
      /\ Len(ws) + 1 \notin DOMAIN ws
  BY AppendedTo
<1>5. w.by = c /\ w.section = calls[c].section
  BY DEF EditOf
<1>6. /\ DOMAIN r = {"auth", "writes"} /\ r.auth = calls[c].auth
      /\ r.writes = Append(ws, w)
  OBVIOUS
<1> HIDE DEF r, w
<1>7. /\ DOMAIN batches' = DOMAIN batches \cup {b} /\ IsSeq(batches') /\ batches'[b] = r
      /\ \A t \in DOMAIN batches : t # b => batches'[t] = batches[t]
  BY <1>3, ChangedAt
<1>8. CallIsSound(c)'
  BY <1>1, <1>2, <1>6, <1>7 DEF CallIsSound, Moves
<1>9. Opening
  BY <1>7 DEF Opening, EditInv, TxIsSound
<1>10. WritesGrow
  <2>1. ASSUME NEW t \in DOMAIN batches
        PROVE  /\ batches'[t].auth = batches[t].auth
               /\ \A j \in DOMAIN batches[t].writes :
                     /\ j \in DOMAIN batches'[t].writes
                     /\ batches'[t].writes[j] = batches[t].writes[j]
    <3>1. CASE t = b
      <4>1. all[b] = batches[t]
        BY <3>1
      <4>2. QED
        BY <1>1, <1>4, <1>6, <1>7, <3>1, <4>1
    <3>2. CASE t # b
      BY <1>7, <3>2
    <3>3. QED
      BY <3>1, <3>2
  <2>2. QED
    BY <1>7, <2>1 DEF WritesGrow
<1>11. AnswersStay
  BY <1>1, <1>2, MovedAnswersStay
<1>12. BatchesAreSound'
  <2>1. ASSUME NEW t \in DOMAIN batches' PROVE DOMAIN batches'[t] = {"auth", "writes"}
    BY <1>6, <1>7 DEF EditInv, BatchesAreSound
  <2>2. ASSUME NEW t \in DOMAIN batches', NEW j \in DOMAIN batches'[t].writes
        PROVE  LET e == batches'[t].writes[j] IN
               /\ e.by \in DOMAIN calls'
               /\ calls'[e.by].answer = "staged" /\ calls'[e.by].batch = t
               /\ e.section = calls'[e.by].section
    <3>1. CASE t \in DOMAIN batches /\ j \in DOMAIN batches[t].writes
      <4>1. batches'[t].writes[j] = batches[t].writes[j]
        BY <1>10, <3>1 DEF WritesGrow
      <4>2. QED
        BY <1>11, <3>1, <4>1, WriteStaysSound DEF EditInv
    <3>2. CASE ~(t \in DOMAIN batches /\ j \in DOMAIN batches[t].writes)
      <4>1. t = b
        BY <1>7, <3>2, <2>2
      <4>2. j \notin DOMAIN ws
        BY <3>2, <4>1
      <4>3. j = Len(ws) + 1
        BY <1>4, <1>6, <1>7, <2>2, <4>1, <4>2
      <4>4. batches'[t].writes[j] = w
        BY <1>4, <1>6, <1>7, <4>1, <4>3
      <4>5. QED
        BY <1>2, <1>5, <4>1, <4>4 DEF Moves
    <3>3. QED
      BY <3>1, <3>2
  <2>3. QED
    BY <2>1, <2>2 DEF BatchesAreSound
<1>13. \E j \in DOMAIN batches'[b].writes : batches'[b].writes[j].by = c
  BY <1>4, <1>5, <1>6, <1>7
<1>14. EditInv'
  BY <1>2, <1>8, <1>9, <1>10, <1>12, <1>13, WriteMoves DEF Stay
<1>15. Shapes'
  <2>1. \A t \in DOMAIN batches' : IsSeq(batches'[t].writes)
    BY <1>4, <1>6, <1>7 DEF Shapes
  <2>2. QED
    BY <1>2, <1>7, <2>1 DEF Shapes, Moves, Stay
<1>16. QED
  BY <1>14, <1>15

LEMMA StageKeeps ==
    ASSUME EditInv, Shapes, NEW c \in InFlight, StageAtOnce(c) \/ StageSeen(c), Stay
    PROVE  EditInv' /\ Shapes'
<1>1. c \in Writing /\ c \in DOMAIN calls /\ CallIsSound(c)
  BY DEF StageAtOnce, StageSeen, Writing, InFlight, WriteOps, EditInv, CallsAreTyped
<1>2. CASE StageSeen(c)
  <2> DEFINE b == calls[c].batch
  <2>1. Push(c, b, batches) /\ tx' = tx /\ b # None /\ b \in DOMAIN batches
        /\ calls[c].auth = batches[b].auth
    BY <1>1, <1>2 DEF StageSeen, CallIsSound
  <2>2. c \notin raced => tx' = b
    BY <1>1, <2>1 DEF EditInv, WritesAreAlone, Stay
  <2>3. IsSeq(batches) /\ IsSeq(batches[b].writes) /\ DOMAIN batches[b] = {"auth", "writes"}
    BY <2>1 DEF Shapes, EditInv, BatchesAreSound
  <2>4. DOMAIN batches = DOMAIN batches \cup {b}
    BY <2>1
  <2> HIDE DEF b
  <2>5. QED
    BY <1>1, <2>1, <2>2, <2>3, <2>4, PushKeeps
<1>3. CASE StageAtOnce(c) /\ CanEnroll(calls[c].auth)
  <2> DEFINE n == Enrolled
             all == BatchesWith(calls[c].auth)
  <2>1. tx' = n /\ Push(c, n, all)
    BY <1>3 DEF StageAtOnce
  <2>2. /\ n # None /\ DOMAIN all = DOMAIN batches \cup {n} /\ IsSeq(all)
        /\ \A t \in DOMAIN batches : all[t] = batches[t]
        /\ all[n].auth = calls[c].auth /\ DOMAIN all[n] = {"auth", "writes"}
        /\ IsSeq(all[n].writes)
        /\ IF tx = None THEN n \notin DOMAIN batches /\ DOMAIN all[n].writes = {}
           ELSE n = tx /\ all = batches
    BY <1>3, EnrolledIs
  <2>3. tx # None => tx \in DOMAIN batches
    BY DEF EditInv, TxIsSound
  <2> HIDE DEF n, all
  <2>4. QED
    BY <1>1, <2>1, <2>2, <2>3, PushKeeps
<1>4. CASE StageAtOnce(c) /\ ~CanEnroll(calls[c].auth)
  <2>1. Answer(c, "refused") /\ UNCHANGED <<tx, batches>>
    BY <1>4 DEF StageAtOnce, Refuse
  <2>2. Moves(c, "done", "refused", calls[c].batch)
    BY <1>1, <2>1, AnswerMoves DEF CallIsSound
  <2>3. QED
    BY <1>1, <2>1, <2>2, QuietWriteKeeps
<1>5. QED
  BY <1>2, <1>3, <1>4
-----------------------------------------------------------------------------
LEMMA BatchesAreNumbered == Shapes => None \notin DOMAIN batches
BY AppendedTo DEF Shapes, None

\* An edition is sealed.
LEMMA SealedEditions ==
    ASSUME EditInv, Shapes, AnswersStay, BatchesGrow, NEW e, editions' = Append(editions, e),
           e.batch # None => e.batch \in DOMAIN batches' /\ e.auth = batches'[e.batch].auth,
           \A j \in DOMAIN e.writes :
              LET w == e.writes[j] IN
              /\ w.by \in DOMAIN calls' /\ w.section = calls'[w.by].section
              /\ IF e.batch = None
                 THEN calls'[w.by].answer = "written" /\ calls'[w.by].auth = e.auth
                 ELSE calls'[w.by].answer = "staged" /\ calls'[w.by].batch = e.batch
    PROVE  /\ EditionsAreOf' /\ IsSeq(editions') /\ Len(editions) + 1 \notin DOMAIN editions
           /\ \A t : EditionsOf(t)' = IF t = e.batch THEN EditionsOf(t) \cup {Len(editions) + 1}
                                      ELSE EditionsOf(t)
           /\ \A d : SealedIn(d) \subseteq SealedIn(d)'
           /\ \A d : (\E j \in DOMAIN e.writes : e.writes[j].by = d)
                         => Len(editions) + 1 \in SealedIn(d)'
<1> DEFINE n == Len(editions) + 1
<1>1. /\ DOMAIN editions' = DOMAIN editions \cup {n} /\ n \notin DOMAIN editions
      /\ \A i \in DOMAIN editions : editions'[i] = editions[i]
      /\ editions'[n] = e /\ IsSeq(editions')
  BY AppendedTo DEF Shapes
<1> HIDE DEF n
<1>2. EditionsAreOf'
  <2>1. ASSUME NEW i \in DOMAIN editions', NEW f, f = editions'[i]
        PROVE  /\ f.batch # None => f.batch \in DOMAIN batches' /\ f.auth = batches'[f.batch].auth
               /\ \A j \in DOMAIN f.writes :
                    LET w == f.writes[j] IN
                    /\ w.by \in DOMAIN calls' /\ w.section = calls'[w.by].section
                    /\ IF f.batch = None
                       THEN calls'[w.by].answer = "written" /\ calls'[w.by].auth = f.auth
                       ELSE calls'[w.by].answer = "staged" /\ calls'[w.by].batch = f.batch
    <3>1. CASE i \in DOMAIN editions
      <4>1. f = editions[i]
        BY <1>1, <2>1, <3>1
      <4>2. QED
        BY <3>1, <4>1, EditionStaysSound DEF EditInv
    <3>2. CASE i = n
      BY <1>1, <2>1, <3>2
    <3>3. QED
      BY <1>1, <3>1, <3>2
  <2>2. QED
    BY <2>1 DEF EditionsAreOf
<1>3. ASSUME NEW t
      PROVE  EditionsOf(t)' = IF t = e.batch THEN EditionsOf(t) \cup {n} ELSE EditionsOf(t)
  BY <1>1 DEF EditionsOf
<1>4. ASSUME NEW d
      PROVE  /\ SealedIn(d) \subseteq SealedIn(d)'
             /\ (\E j \in DOMAIN e.writes : e.writes[j].by = d) => n \in SealedIn(d)'
  BY <1>1 DEF SealedIn
<1>5. QED
  BY <1>1, <1>2, <1>3, <1>4 DEF n

\* A write that the host commits by itself is an edition of none of the transactions.
LEMMA WriteNowKeeps ==
    ASSUME EditInv, Shapes, NEW c \in InFlight, WriteNow(c), host' = host, host # "dead"
    PROVE  EditInv' /\ Shapes'
<1>1. c \in Writing /\ c \in DOMAIN calls /\ CallIsSound(c) /\ calls[c].op # "commit"
      /\ c \notin Committing
  BY DEF WriteNow, Writing, Committing, InFlight, WriteOps, EditInv, CallsAreTyped
<1>2. UNCHANGED <<tx, batches, discarded, contested, raced>>
  BY DEF WriteNow, Refuse, editHistory
<1>3. CASE Refuse(c)
  <2>1. Moves(c, "done", "refused", calls[c].batch)
    BY <1>1, <1>3, AnswerMoves DEF Refuse, CallIsSound
  <2>2. editions' = editions
    BY <1>3 DEF Refuse
  <2>3. QED
    BY <1>1, <1>2, <2>1, <2>2, QuietWriteKeeps DEF Stay
<1>4. CASE /\ Seal(c, calls[c].auth, <<EditOf(c)>>, None)
           /\ Answer(c, "written")
  <2>1. Moves(c, "done", "written", calls[c].batch)
    BY <1>1, <1>4, AnswerMoves DEF CallIsSound
  <2> DEFINE ws == <<EditOf(c)>>
             e == [by |-> c, auth |-> calls[c].auth, batch |-> None, writes |-> ws,
                   before |-> ethos, after |-> ethos']
             n == Len(editions) + 1
  <2>2. editions' = Append(editions, e)
    BY <1>4 DEF Seal
  <2>3. /\ e.batch = None /\ e.auth = calls[c].auth
        /\ \A j \in DOMAIN e.writes : e.writes[j].by = c /\ e.writes[j].section = calls[c].section
    BY DEF EditOf
  <2> HIDE DEF e
  <2>4. AnswersStay /\ BatchesGrow
    BY <1>2, <2>1, MovedAnswersStay DEF BatchesGrow
  <2>5. \A j \in DOMAIN e.writes :
              LET w == e.writes[j] IN
              /\ w.by \in DOMAIN calls' /\ w.section = calls'[w.by].section
              /\ calls'[w.by].answer = "written" /\ calls'[w.by].auth = e.auth
    BY <2>1, <2>3 DEF Moves
  <2>6. /\ EditionsAreOf' /\ IsSeq(editions')
        /\ \A t : t # None => EditionsOf(t)' = EditionsOf(t)
        /\ \A d : SealedIn(d) \subseteq SealedIn(d)'
    BY <2>2, <2>3, <2>4, <2>5, SealedEditions
  <2>7. CallIsSound(c)'
    BY <1>1, <1>2, <2>1 DEF CallIsSound, Moves
  <2>8. CallsAreTyped' /\ BatchesAreSound' /\ TxIsSound' /\ DiscardedAreBatches'
    BY <1>2, <2>1, <2>4, <2>7, MovedStayTyped, BatchesStaySound
       DEF EditInv, TxIsSound, DiscardedAreBatches
  <2>9. Committing' = Committing /\ \A t : CommitsOn(t)' = CommitsOn(t)
    <3>1. Committing' = Committing
      <4>1. Committing' = Committing \ {c}
        BY <2>1, MovedSets
      <4>2. QED
        BY <1>1, <4>1
    <3>2. \A t : c \notin CommitsOn(t)
      BY <1>1 DEF CommitsOn
    <3>3. QED
      BY <1>1, <2>1, <3>1, <3>2, MovedCommits
  <2>10. \A t : AppliedOn(t)' = AppliedOn(t)
    <3>1. \A d \in Committing : calls'[d].step = calls[d].step
      BY <1>1, <2>1, MovedSets DEF Committing, InFlight
    <3>2. QED
      BY <2>9, <3>1 DEF AppliedOn, CommitsOn
  <2>11. CommitsAreAlone'
    <3>1. \A t \in DOMAIN batches : t # None
      BY BatchesAreNumbered
    <3>2. ASSUME NEW t \in DOMAIN batches \ contested
          PROVE  /\ \A d, f \in CommitsOn(t)' : d = f
                 /\ \A i, j \in EditionsOf(t)' : i = j
                 /\ \A d \in CommitsOn(t)' : EditionsOf(t)' = {} <=> calls'[d].step = "begun"
                 /\ tx' = t /\ EditionsOf(t)' # {} => AppliedOn(t)' # {}
                 /\ t \in discarded' => tx' # t /\ EditionsOf(t)' = {} /\ CommitsOn(t)' = {}
      <4>1. /\ EditionsOf(t)' = EditionsOf(t) /\ CommitsOn(t)' = CommitsOn(t)
            /\ AppliedOn(t)' = AppliedOn(t)
        BY <2>6, <2>9, <2>10, <3>1
      <4>2. \A d \in CommitsOn(t) : calls'[d].step = calls[d].step
        BY <1>1, <2>1, MovedSets DEF CommitsOn, Committing, InFlight
      <4>3. QED
        BY <1>2, <4>1, <4>2 DEF EditInv, CommitsAreAlone
    <3>3. QED
      BY <1>2, <3>2 DEF CommitsAreAlone
  <2>12. WritesAreAlone'
    <3>1. Writing' \subseteq Writing \ {c}
      BY <1>1, <2>1, MovedSets
    <3>2. \A d \in Writing' : calls'[d].batch = calls[d].batch
      BY <2>1, <3>1, MovedSets DEF Writing, InFlight
    <3>3. QED
      BY <1>2, <2>9, <3>1, <3>2 DEF EditInv, WritesAreAlone
  <2>13. StagedStays'
    <3>1. ASSUME NEW d \in DOMAIN calls', Settled(d)', NEW t, t = calls'[d].batch
          PROVE  KeptIn(d, t)'
      <4>1. d \in DOMAIN calls /\ d # c
        BY <2>1, <3>1 DEF Moves, Settled
      <4>2. Settled(d) /\ t = calls[d].batch
        BY <1>2, <2>1, <3>1, <4>1, MovedSets DEF Settled
      <4>3. KeptIn(d, t) /\ t # None
        BY <4>1, <4>2 DEF EditInv, StagedStays, CallsAreTyped, CallIsSound, Settled
      <4>4. EditionsOf(t)' = EditionsOf(t) /\ SealedIn(d) \subseteq SealedIn(d)'
            /\ CommitsOn(t)' = CommitsOn(t)
        BY <2>6, <2>9, <4>3
      <4>5. QED
        BY <1>2, <2>9, <4>3, <4>4 DEF KeptIn
    <3>2. QED
      BY <3>1 DEF StagedStays, KeptIn
  <2>14. EditInv'
    BY <2>6, <2>8, <2>11, <2>12, <2>13 DEF EditInv
  <2>15. QED
    BY <1>2, <2>1, <2>6, <2>14 DEF Shapes, Moves
<1>5. QED
  BY <1>3, <1>4 DEF WriteNow

\* A call that is let in while a commit is out is not alone.
LEMMA CommitIs ==
    ASSUME EditInv, NEW c \in Committing
    PROVE  /\ c \in InFlight /\ c \in DOMAIN calls /\ CallIsSound(c) /\ calls[c].op = "commit"
           /\ c \notin Writing /\ Writing \subseteq raced
           /\ calls[c].batch # None /\ calls[c].batch \in DOMAIN batches
           /\ c \in CommitsOn(calls[c].batch)
           /\ calls[c].step \in {"begun", "applied"}
BY DEF EditInv, CallsAreTyped, CallIsSound, Writing, WriteOps, Committing, InFlight,
       WritesAreAlone, CommitsOn

\* A commit whose batch cannot be applied is refused, and the transaction stays.
LEMMA RefusedCommitKeeps ==
    ASSUME EditInv, Shapes, NEW c \in Committing, calls[c].step = "begun", Refuse(c),
           host' = host
    PROVE  EditInv' /\ Shapes'
<1>1. UNCHANGED <<editions, tx, batches, discarded, contested, raced>>
  BY DEF Refuse, editHistory
<1>2. /\ c \in InFlight /\ c \in DOMAIN calls /\ CallIsSound(c) /\ calls[c].op = "commit"
      /\ c \notin Writing /\ Writing \subseteq raced
  BY CommitIs
<1>3. Moves(c, "done", "refused", calls[c].batch)
  BY <1>2, AnswerMoves DEF Refuse, CallIsSound
<1>4. AnswersStay /\ BatchesGrow
  BY <1>1, <1>2, <1>3, MovedAnswersStay DEF BatchesGrow
<1>5. CallIsSound(c)'
  BY <1>1, <1>2, <1>3 DEF CallIsSound, Moves
<1>6. CallsAreTyped' /\ BatchesAreSound' /\ EditionsAreOf' /\ TxIsSound' /\ DiscardedAreBatches'
  BY <1>1, <1>3, <1>4, <1>5, MovedStayTyped, BatchesStaySound, EditionsStaySound
     DEF EditInv, TxIsSound, DiscardedAreBatches
<1>7. Committing' = Committing \ {c} /\ Writing' \subseteq Writing
  BY <1>2, <1>3, MovedSets
<1>8. \A t : CommitsOn(t)' = CommitsOn(t) \ {c}
  BY <1>2, <1>3, MovedCommits
<1>9. \A d \in Committing \ {c} : calls'[d].step = calls[d].step
  BY <1>3, MovedSets DEF Committing, InFlight
<1>10. \A t : AppliedOn(t)' = AppliedOn(t)
  BY <1>8, <1>9 DEF AppliedOn, CommitsOn
<1>11. \A t : EditionsOf(t)' = EditionsOf(t)
  BY <1>1 DEF EditionsOf
<1>12. CommitsAreAlone'
  <2>1. ASSUME NEW t \in DOMAIN batches \ contested
        PROVE  /\ \A d, e \in CommitsOn(t)' : d = e
               /\ \A i, j \in EditionsOf(t)' : i = j
               /\ \A d \in CommitsOn(t)' : EditionsOf(t)' = {} <=> calls'[d].step = "begun"
               /\ tx' = t /\ EditionsOf(t)' # {} => AppliedOn(t)' # {}
               /\ t \in discarded' => tx' # t /\ EditionsOf(t)' = {} /\ CommitsOn(t)' = {}
    <3>1. \A d \in CommitsOn(t)' : d \in CommitsOn(t) /\ calls'[d].step = calls[d].step
      BY <1>8, <1>9 DEF CommitsOn
    <3>2. QED
      BY <1>1, <1>8, <1>10, <1>11, <3>1 DEF EditInv, CommitsAreAlone
  <2>2. QED
    BY <1>1, <2>1 DEF CommitsAreAlone
<1>13. WritesAreAlone'
  BY <1>1, <1>2, <1>7 DEF WritesAreAlone
<1>14. StagedStays'
  <2>1. ASSUME NEW d \in DOMAIN calls', Settled(d)', NEW t, t = calls'[d].batch
        PROVE  KeptIn(d, t)'
    <3>1. d \in DOMAIN calls /\ d # c
      BY <1>3, <2>1 DEF Moves, Settled
    <3>2. Settled(d) /\ t = calls[d].batch
      BY <1>1, <1>3, <2>1, <3>1, MovedSets DEF Settled
    <3>3. KeptIn(d, t) /\ SealedIn(d)' = SealedIn(d)
      BY <1>1, <3>1, <3>2 DEF EditInv, StagedStays, SealedIn
    <3>4. QED
      BY <1>1, <1>7, <1>8, <1>11, <3>3 DEF KeptIn
  <2>2. QED
    BY <2>1 DEF StagedStays, KeptIn
<1>15. EditInv'
  BY <1>6, <1>12, <1>13, <1>14 DEF EditInv
<1>16. QED
  BY <1>1, <1>3, <1>15 DEF Shapes, Moves

\* A commit seals the writes that its batch has by now.
LEMMA ApplyKeeps ==
    ASSUME EditInv, Shapes, NEW c \in InFlight, Apply(c), host' = host
    PROVE  EditInv' /\ Shapes'
<1>1. c \in Committing /\ calls[c].step = "begun"
  BY DEF Apply, Committing
<1>2. UNCHANGED <<tx, batches, discarded, contested, raced>>
  BY DEF Apply, Refuse, editHistory
<1>3. CASE Refuse(c)
  BY <1>1, <1>3, RefusedCommitKeeps
<1>4. CASE /\ Seal(c, batches[calls[c].batch].auth, batches[calls[c].batch].writes,
                   calls[c].batch)
           /\ calls' = [calls EXCEPT ![c].step = "applied"]
  <2>1. /\ c \in InFlight /\ c \in DOMAIN calls /\ CallIsSound(c) /\ calls[c].op = "commit"
        /\ c \notin Writing /\ Writing \subseteq raced
        /\ calls[c].batch # None /\ calls[c].batch \in DOMAIN batches
        /\ c \in CommitsOn(calls[c].batch)
    BY <1>1, CommitIs
  <2>2. PICK b \in DOMAIN batches : b = calls[c].batch
    BY <2>1
  <2>3. Moves(c, "applied", "none", b)
    <3> DEFINE r == [calls[c] EXCEPT !.step = "applied"]
    <3>1. calls' = [calls EXCEPT ![c] = r]
      BY <1>4
    <3>2. /\ DOMAIN r = Fields /\ r.op = calls[c].op /\ r.auth = calls[c].auth
          /\ r.section = calls[c].section /\ r.step = "applied" /\ r.answer = "none"
          /\ r.batch = b /\ DOMAIN calls[c] = Fields
      BY <1>1, <2>1, <2>2 DEF Fields, CallIsSound
    <3> HIDE DEF r
    <3>3. QED
      BY <2>1, <3>1, <3>2, RecordsChange
  <2> DEFINE e == [by |-> c, auth |-> batches[b].auth, batch |-> b,
                   writes |-> batches[b].writes, before |-> ethos, after |-> ethos']
             n == Len(editions) + 1
  <2>4. editions' = Append(editions, e)
    BY <1>4, <2>2 DEF Seal
  <2>5. e.batch = b /\ e.auth = batches[b].auth /\ e.writes = batches[b].writes
    OBVIOUS
  <2> HIDE DEF e
  <2>6. AnswersStay /\ BatchesGrow
    BY <1>2, <2>1, <2>3, MovedAnswersStay DEF BatchesGrow
  <2>7. \A j \in DOMAIN e.writes :
              LET w == e.writes[j] IN
              /\ w.by \in DOMAIN calls' /\ w.section = calls'[w.by].section
              /\ calls'[w.by].answer = "staged" /\ calls'[w.by].batch = e.batch
    BY <2>5, <2>6, WriteStaysSound DEF EditInv
  <2>8. e.batch # None /\ e.batch \in DOMAIN batches' /\ e.auth = batches'[e.batch].auth
    BY <1>2, <2>1, <2>2, <2>5
  <2>9. /\ EditionsAreOf' /\ IsSeq(editions')
        /\ \A t : EditionsOf(t)' = IF t = b THEN EditionsOf(t) \cup {n} ELSE EditionsOf(t)
        /\ \A d : SealedIn(d) \subseteq SealedIn(d)'
        /\ \A d : (\E j \in DOMAIN batches[b].writes : batches[b].writes[j].by = d)
                      => n \in SealedIn(d)'
    BY <2>4, <2>5, <2>6, <2>7, <2>8, SealedEditions
  <2> HIDE DEF n
  <2>10. CallIsSound(c)'
    BY <1>2, <2>1, <2>2, <2>3 DEF CallIsSound, Moves
  <2>11. CallsAreTyped' /\ BatchesAreSound' /\ TxIsSound' /\ DiscardedAreBatches'
    BY <1>2, <2>3, <2>6, <2>10, MovedStayTyped, BatchesStaySound
       DEF EditInv, TxIsSound, DiscardedAreBatches
  <2>12. Committing' = Committing /\ Writing' = Writing
    BY <2>1, <2>3, MovedSets
  <2>13. \A t : CommitsOn(t)' = CommitsOn(t)
    BY <2>1, <2>2, <2>3, MovedCommits
  <2>14. /\ \A d \in Committing : d # c => calls'[d].step = calls[d].step
         /\ calls'[c].step = "applied"
    BY <2>3, MovedSets DEF Committing, InFlight, Moves
  <2>15. /\ \A t : AppliedOn(t) \subseteq AppliedOn(t)'
         /\ c \in AppliedOn(b)'
    BY <1>1, <2>1, <2>2, <2>13, <2>14 DEF AppliedOn, CommitsOn
  <2>16. CommitsAreAlone'
    <3>1. ASSUME NEW t \in DOMAIN batches \ contested
          PROVE  /\ \A d, f \in CommitsOn(t)' : d = f
                 /\ \A i, j \in EditionsOf(t)' : i = j
                 /\ \A d \in CommitsOn(t)' : EditionsOf(t)' = {} <=> calls'[d].step = "begun"
                 /\ tx' = t /\ EditionsOf(t)' # {} => AppliedOn(t)' # {}
                 /\ t \in discarded' => tx' # t /\ EditionsOf(t)' = {} /\ CommitsOn(t)' = {}
      <4>1. /\ \A d, f \in CommitsOn(t) : d = f
            /\ \A i, j \in EditionsOf(t) : i = j
            /\ \A d \in CommitsOn(t) : EditionsOf(t) = {} <=> calls[d].step = "begun"
            /\ tx = t /\ EditionsOf(t) # {} => AppliedOn(t) # {}
            /\ t \in discarded => tx # t /\ EditionsOf(t) = {} /\ CommitsOn(t) = {}
        BY DEF EditInv, CommitsAreAlone
      <4>2. CASE t = b
        <5>1. c \in CommitsOn(t) /\ EditionsOf(t) = {}
          BY <1>1, <2>1, <2>2, <4>1, <4>2
        <5>2. EditionsOf(t)' = {n}
          BY <2>9, <4>2, <5>1
        <5>3. CommitsOn(t)' = {c}
          BY <2>13, <4>1, <5>1
        <5>4. QED
          BY <1>2, <2>14, <2>15, <4>1, <4>2, <5>1, <5>2, <5>3
      <4>3. CASE t # b
        <5>1. c \notin CommitsOn(t)
          BY <2>2, <4>3 DEF CommitsOn
        <5>2. \A d \in CommitsOn(t) : calls'[d].step = calls[d].step
          BY <2>14, <5>1 DEF CommitsOn
        <5>3. QED
          BY <1>2, <2>9, <2>13, <2>15, <4>1, <4>3, <5>2
      <4>4. QED
        BY <4>2, <4>3
    <3>2. QED
      BY <1>2, <3>1 DEF CommitsAreAlone
  <2>17. WritesAreAlone'
    BY <1>2, <2>1, <2>12 DEF WritesAreAlone
  <2>18. StagedStays'
    <3>1. ASSUME NEW d \in DOMAIN calls', Settled(d)', NEW t, t = calls'[d].batch
          PROVE  KeptIn(d, t)'
      <4>1. d \in DOMAIN calls /\ d # c
        BY <2>3, <3>1 DEF Moves, Settled
      <4>2. Settled(d) /\ t = calls[d].batch
        BY <1>2, <2>3, <3>1, <4>1, MovedSets DEF Settled
      <4>3. KeptIn(d, t)
        BY <4>1, <4>2 DEF EditInv, StagedStays
      <4>4. EditionsOf(t)' \subseteq SealedIn(d)'
        BY <2>9, <4>3 DEF KeptIn
      <4>5. EditionsOf(t) \subseteq EditionsOf(t)'
        BY <2>9
      <4>6. QED
        BY <1>2, <2>12, <2>13, <4>3, <4>4, <4>5 DEF KeptIn
    <3>2. QED
      BY <3>1 DEF StagedStays, KeptIn
  <2>19. EditInv'
    BY <2>9, <2>11, <2>16, <2>17, <2>18 DEF EditInv
  <2>20. QED
    BY <1>2, <2>3, <2>9, <2>19 DEF Shapes, Moves
<1>5. QED
  BY <1>3, <1>4 DEF Apply

\* The end of a commit closes the transaction there is, which is its own if a write
\* is settled in it.
LEMMA FinishKeeps ==
    ASSUME EditInv, Shapes, NEW c \in InFlight, Finish(c), host' = host
    PROVE  EditInv' /\ Shapes'
<1>1. c \in Committing /\ calls[c].step = "applied"
  BY DEF Finish, Committing
<1>2. UNCHANGED <<editions, batches, discarded, contested, raced>> /\ tx' = None
  BY DEF Finish, Cleared, editHistory
<1>3. /\ c \in DOMAIN calls /\ CallIsSound(c) /\ calls[c].op = "commit"
      /\ c \notin Writing /\ Writing \subseteq raced
      /\ calls[c].batch # None /\ calls[c].batch \in DOMAIN batches
  BY <1>1, CommitIs
<1>4. Moves(c, "done", "committed", calls[c].batch)
  BY <1>3, AnswerMoves DEF Finish, CallIsSound
<1>5. AnswersStay /\ BatchesGrow
  BY <1>2, <1>4, MovedAnswersStay DEF BatchesGrow
<1>6. CallIsSound(c)'
  BY <1>2, <1>3, <1>4 DEF CallIsSound, Moves
<1>7. CallsAreTyped' /\ BatchesAreSound' /\ EditionsAreOf' /\ TxIsSound' /\ DiscardedAreBatches'
  BY <1>2, <1>4, <1>5, <1>6, MovedStayTyped, BatchesStaySound, EditionsStaySound
     DEF EditInv, TxIsSound, DiscardedAreBatches
<1>8. Committing' \subseteq Committing /\ Writing' \subseteq Writing
  BY <1>4, MovedSets
<1>9. \A t : CommitsOn(t)' = CommitsOn(t) \ {c}
  BY <1>4, MovedCommits
<1>10. \A d \in Committing \ {c} : calls'[d].step = calls[d].step
  BY <1>4, MovedSets DEF Committing, InFlight
<1>11. \A t : EditionsOf(t)' = EditionsOf(t)
  BY <1>2 DEF EditionsOf
<1>12. \A t \in DOMAIN batches : tx' # t
  BY <1>2, BatchesAreNumbered
<1>13. CommitsAreAlone'
  <2>1. ASSUME NEW t \in DOMAIN batches \ contested
        PROVE  /\ \A d, e \in CommitsOn(t)' : d = e
               /\ \A i, j \in EditionsOf(t)' : i = j
               /\ \A d \in CommitsOn(t)' : EditionsOf(t)' = {} <=> calls'[d].step = "begun"
               /\ tx' = t /\ EditionsOf(t)' # {} => AppliedOn(t)' # {}
               /\ t \in discarded' => tx' # t /\ EditionsOf(t)' = {} /\ CommitsOn(t)' = {}
    <3>1. \A d \in CommitsOn(t)' : d \in CommitsOn(t) /\ calls'[d].step = calls[d].step
      BY <1>9, <1>10 DEF CommitsOn
    <3>2. QED
      BY <1>2, <1>9, <1>11, <1>12, <3>1 DEF EditInv, CommitsAreAlone
  <2>2. QED
    BY <1>2, <2>1 DEF CommitsAreAlone
<1>14. WritesAreAlone'
  BY <1>2, <1>3, <1>8 DEF WritesAreAlone
<1>15. StagedStays'
  <2>1. ASSUME NEW d \in DOMAIN calls', Settled(d)', NEW t, t = calls'[d].batch
        PROVE  KeptIn(d, t)'
    <3>1. d \in DOMAIN calls /\ d # c
      BY <1>4, <2>1 DEF Moves, Settled
    <3>2. Settled(d) /\ t = calls[d].batch
      BY <1>2, <1>4, <2>1, <3>1, MovedSets DEF Settled
    <3>3. KeptIn(d, t) /\ SealedIn(d)' = SealedIn(d)
      BY <1>2, <3>1, <3>2 DEF EditInv, StagedStays, SealedIn
    <3>4. t \in DOMAIN batches \ contested
      BY <3>1, <3>2 DEF EditInv, CallsAreTyped, CallIsSound, Settled
    <3>5. ASSUME EditionsOf(t) = {} PROVE t \in discarded
      <4>1. CASE tx = t
        <5>1. c \in CommitsOn(t)
          BY <1>1, <3>3, <4>1 DEF KeptIn
        <5>2. calls[c].step = "begun"
          BY <3>4, <3>5, <5>1 DEF EditInv, CommitsAreAlone
        <5>3. QED
          BY <1>1, <5>2
      <4>2. CASE tx # t
        BY <3>3, <3>5, <4>2 DEF KeptIn
      <4>3. QED
        BY <4>1, <4>2
    <3>6. QED
      BY <1>2, <1>11, <1>12, <3>3, <3>4, <3>5 DEF KeptIn
  <2>2. QED
    BY <2>1 DEF StagedStays, KeptIn
<1>16. EditInv'
  BY <1>7, <1>13, <1>14, <1>15 DEF EditInv
<1>17. QED
  BY <1>2, <1>4, <1>16 DEF Shapes, Moves

\* The transaction is dropped: it was discarded, or the process was killed.
LEMMA DropKeeps ==
    ASSUME EditInv, Shapes, UNCHANGED <<calls, batches, editions>>,
           tx' = None, discarded' = discarded \cup ({tx} \ {None}),
           contested \subseteq contested', raced \subseteq raced',
           tx \in contested' \/ CommitsOn(tx) = {},
           Writing \subseteq raced' \/ host' = "dead"
    PROVE  EditInv' /\ Shapes'
<1>1. AnswersStay /\ BatchesGrow
  BY DEF AnswersStay, BatchesGrow
<1>2. CallsAreTyped' /\ BatchesAreSound' /\ EditionsAreOf'
  BY DEF EditInv, CallsAreTyped, CallIsSound, BatchesAreSound, EditionsAreOf
<1>3. TxIsSound' /\ DiscardedAreBatches'
  BY DEF EditInv, TxIsSound, DiscardedAreBatches
<1>4. Writing' = Writing /\ Committing' = Committing
  BY DEF Writing, Committing, InFlight
<1>5. \A t : CommitsOn(t)' = CommitsOn(t) /\ EditionsOf(t)' = EditionsOf(t)
  BY <1>4 DEF CommitsOn, EditionsOf
<1>6. \A t \in DOMAIN batches : tx' # t
  BY BatchesAreNumbered
<1>7. CommitsAreAlone'
  <2>1. ASSUME NEW t \in DOMAIN batches \ contested'
        PROVE  /\ \A d, e \in CommitsOn(t)' : d = e
               /\ \A i, j \in EditionsOf(t)' : i = j
               /\ \A d \in CommitsOn(t)' : EditionsOf(t)' = {} <=> calls'[d].step = "begun"
               /\ tx' = t /\ EditionsOf(t)' # {} => AppliedOn(t)' # {}
               /\ t \in discarded' => tx' # t /\ EditionsOf(t)' = {} /\ CommitsOn(t)' = {}
    <3>1. /\ \A d, e \in CommitsOn(t) : d = e
          /\ \A i, j \in EditionsOf(t) : i = j
          /\ \A d \in CommitsOn(t) : EditionsOf(t) = {} <=> calls[d].step = "begun"
          /\ tx = t /\ EditionsOf(t) # {} => AppliedOn(t) # {}
          /\ t \in discarded => tx # t /\ EditionsOf(t) = {} /\ CommitsOn(t) = {}
      BY DEF EditInv, CommitsAreAlone
    <3>2. tx = t => EditionsOf(t) = {} /\ CommitsOn(t) = {}
      BY <3>1 DEF AppliedOn
    <3>3. QED
      BY <1>5, <1>6, <3>1, <3>2
  <2>2. QED
    BY <2>1 DEF CommitsAreAlone
<1>8. WritesAreAlone'
  BY <1>4 DEF EditInv, WritesAreAlone
<1>9. StagedStays'
  <2>1. ASSUME NEW d \in DOMAIN calls', Settled(d)', NEW t, t = calls'[d].batch
        PROVE  KeptIn(d, t)'
    <3>1. d \in DOMAIN calls /\ Settled(d) /\ t = calls[d].batch
      BY <2>1 DEF Settled
    <3>2. KeptIn(d, t) /\ SealedIn(d)' = SealedIn(d)
      BY <3>1 DEF EditInv, StagedStays, SealedIn
    <3>3. t \in DOMAIN batches /\ t # None
      BY <3>1 DEF EditInv, CallsAreTyped, CallIsSound, Settled
    <3>4. QED
      BY <1>5, <1>6, <3>2, <3>3 DEF KeptIn
  <2>2. QED
    BY <2>1 DEF StagedStays, KeptIn
<1>10. EditInv'
  BY <1>2, <1>3, <1>7, <1>8, <1>9 DEF EditInv
<1>11. QED
  BY <1>10 DEF Shapes

\* A write tool is called.
LEMMA BeginWriteKeeps ==
    ASSUME EditInv, Shapes, NEW op, NEW auth, NEW section, BeginWrite(op, auth, section),
           host' = host
    PROVE  EditInv' /\ Shapes'
<1> DEFINE n == Len(calls) + 1
<1>1. /\ UNCHANGED <<editions, tx, batches, discarded, contested>>
      /\ op \in WriteOps /\ MayWrite(auth, section[1])
      /\ raced' = IF Committing # {} THEN raced \cup {n} ELSE raced
  BY DEF BeginWrite
<1>2. op \in Ops /\ op # "commit"
  BY <1>1 DEF Ops, WriteOps
<1>3. Joins(op, auth, section, None)
  BY ArriveJoins DEF BeginWrite
<1>4. /\ n \notin DOMAIN calls /\ DOMAIN calls' = DOMAIN calls \cup {n}
      /\ \A d \in DOMAIN calls : calls'[d] = calls[d]
      /\ calls'[n].batch = None /\ calls'[n].answer = "none"
  BY <1>3 DEF Joins
<1>5. AnswersStay /\ BatchesGrow
  BY <1>1, <1>3, JoinedAnswersStay DEF BatchesGrow
<1>6. /\ Writing' = Writing \cup {n} /\ Committing' = Committing
      /\ \A t : CommitsOn(t)' = CommitsOn(t)
  BY <1>2, <1>3, JoinedSets
<1>7. CallsAreTyped'
  <2>1. PICK m : m = n
    OBVIOUS
  <2>2. CallIsSound(m)'
    BY <1>1, <1>2, <1>3, <2>1 DEF CallIsSound, Joins, MayWrite
  <2>3. QED
    BY <1>3, <1>5, <2>1, <2>2, JoinedStayTyped DEF EditInv
<1> HIDE DEF n
<1>8. BatchesAreSound' /\ EditionsAreOf' /\ TxIsSound' /\ DiscardedAreBatches'
  BY <1>1, <1>5, BatchesStaySound, EditionsStaySound DEF EditInv, TxIsSound, DiscardedAreBatches
<1>9. Opening /\ WritesGrow
  BY <1>1 DEF Opening, WritesGrow, EditInv, TxIsSound
<1>10. CommitsAreAlone'
  <2>1. \A d \in Committing : calls'[d].step = calls[d].step
    BY <1>4 DEF Committing, InFlight
  <2>2. QED
    BY <1>1, <1>6, <1>9, <2>1, OpeningKeepsCommits
<1>11. WritesAreAlone'
  <2>1. ASSUME NEW d \in Writing' \ raced'
        PROVE  /\ Committing' = {}
               /\ host' # "dead" /\ calls'[d].batch # None => tx' = calls'[d].batch
    <3>1. CASE d = n
      BY <1>1, <1>4, <1>6, <2>1, <3>1
    <3>2. CASE d # n
      <4>1. d \in Writing \ raced /\ calls'[d] = calls[d]
        BY <1>1, <1>4, <1>6, <2>1, <3>2 DEF Writing, InFlight
      <4>2. QED
        BY <1>1, <1>6, <4>1 DEF EditInv, WritesAreAlone
    <3>3. QED
      BY <3>1, <3>2
  <2>2. QED
    BY <2>1 DEF WritesAreAlone
<1>12. StagedStays'
  <2>1. ASSUME NEW d \in DOMAIN calls', Settled(d)', NEW t, t = calls'[d].batch
        PROVE  KeptIn(d, t)'
    <3>1. d \in DOMAIN calls /\ calls'[d] = calls[d]
      BY <1>4, <2>1 DEF Settled
    <3>2. Settled(d) /\ t = calls[d].batch
      BY <1>1, <2>1, <3>1 DEF Settled
    <3>3. KeptIn(d, t) /\ SealedIn(d)' = SealedIn(d) /\ EditionsOf(t)' = EditionsOf(t)
      BY <1>1, <3>1, <3>2 DEF EditInv, StagedStays, SealedIn, EditionsOf
    <3>4. QED
      BY <1>1, <1>6, <3>3 DEF KeptIn
  <2>2. QED
    BY <2>1 DEF StagedStays, KeptIn
<1>13. EditInv'
  BY <1>7, <1>8, <1>10, <1>11, <1>12 DEF EditInv
<1>14. QED
  BY <1>1, <1>3, <1>13 DEF Shapes, Joins

\* ethos_commit is called.
LEMMA BeginCommitKeeps ==
    ASSUME EditInv, Shapes, BeginCommit, host' = host
    PROVE  EditInv' /\ Shapes'
<1> DEFINE n == Len(calls) + 1
<1>1. /\ UNCHANGED <<editions, tx, batches, discarded>>
      /\ tx # None /\ tx \in DOMAIN batches
      /\ raced' = raced \cup Writing /\ contested \subseteq contested'
      /\ tx \in contested' \/ CommitsOn(tx) = {}
  BY DEF BeginCommit, EditInv, TxIsSound, CommitsOn
<1>2. PICK b \in DOMAIN batches : b = tx
  BY <1>1
<1>3. Joins("commit", batches[b].auth, <<>>, b)
  BY <1>2, ArriveJoins DEF BeginCommit
<1>4. /\ n \notin DOMAIN calls /\ DOMAIN calls' = DOMAIN calls \cup {n}
      /\ \A d \in DOMAIN calls : calls'[d] = calls[d]
      /\ calls'[n].answer = "none" /\ calls'[n].step = "begun"
  BY <1>3 DEF Joins
<1>5. AnswersStay /\ BatchesGrow
  BY <1>1, <1>3, JoinedAnswersStay DEF BatchesGrow
<1>6. /\ Writing' = Writing /\ Committing' = Committing \cup {n}
      /\ \A t : CommitsOn(t)' = IF b = t THEN CommitsOn(t) \cup {n} ELSE CommitsOn(t)
  BY <1>3, JoinedSets DEF Ops
<1>7. CallsAreTyped'
  <2>1. PICK m : m = n
    OBVIOUS
  <2>2. b # None
    BY <1>1, <1>2
  <2>3. CallIsSound(m)'
    BY <1>1, <1>2, <1>3, <2>1, <2>2 DEF CallIsSound, Joins, Ops
  <2>4. QED
    BY <1>3, <1>5, <2>1, <2>3, JoinedStayTyped DEF EditInv
<1> HIDE DEF n
<1>8. BatchesAreSound' /\ EditionsAreOf' /\ TxIsSound' /\ DiscardedAreBatches'
  BY <1>1, <1>5, BatchesStaySound, EditionsStaySound DEF EditInv, TxIsSound, DiscardedAreBatches
<1>9. \A t : EditionsOf(t)' = EditionsOf(t)
  BY <1>1 DEF EditionsOf
<1>10. \A d \in Committing : calls'[d] = calls[d] /\ d # n
  BY <1>4 DEF Committing, InFlight
<1>11. \A t : AppliedOn(t) \subseteq AppliedOn(t)'
  BY <1>6, <1>10 DEF AppliedOn, CommitsOn
<1>12. CommitsAreAlone'
  <2>1. ASSUME NEW t \in DOMAIN batches \ contested'
        PROVE  /\ \A d, e \in CommitsOn(t)' : d = e
               /\ \A i, j \in EditionsOf(t)' : i = j
               /\ \A d \in CommitsOn(t)' : EditionsOf(t)' = {} <=> calls'[d].step = "begun"
               /\ tx' = t /\ EditionsOf(t)' # {} => AppliedOn(t)' # {}
               /\ t \in discarded' => tx' # t /\ EditionsOf(t)' = {} /\ CommitsOn(t)' = {}
    <3>1. /\ \A d, e \in CommitsOn(t) : d = e
          /\ \A i, j \in EditionsOf(t) : i = j
          /\ \A d \in CommitsOn(t) : EditionsOf(t) = {} <=> calls[d].step = "begun"
          /\ tx = t /\ EditionsOf(t) # {} => AppliedOn(t) # {}
          /\ t \in discarded => tx # t /\ EditionsOf(t) = {} /\ CommitsOn(t) = {}
      BY <1>1 DEF EditInv, CommitsAreAlone
    <3>2. \A d \in CommitsOn(t) : calls'[d].step = calls[d].step
      BY <1>10 DEF CommitsOn
    <3>3. CASE t = b
      <4>1. CommitsOn(t) = {} /\ tx = t
        BY <1>1, <1>2, <3>3
      <4>2. EditionsOf(t) = {} /\ t \notin discarded
        BY <3>1, <4>1 DEF AppliedOn
      <4>3. CommitsOn(t)' = {n}
        BY <1>6, <3>3, <4>1
      <4>4. QED
        BY <1>1, <1>4, <1>9, <4>2, <4>3
    <3>4. CASE t # b
      BY <1>1, <1>6, <1>9, <1>11, <3>1, <3>2, <3>4
    <3>5. QED
      BY <3>3, <3>4
  <2>2. QED
    BY <1>1, <2>1 DEF CommitsAreAlone
<1>13. WritesAreAlone'
  BY <1>1, <1>6 DEF WritesAreAlone
<1>14. StagedStays'
  <2>1. ASSUME NEW d \in DOMAIN calls', Settled(d)', NEW t, t = calls'[d].batch
        PROVE  KeptIn(d, t)'
    <3>1. d \in DOMAIN calls /\ calls'[d] = calls[d]
      BY <1>4, <2>1 DEF Settled
    <3>2. Settled(d) /\ t = calls[d].batch
      BY <1>1, <2>1, <3>1 DEF Settled
    <3>3. KeptIn(d, t) /\ SealedIn(d)' = SealedIn(d)
      BY <1>1, <3>1, <3>2 DEF EditInv, StagedStays, SealedIn
    <3>4. tx = t => b = t
      BY <1>2
    <3>5. QED
      BY <1>1, <1>6, <1>9, <3>3, <3>4 DEF KeptIn
  <2>2. QED
    BY <2>1 DEF StagedStays, KeptIn
<1>15. EditInv'
  BY <1>7, <1>8, <1>12, <1>13, <1>14 DEF EditInv
<1>16. QED
  BY <1>1, <1>3, <1>15 DEF Shapes, Joins

\* Nothing happens to the calls, the transactions or the editions.
LEMMA RestKeeps ==
    ASSUME EditInv, Shapes, host' # "dead" => host # "dead",
           UNCHANGED <<calls, batches, editions, tx, discarded, contested, raced>>
    PROVE  EditInv' /\ Shapes'
<1>1. Writing' = Writing /\ Committing' = Committing
  BY DEF Writing, Committing, InFlight
<1>2. \A t : CommitsOn(t)' = CommitsOn(t) /\ EditionsOf(t)' = EditionsOf(t)
  BY <1>1 DEF CommitsOn, EditionsOf
<1>3. \A t : AppliedOn(t)' = AppliedOn(t)
  BY <1>2 DEF AppliedOn
<1>4. CallsAreTyped' /\ BatchesAreSound' /\ EditionsAreOf' /\ TxIsSound' /\ DiscardedAreBatches'
  BY DEF EditInv, CallsAreTyped, CallIsSound, BatchesAreSound, EditionsAreOf, TxIsSound,
         DiscardedAreBatches
<1>5. WritesAreAlone'
  BY <1>1 DEF EditInv, WritesAreAlone
<1>6. CommitsAreAlone'
  <2>1. ASSUME NEW t \in DOMAIN batches \ contested
        PROVE  /\ \A d, e \in CommitsOn(t)' : d = e
               /\ \A i, j \in EditionsOf(t)' : i = j
               /\ \A d \in CommitsOn(t)' : EditionsOf(t)' = {} <=> calls'[d].step = "begun"
               /\ tx' = t /\ EditionsOf(t)' # {} => AppliedOn(t)' # {}
               /\ t \in discarded' => tx' # t /\ EditionsOf(t)' = {} /\ CommitsOn(t)' = {}
    BY <1>2, <1>3 DEF EditInv, CommitsAreAlone
  <2>2. QED
    BY <2>1 DEF CommitsAreAlone
<1>7. StagedStays'
  <2>1. ASSUME NEW d \in DOMAIN calls', Settled(d)', NEW t, t = calls'[d].batch
        PROVE  KeptIn(d, t)'
    <3>1. KeptIn(d, t) /\ SealedIn(d)' = SealedIn(d)
      BY <2>1 DEF EditInv, StagedStays, SealedIn, Settled
    <3>2. QED
      BY <1>1, <1>2, <3>1 DEF KeptIn
  <2>2. QED
    BY <2>1 DEF StagedStays, KeptIn
<1>8. QED
  BY <1>4, <1>5, <1>6, <1>7 DEF EditInv, Shapes

LEMMA EditKeepsEditInv == EditInv /\ Shapes /\ Edit => EditInv' /\ Shapes'
<1> SUFFICES ASSUME EditInv, Shapes, Edit PROVE EditInv' /\ Shapes'
  OBVIOUS
<1>1. EditNext /\ host' = host /\ host # "dead"
  BY DEF Edit, hostVars
<1>2. ASSUME NEW op, NEW auth, NEW section, BeginWrite(op, auth, section)
      PROVE  EditInv' /\ Shapes'
  BY <1>1, <1>2, BeginWriteKeeps
<1>3. ASSUME NEW auth, NEW z, BeginAdd(auth, z) PROVE EditInv' /\ Shapes'
  BY <1>2, <1>3 DEF BeginAdd
<1>4. CASE BeginCommit
  BY <1>1, <1>4, BeginCommitKeeps
<1>5. ASSUME NEW c \in InFlight, StageAtOnce(c) \/ StageSeen(c) PROVE EditInv' /\ Shapes'
  <2>1. Stay
    BY <1>1, <1>5 DEF Stay, StageAtOnce, StageSeen, Refuse, editHistory
  <2>2. QED
    BY <1>5, <2>1, StageKeeps
<1>6. ASSUME NEW c \in InFlight, EnrollAndLook(c) PROVE EditInv' /\ Shapes'
  <2>1. Stay
    BY <1>1, <1>6 DEF Stay, EnrollAndLook, Refuse, editHistory
  <2>2. QED
    BY <1>6, <2>1, EnrollKeeps
<1>7. ASSUME NEW c \in InFlight, LookForAppend(c) PROVE EditInv' /\ Shapes'
  <2>1. Stay
    BY <1>1, <1>7 DEF Stay, LookForAppend, editHistory
  <2>2. QED
    BY <1>7, <2>1, LookKeeps
<1>8. ASSUME NEW c \in InFlight, ReadPersisted(c) PROVE EditInv' /\ Shapes'
  <2>1. Stay
    BY <1>1, <1>8 DEF Stay, ReadPersisted, Refuse, editHistory
  <2>2. QED
    BY <1>8, <2>1, ReadKeeps
<1>9. ASSUME NEW c \in InFlight, WriteNow(c) \/ Apply(c) \/ Finish(c)
      PROVE  EditInv' /\ Shapes'
  BY <1>1, <1>9, WriteNowKeeps, ApplyKeeps, FinishKeeps
<1>10. CASE Discard
  <2>1. /\ UNCHANGED <<calls, batches, editions>>
        /\ tx' = None /\ discarded' = discarded \cup ({tx} \ {None})
        /\ contested \subseteq contested' /\ raced' = raced \cup Writing
        /\ tx \in contested' \/ CommitsOn(tx) = {}
    BY <1>10 DEF Discard, CommitsOn
  <2>2. QED
    BY <2>1, DropKeeps
<1>11. ASSUME NEW s, WriteBeside(s) PROVE EditInv' /\ Shapes'
  BY <1>1, <1>11, RestKeeps DEF WriteBeside
<1>12. ASSUME NEW m, NEW why, MandateEnds(m, why) PROVE EditInv' /\ Shapes'
  BY <1>1, <1>12, RestKeeps DEF MandateEnds, editHistory
<1>13. QED
  BY <1>1, <1>2, <1>3, <1>4, <1>5, <1>6, <1>7, <1>8, <1>9, <1>10, <1>11, <1>12 DEF EditNext

LEMMA KillKeepsEditInv == EditInv /\ Shapes /\ Kill => EditInv' /\ Shapes'
<1> SUFFICES ASSUME EditInv, Shapes, Kill PROVE EditInv' /\ Shapes'
  OBVIOUS
<1>1. /\ UNCHANGED <<calls, batches, editions, raced>> /\ host' = "dead"
      /\ tx' = None /\ discarded' = discarded \cup ({tx} \ {None})
      /\ contested \subseteq contested'
      /\ tx \in contested' \/ CommitsOn(tx) = {}
  BY DEF Kill, CommitsOn
<1>2. QED
  BY <1>1, DropKeeps

\* The invariant of the edits, whatever the host around them does.
THEOREM EditInvariant == Spec => [](EditInv /\ Shapes)
<1>1. Init => EditInv /\ Shapes
  <2> SUFFICES ASSUME Init PROVE EditInv /\ Shapes
    OBVIOUS
  <2>1. /\ calls = <<>> /\ batches = <<>> /\ editions = <<>> /\ tx = None /\ discarded = {}
    BY DEF Init, EditInit
  <2>2. IsSeq(<<>>) /\ DOMAIN <<>> = {}
    BY EmptySeq DEF IsSeq
  <2>3. Shapes /\ CallsAreTyped /\ BatchesAreSound /\ EditionsAreOf /\ TxIsSound
        /\ DiscardedAreBatches /\ CommitsAreAlone /\ StagedStays
    BY <2>1, <2>2 DEF Shapes, CallsAreTyped, BatchesAreSound, EditionsAreOf, TxIsSound,
         DiscardedAreBatches, CommitsAreAlone, StagedStays
  <2>4. WritesAreAlone
    BY <2>1, <2>2 DEF WritesAreAlone, Writing, InFlight
  <2>5. QED
    BY <2>3, <2>4 DEF EditInv
<1>2. EditInv /\ Shapes /\ [Next]_vars => EditInv' /\ Shapes'
  <2> SUFFICES ASSUME EditInv, Shapes, [Next]_vars PROVE EditInv' /\ Shapes'
    OBVIOUS
  <2>1. CASE Serve
    <3>1. host' # "dead" => host # "dead"
      BY <2>1 DEF Serve
    <3>2. QED
      BY <2>1, <3>1, RestKeeps DEF Serve, editVars, editHistory
  <2>2. ASSUME NEW d \in DOMAIN dispatches, TakeEffect(d), UNCHANGED editVars
        PROVE  EditInv' /\ Shapes'
    BY <2>2, RestKeeps DEF TakeEffect, editVars, editHistory
  <2>3. CASE UNCHANGED vars
    BY <2>3, RestKeeps DEF vars, hostVars, editVars, editHistory
  <2>4. QED
    BY <2>1, <2>2, <2>3, EditKeepsEditInv, KillKeepsEditInv DEF Next
<1>3. QED
  BY <1>1, <1>2, PTL DEF Spec

\* A write that its client was told is staged, with no commit or discard out at the
\* time, is in the open transaction, or in exactly one edition, or was discarded:
\* whatever other calls of the session do, and wherever the process is killed.
THEOREM StagedOnceAlways == Spec => []StagedOnce
<1>1. EditInv /\ Shapes => StagedOnce
  <2> SUFFICES ASSUME EditInv, Shapes, NEW c \in DOMAIN calls, Settled(c)
               PROVE  LET t == calls[c].batch
                          open == tx = t /\ ~\E d \in Committing :
                                                calls[d].batch = t /\ calls[d].step = "applied"
                      IN  \/ open /\ SealedIn(c) = {} /\ t \notin discarded
                          \/ ~open /\ Cardinality(SealedIn(c)) = 1 /\ t \notin discarded
                          \/ ~open /\ SealedIn(c) = {} /\ t \in discarded
    BY DEF StagedOnce, Settled
  <2>1. PICK t : t = calls[c].batch
    OBVIOUS
  <2>2. calls[c].answer = "staged" /\ t # None /\ t \in DOMAIN batches \ contested
    BY <2>1 DEF Settled, EditInv, CallsAreTyped, CallIsSound
  <2>3. KeptIn(c, t)
    BY <2>1 DEF EditInv, StagedStays
  <2>4. SealedIn(c) = EditionsOf(t)
    <3>1. ASSUME NEW i \in SealedIn(c) PROVE i \in EditionsOf(t)
      <4>1. PICK j \in DOMAIN editions[i].writes : editions[i].writes[j].by = c
        BY DEF SealedIn
      <4>2. i \in DOMAIN editions
        BY DEF SealedIn
      <4>3. editions[i].batch # None
        BY <2>2, <4>1, <4>2 DEF EditInv, EditionsAreOf
      <4>4. calls[c].batch = editions[i].batch
        BY <4>1, <4>2, <4>3 DEF EditInv, EditionsAreOf
      <4>5. QED
        BY <2>1, <4>2, <4>4 DEF EditionsOf
    <3>2. QED
      BY <2>3, <3>1 DEF KeptIn
  <2>5. /\ \A i, j \in EditionsOf(t) : i = j
        /\ \A d \in CommitsOn(t) : EditionsOf(t) = {} <=> calls[d].step = "begun"
        /\ tx = t /\ EditionsOf(t) # {} => AppliedOn(t) # {}
        /\ t \in discarded => tx # t /\ EditionsOf(t) = {} /\ CommitsOn(t) = {}
    BY <2>2 DEF EditInv, CommitsAreAlone
  <2>6. AppliedOn(t) = {d \in Committing : calls[d].batch = t /\ calls[d].step = "applied"}
    BY DEF AppliedOn, CommitsOn
  <2>7. AppliedOn(t) # {} => EditionsOf(t) # {}
    BY <2>5 DEF AppliedOn
  <2>8. EditionsOf(t) # {} => Cardinality(SealedIn(c)) = 1
    <3>1. ASSUME NEW i \in EditionsOf(t) PROVE Cardinality(SealedIn(c)) = 1
      <4>1. SealedIn(c) = {i}
        BY <2>4, <2>5
      <4>2. QED
        BY <4>1, FS_Singleton
    <3>2. QED
      BY <3>1
  <2>9. CASE tx = t /\ AppliedOn(t) = {}
    <3>1. EditionsOf(t) = {} /\ t \notin discarded
      BY <2>5, <2>9
    <3>2. QED
      BY <2>1, <2>4, <2>6, <2>9, <3>1
  <2>10. CASE tx = t /\ AppliedOn(t) # {}
    <3>1. Cardinality(SealedIn(c)) = 1 /\ t \notin discarded
      BY <2>5, <2>7, <2>8, <2>10
    <3>2. QED
      BY <2>1, <2>6, <2>10, <3>1
  <2>11. CASE tx # t /\ EditionsOf(t) # {}
    <3>1. Cardinality(SealedIn(c)) = 1 /\ t \notin discarded
      BY <2>5, <2>8, <2>11
    <3>2. QED
      BY <2>1, <2>11, <3>1
  <2>12. CASE tx # t /\ EditionsOf(t) = {}
    <3>1. t \in discarded /\ SealedIn(c) = {}
      BY <2>3, <2>4, <2>12 DEF KeptIn
    <3>2. QED
      BY <2>1, <2>12, <3>1
  <2>13. QED
    BY <2>9, <2>10, <2>11, <2>12
<1>2. QED
  BY <1>1, EditInvariant, PTL

\* An edition has one author, who staged or wrote all of it and whose mandate, if it
\* is one, covers the zone of every section it touches.
THEOREM EditionsHaveOneAuthority == Spec => []OneAuthorityPerEdition
<1>1. EditInv => OneAuthorityPerEdition
  <2> SUFFICES ASSUME EditInv, NEW i \in DOMAIN editions, NEW j \in DOMAIN editions[i].writes
               PROVE  LET w == editions[i].writes[j] IN
                      /\ calls[w.by].auth = editions[i].auth
                      /\ editions[i].auth # Owner => ZoneOf[editions[i].auth] = w.section[1]
    BY DEF OneAuthorityPerEdition
  <2> DEFINE e == editions[i]
             w == e.writes[j]
  <2>1. /\ w.by \in DOMAIN calls /\ w.section = calls[w.by].section
        /\ calls[w.by].answer \in {"written", "staged"}
        /\ e.batch = None => calls[w.by].auth = e.auth
        /\ e.batch # None => e.auth = batches[e.batch].auth /\ calls[w.by].batch = e.batch
    BY DEF EditInv, EditionsAreOf
  <2>2. CallIsSound(w.by)
    BY <2>1 DEF EditInv, CallsAreTyped
  <2> HIDE DEF w, e
  <2>3. calls[w.by].auth = e.auth
    BY <2>1, <2>2 DEF CallIsSound
  <2>4. calls[w.by].op # "commit"
    BY <2>1, <2>2 DEF CallIsSound
  <2>5. e.auth # Owner => ZoneOf[e.auth] = w.section[1]
    BY <2>1, <2>2, <2>3, <2>4 DEF CallIsSound
  <2>6. QED
    BY <2>3, <2>5 DEF w, e
<1>2. QED
  BY <1>1, EditInvariant, PTL

-----------------------------------------------------------------------------
(***************************************************************************)
(* What a batch amounts to.  NetOf and Meant go through the writes one by  *)
(* one: both are a fold, of one step or of the other.                      *)
(***************************************************************************)

FoldStep(kind, p, ws, appends, acc, n) ==
    IF kind = "net" THEN Resolve(p, acc, ws[n]) ELSE Said(acc, ws[n], appends[n])

\* f is the fold of the first m writes.
IsFold(kind, p, ws, appends, m, base, f) ==
    f = [n \in 0 .. m |->
            IF n = 0 THEN base ELSE FoldStep(kind, p, ws, appends, f[n - 1], n)]

\* A set of numbers that is not empty has a least one.
LEMMA LeastOf ==
    ASSUME NEW T \in SUBSET Nat, T # {}
    PROVE  \E n \in T : \A m \in T : n <= m
<1> DEFINE R == {ss \in Nat \X Nat : ss[1] < ss[2]}
<1>1. IsWellFoundedOn(R, Nat)
  BY NatLessThanWellFounded DEF OpToRel
<1>2. PICK n \in T : \A m \in T : ~(<<m, n>> \in R)
  <2> HIDE DEF R
  <2> QED
    BY <1>1, WFMin
<1>3. ASSUME NEW m \in T PROVE n <= m
  <2>1. n \in Nat /\ m \in Nat
    OBVIOUS
  <2>2. m < n => <<m, n>> \in R
    BY <2>1
  <2> HIDE DEF R
  <2> QED
    BY <1>2, <2>1, <2>2
<1> QED
  BY <1>3

\* A batch of any length has a fold: the least length without one would be one longer
\* than a length with one.
LEMMA FoldExists ==
    ASSUME NEW kind, NEW p, NEW ws, NEW appends, NEW base, NEW m \in Nat
    PROVE  \E f : IsFold(kind, p, ws, appends, m, base, f)
<1> DEFINE Good(n) == \E f : IsFold(kind, p, ws, appends, n, base, f)
           Bad == {n \in Nat : ~Good(n)}
<1>1. Good(0)
  <2>1. IsFold(kind, p, ws, appends, 0, base, [n \in 0 .. 0 |-> base])
    BY DEF IsFold
  <2> QED
    BY <2>1
<1>2. ASSUME NEW n \in Nat \ {0}, Good(n - 1) PROVE Good(n)
  <2>1. PICK f : IsFold(kind, p, ws, appends, n - 1, base, f)
    BY <1>2
  <2> DEFINE last == FoldStep(kind, p, ws, appends, f[n - 1], n)
             g == [i \in 0 .. n |-> IF i = n THEN last ELSE f[i]]
  <2>2. \A i \in 0 .. n - 1 : g[i] = f[i] /\ f[i] =
            IF i = 0 THEN base ELSE FoldStep(kind, p, ws, appends, f[i - 1], i)
    <3> HIDE DEF last
    <3> QED
      BY <2>1 DEF IsFold
  <2>3. \A i \in 0 .. n : g[i] =
            IF i = 0 THEN base ELSE FoldStep(kind, p, ws, appends, g[i - 1], i)
    <3> SUFFICES ASSUME NEW i \in 0 .. n
                 PROVE  g[i] = IF i = 0 THEN base
                               ELSE FoldStep(kind, p, ws, appends, g[i - 1], i)
      OBVIOUS
    <3>1. i # 0 => i - 1 \in 0 .. n - 1
      OBVIOUS
    <3>2. i # n => i \in 0 .. n - 1
      OBVIOUS
    <3>3. g[n] = last /\ n # 0 /\ n - 1 \in 0 .. n - 1
      OBVIOUS
    <3> HIDE DEF g
    <3> QED
      BY <2>2, <3>1, <3>2, <3>3
  <2>4. IsFold(kind, p, ws, appends, n, base, g)
    <3>1. g = [i \in 0 .. n |-> g[i]]
      OBVIOUS
    <3> HIDE DEF g
    <3> QED
      BY <2>3, <3>1 DEF IsFold
  <2> QED
    BY <2>4
<1>3. ASSUME Bad # {} PROVE FALSE
  <2>1. PICK n \in Bad : \A i \in Bad : n <= i
    <3> HIDE DEF Good
    <3> QED
      BY <1>3, LeastOf
  <2>2. n \in Nat /\ n # 0 /\ n - 1 \in Nat /\ n - 1 \notin Bad
    <3> HIDE DEF Good
    <3> QED
      BY <1>1, <2>1
  <2> HIDE DEF Good
  <2>3. Good(n - 1)
    BY <2>2
  <2> QED
    BY <1>2, <2>1, <2>2, <2>3
<1> HIDE DEF Good
<1>4. Good(m)
  BY <1>3
<1> QED
  BY <1>4 DEF Good

\* A fold, write by write.
LEMMA FoldBegins ==
    ASSUME NEW kind, NEW p, NEW ws, NEW appends, NEW base, NEW m \in Nat, NEW f,
           IsFold(kind, p, ws, appends, m, base, f)
    PROVE  f[0] = base
BY DEF IsFold

LEMMA FoldGoesOn ==
    ASSUME NEW kind, NEW p, NEW ws, NEW appends, NEW base, NEW m \in Nat, NEW f,
           IsFold(kind, p, ws, appends, m, base, f)
    PROVE  \A n \in 1 .. m : f[n] = FoldStep(kind, p, ws, appends, f[n - 1], n)
BY DEF IsFold

\* Two batches begin alike.
Alike(k, ws, appends, vs, others) ==
    \A i \in 1 .. k : ws[i] = vs[i] /\ appends[i] = others[i]

\* Folds of batches that begin alike are alike so far: two would differ first at some
\* write, and what that write is applied to is the same.
LEMMA FoldsAgree ==
    ASSUME NEW kind, NEW p, NEW ws, NEW vs, NEW appends, NEW others, NEW base,
           NEW m \in Nat, NEW n \in Nat, NEW k \in Nat, k <= m, k <= n, NEW f, NEW g,
           IsFold(kind, p, ws, appends, m, base, f), IsFold(kind, p, vs, others, n, base, g),
           Alike(k, ws, appends, vs, others)
    PROVE  \A i \in 0 .. k : f[i] = g[i]
<1> DEFINE Bad == {i \in 0 .. k : f[i] # g[i]}
<1>1. /\ f[0] = base
      /\ \A i \in 1 .. m : f[i] = FoldStep(kind, p, ws, appends, f[i - 1], i)
  BY FoldBegins, FoldGoesOn
<1>2. /\ g[0] = base
      /\ \A i \in 1 .. n : g[i] = FoldStep(kind, p, vs, others, g[i - 1], i)
  BY FoldBegins, FoldGoesOn
<1>3. \A i \in 1 .. k : \A acc : FoldStep(kind, p, ws, appends, acc, i)
                                   = FoldStep(kind, p, vs, others, acc, i)
  BY DEF FoldStep, Alike
<1>4. ASSUME Bad # {} PROVE FALSE
  <2>0. Bad \in SUBSET Nat
    OBVIOUS
  <2>1. PICK i \in Bad : \A j \in Bad : i <= j
    <3> HIDE DEF Bad
    <3> QED
      BY <1>4, <2>0, LeastOf
  <2>2. i \in 0 .. k /\ i # 0
    BY <1>1, <1>2
  <2>3. i \in 1 .. k /\ i - 1 \in 0 .. k /\ i - 1 \notin Bad
    BY <2>1, <2>2
  <2>4. f[i - 1] = g[i - 1]
    BY <2>3
  <2>5. i \in 1 .. m /\ i \in 1 .. n
    BY <2>3
  <2>6. f[i] = g[i]
    <3> HIDE DEF Bad
    <3> QED
      BY <1>1, <1>2, <1>3, <2>3, <2>4, <2>5
  <2> QED
    BY <2>6
<1> QED
  BY <1>4

\* The recursive functions of the model compute those folds.
LEMMA NetIs ==
    ASSUME NEW p, NEW ws, Len(ws) \in Nat, NEW appends
    PROVE  \E f, u : /\ u = Unedited /\ IsFold("net", p, ws, appends, Len(ws), u, f)
                     /\ NetOf(p, ws) = f[Len(ws)]
<1> DEFINE IsNet(h) == h = [n \in 0 .. Len(ws) |-> IF n = 0 THEN Unedited
                                                   ELSE Resolve(p, h[n - 1], ws[n])]
           F == CHOOSE h : IsNet(h)
<1>1. NetOf(p, ws) = F[Len(ws)]
  BY DEF NetOf
<1>2. PICK f : IsFold("net", p, ws, appends, Len(ws), Unedited, f)
  BY FoldExists
<1>3. \A h : IsFold("net", p, ws, appends, Len(ws), Unedited, h) <=> IsNet(h)
  BY DEF IsFold, FoldStep
<1>4. IsNet(f)
  BY <1>2, <1>3
<1>5. IsNet(F)
  <2> HIDE DEF IsNet
  <2> QED
    BY <1>4, Zenon
<1> HIDE DEF IsNet, F
<1> QED
  BY <1>1, <1>3, <1>5

\* The appends of a batch, and what it was meant to do, as its calls are.
Appends(ws, cs) == [j \in 1 .. Len(ws) |-> cs[ws[j].by].op = "append"]

MeantOf(p, ws, cs) ==
    LET said[n \in 0 .. Len(ws)] ==
            IF n = 0 THEN p ELSE Said(said[n - 1], ws[n], cs[ws[n].by].op = "append")
    IN  said[Len(ws)]

LEMMA MeantIsOf ==
    ASSUME NEW p, NEW ws
    PROVE  Meant(p, ws) = MeantOf(p, ws, calls) /\ Meant(p, ws)' = MeantOf(p, ws, calls')
BY DEF Meant, MeantOf

LEMMA MeantIs ==
    ASSUME NEW p, NEW ws, NEW cs, Len(ws) \in Nat
    PROVE  \E f, a : /\ a = Appends(ws, cs) /\ IsFold("said", p, ws, a, Len(ws), p, f)
                     /\ MeantOf(p, ws, cs) = f[Len(ws)]
<1> DEFINE IsMeant(h) ==
              h = [n \in 0 .. Len(ws) |->
                      IF n = 0 THEN p
                      ELSE Said(h[n - 1], ws[n], cs[ws[n].by].op = "append")]
           F == CHOOSE h : IsMeant(h)
<1>1. MeantOf(p, ws, cs) = F[Len(ws)]
  BY DEF MeantOf
<1>2. PICK f : IsFold("said", p, ws, Appends(ws, cs), Len(ws), p, f)
  BY FoldExists
<1>3. ASSUME NEW h
      PROVE  IsFold("said", p, ws, Appends(ws, cs), Len(ws), p, h) <=> IsMeant(h)
  <2>1. \A n \in 0 .. Len(ws) : n # 0 =>
           FoldStep("said", p, ws, Appends(ws, cs), h[n - 1], n)
             = Said(h[n - 1], ws[n], cs[ws[n].by].op = "append")
    BY DEF FoldStep, Appends
  <2> QED
    BY <2>1 DEF IsFold
<1>4. IsMeant(f)
  BY <1>2, <1>3
<1>5. IsMeant(F)
  <2> HIDE DEF IsMeant
  <2> QED
    BY <1>4, Zenon
<1> HIDE DEF IsMeant, F
<1> QED
  BY <1>1, <1>3, <1>5

\* An empty batch changes nothing.
LEMMA EmptyBatch ==
    ASSUME NEW p, NEW ws, Len(ws) = 0
    PROVE  NetOf(p, ws) = Unedited /\ Meant(p, ws) = p
<1>0. Len(ws) \in Nat
  OBVIOUS
<1>1. PICK a : a = Appends(ws, calls)
  OBVIOUS
<1>2. PICK f, u : /\ u = Unedited /\ IsFold("net", p, ws, a, Len(ws), u, f)
                  /\ NetOf(p, ws) = f[Len(ws)]
  BY <1>0, NetIs
<1>3. PICK g, b : /\ b = Appends(ws, calls) /\ IsFold("said", p, ws, b, Len(ws), p, g)
                  /\ Meant(p, ws) = g[Len(ws)]
  BY <1>0, MeantIs, MeantIsOf
<1>4. f[0] = u
  BY <1>0, <1>2, FoldBegins
<1>5. g[0] = p
  BY <1>0, <1>3, FoldBegins
<1> QED
  BY <1>2, <1>3, <1>4, <1>5

LEMMA LenAppended ==
    ASSUME NEW s, IsSeq(s), NEW e
    PROVE  Len(Append(s, e)) = Len(s) + 1
<1>1. PICK S : s \in Seq(S)
  BY DEF IsSeq
<1>2. s \in Seq(S \cup {e})
  BY <1>1, SeqMonotonic
<1> QED
  BY <1>2, AppendProperties

\* The last write counts on what the others amount to.
LEMMA LongerBatch ==
    ASSUME NEW p, NEW ws, IsSeq(ws), NEW e
    PROVE  /\ NetOf(p, Append(ws, e)) = Resolve(p, NetOf(p, ws), e)
           /\ Meant(p, Append(ws, e)) = Said(Meant(p, ws), e, calls[e.by].op = "append")
<1>1a. PICK vs : vs = Append(ws, e)
  OBVIOUS
<1>1b. PICK n : n = Len(ws)
  OBVIOUS
<1>1c. n \in Nat /\ Len(vs) = n + 1 /\ vs[n + 1] = e /\ \A i \in 1 .. n : vs[i] = ws[i]
  BY <1>1a, <1>1b, AppendedTo, LenAppended
<1>1d. PICK m : m = n + 1
  OBVIOUS
<1>1. /\ vs = Append(ws, e) /\ n = Len(ws) /\ m = Len(vs) /\ n \in Nat
      /\ m = n + 1 /\ vs[m] = e /\ \A i \in 1 .. n : vs[i] = ws[i]
  BY <1>1a, <1>1b, <1>1c, <1>1d
<1>0. m \in Nat /\ m \in 1 .. m /\ m - 1 = n /\ n <= m /\ n <= n /\ n \in 0 .. n
  BY <1>1
<1>2. NetOf(p, vs) = Resolve(p, NetOf(p, ws), e)
  <2>0. PICK a : TRUE
    OBVIOUS
  <2>1. PICK f, u : u = Unedited /\ IsFold("net", p, ws, a, n, u, f) /\ NetOf(p, ws) = f[n]
    BY <1>1, NetIs
  <2>2. PICK g : IsFold("net", p, vs, a, m, u, g) /\ NetOf(p, vs) = g[m]
    BY <1>0, <1>1, <2>1, NetIs
  <2>3. Alike(n, ws, a, vs, a)
    BY <1>1 DEF Alike
  <2>4. \A i \in 0 .. n : f[i] = g[i]
    BY <1>0, <1>1, <2>1, <2>2, <2>3, FoldsAgree
  <2>5. \A i \in 1 .. m : g[i] = FoldStep("net", p, vs, a, g[i - 1], i)
    BY <1>0, <2>2, FoldGoesOn
  <2>6. g[m] = FoldStep("net", p, vs, a, g[m - 1], m)
    BY <1>0, <2>5
  <2> QED
    BY <1>0, <1>1, <2>1, <2>2, <2>4, <2>6 DEF FoldStep
<1>3. Meant(p, vs) = Said(Meant(p, ws), e, calls[e.by].op = "append")
  <2>1. PICK f, a : /\ a = Appends(ws, calls) /\ IsFold("said", p, ws, a, n, p, f)
                    /\ Meant(p, ws) = f[n]
    BY <1>1, MeantIs, MeantIsOf
  <2>2. PICK g, b : /\ b = Appends(vs, calls) /\ IsFold("said", p, vs, b, m, p, g)
                    /\ Meant(p, vs) = g[m]
    <3>1. PICK g, b : /\ b = Appends(vs, calls) /\ IsFold("said", p, vs, b, m, p, g)
                      /\ MeantOf(p, vs, calls) = g[m]
      BY <1>0, <1>1, MeantIs
    <3> QED
      BY <3>1, MeantIsOf
  <2>3. ASSUME NEW i \in 1 .. n PROVE a[i] = b[i]
    <3>1. i \in 1 .. m /\ vs[i] = ws[i]
      BY <1>1
    <3>2. a[i] = (calls[ws[i].by].op = "append")
      BY <1>1, <2>1 DEF Appends
    <3>3. b[i] = (calls[vs[i].by].op = "append")
      BY <1>1, <2>2, <3>1 DEF Appends
    <3> QED
      BY <3>1, <3>2, <3>3
  <2>4. Alike(n, ws, a, vs, b)
    BY <1>1, <2>3 DEF Alike
  <2>5. \A i \in 0 .. n : f[i] = g[i]
    BY <1>0, <1>1, <2>1, <2>2, <2>4, FoldsAgree
  <2>6. g[m] = FoldStep("said", p, vs, b, g[m - 1], m)
    <3>1. \A i \in 1 .. m : g[i] = FoldStep("said", p, vs, b, g[i - 1], i)
      BY <1>0, <2>2, FoldGoesOn
    <3> QED
      BY <1>0, <3>1
  <2>7. b[m] = (calls[e.by].op = "append")
    BY <1>0, <1>1, <2>2 DEF Appends
  <2> QED
    BY <1>0, <1>1, <2>1, <2>2, <2>5, <2>6, <2>7 DEF FoldStep
<1> QED
  BY <1>1, <1>2, <1>3

\* What a batch was meant to do hangs on what its calls are, and that stays.
LEMMA MeantStays ==
    ASSUME NEW p, NEW ws, IsSeq(ws),
           \A j \in DOMAIN ws : calls'[ws[j].by].op = calls[ws[j].by].op
    PROVE  Meant(p, ws)' = Meant(p, ws)
<1>1. PICK n : n = Len(ws)
  OBVIOUS
<1>2. n \in Nat /\ DOMAIN ws = 1 .. n
  BY <1>1, AppendedTo
<1>3. PICK f, a : /\ a = Appends(ws, calls) /\ IsFold("said", p, ws, a, n, p, f)
                  /\ Meant(p, ws) = f[n]
  BY <1>1, <1>2, MeantIs, MeantIsOf
<1>4. \E g, b : /\ b = Appends(ws, calls') /\ IsFold("said", p, ws, b, Len(ws), p, g)
                /\ Meant(p, ws)' = g[Len(ws)]
  BY <1>1, <1>2, MeantIs, MeantIsOf
<1>5. PICK g, b : /\ b = Appends(ws, calls') /\ IsFold("said", p, ws, b, n, p, g)
                  /\ Meant(p, ws)' = g[n]
  BY <1>1, <1>4
<1>6. ASSUME NEW i \in 1 .. n PROVE a[i] = b[i]
  <2>1. a[i] = (calls[ws[i].by].op = "append")
    BY <1>1, <1>3 DEF Appends
  <2>2. b[i] = (calls'[ws[i].by].op = "append")
    BY <1>1, <1>5 DEF Appends
  <2> QED
    BY <1>2, <2>1, <2>2
<1>7. Alike(n, ws, a, ws, b)
  BY <1>6 DEF Alike
<1>8. n \in 0 .. n /\ n <= n
  BY <1>2
<1>9. \A i \in 0 .. n : f[i] = g[i]
  BY <1>2, <1>3, <1>5, <1>7, <1>8, FoldsAgree
<1> QED
  BY <1>3, <1>5, <1>8, <1>9

-----------------------------------------------------------------------------
(***************************************************************************)
(* What is left of the sections when a batch is applied, section by        *)
(* section.                                                                *)
(***************************************************************************)

IsContent(x) == "body" \in DOMAIN x /\ IsSeq(x.body)
AreSections(p) == p = [s \in DOMAIN p |-> p[s]] /\ \A s \in DOMAIN p : IsContent(p[s])
BodyOf(sections, s) == IF s \in DOMAIN sections THEN sections[s].body ELSE <<>>

SetsBody(e) == e.op # "delete" /\ "body" \in DOMAIN e.change
BodyIsSound(e) == "body" \in DOMAIN e.change => IsSeq(e.change.body) /\ e.change.body # <<>>

LEMMA BlankIsContent == IsContent(Blank) /\ Blank.body = <<>>
<1>1. <<>> \in Seq({})
  BY EmptySeq
<1> QED
  BY <1>1 DEF IsContent, Blank, IsSeq

LEMMA ChangedContent ==
    ASSUME NEW was, IsContent(was), NEW e, BodyIsSound(e)
    PROVE  LET now == Changed(was, e.change) IN
           /\ IsContent(now)
           /\ now.body = IF "body" \in DOMAIN e.change THEN e.change.body ELSE was.body
<1> DEFINE now == Changed(was, e.change)
<1>1. /\ "body" \in DOMAIN now
      /\ now["body"] = IF "body" \in DOMAIN e.change THEN e.change["body"] ELSE was["body"]
  BY DEF Changed, Over, IsContent
<1> HIDE DEF now
<1>2. now.body = IF "body" \in DOMAIN e.change THEN e.change.body ELSE was.body
  BY <1>1
<1>3. IsSeq(now.body)
  BY <1>2 DEF BodyIsSound, IsContent
<1> QED
  BY <1>1, <1>2, <1>3 DEF IsContent, now

\* What an edit leaves of the section it touches, and of the others.
LEMMA SaidAt ==
    ASSUME NEW p, AreSections(p), NEW e, BodyIsSound(e)
    PROVE  LET now == Said(p, e, FALSE)
               s == e.section IN
           /\ AreSections(now)
           /\ DOMAIN now = IF e.op = "delete" THEN DOMAIN p \ {s} ELSE DOMAIN p \cup {s}
           /\ \A x \in DOMAIN now : x # s => now[x] = p[x]
           /\ \A x : x # s => BodyOf(now, x) = BodyOf(p, x)
           /\ SetsBody(e) => BodyOf(now, s) = e.change.body
           /\ e.op # "delete" /\ ~SetsBody(e) => BodyOf(now, s) = BodyOf(p, s)
<1> DEFINE now == Said(p, e, FALSE)
           s == e.section
           was == IF s \in DOMAIN p THEN p[s] ELSE Blank
           new == Changed(was, e.change)
<1>1. IsContent(was) /\ was.body = BodyOf(p, s)
  BY BlankIsContent DEF AreSections, BodyOf
<1>2. IsContent(new) /\ new.body = IF "body" \in DOMAIN e.change THEN e.change.body ELSE was.body
  <2> HIDE DEF was
  <2> QED
    BY <1>1, ChangedContent
<1>3. now = IF e.op = "delete" THEN Without(p, {s}) ELSE With(p, s, new)
  BY DEF Said
<1> HIDE DEF now, new, was
<1>4. CASE e.op = "delete"
  <2>1. DOMAIN now = DOMAIN p \ {s} /\ \A x \in DOMAIN now : now[x] = p[x]
    BY <1>3, <1>4 DEF Without
  <2>2. now = [x \in DOMAIN now |-> now[x]]
    BY <1>3, <1>4 DEF Without
  <2>3. AreSections(now)
    BY <2>1, <2>2 DEF AreSections
  <2>4. \A x : x # s => BodyOf(now, x) = BodyOf(p, x)
    BY <2>1 DEF BodyOf
  <2> QED
    BY <1>4, <2>1, <2>3, <2>4 DEF now, SetsBody
<1>5. CASE e.op # "delete"
  <2>1. /\ DOMAIN now = DOMAIN p \cup {s} /\ now[s] = new
        /\ \A x \in DOMAIN now : x # s => now[x] = p[x]
    BY <1>3, <1>5 DEF With
  <2>2. now = [x \in DOMAIN now |-> now[x]]
    BY <1>3, <1>5 DEF With
  <2>3. AreSections(now)
    BY <1>2, <2>1, <2>2 DEF AreSections
  <2>4. \A x : x # s => BodyOf(now, x) = BodyOf(p, x)
    BY <2>1 DEF BodyOf
  <2>5. BodyOf(now, s) = new.body
    BY <2>1 DEF BodyOf
  <2> QED
    BY <1>1, <1>2, <1>5, <2>1, <2>3, <2>4, <2>5 DEF now, SetsBody
<1> QED
  BY <1>4, <1>5

\* An append is the change it stages, when it saw the body that is there.
LEMMA SaidAppend ==
    ASSUME NEW p, AreSections(p), NEW e, e.op # "delete", DOMAIN e.change = {"body"},
           e.change.body = Append(BodyOf(p, e.section), e.by)
    PROVE  Said(p, e, TRUE) = Said(p, e, FALSE)
<1> DEFINE s == e.section
           was == IF s \in DOMAIN p THEN p[s] ELSE Blank
           new == Changed(was, e.change)
           longer == [was EXCEPT !.body = Append(@, e.by)]
<1>1. "body" \in DOMAIN was /\ was.body = BodyOf(p, s)
  BY BlankIsContent DEF AreSections, BodyOf, IsContent
<1>2. Said(p, e, FALSE) = With(p, s, new) /\ Said(p, e, TRUE) = With(p, s, longer)
  BY DEF Said
<1> HIDE DEF was
<1>3. new = longer
  <2>1. DOMAIN new = DOMAIN was /\ DOMAIN longer = DOMAIN was
    BY <1>1 DEF Changed, Over
  <2>2. ASSUME NEW x \in DOMAIN was PROVE new[x] = longer[x]
    BY <1>1 DEF Changed, Over
  <2>3. new = [x \in DOMAIN new |-> new[x]] /\ longer = [x \in DOMAIN longer |-> longer[x]]
    BY DEF Changed, Over
  <2> HIDE DEF new, longer
  <2> QED
    BY <2>1, <2>2, <2>3
<1> QED
  BY <1>2, <1>3

LEMMA PatchedAt ==
    ASSUME NEW p, NEW net
    PROVE  LET now == Patched(p, net) IN
           /\ DOMAIN now = DOMAIN net.upserts \cup (DOMAIN p \ net.deletes)
           /\ now = [x \in DOMAIN now |-> now[x]]
           /\ \A x \in DOMAIN now :
                 now[x] = IF x \in DOMAIN net.upserts THEN net.upserts[x] ELSE p[x]
BY DEF Patched, Over, Without

\* To take one more edit into a batch is to take it to what the batch leaves.
LEMMA PatchedStep ==
    ASSUME NEW p, NEW net, NEW e
    PROVE  Patched(p, Resolve(p, net, e)) = Said(Patched(p, net), e, FALSE)
<1> DEFINE was == Patched(p, net)
           more == Resolve(p, net, e)
           now == Patched(p, more)
           s == e.section
           old == IF s \in DOMAIN net.upserts THEN net.upserts[s]
                  ELSE IF s \in DOMAIN p \ net.deletes THEN p[s] ELSE Blank
<1>1. /\ DOMAIN was = DOMAIN net.upserts \cup (DOMAIN p \ net.deletes)
      /\ was = [x \in DOMAIN was |-> was[x]]
      /\ \A x \in DOMAIN was :
            was[x] = IF x \in DOMAIN net.upserts THEN net.upserts[x] ELSE p[x]
  BY PatchedAt
<1>2. /\ DOMAIN now = DOMAIN more.upserts \cup (DOMAIN p \ more.deletes)
      /\ now = [x \in DOMAIN now |-> now[x]]
      /\ \A x \in DOMAIN now :
            now[x] = IF x \in DOMAIN more.upserts THEN more.upserts[x] ELSE p[x]
  <2> HIDE DEF more
  <2> QED
    BY PatchedAt
<1>3. IF e.op = "delete"
      THEN /\ more.upserts = Without(net.upserts, {s})
           /\ more.deletes = net.deletes \cup ({s} \cap DOMAIN p)
      ELSE /\ more.upserts = With(net.upserts, s, Changed(old, e.change))
           /\ more.deletes = net.deletes \ {s}
  BY DEF Resolve
<1>4. old = IF s \in DOMAIN was THEN was[s] ELSE Blank
  <2> HIDE DEF was
  <2> QED
    BY <1>1
<1>5. Said(was, e, FALSE) = IF e.op = "delete" THEN Without(was, {s})
                            ELSE With(was, s, Changed(old, e.change))
  <2> HIDE DEF was, old
  <2> QED
    BY <1>4 DEF Said
<1> HIDE DEF was, more, now, old
<1>6. CASE e.op = "delete"
  <2>1. /\ DOMAIN more.upserts = DOMAIN net.upserts \ {s}
        /\ \A x \in DOMAIN more.upserts : more.upserts[x] = net.upserts[x]
    BY <1>3, <1>6 DEF Without
  <2>2. DOMAIN now = DOMAIN was \ {s}
    BY <1>1, <1>2, <1>3, <1>6, <2>1
  <2>3. \A x \in DOMAIN now : now[x] = was[x]
    BY <1>1, <1>2, <2>1, <2>2
  <2>4. now = Without(was, {s})
    BY <1>2, <2>2, <2>3 DEF Without
  <2> QED
    BY <1>5, <1>6, <2>4 DEF now, more, was
<1>7. CASE e.op # "delete"
  <2> DEFINE new == Changed(old, e.change)
  <2>1. /\ DOMAIN more.upserts = DOMAIN net.upserts \cup {s} /\ more.upserts[s] = new
        /\ \A x \in DOMAIN more.upserts : x # s => more.upserts[x] = net.upserts[x]
    BY <1>3, <1>7 DEF With
  <2> HIDE DEF new
  <2>2. DOMAIN now = DOMAIN was \cup {s}
    BY <1>1, <1>2, <1>3, <1>7, <2>1
  <2>3. \A x \in DOMAIN now : now[x] = IF x = s THEN new ELSE was[x]
    BY <1>1, <1>2, <2>1, <2>2
  <2>4. now = With(was, s, new)
    BY <1>2, <2>2, <2>3 DEF With
  <2> QED
    BY <1>5, <1>7, <2>4 DEF now, more, was, new
<1> QED
  BY <1>6, <1>7

\* The last write that touches a section, and the last that sets its body.
LastOn(ws, k) ==
    k \in DOMAIN ws /\ \A j \in DOMAIN ws : ws[j].section = ws[k].section => j <= k
SetLast(ws, k) ==
    /\ k \in DOMAIN ws /\ SetsBody(ws[k])
    /\ \A j \in DOMAIN ws : k < j /\ ws[j].section = ws[k].section =>
                               ws[j].op # "delete" /\ ~SetsBody(ws[j])
BodyStays(ws, s) ==
    \A j \in DOMAIN ws : ws[j].section = s => ws[j].op # "delete" /\ ~SetsBody(ws[j])

NetFacts(p, ws) ==
    LET net == NetOf(p, ws)
        now == Patched(p, net)
    IN  /\ AreSections(now)
        /\ \A k : LastOn(ws, k) =>
              IF ws[k].op = "delete" THEN ws[k].section \notin DOMAIN now
              ELSE ws[k].section \in DOMAIN net.upserts
        /\ \A k : SetLast(ws, k) => BodyOf(now, ws[k].section) = ws[k].change.body
        /\ \A s : BodyStays(ws, s) => BodyOf(now, s) = BodyOf(p, s)

Foldable(ws) == \A p : AreSections(p) => NetFacts(p, ws)

LEMMA NothingFolds ==
    ASSUME NEW p, AreSections(p), NEW ws, Len(ws) = 0, DOMAIN ws = {}
    PROVE  /\ NetFacts(p, ws) /\ Patched(p, NetOf(p, ws)) = p
           /\ NetOf(p, ws) = Unedited
<1>1. NetOf(p, ws) = Unedited
  BY EmptyBatch
<1>2. DOMAIN Unedited.upserts = {} /\ Unedited.deletes = {}
  BY DEF Unedited, Nothing
<1>3. Patched(p, Unedited) = p
  <2> DEFINE now == Patched(p, Unedited)
  <2>1. /\ DOMAIN now = DOMAIN p /\ now = [x \in DOMAIN now |-> now[x]]
        /\ \A x \in DOMAIN now : now[x] = p[x]
    BY <1>2 DEF Patched, Over, Without
  <2> HIDE DEF now
  <2>2. now = p
    BY <2>1 DEF AreSections
  <2> QED
    BY <2>2 DEF now
<1> QED
  BY <1>1, <1>3 DEF NetFacts, LastOn, SetLast

\* One write more.
LEMMA OneMore ==
    ASSUME NEW ws, IsSeq(ws), NEW e
    PROVE  \E vs, n : /\ vs = Append(ws, e) /\ n = Len(ws) + 1
                      /\ IsSeq(vs) /\ n \notin DOMAIN ws /\ DOMAIN vs = DOMAIN ws \cup {n}
                      /\ \A j \in DOMAIN ws : vs[j] = ws[j] /\ j < n /\ j \in Nat
                      /\ vs[n] = e /\ n \in Nat
<1>1. PICK vs : vs = Append(ws, e)
  OBVIOUS
<1>2. PICK n : n = Len(ws) + 1
  OBVIOUS
<1>3. /\ IsSeq(vs) /\ n \notin DOMAIN ws /\ DOMAIN vs = DOMAIN ws \cup {n}
      /\ \A j \in DOMAIN ws : vs[j] = ws[j] /\ j < n /\ j \in Nat
      /\ vs[n] = e /\ n \in Nat
  BY <1>1, <1>2, AppendedTo
<1> QED
  BY <1>1, <1>2, <1>3

LEMMA FactsGrow ==
    ASSUME NEW p, NEW ws, IsSeq(ws), NEW e, BodyIsSound(e), NetFacts(p, ws)
    PROVE  NetFacts(p, Append(ws, e))
<1>1. PICK vs, n : /\ vs = Append(ws, e) /\ n = Len(ws) + 1
                   /\ IsSeq(vs) /\ n \notin DOMAIN ws /\ DOMAIN vs = DOMAIN ws \cup {n}
                   /\ \A j \in DOMAIN ws : vs[j] = ws[j] /\ j < n /\ j \in Nat
                   /\ vs[n] = e /\ n \in Nat
  BY OneMore
<1>2. PICK net, more, was, now, s :
         /\ net = NetOf(p, ws) /\ more = NetOf(p, vs) /\ s = e.section
         /\ was = Patched(p, net) /\ now = Patched(p, more)
  OBVIOUS
<1>3. more = Resolve(p, net, e)
  BY <1>1, <1>2, LongerBatch
<1>4. now = Said(was, e, FALSE)
  BY <1>2, <1>3, PatchedStep
<1>5. /\ AreSections(was)
      /\ \A k : LastOn(ws, k) =>
            IF ws[k].op = "delete" THEN ws[k].section \notin DOMAIN was
            ELSE ws[k].section \in DOMAIN net.upserts
      /\ \A k : SetLast(ws, k) => BodyOf(was, ws[k].section) = ws[k].change.body
      /\ \A x : BodyStays(ws, x) => BodyOf(was, x) = BodyOf(p, x)
  BY <1>2 DEF NetFacts
<1>6. /\ AreSections(now)
      /\ DOMAIN now = IF e.op = "delete" THEN DOMAIN was \ {s} ELSE DOMAIN was \cup {s}
      /\ \A x : x # s => BodyOf(now, x) = BodyOf(was, x)
      /\ SetsBody(e) => BodyOf(now, s) = e.change.body
      /\ e.op # "delete" /\ ~SetsBody(e) => BodyOf(now, s) = BodyOf(was, s)
  <2>1. LET new == Said(was, e, FALSE)
            x == e.section IN
        /\ AreSections(new)
        /\ DOMAIN new = IF e.op = "delete" THEN DOMAIN was \ {x} ELSE DOMAIN was \cup {x}
        /\ \A y \in DOMAIN new : y # x => new[y] = was[y]
        /\ \A y : y # x => BodyOf(new, y) = BodyOf(was, y)
        /\ SetsBody(e) => BodyOf(new, x) = e.change.body
        /\ e.op # "delete" /\ ~SetsBody(e) => BodyOf(new, x) = BodyOf(was, x)
    BY <1>5, SaidAt
  <2> QED
    BY <1>2, <1>4, <2>1
<1>7. /\ e.op # "delete" => s \in DOMAIN more.upserts
      /\ \A x \in DOMAIN net.upserts : x # s => x \in DOMAIN more.upserts
  BY <1>2, <1>3 DEF Resolve, With, Without
<1>8. ASSUME NEW k, LastOn(vs, k)
      PROVE  IF vs[k].op = "delete" THEN vs[k].section \notin DOMAIN now
             ELSE vs[k].section \in DOMAIN more.upserts
  <2>1. CASE k = n
    BY <1>1, <1>2, <1>6, <1>7, <2>1
  <2>2. CASE k # n
    <3>1. k \in DOMAIN ws /\ vs[k] = ws[k] /\ k < n /\ k \in Nat
      BY <1>1, <1>8, <2>2 DEF LastOn
    <3>2. ws[k].section # s
      BY <1>1, <1>2, <1>8, <3>1 DEF LastOn
    <3>3. LastOn(ws, k)
      BY <1>1, <1>8, <3>1 DEF LastOn
    <3> QED
      BY <1>5, <1>6, <1>7, <3>1, <3>2, <3>3
  <2> QED
    BY <2>1, <2>2
<1>9. ASSUME NEW k, SetLast(vs, k) PROVE BodyOf(now, vs[k].section) = vs[k].change.body
  <2>1. CASE k = n
    BY <1>1, <1>2, <1>6, <1>9, <2>1 DEF SetLast
  <2>2. CASE k # n
    <3>1. k \in DOMAIN ws /\ vs[k] = ws[k] /\ k < n /\ SetsBody(ws[k])
      BY <1>1, <1>9, <2>2 DEF SetLast
    <3>2. ws[k].section = s => e.op # "delete" /\ ~SetsBody(e)
      BY <1>1, <1>2, <1>9, <3>1 DEF SetLast
    <3>3. SetLast(ws, k)
      BY <1>1, <1>9, <3>1 DEF SetLast
    <3> QED
      BY <1>5, <1>6, <3>1, <3>2, <3>3
  <2> QED
    BY <2>1, <2>2
<1>10. ASSUME NEW x, BodyStays(vs, x) PROVE BodyOf(now, x) = BodyOf(p, x)
  <2>1. BodyStays(ws, x)
    BY <1>1, <1>10 DEF BodyStays
  <2>2. x = s => e.op # "delete" /\ ~SetsBody(e)
    BY <1>1, <1>2, <1>10 DEF BodyStays
  <2> QED
    BY <1>5, <1>6, <2>1, <2>2
<1> QED
  BY <1>1, <1>2, <1>6, <1>8, <1>9, <1>10 DEF NetFacts

LEMMA FoldableGrows ==
    ASSUME NEW ws, IsSeq(ws), Foldable(ws), NEW e, BodyIsSound(e)
    PROVE  Foldable(Append(ws, e))
BY FactsGrow DEF Foldable

LEMMA FoldableBegins ==
    ASSUME NEW ws, Len(ws) = 0, DOMAIN ws = {}
    PROVE  Foldable(ws)
BY NothingFolds DEF Foldable

-----------------------------------------------------------------------------
(***************************************************************************)
(* What a call sees of a section, and what is there.                       *)
(***************************************************************************)

LEMMA GreatestOf ==
    ASSUME NEW n \in Nat, NEW T \in SUBSET (1 .. n), T # {}
    PROVE  \E k \in T : (\A j \in T : j <= k) /\ Max(T) = k
<1>1. PICK R : R = {i \in 0 .. n : \E j \in T : i = n - j}
  OBVIOUS
<1>2. R \in SUBSET Nat /\ \A j \in T : n - j \in R /\ j \in 1 .. n
  BY <1>1
<1>3. PICK r \in R : \A q \in R : r <= q
  BY <1>2, LeastOf
<1>4. PICK k \in T : r = n - k
  BY <1>1
<1>5. \A j \in T : k >= j /\ j \in Int
  BY <1>2, <1>3, <1>4
<1>6. PICK x : x = Max(T)
  OBVIOUS
<1>7. x \in T /\ \A j \in T : x >= j
  <2>1. \E y \in T : \A j \in T : y >= j
    BY <1>5
  <2>2. x = CHOOSE y \in T : \A j \in T : y >= j
    BY <1>6 DEF Max
  <2> QED
    BY <2>1, <2>2
<1>8. x = k
  BY <1>5, <1>7
<1> QED
  BY <1>5, <1>6, <1>8

Kinds == {"add", "modify", "delete"}
EditIsTyped(e) ==
    e.op \in Kinds /\ BodyIsSound(e) /\ (e.op = "add" => "body" \in DOMAIN e.change)

\* The edit below the last modify of a section that is not a modify itself.
Below(ws, m, k) ==
    /\ m \in DOMAIN ws /\ m < k /\ ws[m].section = ws[k].section
    /\ \A j \in DOMAIN ws : m < j /\ j < k /\ ws[j].section = ws[k].section => ws[j].op = "modify"

\* A view that is of the last write that touched the section, and of what is below it.
Shows(ws, s, v, k) ==
    /\ LastOn(ws, k) /\ ws[k].section = s
    /\ \/ ws[k].op = "delete" /\ v.at = "gone" /\ v.change = Nothing
       \/ ws[k].op = "add" /\ v.at = "session" /\ v.change = ws[k].change
       \/ /\ ws[k].op = "modify" /\ v.at = "session"
          /\ \E m : /\ Below(ws, m, k) /\ ws[m].op = "add"
                    /\ v.change = Over(ws[k].change, ws[m].change)
       \/ /\ ws[k].op = "modify" /\ v.at = "storage" /\ v.change = ws[k].change
          /\ \/ \E m : Below(ws, m, k) /\ ws[m].op = "delete"
             \/ \A j \in DOMAIN ws : ws[j].section = s => ws[j].op = "modify"

\* What effectiveSection finds, by the last write that touched the section.
LEMMA ViewIs ==
    ASSUME NEW ws, IsSeq(ws), \A j \in DOMAIN ws : ws[j].op \in Kinds, NEW s,
           NEW v, v = View(ws, s)
    PROVE  \/ /\ \A j \in DOMAIN ws : ws[j].section # s
              /\ v.at = "storage" /\ v.change = Nothing
           \/ \E k : Shows(ws, s, v, k)
<1>0. Len(ws) \in Nat /\ DOMAIN ws = 1 .. Len(ws)
  BY AppendedTo
<1>1. PICK T : T = {i \in DOMAIN ws : ws[i].section = s}
  OBVIOUS
<1>2. CASE T = {}
  <2>1. v = [at |-> "storage", change |-> Nothing]
    BY <1>1, <1>2 DEF View
  <2> QED
    BY <1>1, <1>2, <2>1
<1>3. CASE T # {}
  <2>1. PICK k \in T : (\A j \in T : j <= k) /\ Max(T) = k
    BY <1>0, <1>1, <1>3, GreatestOf
  <2>2. k \in DOMAIN ws /\ k \in 1 .. Len(ws) /\ ws[k].section = s /\ ws[k].op \in Kinds
    BY <1>0, <1>1
  <2>3. LastOn(ws, k)
    BY <1>1, <2>1, <2>2 DEF LastOn
  <2>4. PICK B : B = {i \in T \ {k} : ws[i].op # "modify"}
    OBVIOUS
  <2>5. v = CASE ws[k].op = "delete" -> [at |-> "gone", change |-> Nothing]
              [] ws[k].op = "add" -> [at |-> "session", change |-> ws[k].change]
              [] ws[k].op = "modify" /\ B # {} /\ ws[Max(B)].op = "add" ->
                   [at |-> "session", change |-> Over(ws[k].change, ws[Max(B)].change)]
              [] OTHER -> [at |-> "storage", change |-> ws[k].change]
    BY <1>1, <1>3, <2>1, <2>4 DEF View
  <2>6. CASE ws[k].op # "modify"
    <3>1. ws[k].op = "delete" => v.at = "gone" /\ v.change = Nothing
      BY <2>5
    <3>2. ws[k].op = "add" => v.at = "session" /\ v.change = ws[k].change
      BY <2>5
    <3> QED
      BY <2>2, <2>3, <2>6, <3>1, <3>2 DEF Kinds, Shows
  <2>7. CASE ws[k].op = "modify" /\ B = {}
    <3>1. v.at = "storage" /\ v.change = ws[k].change
      BY <2>5, <2>7
    <3>2. \A j \in DOMAIN ws : ws[j].section = s => ws[j].op = "modify"
      BY <1>1, <2>4, <2>7
    <3> QED
      BY <2>2, <2>3, <2>7, <3>1, <3>2 DEF Shows
  <2>8. CASE ws[k].op = "modify" /\ B # {}
    <3>0. B \in SUBSET (1 .. Len(ws))
      BY <1>0, <1>1, <2>4
    <3>1. PICK m \in B : (\A j \in B : j <= m) /\ Max(B) = m
      BY <1>0, <2>8, <3>0, GreatestOf
    <3>2. m \in 1 .. Len(ws) /\ m # k /\ m <= k /\ ws[m].section = s /\ ws[m].op # "modify"
      BY <1>0, <1>1, <2>1, <2>4, <3>0
    <3>3. Below(ws, m, k)
      <4>1. ASSUME NEW j \in DOMAIN ws, m < j, j < k, ws[j].section = s
            PROVE  ws[j].op = "modify"
        <5>1. j \in Int /\ m \in Int /\ k \in Int
          BY <1>0, <2>2, <3>2
        <5>2. j \notin B
          BY <3>1, <4>1, <5>1
        <5>3. j \in T \ {k}
          BY <1>1, <4>1, <5>1
        <5> QED
          BY <2>4, <5>2, <5>3
      <4>2. m < k /\ m \in DOMAIN ws
        BY <1>0, <2>2, <3>2
      <4> QED
        BY <2>2, <3>2, <4>1, <4>2 DEF Below
    <3>4. ws[m].op = "add" => v.at = "session" /\ v.change = Over(ws[k].change, ws[m].change)
      BY <2>5, <2>8, <3>1
    <3>5. ws[m].op # "add" => v.at = "storage" /\ v.change = ws[k].change
      BY <2>5, <2>8, <3>1
    <3>6. ws[m].op \in {"add", "delete"}
      BY <1>0, <3>2 DEF Kinds
    <3> QED
      BY <2>2, <2>3, <2>8, <3>3, <3>4, <3>5, <3>6 DEF Shows
  <2> QED
    BY <2>6, <2>7, <2>8
<1> QED
  BY <1>2, <1>3

\* After a delete of a section nothing touches it but an add.
Stands(ws) ==
    \A j, k \in DOMAIN ws :
        /\ j < k /\ ws[j].section = ws[k].section
        /\ ws[j].op = "delete" /\ ws[k].op # "add"
        => \E i \in DOMAIN ws : /\ j < i /\ i < k
                                /\ ws[i].section = ws[k].section /\ ws[i].op = "add"

\* An append to the section would miss a body that is staged below.
WouldMask(ws, s) ==
    \E i, j \in DOMAIN ws :
        /\ i < j /\ ws[i].section = s /\ ws[j].section = s
        /\ ws[i].op = "modify" /\ ws[j].op = "modify"
        /\ "body" \in DOMAIN ws[i].change /\ "body" \notin DOMAIN ws[j].change

\* The body that a view shows is the one that the batch would leave.
LEMMA ViewIsTrue ==
    ASSUME NEW p, AreSections(p), NEW ws, IsSeq(ws), Foldable(ws), Stands(ws),
           \A j \in DOMAIN ws : EditIsTyped(ws[j]), NEW s, ~WouldMask(ws, s),
           NEW v, v = View(ws, s), v.at # "gone"
    PROVE  /\ BodyOf(Patched(p, NetOf(p, ws)), s)
                = IF "body" \in DOMAIN v.change THEN v.change.body ELSE BodyOf(p, s)
           /\ v.at = "session" => "body" \in DOMAIN v.change
<1>0. Len(ws) \in Nat /\ DOMAIN ws = 1 .. Len(ws)
  BY AppendedTo
<1>1. PICK now : now = Patched(p, NetOf(p, ws))
  OBVIOUS
<1>2. /\ \A k : SetLast(ws, k) => BodyOf(now, ws[k].section) = ws[k].change.body
      /\ BodyStays(ws, s) => BodyOf(now, s) = BodyOf(p, s)
  BY <1>1 DEF Foldable, NetFacts
<1>3. CASE /\ \A j \in DOMAIN ws : ws[j].section # s
           /\ v.change = Nothing /\ v.at = "storage"
  <2>1. BodyStays(ws, s)
    BY <1>3 DEF BodyStays
  <2>2. "body" \notin DOMAIN v.change
    BY <1>3 DEF Nothing
  <2> QED
    BY <1>1, <1>2, <1>3, <2>1, <2>2
<1>4. ASSUME NEW k, LastOn(ws, k), ws[k].section = s, ws[k].op = "add",
             v.change = ws[k].change
      PROVE  "body" \in DOMAIN v.change /\ BodyOf(now, s) = v.change.body
  <2>1. k \in DOMAIN ws /\ k \in Int /\ "body" \in DOMAIN ws[k].change
    BY <1>0, <1>4 DEF LastOn, EditIsTyped
  <2>2. SetLast(ws, k)
    BY <1>0, <1>4, <2>1 DEF LastOn, SetLast, SetsBody
  <2> QED
    BY <1>2, <1>4, <2>1, <2>2
\* The last modify sets the body.
<1>5. ASSUME NEW k, LastOn(ws, k), ws[k].section = s, ws[k].op = "modify",
             "body" \in DOMAIN ws[k].change
      PROVE  BodyOf(now, s) = ws[k].change.body
  <2>1. k \in DOMAIN ws /\ k \in Int
    BY <1>0, <1>5 DEF LastOn
  <2>2. SetLast(ws, k)
    BY <1>0, <1>5, <2>1 DEF LastOn, SetLast, SetsBody
  <2> QED
    BY <1>2, <1>5, <2>1, <2>2
\* It does not, and neither does another modify below it.
<1>6. ASSUME NEW k, LastOn(ws, k), ws[k].section = s, ws[k].op = "modify",
             "body" \notin DOMAIN ws[k].change,
             NEW j \in DOMAIN ws, ws[j].section = s, ws[j].op = "modify"
      PROVE  ~SetsBody(ws[j])
  <2>1. k \in DOMAIN ws /\ k \in Int /\ j \in Int /\ j <= k
    BY <1>0, <1>6 DEF LastOn
  <2>2. j = k \/ j < k
    BY <2>1
  <2> QED
    BY <1>6, <2>1, <2>2 DEF SetsBody, WouldMask
<1>7. ASSUME NEW k, LastOn(ws, k), ws[k].section = s, ws[k].op = "modify",
             NEW m, Below(ws, m, k), ws[m].op = "add", v.change = Over(ws[k].change, ws[m].change)
      PROVE  "body" \in DOMAIN v.change /\ BodyOf(now, s) = v.change.body
  <2>1. /\ m \in DOMAIN ws /\ m \in Int /\ k \in Int /\ k \in DOMAIN ws
        /\ ws[m].section = s /\ "body" \in DOMAIN ws[m].change
    BY <1>0, <1>7 DEF LastOn, Below, EditIsTyped
  <2>2. /\ "body" \in DOMAIN v.change
        /\ v.change["body"] = IF "body" \in DOMAIN ws[k].change THEN ws[k].change["body"]
                              ELSE ws[m].change["body"]
    BY <1>7, <2>1 DEF Over
  <2>3. CASE "body" \in DOMAIN ws[k].change
    BY <1>5, <1>7, <2>2, <2>3
  <2>4. CASE "body" \notin DOMAIN ws[k].change
    <3>1. ASSUME NEW j \in DOMAIN ws, m < j, ws[j].section = s
          PROVE  ws[j].op # "delete" /\ ~SetsBody(ws[j])
      <4>1. j \in Int /\ j <= k
        BY <1>0, <1>7, <3>1 DEF LastOn
      <4>2. ws[j].op = "modify"
        BY <1>7, <2>1, <3>1, <4>1 DEF Below
      <4> QED
        BY <1>6, <1>7, <2>4, <3>1, <4>2
    <3>2. SetLast(ws, m)
      BY <1>7, <2>1, <3>1 DEF SetLast, SetsBody
    <3> QED
      BY <1>2, <2>1, <2>2, <2>4, <3>2
  <2> QED
    BY <2>3, <2>4
<1>8. ASSUME NEW k, LastOn(ws, k), ws[k].section = s, ws[k].op = "modify",
             NEW m, Below(ws, m, k), ws[m].op = "delete"
      PROVE  FALSE
  <2>1. m \in DOMAIN ws /\ k \in DOMAIN ws /\ m < k /\ ws[m].section = ws[k].section
    BY <1>8 DEF LastOn, Below
  <2>2. PICK i \in DOMAIN ws : /\ m < i /\ i < k /\ ws[i].section = ws[k].section
                               /\ ws[i].op = "add"
    BY <1>8, <2>1 DEF Stands
  <2> QED
    BY <1>8, <2>2 DEF Below
<1>9. ASSUME NEW k, LastOn(ws, k), ws[k].section = s, ws[k].op = "modify",
             v.change = ws[k].change,
             \A j \in DOMAIN ws : ws[j].section = s => ws[j].op = "modify"
      PROVE  BodyOf(now, s) = IF "body" \in DOMAIN v.change THEN v.change.body
                              ELSE BodyOf(p, s)
  <2>1. CASE "body" \in DOMAIN v.change
    BY <1>5, <1>9, <2>1
  <2>2. CASE "body" \notin DOMAIN v.change
    <3>1. BodyStays(ws, s)
      BY <1>6, <1>9, <2>2 DEF BodyStays
    <3> QED
      BY <1>2, <2>2, <3>1
  <2> QED
    BY <2>1, <2>2
<1>10. \A j \in DOMAIN ws : ws[j].op \in Kinds
  BY DEF EditIsTyped
<1>11. \/ /\ \A j \in DOMAIN ws : ws[j].section # s
          /\ v.at = "storage" /\ v.change = Nothing
       \/ \E k : Shows(ws, s, v, k)
  BY <1>10, ViewIs
<1>12. ASSUME NEW k, Shows(ws, s, v, k)
       PROVE  /\ BodyOf(now, s) = IF "body" \in DOMAIN v.change THEN v.change.body
                                  ELSE BodyOf(p, s)
              /\ v.at = "session" => "body" \in DOMAIN v.change
  BY <1>4, <1>7, <1>8, <1>9, <1>12 DEF Shows
<1> QED
  BY <1>1, <1>3, <1>11, <1>12

-----------------------------------------------------------------------------
(***************************************************************************)
(* A batch that holds what its calls were said to do, and one write more.  *)
(***************************************************************************)

KindOf(op) ==
    CASE op = "add" -> "add" [] op = "delete" -> "delete" [] OTHER -> "modify"

\* An edit is what its call staged.
EditIsSound(e) ==
    /\ e.by \in DOMAIN calls /\ e.op = KindOf(calls[e.by].op) /\ EditIsTyped(e)
    /\ calls[e.by].op = "append" => DOMAIN e.change = {"body"}

Touches(ws, s) == \E j \in DOMAIN ws : ws[j].section = s
Adds(ws, s) == \E j \in DOMAIN ws : ws[j].section = s /\ ws[j].op = "add"

BatchIsTrue(p, ws) ==
    /\ Stands(ws)
    /\ ~NetOf(p, ws).missing
    /\ \A j \in DOMAIN ws : ws[j].section \in DOMAIN p \/ Adds(ws, ws[j].section)
    /\ Masked(ws) \/ Patched(p, NetOf(p, ws)) = Meant(p, ws)

\* The edit of a call that saw the section as the batch leaves it.
Fits(p, ws, e) ==
    /\ e.op # "add" => /\ View(ws, e.section).at # "gone"
                       /\ e.section \in DOMAIN p \/ Touches(ws, e.section)
    /\ calls[e.by].op = "append" /\ ~WouldMask(ws, e.section) =>
          e.change.body = Append(BodyOf(Patched(p, NetOf(p, ws)), e.section), e.by)

\* Of the writes that touch a section there is a last one, and if the section is not
\* gone that is no delete.
LEMMA LastTouch ==
    ASSUME NEW ws, IsSeq(ws), \A j \in DOMAIN ws : ws[j].op \in Kinds, NEW s, Touches(ws, s)
    PROVE  \E k : /\ LastOn(ws, k) /\ ws[k].section = s
                  /\ View(ws, s).at # "gone" => ws[k].op # "delete"
<1>1. PICK v : v = View(ws, s)
  OBVIOUS
<1>2. PICK k : Shows(ws, s, v, k)
  BY <1>1, ViewIs DEF Touches
<1>3. LastOn(ws, k) /\ ws[k].section = s /\ (v.at # "gone" => ws[k].op # "delete")
  BY <1>2 DEF Shows
<1> QED
  BY <1>1, <1>3

LEMMA StandsGrows ==
    ASSUME NEW ws, IsSeq(ws), \A j \in DOMAIN ws : ws[j].op \in Kinds, Stands(ws), NEW e,
           e.op # "add" => View(ws, e.section).at # "gone"
    PROVE  Stands(Append(ws, e))
<1>1. PICK vs, n : /\ vs = Append(ws, e) /\ n = Len(ws) + 1
                   /\ IsSeq(vs) /\ n \notin DOMAIN ws /\ DOMAIN vs = DOMAIN ws \cup {n}
                   /\ \A j \in DOMAIN ws : vs[j] = ws[j] /\ j < n /\ j \in Nat
                   /\ vs[n] = e /\ n \in Nat
  BY OneMore
<1>2. ASSUME NEW j \in DOMAIN vs, NEW k \in DOMAIN vs, j < k,
             vs[j].section = vs[k].section, vs[j].op = "delete", vs[k].op # "add"
      PROVE  \E i \in DOMAIN vs : /\ j < i /\ i < k
                                  /\ vs[i].section = vs[k].section /\ vs[i].op = "add"
  <2>1. CASE k \in DOMAIN ws
    <3>1. j \in DOMAIN ws
      BY <1>1, <1>2, <2>1
    <3>2. PICK i \in DOMAIN ws : /\ j < i /\ i < k
                                 /\ ws[i].section = ws[k].section /\ ws[i].op = "add"
      BY <1>1, <1>2, <2>1, <3>1 DEF Stands
    <3> QED
      BY <1>1, <2>1, <3>2
  <2>2. CASE k = n
    <3>1. j \in DOMAIN ws /\ ws[j].section = e.section /\ ws[j].op = "delete"
      BY <1>1, <1>2, <2>2
    <3>2. PICK m : LastOn(ws, m) /\ ws[m].section = e.section /\ ws[m].op # "delete"
      BY <1>1, <1>2, <2>2, <3>1, LastTouch DEF Touches
    <3>3. m \in DOMAIN ws /\ m \in Nat /\ j \in Nat /\ j <= m /\ j # m /\ m < n
      BY <1>1, <3>1, <3>2 DEF LastOn
    <3>4. CASE ws[m].op = "add"
      BY <1>1, <2>2, <3>2, <3>3, <3>4
    <3>5. CASE ws[m].op # "add"
      <4>1. j < m
        BY <3>3
      <4>2. PICK i \in DOMAIN ws : /\ j < i /\ i < m
                                   /\ ws[i].section = ws[m].section /\ ws[i].op = "add"
        BY <3>1, <3>2, <3>3, <3>5, <4>1 DEF Stands
      <4>3. i < n
        BY <1>1, <4>2
      <4> QED
        BY <1>1, <2>2, <3>2, <4>2, <4>3
    <3> QED
      BY <3>4, <3>5
  <2> QED
    BY <1>1, <2>1, <2>2
<1>3. Stands(vs)
  BY <1>2 DEF Stands
<1> QED
  BY <1>1, <1>3

LEMMA BatchGrows ==
    ASSUME NEW p, AreSections(p), NEW ws, IsSeq(ws), Foldable(ws),
           \A j \in DOMAIN ws : EditIsSound(ws[j]), BatchIsTrue(p, ws),
           NEW e, EditIsSound(e), Fits(p, ws, e)
    PROVE  BatchIsTrue(p, Append(ws, e))
<1>1. PICK vs, n : /\ vs = Append(ws, e) /\ n = Len(ws) + 1
                   /\ IsSeq(vs) /\ n \notin DOMAIN ws /\ DOMAIN vs = DOMAIN ws \cup {n}
                   /\ \A j \in DOMAIN ws : vs[j] = ws[j] /\ j < n /\ j \in Nat
                   /\ vs[n] = e /\ n \in Nat
  BY OneMore
<1>2. PICK net, more, was, now, s :
         /\ net = NetOf(p, ws) /\ more = NetOf(p, vs) /\ s = e.section
         /\ was = Patched(p, net) /\ now = Patched(p, more)
  OBVIOUS
<1>3. more = Resolve(p, net, e) /\ now = Said(was, e, FALSE)
  <2>1. more = Resolve(p, net, e)
    BY <1>1, <1>2, LongerBatch
  <2> QED
    BY <1>2, <2>1, PatchedStep
<1>4. Meant(p, vs) = Said(Meant(p, ws), e, calls[e.by].op = "append")
  BY <1>1, LongerBatch
<1>5. /\ AreSections(was)
      /\ \A k : LastOn(ws, k) /\ ws[k].op # "delete" => ws[k].section \in DOMAIN net.upserts
  BY <1>2 DEF Foldable, NetFacts
<1>6. \A j \in DOMAIN ws : ws[j].op \in Kinds
  BY DEF EditIsSound, EditIsTyped
<1>7. /\ Stands(ws) /\ ~net.missing /\ (Masked(ws) \/ was = Meant(p, ws))
      /\ \A j \in DOMAIN ws : ws[j].section \in DOMAIN p \/ Adds(ws, ws[j].section)
  BY <1>2 DEF BatchIsTrue
<1>8. e.op # "add" => View(ws, s).at # "gone" /\ (s \in DOMAIN p \/ Touches(ws, s))
  BY <1>2 DEF Fits
<1>9. Stands(vs)
  BY <1>1, <1>2, <1>6, <1>7, <1>8, StandsGrows
<1>10. ~more.missing
  <2>0. /\ e.op # "delete" => more.missing = net.missing
        /\ e.op = "delete" =>
              more.missing = (net.missing \/ s \notin DOMAIN p \cup DOMAIN net.upserts)
    BY <1>2, <1>3 DEF Resolve
  <2>1. more.missing => e.op = "delete" /\ s \notin DOMAIN p \cup DOMAIN net.upserts
    BY <1>7, <2>0
  <2>2. ASSUME e.op = "delete", s \notin DOMAIN p PROVE s \in DOMAIN net.upserts
    <3>1. PICK k : LastOn(ws, k) /\ ws[k].section = s /\ ws[k].op # "delete"
      BY <1>6, <1>8, <2>2, LastTouch
    <3> QED
      BY <1>5, <3>1
  <2> QED
    BY <2>1, <2>2
<1>11. ASSUME NEW j \in DOMAIN vs PROVE vs[j].section \in DOMAIN p \/ Adds(vs, vs[j].section)
  <2>1. \A x : Adds(ws, x) => Adds(vs, x)
    BY <1>1 DEF Adds
  <2>2. CASE j \in DOMAIN ws
    BY <1>1, <1>7, <2>1, <2>2
  <2>3. CASE j = n /\ e.op = "add"
    BY <1>1, <2>3 DEF Adds
  <2>4. CASE j = n /\ e.op # "add"
    BY <1>1, <1>2, <1>7, <1>8, <2>1, <2>4 DEF Touches
  <2> QED
    BY <1>1, <2>2, <2>3, <2>4
<1>12. ASSUME ~Masked(vs) PROVE now = Meant(p, vs)
  <2>1. ~Masked(ws)
    <3> SUFFICES ASSUME Masked(ws) PROVE Masked(vs)
      BY <1>12
    <3>1. PICK i, j, k \in DOMAIN ws :
            /\ i < j /\ j < k
            /\ \A m \in {i, j, k} : ws[m].section = ws[k].section /\ ws[m].op = "modify"
            /\ calls[ws[k].by].op = "append"
            /\ "body" \in DOMAIN ws[i].change /\ "body" \notin DOMAIN ws[j].change
      BY DEF Masked
    <3>2. /\ i \in DOMAIN vs /\ j \in DOMAIN vs /\ k \in DOMAIN vs
          /\ vs[i] = ws[i] /\ vs[j] = ws[j] /\ vs[k] = ws[k]
      BY <1>1
    <3> QED
      BY <3>1, <3>2 DEF Masked
  <2>2. was = Meant(p, ws)
    BY <1>7, <2>1
  <2>3. CASE calls[e.by].op # "append"
    BY <1>3, <1>4, <2>2, <2>3
  <2>4. CASE calls[e.by].op = "append"
    <3>1. e.op = "modify" /\ DOMAIN e.change = {"body"}
      BY <2>4 DEF EditIsSound, KindOf
    <3>2. ~WouldMask(ws, s)
      <4> SUFFICES ASSUME WouldMask(ws, s) PROVE Masked(vs)
        BY <1>12
      <4>1. PICK i, j \in DOMAIN ws :
               /\ i < j /\ ws[i].section = s /\ ws[j].section = s
               /\ ws[i].op = "modify" /\ ws[j].op = "modify"
               /\ "body" \in DOMAIN ws[i].change /\ "body" \notin DOMAIN ws[j].change
        BY DEF WouldMask
      <4>2. /\ i \in DOMAIN vs /\ j \in DOMAIN vs /\ n \in DOMAIN vs /\ j < n
            /\ vs[i] = ws[i] /\ vs[j] = ws[j] /\ vs[n] = e
        BY <1>1
      <4> QED
        BY <1>2, <2>4, <3>1, <4>1, <4>2 DEF Masked
    <3>3. e.change.body = Append(BodyOf(was, e.section), e.by)
      BY <1>2, <2>4, <3>2 DEF Fits
    <3>4. Said(was, e, TRUE) = Said(was, e, FALSE)
      BY <1>5, <3>1, <3>3, SaidAppend
    <3> QED
      BY <1>3, <1>4, <2>2, <2>4, <3>4
  <2> QED
    BY <2>3, <2>4
<1> QED
  BY <1>1, <1>2, <1>9, <1>10, <1>11, <1>12 DEF BatchIsTrue

-----------------------------------------------------------------------------
(***************************************************************************)
(* The invariant of what the edits mean.                                   *)
(***************************************************************************)

\* Contents, edits and batches are what they should be, and no batch is left open on a
\* host that commits by itself.
EditsAreSound ==
    /\ AreSections(ethos)
    /\ \A c \in DOMAIN calls : IsSeq(calls[c].seen.body)
    /\ \A t \in DOMAIN batches : /\ Foldable(batches[t].writes)
                                 /\ \A j \in DOMAIN batches[t].writes :
                                       EditIsSound(batches[t].writes[j])
    /\ \A i \in DOMAIN editions : IsSeq(editions[i].writes)
    /\ plan.auto => tx = None

\* A write that is not noted as crowded is alone, and one that a commit came after is
\* noted as raced.
OverlapsAreNoted ==
    /\ \A c \in Writing \ crowded : Writing = {c}
    /\ \A c \in DOMAIN calls, d \in Writing : calls[c].op = "commit" /\ d < c => d \in raced

\* What has been staged so far.
Staged == IF tx = None THEN <<>> ELSE batches[tx].writes

\* What a write has seen is there.
Sees(c) ==
    LET call == calls[c]
        s == call.section
        v == View(Staged, s)
    IN  /\ call.step \in {"reading", "seen"} => call.op # "add" /\ v.at # "gone"
        /\ call.step = "reading" =>
              /\ v.at = "storage" /\ call.seen = Changed(Blank, v.change)
              /\ call.view = IF v.change # Nothing THEN "over" ELSE "storage"
        /\ call.step = "seen" =>
              /\ s \in DOMAIN ethos \/ Touches(Staged, s)
              /\ call.op = "append" /\ Stands(Staged) /\ ~WouldMask(Staged, s) =>
                    call.seen.body = BodyOf(Patched(ethos, NetOf(ethos, Staged)), s)

LoneWritesSee == host # "dead" => \A c \in Writing \ (crowded \cup raced) : Sees(c)

\* Nothing went on beside the writes of a transaction, or its commit.
Calm(t) ==
    /\ t \notin contested \cup stale
    /\ \A j \in DOMAIN batches[t].writes : batches[t].writes[j].by \notin crowded \cup raced

TxIsTrue ==
    tx # None /\ Calm(tx) /\ EditionsOf(tx) = {} => BatchIsTrue(ethos, batches[tx].writes)

\* The two properties, edition by edition and commit by commit.
AsMeant(e) ==
    \/ \E j \in DOMAIN e.writes : e.writes[j].by \in crowded \cup raced
    \/ e.batch \in stale \cup contested
    \/ Masked(e.writes)
    \/ e.after = Meant(e.before, e.writes)

AddsIn(t) == {calls[d].section : d \in {x \in DOMAIN calls :
                 calls[x].op = "add" /\ calls[x].batch = t}}
HasReason(c, t) ==
    \/ calls[c].auth \in DOMAIN dead
    \/ t \in stale \cup contested
    \/ \E d \in DOMAIN calls : calls[d].batch = t /\ d \in crowded \cup raced
    \/ \A j \in DOMAIN batches[t].writes :
          batches[t].writes[j].by < c => batches[t].writes[j].section \in AddsIn(t)

AllAreAsMeant == \A i \in DOMAIN editions : AsMeant(editions[i])
AllHaveReason ==
    \A c \in DOMAIN calls :
        calls[c].op = "commit" /\ calls[c].answer = "refused" => HasReason(c, calls[c].batch)
-----------------------------------------------------------------------------
\* What no step takes back: who a call is, and what went on beside it.
Goes ==
    /\ \A d \in DOMAIN calls :
          /\ d \in DOMAIN calls'
          /\ calls'[d].op = calls[d].op /\ calls'[d].auth = calls[d].auth
          /\ calls'[d].section = calls[d].section
          /\ calls[d].batch # None => calls'[d].batch = calls[d].batch
    /\ crowded \subseteq crowded' /\ raced \subseteq raced' /\ stale \subseteq stale'
    /\ contested \subseteq contested' /\ DOMAIN dead \subseteq DOMAIN dead'

LEMMA MovedGoes ==
    ASSUME NEW c, NEW step, NEW answer, NEW batch, Moves(c, step, answer, batch),
           calls[c].batch # None => batch = calls[c].batch,
           crowded \subseteq crowded', raced \subseteq raced', stale \subseteq stale',
           contested \subseteq contested', DOMAIN dead \subseteq DOMAIN dead'
    PROVE  Goes
BY DEF Moves, Goes

LEMMA JoinedGoes ==
    ASSUME NEW op, NEW auth, NEW section, NEW batch, Joins(op, auth, section, batch),
           crowded \subseteq crowded', raced \subseteq raced', stale \subseteq stale',
           contested \subseteq contested', DOMAIN dead \subseteq DOMAIN dead'
    PROVE  Goes
BY DEF Joins, Goes

LEMMA EditStaysSound ==
    ASSUME Goes, NEW e, EditIsSound(e)
    PROVE  EditIsSound(e)'
BY DEF Goes, EditIsSound

LEMMA MaskedStays ==
    ASSUME Goes, NEW ws, \A j \in DOMAIN ws : ws[j].by \in DOMAIN calls, Masked(ws)
    PROVE  Masked(ws)'
<1>1. PICK i, j, k \in DOMAIN ws :
        /\ i < j /\ j < k
        /\ \A m \in {i, j, k} : ws[m].section = ws[k].section /\ ws[m].op = "modify"
        /\ calls[ws[k].by].op = "append"
        /\ "body" \in DOMAIN ws[i].change /\ "body" \notin DOMAIN ws[j].change
  BY DEF Masked
<1>2. calls'[ws[k].by].op = "append"
  BY <1>1 DEF Goes
<1> QED
  BY <1>1, <1>2 DEF Masked

LEMMA BatchStaysTrue ==
    ASSUME Goes, NEW p, NEW ws, IsSeq(ws), \A j \in DOMAIN ws : ws[j].by \in DOMAIN calls,
           BatchIsTrue(p, ws)
    PROVE  BatchIsTrue(p, ws)'
<1>1. Meant(p, ws)' = Meant(p, ws)
  BY MeantStays DEF Goes
<1>2. Masked(ws) => Masked(ws)'
  BY MaskedStays
<1>3. /\ Stands(ws) /\ ~NetOf(p, ws).missing
      /\ \A j \in DOMAIN ws : ws[j].section \in DOMAIN p \/ Adds(ws, ws[j].section)
      /\ Masked(ws) \/ Patched(p, NetOf(p, ws)) = Meant(p, ws)
  BY DEF BatchIsTrue
<1> QED
  BY <1>1, <1>2, <1>3 DEF BatchIsTrue

LEMMA EditionStaysMeant ==
    ASSUME Goes, NEW e, IsSeq(e.writes), \A j \in DOMAIN e.writes : e.writes[j].by \in DOMAIN calls,
           AsMeant(e)
    PROVE  AsMeant(e)'
<1>1. Meant(e.before, e.writes)' = Meant(e.before, e.writes)
  BY MeantStays DEF Goes
<1>2. Masked(e.writes) => Masked(e.writes)'
  BY MaskedStays
<1> QED
  BY <1>1, <1>2 DEF AsMeant, Goes

\* A commit that failed has the reason it had: what joins its batch later is of later
\* calls, or of calls that went on beside it.
LEMMA ReasonStays ==
    ASSUME Goes, NEW c \in DOMAIN calls, NEW t, t # None, HasReason(c, t),
           \A j \in DOMAIN batches'[t].writes :
              LET w == batches'[t].writes[j] IN
              \/ j \in DOMAIN batches[t].writes /\ w = batches[t].writes[j]
              \/ ~(w.by < c)
              \/ w.by \in DOMAIN calls' /\ calls'[w.by].batch = t /\ w.by \in crowded' \cup raced'
    PROVE  HasReason(c, t)'
<1>1. AddsIn(t) \subseteq AddsIn(t)'
  BY DEF Goes, AddsIn
<1>2. CASE calls[c].auth \in DOMAIN dead \/ t \in stale \cup contested
  BY <1>2 DEF Goes, HasReason
<1>3. CASE \E d \in DOMAIN calls : calls[d].batch = t /\ d \in crowded \cup raced
  BY <1>3 DEF Goes, HasReason
<1>4. CASE \A j \in DOMAIN batches[t].writes :
              batches[t].writes[j].by < c => batches[t].writes[j].section \in AddsIn(t)
  <2>1. CASE \E j \in DOMAIN batches'[t].writes :
                LET w == batches'[t].writes[j] IN
                w.by \in DOMAIN calls' /\ calls'[w.by].batch = t /\ w.by \in crowded' \cup raced'
    BY <2>1 DEF HasReason
  <2>2. CASE \A j \in DOMAIN batches'[t].writes :
                LET w == batches'[t].writes[j] IN
                \/ j \in DOMAIN batches[t].writes /\ w = batches[t].writes[j]
                \/ ~(w.by < c)
    <3>1. \A j \in DOMAIN batches'[t].writes :
             batches'[t].writes[j].by < c => batches'[t].writes[j].section \in AddsIn(t)'
      BY <1>1, <1>4, <2>2
    <3> QED
      BY <3>1 DEF HasReason
  <2> QED
    BY <2>1, <2>2
<1> QED
  BY <1>2, <1>3, <1>4 DEF HasReason

-----------------------------------------------------------------------------
\* Nothing is written: a batch may be opened, and a commit may fail for a reason.
Quiet ==
    /\ Goes /\ UNCHANGED <<plan, ethos, editions>>
    /\ \A t \in DOMAIN batches : t \in DOMAIN batches' /\ batches'[t] = batches[t]
    /\ \A t \in DOMAIN batches' \ DOMAIN batches :
          Len(batches'[t].writes) = 0 /\ DOMAIN batches'[t].writes = {}
    /\ tx' = tx \/ tx' = None \/ tx' \in DOMAIN batches' \ DOMAIN batches
    /\ plan.auto => tx' = None
    /\ \A d \in DOMAIN calls' : IsSeq(calls'[d].seen.body)
    /\ \A d \in DOMAIN calls' :
          calls'[d].op = "commit" /\ calls'[d].answer = "refused" =>
              \/ d \in DOMAIN calls /\ calls[d].op = "commit" /\ calls[d].answer = "refused"
              \/ HasReason(d, calls[d].batch)'

EditsMean == EditsAreSound /\ TxIsTrue /\ AllAreAsMeant /\ AllHaveReason

\* A batch of no writes amounts to nothing.
LEMMA EmptyIsTrue ==
    ASSUME NEW p, AreSections(p), NEW ws, Len(ws) = 0, DOMAIN ws = {}
    PROVE  BatchIsTrue(p, ws)
<1>1. Patched(p, NetOf(p, ws)) = p /\ NetOf(p, ws) = Unedited
  BY NothingFolds
<1>2. Meant(p, ws) = p
  BY EmptyBatch
<1>3. ~NetOf(p, ws).missing
  BY <1>1 DEF Unedited
<1>4. Stands(ws) /\ \A j \in DOMAIN ws : ws[j].section \in DOMAIN p \/ Adds(ws, ws[j].section)
  BY DEF Stands
<1> QED
  BY <1>1, <1>2, <1>3, <1>4 DEF BatchIsTrue

LEMMA CalmWas ==
    ASSUME Goes, NEW t, Calm(t)', batches'[t].writes = batches[t].writes
    PROVE  Calm(t)
BY DEF Goes, Calm

LEMMA EditionsStayMeant ==
    ASSUME EditInv, EditsMean, Goes
    PROVE  \A i \in DOMAIN editions : \A e : e = editions[i] => AsMeant(e)'
<1> SUFFICES ASSUME NEW i \in DOMAIN editions, NEW e, e = editions[i] PROVE AsMeant(e)'
  OBVIOUS
<1>1. AsMeant(e) /\ IsSeq(e.writes)
  BY DEF EditsMean, AllAreAsMeant, EditsAreSound
<1>2. \A j \in DOMAIN e.writes : e.writes[j].by \in DOMAIN calls
  BY DEF EditInv, EditionsAreOf
<1> QED
  BY <1>1, <1>2, EditionStaysMeant

LEMMA ReasonsStay ==
    ASSUME EditInv, EditsMean, Goes,
           NEW d \in DOMAIN calls, calls[d].op = "commit", calls[d].answer = "refused",
           NEW t, t = calls[d].batch,
           \A j \in DOMAIN batches'[t].writes :
              LET w == batches'[t].writes[j] IN
              \/ j \in DOMAIN batches[t].writes /\ w = batches[t].writes[j]
              \/ ~(w.by < d)
              \/ w.by \in DOMAIN calls' /\ calls'[w.by].batch = t /\ w.by \in crowded' \cup raced'
    PROVE  HasReason(d, calls[d].batch)'
<1>1. t # None /\ HasReason(d, t) /\ calls'[d].batch = t
  BY DEF EditInv, CallsAreTyped, CallIsSound, EditsMean, AllHaveReason, Goes
<1>2. HasReason(d, t)'
  BY <1>1, ReasonStays
<1> QED
  BY <1>1, <1>2

LEMMA QuietKeeps ==
    ASSUME EditInv, Shapes, EditInv', Shapes', EditsMean, Quiet
    PROVE  EditsMean'
<1>1. /\ Goes /\ plan' = plan /\ ethos' = ethos /\ editions' = editions
      /\ \A t \in DOMAIN batches : t \in DOMAIN batches' /\ batches'[t] = batches[t]
      /\ \A t \in DOMAIN batches' \ DOMAIN batches :
            Len(batches'[t].writes) = 0 /\ DOMAIN batches'[t].writes = {}
      /\ tx' = tx \/ tx' = None \/ tx' \in DOMAIN batches' \ DOMAIN batches
  BY DEF Quiet
<1>2. AreSections(ethos)
  BY DEF EditsMean, EditsAreSound
<1>3. EditsAreSound'
  <2>1. ASSUME NEW t \in DOMAIN batches'
        PROVE  /\ Foldable(batches'[t].writes)
               /\ \A j \in DOMAIN batches'[t].writes : EditIsSound(batches[t].writes[j])'
    <3>1. CASE t \in DOMAIN batches
      <4>1. PICK ws : ws = batches[t].writes
        OBVIOUS
      <4>2. Foldable(ws) /\ \A j \in DOMAIN ws : EditIsSound(ws[j])
        BY <3>1, <4>1 DEF EditsMean, EditsAreSound
      <4>3. \A j \in DOMAIN ws : EditIsSound(ws[j])'
        BY <1>1, <4>2, EditStaysSound
      <4>4. batches'[t].writes = ws
        BY <1>1, <3>1, <4>1
      <4> QED
        BY <4>2, <4>3, <4>4
    <3>2. CASE t \notin DOMAIN batches
      BY <1>1, <3>2, FoldableBegins
    <3> QED
      BY <3>1, <3>2
  <2> QED
    BY <1>1, <2>1 DEF Quiet, EditsMean, EditsAreSound
<1>4. TxIsTrue'
  <2> SUFFICES ASSUME tx' # None, Calm(tx)', EditionsOf(tx)' = {}
               PROVE  BatchIsTrue(ethos, batches[tx].writes)'
    BY <1>1 DEF TxIsTrue
  <2>1. CASE tx' = tx
    <3>1. PICK ws : ws = batches[tx].writes
      OBVIOUS
    <3>2. tx \in DOMAIN batches /\ batches'[tx].writes = ws
      BY <1>1, <2>1, <3>1 DEF EditInv, TxIsSound
    <3>3. EditionsOf(tx) = {} /\ Calm(tx)
      BY <1>1, <2>1, <3>1, <3>2, CalmWas DEF EditionsOf
    <3>4. BatchIsTrue(ethos, ws)
      BY <2>1, <3>1, <3>3 DEF EditsMean, TxIsTrue
    <3>5. IsSeq(ws) /\ \A j \in DOMAIN ws : ws[j].by \in DOMAIN calls
      BY <3>1, <3>2 DEF Shapes, EditInv, BatchesAreSound
    <3> QED
      BY <1>1, <2>1, <3>2, <3>4, <3>5, BatchStaysTrue
  <2>2. CASE tx' \in DOMAIN batches' \ DOMAIN batches
    <3>1. PICK ws : ws = batches'[tx'].writes
      OBVIOUS
    <3>2. Len(ws) = 0 /\ DOMAIN ws = {} /\ IsSeq(ws)
      BY <1>1, <2>2, <3>1 DEF Shapes
    <3>3. BatchIsTrue(ethos, ws)
      BY <1>2, <3>2, EmptyIsTrue
    <3>4. \A j \in DOMAIN ws : ws[j].by \in DOMAIN calls
      BY <3>2
    <3> QED
      BY <1>1, <3>1, <3>2, <3>3, <3>4, BatchStaysTrue
  <2> QED
    BY <1>1, <2>1, <2>2
<1>5. AllAreAsMeant'
  BY <1>1, EditionsStayMeant DEF AllAreAsMeant
<1>6. AllHaveReason'
  <2>1. ASSUME NEW d \in DOMAIN calls, calls[d].op = "commit", calls[d].answer = "refused"
        PROVE  HasReason(d, calls[d].batch)'
    <3>1. PICK t : t = calls[d].batch
      OBVIOUS
    <3>2. t \in DOMAIN batches
      BY <2>1, <3>1 DEF EditInv, CallsAreTyped, CallIsSound
    <3>3. batches'[t] = batches[t]
      BY <1>1, <3>2
    <3> QED
      BY <1>1, <2>1, <3>1, <3>3, ReasonsStay
  <2> QED
    BY <2>1 DEF AllHaveReason, Quiet
<1> QED
  BY <1>3, <1>4, <1>5, <1>6 DEF EditsMean

-----------------------------------------------------------------------------
\* What the writes under way have seen, and which of them are noted as overlapping.
CallsSee == OverlapsAreNoted /\ LoneWritesSee

\* A write goes on: if it is alone, what it sees then is there.
LEMMA WriteGoesOn ==
    ASSUME CallsSee, NEW c \in Writing, NEW step, NEW answer, NEW batch,
           Moves(c, step, answer, batch), crowded' = crowded, raced' = raced,
           host # "dead",
           Writing = {c} /\ c \notin crowded \cup raced /\ step # "done" => Sees(c)'
    PROVE  CallsSee'
<1>1. Writing' = IF step = "done" THEN Writing \ {c} ELSE Writing
  BY MovedSets DEF Writing
<1>2. OverlapsAreNoted'
  <2>1. \A d \in DOMAIN calls : calls'[d].op = calls[d].op
    BY MovedSets
  <2>2. DOMAIN calls' = DOMAIN calls
    BY DEF Moves
  <2> QED
    BY <1>1, <2>1, <2>2 DEF CallsSee, OverlapsAreNoted
<1>3. ASSUME NEW d \in Writing' \ (crowded' \cup raced') PROVE Sees(d)'
  <2>1. d \in Writing \ crowded
    BY <1>1, <1>3
  <2>2. Writing = {d}
    BY <2>1 DEF CallsSee, OverlapsAreNoted
  <2>3. d = c /\ step # "done"
    BY <1>1, <1>3, <2>2
  <2> QED
    BY <1>3, <2>2, <2>3
<1> QED
  BY <1>2, <1>3 DEF CallsSee, LoneWritesSee

LEMMA CommitGoesOn ==
    ASSUME EditInv, CallsSee, NEW c \in Committing, NEW step, NEW answer, NEW batch,
           Moves(c, step, answer, batch), crowded' = crowded, raced' = raced
    PROVE  CallsSee'
<1>1. c \in InFlight /\ c \notin Writing /\ Writing \subseteq raced
  BY CommitIs
<1>2. Writing' = Writing
  BY <1>1, MovedSets
<1>3. \A d \in DOMAIN calls : calls'[d].op = calls[d].op
  BY MovedSets
<1>4. DOMAIN calls' = DOMAIN calls
  BY DEF Moves
<1>5. OverlapsAreNoted'
  BY <1>2, <1>3, <1>4 DEF CallsSee, OverlapsAreNoted
<1> QED
  BY <1>1, <1>2, <1>5 DEF CallsSee, LoneWritesSee

\* The calls stay as they are.
LEMMA CallsRest ==
    ASSUME CallsSee, calls' = calls, crowded \subseteq crowded', raced \subseteq raced',
           \/ host' = "dead" \/ Writing \subseteq crowded' \cup raced'
           \/ UNCHANGED <<tx, batches, ethos>> /\ host # "dead"
    PROVE  CallsSee'
<1>1. Writing' = Writing
  BY DEF Writing, InFlight
<1>2. OverlapsAreNoted'
  BY <1>1 DEF CallsSee, OverlapsAreNoted
<1>3. CASE host' = "dead" \/ Writing \subseteq crowded' \cup raced'
  BY <1>1, <1>2, <1>3 DEF CallsSee, LoneWritesSee
<1>4. CASE UNCHANGED <<tx, batches, ethos>> /\ host # "dead"
  <2>1. Staged' = Staged
    BY <1>4 DEF Staged
  <2>2. ASSUME NEW d, Sees(d) PROVE Sees(d)'
    BY <1>4, <2>1, <2>2 DEF Sees
  <2> QED
    BY <1>1, <1>2, <1>4, <2>2 DEF CallsSee, LoneWritesSee
<1> QED
  BY <1>3, <1>4

LEMMA CallBegins ==
    ASSUME Shapes, CallsSee, NEW op \in Ops, NEW auth, NEW section, NEW batch,
           Joins(op, auth, section, batch),
           IF op = "commit" THEN raced' = raced \cup Writing /\ crowded' = crowded
           ELSE /\ raced \subseteq raced'
                /\ crowded' = IF Writing # {} THEN crowded \cup Writing \cup {Len(calls) + 1}
                              ELSE crowded
    PROVE  CallsSee'
<1>1. PICK n : n = Len(calls) + 1
  OBVIOUS
<1>2. /\ n \notin DOMAIN calls /\ DOMAIN calls' = DOMAIN calls \cup {n}
      /\ \A d \in DOMAIN calls : calls'[d] = calls[d] /\ d \in Int /\ d < n
      /\ calls'[n].op = op /\ calls'[n].step = "begun" /\ n \in Int
  BY <1>1, AppendedTo DEF Shapes, Joins
<1>3. Writing' = IF op = "commit" THEN Writing ELSE Writing \cup {n}
  BY <1>1, JoinedSets
<1>4. Writing \subseteq DOMAIN calls
  BY DEF Writing, InFlight
<1>5. CASE op = "commit"
  <2>1. OverlapsAreNoted'
    BY <1>2, <1>3, <1>4, <1>5 DEF CallsSee, OverlapsAreNoted
  <2> QED
    BY <1>3, <1>5, <2>1 DEF CallsSee, LoneWritesSee
<1>6. CASE op # "commit"
  <2>1. OverlapsAreNoted'
    <3>1. \A d \in Writing' \ crowded' : Writing' = {d}
      BY <1>1, <1>3, <1>6
    <3>2. ASSUME NEW c \in DOMAIN calls', NEW d \in Writing', calls'[c].op = "commit", d < c
          PROVE  d \in raced'
      <4>1. c \in DOMAIN calls /\ c < n
        BY <1>2, <1>6, <3>2
      <4>2. d # n /\ d \in Writing
        BY <1>2, <1>3, <3>2, <4>1
      <4> QED
        BY <1>2, <1>6, <3>2, <4>1, <4>2 DEF CallsSee, OverlapsAreNoted
    <3> QED
      BY <3>1, <3>2 DEF OverlapsAreNoted
  <2>2. \A d \in Writing' \ (crowded' \cup raced') : d = n
    BY <1>1, <1>3, <1>6
  <2>3. Sees(n)'
    BY <1>2 DEF Sees
  <2> QED
    BY <2>1, <2>2, <2>3 DEF CallsSee, LoneWritesSee
<1> QED
  BY <1>5, <1>6

-----------------------------------------------------------------------------
\* What a view shows of a batch of sound edits.
LEMMA ViewIsSound ==
    ASSUME NEW ws, IsSeq(ws), \A j \in DOMAIN ws : EditIsTyped(ws[j]), NEW s,
           NEW v, v = View(ws, s)
    PROVE  /\ v.at \in {"gone", "session", "storage"} /\ BodyIsSound(v)
           /\ v.at = "session" \/ v.change # Nothing => Touches(ws, s) \/ v.at = "gone"
<1>1. CASE /\ \A j \in DOMAIN ws : ws[j].section # s
           /\ v.at = "storage" /\ v.change = Nothing
  BY <1>1 DEF BodyIsSound, Nothing
<1>2. ASSUME NEW k, Shows(ws, s, v, k)
      PROVE  /\ v.at \in {"gone", "session", "storage"} /\ BodyIsSound(v)
             /\ Touches(ws, s) \/ v.at = "gone"
  <2>1. k \in DOMAIN ws /\ ws[k].section = s /\ BodyIsSound(ws[k])
    BY <1>2 DEF Shows, LastOn, EditIsTyped
  <2>2. ASSUME v.change = ws[k].change PROVE BodyIsSound(v)
    BY <2>1, <2>2 DEF BodyIsSound
  <2>3. ASSUME NEW m, m \in DOMAIN ws, v.change = Over(ws[k].change, ws[m].change)
        PROVE  BodyIsSound(v)
    <3>1. BodyIsSound(ws[m])
      BY <2>3 DEF EditIsTyped
    <3>2. /\ DOMAIN v.change = DOMAIN ws[k].change \cup DOMAIN ws[m].change
          /\ "body" \in DOMAIN v.change =>
                v.change["body"] = IF "body" \in DOMAIN ws[k].change THEN ws[k].change["body"]
                                   ELSE ws[m].change["body"]
      BY <2>3 DEF Over
    <3> QED
      BY <2>1, <3>1, <3>2 DEF BodyIsSound
  <2>4. v.change = Nothing => BodyIsSound(v)
    BY DEF BodyIsSound, Nothing
  <2> QED
    BY <1>2, <2>1, <2>2, <2>3, <2>4 DEF Shows, Below, Touches
<1>3. \A j \in DOMAIN ws : ws[j].op \in Kinds
  BY DEF EditIsTyped
<1> QED
  BY <1>1, <1>2, <1>3, ViewIs DEF Touches

\* What a look leaves in the call.
LEMMA LookedIs ==
    ASSUME NEW c \in DOMAIN calls, DOMAIN calls[c] = Fields, NEW v, NEW batch,
           Looked(c, v, batch)
    PROVE  /\ calls'[c].seen = Changed(Blank, v.change)
           /\ calls'[c].view = IF v.at = "storage" /\ v.change # Nothing THEN "over" ELSE v.at
           /\ calls'[c].step = CASE v.at = "gone" -> "done" [] v.at = "session" -> "seen"
                                 [] OTHER -> "reading"
<1> DEFINE step == CASE v.at = "gone" -> "done" [] v.at = "session" -> "seen"
                      [] OTHER -> "reading"
           over == IF v.at = "storage" /\ v.change # Nothing THEN "over" ELSE v.at
           seen == Changed(Blank, v.change)
           answer == IF v.at = "gone" THEN "refused" ELSE calls[c].answer
           r == [calls[c] EXCEPT !.batch = batch, !.view = over, !.step = step,
                                 !.answer = answer, !.seen = seen]
<1>1. calls' = [calls EXCEPT ![c] = r]
  BY DEF Looked
<1>2. r.seen = seen /\ r.view = over /\ r.step = step
  BY DEF Fields
<1> HIDE DEF r, over, step, seen
<1>3. calls'[c] = r
  BY <1>1
<1> QED
  BY <1>2, <1>3 DEF over, step, seen

\* Its first content is that of the change it saw.
LEMMA SeenAtFirst ==
    ASSUME NEW v, BodyIsSound(v), NEW seen, seen = Changed(Blank, v.change)
    PROVE  /\ IsSeq(seen.body)
           /\ IF "body" \in DOMAIN v.change THEN seen.body = v.change.body /\ seen.body # <<>>
              ELSE seen.body = <<>>
<1>1. /\ IsContent(seen)
      /\ seen.body = IF "body" \in DOMAIN v.change THEN v.change.body ELSE Blank.body
  BY BlankIsContent, ChangedContent
<1> QED
  BY <1>1, BlankIsContent DEF IsContent, BodyIsSound

\* A look at what is staged shows what there is.
LEMMA LookSees ==
    ASSUME NEW c \in DOMAIN calls, DOMAIN calls[c] = Fields,
           calls[c].op # "add", calls'[c].op = calls[c].op,
           calls'[c].section = calls[c].section,
           NEW ws, ws = Staged', IsSeq(ws), Foldable(ws), \A j \in DOMAIN ws : EditIsTyped(ws[j]),
           NEW p, p = ethos', AreSections(p),
           NEW v, v = View(ws, calls[c].section), NEW batch, Looked(c, v, batch)
    PROVE  Sees(c)' /\ IsSeq(calls'[c].seen.body)
<1>1. PICK s : s = calls[c].section
  OBVIOUS
<1>2. PICK step : step = CASE v.at = "gone" -> "done" [] v.at = "session" -> "seen"
                          [] OTHER -> "reading"
  OBVIOUS
<1>3. /\ calls'[c].seen = Changed(Blank, v.change) /\ calls'[c].step = step
      /\ calls'[c].view = IF v.at = "storage" /\ v.change # Nothing THEN "over" ELSE v.at
  BY <1>2, LookedIs
<1>4. /\ v.at \in {"gone", "session", "storage"} /\ BodyIsSound(v)
      /\ v.at = "session" \/ v.change # Nothing => Touches(ws, s) \/ v.at = "gone"
  BY <1>1, ViewIsSound
<1>5. /\ IsSeq(calls'[c].seen.body)
      /\ "body" \in DOMAIN v.change => calls'[c].seen.body = v.change.body
  BY <1>3, <1>4, SeenAtFirst
<1>6. v = View(ws, s) /\ v = View(Staged, calls[c].section)'
  BY <1>1
<1>7. /\ step = "seen" => v.at = "session"
      /\ step = "reading" => v.at = "storage"
      /\ step \in {"reading", "seen"} => v.at # "gone"
  BY <1>2, <1>4
<1>8. ASSUME step = "seen"
      PROVE  /\ Touches(ws, s)
             /\ Stands(ws) /\ ~WouldMask(ws, s) =>
                   calls'[c].seen.body = BodyOf(Patched(p, NetOf(p, ws)), s)
  <2>1. v.at = "session"
    BY <1>7, <1>8
  <2>2. Touches(ws, s)
    BY <1>4, <2>1
  <2>3. ASSUME Stands(ws), ~WouldMask(ws, s)
        PROVE  calls'[c].seen.body = BodyOf(Patched(p, NetOf(p, ws)), s)
    <3>1. /\ BodyOf(Patched(p, NetOf(p, ws)), s)
               = IF "body" \in DOMAIN v.change THEN v.change.body ELSE BodyOf(p, s)
          /\ v.at = "session" => "body" \in DOMAIN v.change
      <4>1. v = View(ws, s) /\ v.at # "gone"
        BY <1>6, <1>7, <1>8
      <4> QED
        BY <2>3, <4>1, ViewIsTrue
    <3> QED
      BY <1>5, <2>1, <3>1
  <2> QED
    BY <2>2, <2>3
<1>9. ASSUME step = "reading"
      PROVE  calls'[c].view = IF v.change # Nothing THEN "over" ELSE "storage"
  BY <1>3, <1>7, <1>9
<1>10. Sees(c)'
  BY <1>1, <1>3, <1>6, <1>7, <1>8, <1>9 DEF Sees
<1> QED
  BY <1>5, <1>10

-----------------------------------------------------------------------------
\* The invariant of what edits mean, inductive on top of EditInv.
MeaningKept == EditsMean /\ CallsSee
Others == UNCHANGED <<plan, dead, outside, editHistory>>

LEMMA MoveIsQuiet ==
    ASSUME EditInv, EditsMean, NEW c \in InFlight, NEW step, NEW answer, NEW batch,
           Moves(c, step, answer, batch), calls[c].batch # None => batch = calls[c].batch,
           calls[c].op = "commit" => answer # "refused", IsSeq(calls'[c].seen.body),
           Others, UNCHANGED <<ethos, editions>>,
           tx' = tx \/ tx' = None \/ tx' \in DOMAIN batches' \ DOMAIN batches,
           plan.auto => tx' = None,
           \A t \in DOMAIN batches : t \in DOMAIN batches' /\ batches'[t] = batches[t],
           \A t \in DOMAIN batches' \ DOMAIN batches :
              Len(batches'[t].writes) = 0 /\ DOMAIN batches'[t].writes = {}
    PROVE  Quiet
<1>1. Goes
  BY MovedGoes DEF Others, editHistory
<1>2. \A d \in DOMAIN calls' : IsSeq(calls'[d].seen.body)
  BY DEF Moves, EditsMean, EditsAreSound
<1>3. \A d \in DOMAIN calls' :
         calls'[d].op = "commit" /\ calls'[d].answer = "refused" =>
             d \in DOMAIN calls /\ calls[d].op = "commit" /\ calls[d].answer = "refused"
  BY DEF Moves
<1> QED
  BY <1>1, <1>2, <1>3 DEF Quiet, Others

LEMMA RefusedWriteMeans ==
    ASSUME EditInv, Shapes, EditInv', Shapes', MeaningKept, NEW c \in Writing, Refuse(c),
           host # "dead"
    PROVE  MeaningKept'
<1>1. c \in InFlight /\ c \in DOMAIN calls /\ calls[c].op # "commit" /\ DOMAIN calls[c] = Fields
  BY DEF Writing, InFlight, WriteOps, EditInv, CallsAreTyped, CallIsSound
<1>2. Moves(c, "done", "refused", calls[c].batch)
  BY <1>1, AnswerMoves DEF Refuse
<1>3. calls'[c].seen = calls[c].seen
  BY <1>1 DEF Refuse, Answer, Fields
<1>4. Others /\ UNCHANGED <<ethos, editions, tx, batches>>
  BY DEF Refuse, Others
<1>5. IsSeq(calls'[c].seen.body) /\ (plan.auto => tx' = None)
  BY <1>1, <1>3, <1>4 DEF MeaningKept, EditsMean, EditsAreSound
<1>6. Quiet
  BY <1>1, <1>2, <1>4, <1>5, MoveIsQuiet DEF MeaningKept
<1>7. EditsMean'
  BY <1>6, QuietKeeps DEF MeaningKept
<1>8. CallsSee'
  BY <1>2, <1>4, WriteGoesOn DEF MeaningKept, Others, editHistory
<1> QED
  BY <1>7, <1>8 DEF MeaningKept

\* A write looks at what is staged, in the open transaction or in one it opens.
LEMMA LookMeans ==
    ASSUME EditInv, Shapes, EditInv', Shapes', MeaningKept, host # "dead", Others,
           NEW c \in Writing, calls[c].step = "begun", calls[c].op # "add",
           NEW batch, calls[c].batch # None => batch = calls[c].batch,
           NEW v, v = View(Staged', calls[c].section), Looked(c, v, batch),
           UNCHANGED <<ethos, editions>>,
           tx' = tx \/ tx' = None \/ tx' \in DOMAIN batches' \ DOMAIN batches,
           plan.auto => tx' = None,
           \A t \in DOMAIN batches : t \in DOMAIN batches' /\ batches'[t] = batches[t],
           \A t \in DOMAIN batches' \ DOMAIN batches :
              Len(batches'[t].writes) = 0 /\ DOMAIN batches'[t].writes = {}
    PROVE  MeaningKept'
<1>1. /\ c \in InFlight /\ c \in DOMAIN calls /\ calls[c].op # "commit"
      /\ DOMAIN calls[c] = Fields /\ calls[c].answer = "none"
  BY DEF Writing, InFlight, WriteOps, EditInv, CallsAreTyped, CallIsSound
<1>2. PICK step, answer : Moves(c, step, answer, batch)
  BY <1>1, LookMoves
<1>3. PICK ws : ws = Staged'
  OBVIOUS
<1>4. IsSeq(ws) /\ Foldable(ws) /\ \A j \in DOMAIN ws : EditIsTyped(ws[j])
  <2>1. CASE tx' = None
    <3>1. ws = <<>> /\ IsSeq(<<>>) /\ DOMAIN <<>> = {} /\ Len(<<>>) = 0
      BY <1>3, <2>1, EmptySeq DEF Staged, IsSeq
    <3> QED
      BY <3>1, FoldableBegins
  <2>2. CASE tx' # None /\ tx' \in DOMAIN batches
    <3>1. batches'[tx'] = batches[tx'] /\ ws = batches[tx'].writes
      BY <1>3, <2>2 DEF Staged
    <3> QED
      BY <2>2, <3>1 DEF MeaningKept, EditsMean, EditsAreSound, EditIsSound, Shapes
  <2>3. CASE tx' # None /\ tx' \in DOMAIN batches' \ DOMAIN batches
    <3>1. ws = batches'[tx'].writes /\ Len(ws) = 0 /\ DOMAIN ws = {}
      BY <1>3, <2>3 DEF Staged
    <3>2. IsSeq(ws)
      BY <2>3, <3>1 DEF Shapes
    <3> QED
      BY <3>1, <3>2, FoldableBegins
  <2> QED
    BY <2>1, <2>2, <2>3 DEF EditInv, TxIsSound
<1>5. PICK p : p = ethos'
  OBVIOUS
<1>6. AreSections(p)
  BY <1>5 DEF MeaningKept, EditsMean, EditsAreSound
<1>7. calls'[c].op = calls[c].op /\ calls'[c].section = calls[c].section
  BY <1>2 DEF Moves
<1>8. Sees(c)' /\ IsSeq(calls'[c].seen.body)
  BY <1>1, <1>3, <1>4, <1>5, <1>6, <1>7, LookSees
<1>9. Quiet
  BY <1>1, <1>2, <1>8, MoveIsQuiet DEF MeaningKept
<1>10. EditsMean'
  BY <1>9, QuietKeeps DEF MeaningKept
<1>11. CallsSee'
  BY <1>2, <1>8, WriteGoesOn DEF MeaningKept, Others, editHistory
<1> QED
  BY <1>10, <1>11 DEF MeaningKept

LEMMA LookForAppendMeans ==
    ASSUME EditInv, Shapes, EditInv', Shapes', MeaningKept, host # "dead",
           NEW c \in InFlight, LookForAppend(c)
    PROVE  MeaningKept'
<1>1. /\ c \in Writing /\ calls[c].step = "begun" /\ calls[c].op # "add" /\ c \in DOMAIN calls
      /\ UNCHANGED <<ethos, editions, tx, batches>> /\ Others
  BY DEF LookForAppend, Writing, WriteOps, InFlight, Others
<1>2. calls[c].batch = None
  BY <1>1 DEF EditInv, CallsAreTyped, CallIsSound, LookForAppend
<1>3. PICK v : v = View(Staged, calls[c].section)
  OBVIOUS
<1>4. Looked(c, v, None)
  BY <1>3 DEF LookForAppend, Staged
<1>5. Staged' = Staged
  BY <1>1 DEF Staged
<1>6. v = View(Staged', calls[c].section)
  BY <1>3, <1>5
<1>7. plan.auto => tx' = None
  BY <1>1 DEF MeaningKept, EditsMean, EditsAreSound
<1> QED
  BY <1>1, <1>2, <1>4, <1>6, <1>7, LookMeans

LEMMA EnrollMeans ==
    ASSUME EditInv, Shapes, EditInv', Shapes', MeaningKept, host # "dead",
           NEW c \in InFlight, EnrollAndLook(c)
    PROVE  MeaningKept'
<1>1. /\ c \in Writing /\ calls[c].step = "begun" /\ calls[c].op # "add" /\ c \in DOMAIN calls
      /\ calls[c].op \in {"title", "body", "delete"} /\ ~plan.auto
  BY DEF EnrollAndLook, Writing, WriteOps, InFlight
<1>2. calls[c].batch = None
  BY <1>1 DEF EditInv, CallsAreTyped, CallIsSound
<1>3. CASE ~CanEnroll(calls[c].auth)
  BY <1>1, <1>3, RefusedWriteMeans DEF EnrollAndLook
<1>4. CASE CanEnroll(calls[c].auth)
  <2>1. PICK n, all : n = Enrolled /\ all = BatchesWith(calls[c].auth)
    OBVIOUS
  <2>2. /\ n # None /\ DOMAIN all = DOMAIN batches \cup {n} /\ IsSeq(all)
        /\ \A t \in DOMAIN batches : all[t] = batches[t]
        /\ IF tx = None THEN n \notin DOMAIN batches /\ DOMAIN all[n].writes = {}
           ELSE n = tx /\ all = batches
    BY <1>4, <2>1, EnrolledIs
  <2>3. /\ tx' = n /\ batches' = all /\ UNCHANGED <<ethos, editions>> /\ Others
        /\ Looked(c, View(batches'[n].writes, calls[c].section), n)
    BY <1>4, <2>1 DEF EnrollAndLook, Others
  <2>4. PICK v : v = View(batches'[n].writes, calls[c].section)
    OBVIOUS
  <2>5. Staged' = batches'[n].writes
    BY <2>2, <2>3 DEF Staged
  <2>6. v = View(Staged', calls[c].section) /\ Looked(c, v, n)
    BY <2>3, <2>4, <2>5
  <2>7. \A t \in DOMAIN batches' \ DOMAIN batches :
           Len(batches'[t].writes) = 0 /\ DOMAIN batches'[t].writes = {}
    <3>1. SUFFICES ASSUME NEW t \in DOMAIN batches' \ DOMAIN batches
                   PROVE  Len(batches'[t].writes) = 0 /\ DOMAIN batches'[t].writes = {}
      OBVIOUS
    <3>2. t = n /\ DOMAIN batches'[t].writes = {} /\ IsSeq(batches'[t].writes)
      BY <2>2, <2>3 DEF EditInv, TxIsSound, Shapes
    <3>3. /\ Len(batches'[t].writes) \in Nat
          /\ DOMAIN batches'[t].writes = 1 .. Len(batches'[t].writes)
      BY <3>2, AppendedTo
    <3>4. PICK k : k = Len(batches'[t].writes)
      OBVIOUS
    <3>5. k \in Nat /\ 1 .. k = {}
      BY <3>2, <3>3, <3>4
    <3>6. k = 0
      BY <3>5
    <3> QED
      BY <3>2, <3>4, <3>6
  <2>8. tx' = tx \/ tx' = None \/ tx' \in DOMAIN batches' \ DOMAIN batches
    BY <2>2, <2>3
  <2>9. \A t \in DOMAIN batches : t \in DOMAIN batches' /\ batches'[t] = batches[t]
    BY <2>2, <2>3
  <2> QED
    BY <1>1, <1>2, <2>3, <2>6, <2>7, <2>8, <2>9, LookMeans
<1> QED
  BY <1>3, <1>4

LEMMA ReadMeans ==
    ASSUME EditInv, Shapes, EditInv', Shapes', MeaningKept, host # "dead",
           NEW c \in InFlight, ReadPersisted(c)
    PROVE  MeaningKept'
<1>1. /\ c \in DOMAIN calls /\ calls[c].step = "reading" /\ CallIsSound(c)
  BY DEF ReadPersisted, InFlight, EditInv, CallsAreTyped
<1>2. c \in Writing /\ calls[c].op # "commit" /\ DOMAIN calls[c] = Fields
      /\ calls[c].answer = "none"
  BY <1>1 DEF CallIsSound, Writing, WriteOps, Ops
<1>3. CASE Refuse(c)
  BY <1>2, <1>3, RefusedWriteMeans
<1>4. CASE ~Refuse(c)
  <2>1. PICK s, there, over, base :
          /\ s = calls[c].section /\ there = (s \in DOMAIN ethos) /\ over = calls[c].seen
          /\ base = IF s \in DOMAIN ethos THEN ethos[s] ELSE Blank
    OBVIOUS
  <2>2. PICK seen : seen =
          [title |-> IF over.title # None THEN over.title ELSE base.title,
           body |-> IF over.body # <<>> THEN over.body ELSE base.body]
    OBVIOUS
  <2>3. /\ s \in DOMAIN ethos \/ calls[c].view = "over"
        /\ calls' = [calls EXCEPT ![c].step = "seen", ![c].seen = seen]
        /\ UNCHANGED <<ethos, editions, tx, batches>> /\ Others
    BY <1>4, <2>1, <2>2 DEF ReadPersisted, Others
  <2>4. Moves(c, "seen", "none", calls[c].batch) /\ calls'[c].seen = seen
    <3> DEFINE r == [calls[c] EXCEPT !.step = "seen", !.seen = seen]
    <3>1. calls' = [calls EXCEPT ![c] = r]
      BY <2>3
    <3>2. /\ DOMAIN r = Fields /\ r.op = calls[c].op /\ r.auth = calls[c].auth
          /\ r.section = calls[c].section /\ r.step = "seen" /\ r.answer = "none"
          /\ r.batch = calls[c].batch /\ r.seen = seen
      BY <1>2 DEF Fields
    <3> HIDE DEF r
    <3>3. calls'[c] = r
      BY <1>1, <3>1
    <3> QED
      BY <1>1, <1>2, <3>1, <3>2, <3>3, RecordsChange
  <2>5. base.body = BodyOf(ethos, s) /\ IsSeq(base.body) /\ IsSeq(over.body)
    <3>1. IsContent(base)
      BY <2>1, BlankIsContent DEF MeaningKept, EditsMean, EditsAreSound, AreSections
    <3>2. base.body = BodyOf(ethos, s)
      BY <2>1, BlankIsContent DEF BodyOf
    <3> QED
      BY <1>1, <2>1, <3>1, <3>2 DEF MeaningKept, EditsMean, EditsAreSound, IsContent
  <2>6. seen.body = IF over.body # <<>> THEN over.body ELSE BodyOf(ethos, s)
    BY <2>2, <2>5
  <2>7. IsSeq(calls'[c].seen.body)
    BY <2>4, <2>5, <2>6
  <2>8. ASSUME Writing = {c}, c \notin crowded \cup raced PROVE Sees(c)'
    <3>1. Sees(c)
      BY <1>2, <2>8 DEF MeaningKept, CallsSee, LoneWritesSee
    <3>2. PICK ws, v : ws = Staged /\ v = View(ws, s)
      OBVIOUS
    <3>3. /\ calls[c].op # "add" /\ v.at = "storage"
          /\ over = Changed(Blank, v.change)
          /\ calls[c].view = IF v.change # Nothing THEN "over" ELSE "storage"
      BY <1>1, <2>1, <3>1, <3>2 DEF Sees
    <3>4. IsSeq(ws) /\ Foldable(ws) /\ \A j \in DOMAIN ws : EditIsTyped(ws[j])
      <4>1. CASE tx = None
        <5>1. ws = <<>> /\ IsSeq(<<>>) /\ DOMAIN <<>> = {} /\ Len(<<>>) = 0
          BY <3>2, <4>1, EmptySeq DEF Staged, IsSeq
        <5> QED
          BY <5>1, FoldableBegins
      <4>2. CASE tx # None
        BY <3>2, <4>2 DEF Staged, MeaningKept, EditsMean, EditsAreSound, EditIsSound, Shapes,
                          EditInv, TxIsSound
      <4> QED
        BY <4>1, <4>2
    <3>5. /\ BodyIsSound(v)
          /\ v.at = "session" \/ v.change # Nothing => Touches(ws, s) \/ v.at = "gone"
      BY <3>2, <3>4, ViewIsSound
    <3>6. s \in DOMAIN ethos \/ Touches(ws, s)
      BY <2>3, <3>3, <3>5
    <3>7. IF "body" \in DOMAIN v.change THEN over.body = v.change.body /\ over.body # <<>>
          ELSE over.body = <<>>
      BY <3>3, <3>5, SeenAtFirst
    <3>8. ASSUME Stands(ws), ~WouldMask(ws, s)
          PROVE  seen.body = BodyOf(Patched(ethos, NetOf(ethos, ws)), s)
      <4>1. PICK p : p = ethos
        OBVIOUS
      <4>2. AreSections(p) /\ v.at # "gone"
        BY <3>3, <4>1 DEF MeaningKept, EditsMean, EditsAreSound
      <4>3. BodyOf(Patched(p, NetOf(p, ws)), s)
              = IF "body" \in DOMAIN v.change THEN v.change.body ELSE BodyOf(p, s)
        BY <3>2, <3>4, <3>8, <4>2, ViewIsTrue
      <4> QED
        BY <2>6, <3>7, <4>1, <4>3
    <3>9. Staged' = Staged /\ ethos' = ethos
      BY <2>3 DEF Staged
    <3>10. /\ calls'[c].step = "seen" /\ calls'[c].op = calls[c].op
           /\ calls'[c].section = s /\ calls'[c].seen = seen
      BY <2>1, <2>4 DEF Moves
    <3> QED
      BY <2>1, <3>2, <3>3, <3>6, <3>8, <3>9, <3>10 DEF Sees
  <2>9. plan.auto => tx' = None
    BY <2>3 DEF MeaningKept, EditsMean, EditsAreSound
  <2>10. Quiet
    BY <1>2, <2>3, <2>4, <2>7, <2>9, MoveIsQuiet DEF MeaningKept
  <2>11. EditsMean'
    BY <2>10, QuietKeeps DEF MeaningKept
  <2>12. CallsSee'
    BY <1>2, <2>3, <2>4, <2>8, WriteGoesOn DEF MeaningKept, Others, editHistory
  <2> QED
    BY <2>11, <2>12 DEF MeaningKept
<1> QED
  BY <1>3, <1>4

-----------------------------------------------------------------------------
\* The steps that write nothing and fail no commit, but the looks.
LEMMA BeginMeans ==
    ASSUME EditInv, Shapes, EditInv', Shapes', MeaningKept,
           (\E op, auth, section : BeginWrite(op, auth, section)) \/ BeginCommit
    PROVE  MeaningKept'
<1>1. PICK op, auth, section, batch :
         /\ op \in Ops /\ Arrive(op, auth, section, batch)
         /\ UNCHANGED <<plan, ethos, editions, tx, batches, dead, stale>>
         /\ crowded \subseteq crowded' /\ raced \subseteq raced' /\ contested \subseteq contested'
         /\ IF op = "commit" THEN raced' = raced \cup Writing /\ crowded' = crowded
            ELSE /\ raced \subseteq raced'
                 /\ crowded' = IF Writing # {} THEN crowded \cup Writing \cup {Len(calls) + 1}
                               ELSE crowded
  <2>1. CASE BeginCommit
    BY <2>1 DEF BeginCommit, Ops
  <2>2. ASSUME NEW op, NEW auth, NEW section, BeginWrite(op, auth, section)
        PROVE  /\ op \in WriteOps /\ Arrive(op, auth, section, None)
               /\ UNCHANGED <<plan, ethos, editions, tx, batches, dead, stale, contested>>
               /\ crowded \subseteq crowded' /\ raced \subseteq raced'
               /\ crowded' = IF Writing # {} THEN crowded \cup Writing \cup {Len(calls) + 1}
                             ELSE crowded
    BY <2>2 DEF BeginWrite
  <2>3. \A o \in WriteOps : o \in Ops /\ o # "commit"
    BY DEF WriteOps, Ops
  <2> QED
    BY <2>1, <2>2, <2>3
<1>2. Joins(op, auth, section, batch)
  BY <1>1, ArriveJoins
<1>3. Goes
  BY <1>1, <1>2, JoinedGoes
<1>4. PICK n : n = Len(calls) + 1
  OBVIOUS
<1>5. calls'[n].seen = Blank /\ calls'[n].answer = "none"
  <2>1. PICK r : r = [op |-> op, auth |-> auth, section |-> section, batch |-> batch,
                      step |-> "begun", view |-> "none", seen |-> Blank, answer |-> "none"]
    OBVIOUS
  <2>2. calls' = Append(calls, r) /\ r.seen = Blank /\ r.answer = "none"
    BY <1>1, <2>1 DEF Arrive
  <2>3. calls'[n] = r
    BY <1>4, <2>2, AppendedTo DEF Shapes
  <2> QED
    BY <2>2, <2>3
<1>6. DOMAIN calls' = DOMAIN calls \cup {n} /\ \A d \in DOMAIN calls : calls'[d] = calls[d]
  BY <1>2, <1>4 DEF Joins
<1>7. /\ \A d \in DOMAIN calls' : IsSeq(calls'[d].seen.body)
      /\ \A d \in DOMAIN calls' :
            calls'[d].op = "commit" /\ calls'[d].answer = "refused" =>
                d \in DOMAIN calls /\ calls[d].op = "commit" /\ calls[d].answer = "refused"
      /\ plan.auto => tx' = None
  BY <1>1, <1>5, <1>6, BlankIsContent DEF MeaningKept, EditsMean, EditsAreSound, IsContent
<1>8. Quiet
  BY <1>1, <1>3, <1>7 DEF Quiet
<1>9. EditsMean'
  BY <1>8, QuietKeeps DEF MeaningKept
<1>10. CallsSee'
  BY <1>1, <1>2, CallBegins DEF MeaningKept
<1> QED
  BY <1>9, <1>10 DEF MeaningKept

LEMMA FinishMeans ==
    ASSUME EditInv, Shapes, EditInv', Shapes', MeaningKept, NEW c \in InFlight, Finish(c)
    PROVE  MeaningKept'
<1>1. /\ c \in Committing /\ c \in DOMAIN calls /\ DOMAIN calls[c] = Fields
      /\ calls[c].op = "commit"
  BY DEF Finish, Committing, InFlight, EditInv, CallsAreTyped, CallIsSound
<1>2. Moves(c, "done", "committed", calls[c].batch)
  BY <1>1, AnswerMoves DEF Finish
<1>3. calls'[c].seen = calls[c].seen
  BY <1>1 DEF Finish, Answer, Fields
<1>4. Others /\ UNCHANGED <<ethos, editions, batches>> /\ tx' = None
  BY DEF Finish, Others, Cleared
<1>5. IsSeq(calls'[c].seen.body)
  BY <1>1, <1>3 DEF MeaningKept, EditsMean, EditsAreSound
<1>6. Quiet
  BY <1>1, <1>2, <1>4, <1>5, MoveIsQuiet DEF MeaningKept
<1>7. EditsMean'
  BY <1>6, QuietKeeps DEF MeaningKept
<1>8. CallsSee'
  BY <1>1, <1>2, <1>4, CommitGoesOn DEF MeaningKept, Others, editHistory
<1> QED
  BY <1>7, <1>8 DEF MeaningKept

\* The calls stay as they are: the host, a discard, a mandate that ends, a kill.
LEMMA RestMeans ==
    ASSUME EditInv, Shapes, EditInv', Shapes', MeaningKept,
           UNCHANGED <<plan, ethos, editions, batches, calls, stale, crowded>>,
           tx' = tx \/ tx' = None, raced \subseteq raced', contested \subseteq contested',
           DOMAIN dead \subseteq DOMAIN dead',
           host' = "dead" \/ Writing \subseteq raced' \/ (tx' = tx /\ host # "dead")
    PROVE  MeaningKept'
<1>1. Goes
  BY DEF Goes
<1>2. Quiet
  BY <1>1 DEF Quiet, MeaningKept, EditsMean, EditsAreSound
<1>3. EditsMean'
  BY <1>2, QuietKeeps DEF MeaningKept
<1>4. CallsSee'
  BY CallsRest DEF MeaningKept
<1> QED
  BY <1>3, <1>4 DEF MeaningKept

\* Another writer: what it touches is noted as stale, and those who are at it as crowded.
LEMMA WriteBesideMeans ==
    ASSUME EditInv, Shapes, EditInv', Shapes', MeaningKept, NEW s, WriteBeside(s)
    PROVE  MeaningKept'
<1>1. /\ UNCHANGED <<plan, editions, tx, batches, calls, dead, raced, contested>>
      /\ stale \subseteq stale' /\ crowded' = crowded \cup Writing
      /\ tx # None => tx \in stale'
  BY DEF WriteBeside
<1>2. Goes
  BY <1>1 DEF Goes
<1>3. AreSections(ethos')
  <2>1. AreSections(ethos)
    BY DEF MeaningKept, EditsMean, EditsAreSound
  <2>2. ASSUME NEW b, IsSeq(b), ethos' = [ethos EXCEPT ![s].body = b]
        PROVE  AreSections(ethos')
    <3>1. PICK x : x = [ethos[s] EXCEPT !.body = b]
      OBVIOUS
    <3>2. ethos' = [ethos EXCEPT ![s] = x]
      BY <2>2, <3>1
    <3>3. s \in DOMAIN ethos => IsContent(x)
      BY <2>1, <2>2, <3>1 DEF AreSections, IsContent
    <3>4. /\ DOMAIN ethos' = DOMAIN ethos
          /\ \A y \in DOMAIN ethos : ethos'[y] = IF y = s THEN x ELSE ethos[y]
          /\ ethos' = [y \in DOMAIN ethos |-> ethos'[y]]
      BY <3>2
    <3> QED
      BY <2>1, <3>3, <3>4 DEF AreSections
  <2>3. ASSUME ethos' = Without(ethos, {s}) PROVE AreSections(ethos')
    BY <2>1, <2>3 DEF AreSections, Without
  <2>4. PICK b, n : b = <<n>> /\ n = 0 - outside - 1
    OBVIOUS
  <2>5. IsSeq(b)
    <3>1. <<n>> \in Seq({n})
      OBVIOUS
    <3> QED
      BY <2>4, <3>1 DEF IsSeq
  <2> QED
    BY <2>2, <2>3, <2>4, <2>5 DEF WriteBeside
<1>4. EditsAreSound'
  <2>1. ASSUME NEW t \in DOMAIN batches, NEW j \in DOMAIN batches[t].writes
        PROVE  EditIsSound(batches[t].writes[j])'
    <3>1. PICK e : e = batches[t].writes[j]
      OBVIOUS
    <3>2. EditIsSound(e)'
      BY <1>2, <3>1, EditStaysSound DEF MeaningKept, EditsMean, EditsAreSound
    <3> QED
      BY <1>1, <3>1, <3>2
  <2> QED
    BY <1>1, <1>3, <2>1 DEF MeaningKept, EditsMean, EditsAreSound
<1>5. TxIsTrue'
  BY <1>1 DEF TxIsTrue, Calm
<1>6. AllAreAsMeant'
  BY <1>1, <1>2, EditionsStayMeant DEF AllAreAsMeant, MeaningKept
<1>7. AllHaveReason'
  <2>1. ASSUME NEW d \in DOMAIN calls, calls[d].op = "commit", calls[d].answer = "refused"
        PROVE  HasReason(d, calls[d].batch)'
    BY <1>1, <1>2, <2>1, ReasonsStay DEF MeaningKept
  <2> QED
    BY <1>1, <2>1 DEF AllHaveReason
<1>8. CallsSee'
  BY <1>1, CallsRest DEF MeaningKept
<1> QED
  BY <1>4, <1>5, <1>6, <1>7, <1>8 DEF MeaningKept, EditsMean

-----------------------------------------------------------------------------
\* The edit of a call.
LEMMA EditOfIsSound ==
    ASSUME EditInv, EditsAreSound, NEW c \in Writing, NEW e, e = EditOf(c)
    PROVE  /\ EditIsSound(e) /\ e.by = c /\ e.section = calls[c].section
           /\ e.op = "add" <=> calls[c].op = "add"
           /\ calls[c].op = "append" => e.change.body = Append(calls[c].seen.body, c)
<1>1. /\ c \in DOMAIN calls /\ calls[c].op \in WriteOps
      /\ IsSeq(calls[c].seen.body)
  BY DEF Writing, InFlight, EditsAreSound
<1>2. PICK op, longer : op = calls[c].op /\ longer = Append(calls[c].seen.body, c)
  OBVIOUS
<1>3. PICK change : change =
        CASE op = "add" -> [title |-> c, body |-> <<c>>]
          [] op = "title" -> [title |-> c]
          [] op = "body" -> [body |-> <<c>>]
          [] op = "append" -> [body |-> longer]
          [] op = "delete" -> Nothing
  OBVIOUS
<1>4. /\ e.by = c /\ e.section = calls[c].section /\ e.change = change
      /\ e.op = CASE op = "add" -> "add" [] op = "delete" -> "delete" [] OTHER -> "modify"
  BY <1>2, <1>3 DEF EditOf
<1>5. e.op = KindOf(op) /\ e.op \in Kinds /\ (e.op = "add" <=> op = "add")
  <2>1. e.op = KindOf(op)
    BY <1>4 DEF KindOf
  <2>2. op = "add" \/ op = "delete" \/ op \notin {"add", "delete"}
    OBVIOUS
  <2> QED
    BY <2>1, <2>2 DEF KindOf, Kinds
<1>6. IsSeq(longer) /\ longer # <<>> /\ IsSeq(<<c>>) /\ <<c>> # <<>>
  <2>1. IsSeq(longer) /\ Len(calls[c].seen.body) + 1 \in DOMAIN longer
    BY <1>1, <1>2, AppendedTo
  <2>2. DOMAIN <<>> = {}
    BY EmptySeq
  <2>3. IsSeq(<<c>>) /\ <<c>> # <<>>
    BY DEF IsSeq
  <2> QED
    BY <2>1, <2>2, <2>3
<1>7. /\ "body" \in DOMAIN change => IsSeq(change.body) /\ change.body # <<>>
      /\ op = "add" => "body" \in DOMAIN change
      /\ op = "append" => DOMAIN change = {"body"} /\ change.body = longer
  <2>1. CASE op = "add"
    BY <1>3, <1>6, <2>1
  <2>2. CASE op = "title"
    <3>1. change = [title |-> c]
      BY <1>3, <2>2
    <3> QED
      BY <2>2, <3>1
  <2>3. CASE op = "body"
    <3>1. change = [body |-> <<c>>]
      BY <1>3, <2>3
    <3> QED
      BY <1>6, <2>3, <3>1
  <2>4. CASE op = "append"
    <3>1. change = [body |-> longer]
      BY <1>3, <2>4
    <3> QED
      BY <1>6, <2>4, <3>1
  <2>5. CASE op = "delete"
    <3>1. change = Nothing
      BY <1>3, <2>5
    <3> QED
      BY <2>5, <3>1 DEF Nothing
  <2> QED
    BY <1>1, <1>2, <2>1, <2>2, <2>3, <2>4, <2>5 DEF WriteOps
<1>8. EditIsTyped(e)
  BY <1>4, <1>5, <1>7 DEF EditIsTyped, BodyIsSound
<1>9. EditIsSound(e)
  BY <1>1, <1>2, <1>4, <1>5, <1>7, <1>8 DEF EditIsSound
<1> QED
  BY <1>2, <1>4, <1>5, <1>7, <1>9

\* A write is staged: in the open transaction, which is the one it is pushed on, or in
\* one that a commit or a discard has taken away.
LEMMA PushMeans ==
    ASSUME EditInv, Shapes, EditInv', Shapes', MeaningKept, host # "dead", Others,
           UNCHANGED <<ethos, editions>>, ~plan.auto,
           NEW c \in Writing, calls[c].op # "add" => calls[c].step = "seen",
           NEW all, NEW b, b # None, Push(c, b, all),
           calls[c].batch # None => calls[c].batch = b,
           DOMAIN all = DOMAIN batches \cup {b}, \A t \in DOMAIN batches : all[t] = batches[t],
           DOMAIN all[b] = {"auth", "writes"}, NEW ws, ws = all[b].writes, IsSeq(ws),
           b \notin DOMAIN batches => DOMAIN ws = {} /\ Len(ws) = 0,
           tx' = tx \/ (tx = None /\ tx' = b /\ b \notin DOMAIN batches),
           c \notin raced => tx' = b, tx' = b => ws = Staged
    PROVE  MeaningKept'
<1>1. /\ c \in InFlight /\ c \in DOMAIN calls /\ calls[c].op # "commit"
      /\ DOMAIN calls[c] = Fields /\ calls[c].answer = "none"
  BY DEF Writing, InFlight, WriteOps, EditInv, CallsAreTyped, CallIsSound
<1>2. PICK e : e = EditOf(c)
  OBVIOUS
<1>3. /\ EditIsSound(e) /\ e.by = c /\ e.section = calls[c].section
      /\ e.op = "add" <=> calls[c].op = "add"
      /\ calls[c].op = "append" => e.change.body = Append(calls[c].seen.body, c)
  BY <1>2, EditOfIsSound DEF MeaningKept, EditsMean
<1>4. Moves(c, "done", "staged", b) /\ calls'[c].seen = calls[c].seen
  <2>1. Moves(c, "done", "staged", b)
    BY <1>1, PushMoves
  <2>2. calls'[c].seen = calls[c].seen
    BY <1>1 DEF Push, Fields
  <2> QED
    BY <2>1, <2>2
<1>5. Goes
  BY <1>4, MovedGoes DEF Others, editHistory
<1>0. PICK more, n : more = Append(ws, e) /\ n = Len(ws) + 1
  OBVIOUS
<1>6. /\ more = Append(ws, e)
      /\ IsSeq(more) /\ n \notin DOMAIN ws /\ DOMAIN more = DOMAIN ws \cup {n}
      /\ \A j \in DOMAIN ws : more[j] = ws[j]
      /\ more[n] = e
  BY <1>0, AppendedTo
<1>7. /\ DOMAIN batches' = DOMAIN batches \cup {b} /\ batches'[b].writes = more
      /\ \A t \in DOMAIN batches : t # b => batches'[t] = batches[t]
      /\ b \in DOMAIN batches => ws = batches[b].writes
  <2>1. batches' = [all EXCEPT ![b].writes = more]
    BY <1>2, <1>6 DEF Push
  <2>2. PICK r : r = [all[b] EXCEPT !.writes = more]
    OBVIOUS
  <2>3. r.writes = more /\ batches' = [all EXCEPT ![b] = r]
    BY <2>1, <2>2
  <2> QED
    BY <2>3
<1>8. Foldable(ws) /\ (\A j \in DOMAIN ws : EditIsSound(ws[j])) /\ AreSections(ethos)
  <2>1. CASE b \in DOMAIN batches
    BY <1>7, <2>1 DEF MeaningKept, EditsMean, EditsAreSound
  <2>2. CASE b \notin DOMAIN batches
    BY <2>2, FoldableBegins DEF MeaningKept, EditsMean, EditsAreSound
  <2> QED
    BY <2>1, <2>2
<1>9. EditsAreSound'
  <2>1. Foldable(more)
    BY <1>3, <1>6, <1>8, FoldableGrows DEF EditIsSound, EditIsTyped
  <2>2. \A j \in DOMAIN more : EditIsSound(more[j])
    BY <1>3, <1>6, <1>8
  <2>3. ASSUME NEW t \in DOMAIN batches', NEW vs, vs = batches'[t].writes
        PROVE  Foldable(vs) /\ \A j \in DOMAIN vs : EditIsSound(vs[j])'
    <3>1. Foldable(vs) /\ \A j \in DOMAIN vs : EditIsSound(vs[j])
      <4>1. CASE t = b
        BY <1>7, <2>1, <2>2, <2>3, <4>1
      <4>2. CASE t # b
        <5>1. t \in DOMAIN batches /\ vs = batches[t].writes
          BY <1>7, <2>3, <4>2
        <5> QED
          BY <5>1 DEF MeaningKept, EditsMean, EditsAreSound
      <4> QED
        BY <4>1, <4>2
    <3> QED
      BY <1>5, <3>1, EditStaysSound
  <2>4. \A d \in DOMAIN calls' : IsSeq(calls'[d].seen.body)
    BY <1>4 DEF Moves, MeaningKept, EditsMean, EditsAreSound
  <2> QED
    BY <2>3, <2>4 DEF MeaningKept, EditsMean, EditsAreSound, Others
<1>10. TxIsTrue'
  <2> SUFFICES ASSUME tx' # None, Calm(tx)', EditionsOf(tx)' = {}
               PROVE  BatchIsTrue(ethos, batches[tx].writes)'
    BY DEF TxIsTrue
  <2>1. CASE tx' = b
    <3>1. \A j \in DOMAIN more : more[j].by \notin crowded \cup raced
      BY <1>7, <2>1 DEF Calm, Others, editHistory
    <3>2. c \notin crowded \cup raced /\ \A j \in DOMAIN ws : ws[j].by \notin crowded \cup raced
      BY <1>3, <1>6, <3>1
    <3>3. Sees(c)
      BY <3>2 DEF MeaningKept, CallsSee, LoneWritesSee
    <3>4. BatchIsTrue(ethos, ws)
      <4>1. CASE b \notin DOMAIN batches
        BY <1>8, <4>1, EmptyIsTrue
      <4>2. CASE b \in DOMAIN batches
        <5>1. tx = b /\ ws = batches[tx].writes /\ EditionsOf(tx) = {}
          BY <1>7, <2>1, <4>2 DEF EditionsOf
        <5>2. Calm(tx)
          BY <2>1, <3>2, <5>1 DEF Calm, Others, editHistory
        <5> QED
          BY <5>1, <5>2 DEF MeaningKept, EditsMean, TxIsTrue
      <4> QED
        BY <4>1, <4>2
    <3>5. Fits(ethos, ws, e)
      <4>1. ws = Staged
        BY <2>1
      <4>2. e.op # "add" => /\ View(ws, e.section).at # "gone"
                            /\ e.section \in DOMAIN ethos \/ Touches(ws, e.section)
        BY <1>3, <3>3, <4>1 DEF Sees
      <4>3. ASSUME calls[c].op = "append", ~WouldMask(ws, e.section)
            PROVE  e.change.body = Append(BodyOf(Patched(ethos, NetOf(ethos, ws)), e.section), c)
        <5>1. Stands(ws)
          BY <3>4 DEF BatchIsTrue
        <5>2. calls[c].seen.body = BodyOf(Patched(ethos, NetOf(ethos, ws)), e.section)
          BY <1>3, <3>3, <4>1, <4>3, <5>1 DEF Sees
        <5> QED
          BY <1>3, <4>3, <5>2
      <4> QED
        BY <1>3, <4>2, <4>3 DEF Fits
    <3>6. PICK p : p = ethos
      OBVIOUS
    <3>7. BatchIsTrue(p, more)
      BY <1>3, <1>6, <1>8, <3>4, <3>5, <3>6, BatchGrows
    <3>8. \A j \in DOMAIN more : more[j].by \in DOMAIN calls
      BY <1>1, <1>3, <1>6, <1>8 DEF EditIsSound
    <3>9. BatchIsTrue(p, more)'
      BY <1>5, <1>6, <3>7, <3>8, BatchStaysTrue
    <3> QED
      BY <1>7, <2>1, <3>6, <3>9
  <2>2. CASE tx' # b
    <3>1. PICK p, vs : p = ethos /\ vs = batches[tx].writes
      OBVIOUS
    <3>2. tx' = tx /\ tx \in DOMAIN batches /\ batches'[tx].writes = vs
      BY <1>7, <2>2, <3>1 DEF EditInv, TxIsSound
    <3>3. EditionsOf(tx) = {} /\ Calm(tx)
      BY <1>5, <3>1, <3>2, CalmWas DEF EditionsOf
    <3>4. BatchIsTrue(p, vs)
      BY <3>1, <3>2, <3>3 DEF MeaningKept, EditsMean, TxIsTrue
    <3>5. IsSeq(vs) /\ \A j \in DOMAIN vs : vs[j].by \in DOMAIN calls
      BY <3>1, <3>2 DEF Shapes, EditInv, BatchesAreSound
    <3>6. BatchIsTrue(p, vs)'
      BY <1>5, <3>4, <3>5, BatchStaysTrue
    <3> QED
      BY <3>1, <3>2, <3>6
  <2> QED
    BY <2>1, <2>2
<1>11. AllAreAsMeant'
  BY <1>5, EditionsStayMeant DEF AllAreAsMeant, MeaningKept
<1>12. AllHaveReason'
  <2>1. ASSUME NEW d \in DOMAIN calls, calls[d].op = "commit", calls[d].answer = "refused"
        PROVE  HasReason(d, calls[d].batch)'
    <3>1. PICK t : t = calls[d].batch
      OBVIOUS
    <3>2. t \in DOMAIN batches
      BY <2>1, <3>1 DEF EditInv, CallsAreTyped, CallIsSound
    <3>3. c < d => c \in raced
      BY <2>1 DEF MeaningKept, CallsSee, OverlapsAreNoted
    <3>4. \A j \in DOMAIN batches'[t].writes :
              LET w == batches'[t].writes[j] IN
              \/ j \in DOMAIN batches[t].writes /\ w = batches[t].writes[j]
              \/ ~(w.by < d)
              \/ w.by \in DOMAIN calls' /\ calls'[w.by].batch = t /\ w.by \in crowded' \cup raced'
      <4>1. CASE t # b
        BY <1>7, <3>2, <4>1
      <4>2. CASE t = b
        <5>1. batches'[t].writes = more /\ batches[t].writes = ws
          BY <1>7, <3>2, <4>2
        <5>2. c \in DOMAIN calls' /\ calls'[c].batch = t /\ raced' = raced
          BY <1>4, <4>2 DEF Moves, Others, editHistory
        <5> QED
          BY <1>3, <1>6, <3>3, <5>1, <5>2
      <4> QED
        BY <4>1, <4>2
    <3> QED
      BY <1>5, <2>1, <3>1, <3>4, ReasonsStay DEF MeaningKept
  <2>2. \A d \in DOMAIN calls' :
            calls'[d].op = "commit" /\ calls'[d].answer = "refused" =>
                d \in DOMAIN calls /\ calls[d].op = "commit" /\ calls[d].answer = "refused"
    BY <1>1, <1>4 DEF Moves
  <2> QED
    BY <2>1, <2>2 DEF AllHaveReason
<1>13. CallsSee'
  BY <1>4, WriteGoesOn DEF MeaningKept, Others, editHistory
<1> QED
  BY <1>9, <1>10, <1>11, <1>12, <1>13 DEF MeaningKept, EditsMean

LEMMA StageMeans ==
    ASSUME EditInv, Shapes, EditInv', Shapes', MeaningKept, host # "dead",
           NEW c \in InFlight, StageAtOnce(c) \/ StageSeen(c)
    PROVE  MeaningKept'
<1>1. c \in Writing /\ c \in DOMAIN calls /\ CallIsSound(c) /\ ~plan.auto
  BY DEF StageAtOnce, StageSeen, Writing, InFlight, WriteOps, EditInv, CallsAreTyped
<1>2. CASE StageSeen(c)
  <2>1. PICK b, ws : b = calls[c].batch /\ ws = batches[b].writes
    OBVIOUS
  <2>2. /\ Push(c, b, batches) /\ tx' = tx /\ b # None /\ b \in DOMAIN batches
        /\ Others /\ UNCHANGED <<ethos, editions>> /\ calls[c].step = "seen"
    BY <1>1, <1>2, <2>1 DEF StageSeen, CallIsSound, Others
  <2>3. c \notin raced => tx' = b
    BY <1>1, <2>1, <2>2 DEF EditInv, WritesAreAlone
  <2>4. IsSeq(ws) /\ DOMAIN batches[b] = {"auth", "writes"} /\ DOMAIN batches = DOMAIN batches \cup {b}
    BY <2>1, <2>2 DEF Shapes, EditInv, BatchesAreSound
  <2>5. tx' = b => ws = Staged
    BY <2>1, <2>2 DEF Staged
  <2> QED
    BY <1>1, <2>1, <2>2, <2>3, <2>4, <2>5, PushMeans
<1>3. CASE StageAtOnce(c) /\ CanEnroll(calls[c].auth)
  <2>1. PICK n, all, ws : /\ n = Enrolled /\ all = BatchesWith(calls[c].auth)
                          /\ ws = all[n].writes
    OBVIOUS
  <2>2. /\ tx' = n /\ Push(c, n, all) /\ Others /\ UNCHANGED <<ethos, editions>>
        /\ calls[c].op # "add" => calls[c].step = "seen"
        /\ calls[c].op \in {"add", "append"}
        /\ calls[c].op = "add" => calls[c].step = "begun"
    BY <1>3, <2>1 DEF StageAtOnce, Others
  <2>3. /\ n # None /\ DOMAIN all = DOMAIN batches \cup {n}
        /\ \A t \in DOMAIN batches : all[t] = batches[t]
        /\ DOMAIN all[n] = {"auth", "writes"} /\ IsSeq(ws)
        /\ IF tx = None THEN n \notin DOMAIN batches /\ DOMAIN ws = {}
           ELSE n = tx /\ all = batches
    BY <1>3, <2>1, EnrolledIs
  <2>4. calls[c].batch = None
    BY <1>1, <2>2 DEF CallIsSound, Writing, InFlight
  <2>5. tx = None => ws = <<>>
    <3>1. ASSUME tx = None PROVE ws = <<>>
      <4>1. PICK r : r = [auth |-> calls[c].auth, writes |-> <<>>]
        OBVIOUS
      <4>2. all = Append(batches, r) /\ n = Len(batches) + 1 /\ r.writes = <<>>
        BY <2>1, <3>1, <4>1 DEF BatchesWith, Enrolled
      <4>3. all[n] = r
        BY <4>2, AppendedTo DEF Shapes
      <4> QED
        BY <2>1, <4>2, <4>3
    <3> QED
      BY <3>1
  <2>6. ws = Staged
    BY <2>1, <2>3, <2>5 DEF Staged
  <2>7. n \notin DOMAIN batches => DOMAIN ws = {} /\ Len(ws) = 0
    <3>1. n \notin DOMAIN batches => tx = None
      BY <2>3 DEF EditInv, TxIsSound
    <3>2. DOMAIN <<>> = {} /\ Len(<<>>) = 0
      BY EmptySeq
    <3> QED
      BY <2>5, <3>1, <3>2
  <2>8. tx' = tx \/ (tx = None /\ tx' = n /\ n \notin DOMAIN batches)
    BY <2>2, <2>3
  <2>9. /\ calls[c].batch # None => calls[c].batch = n
        /\ c \notin raced => tx' = n
        /\ tx' = n => ws = Staged
    BY <2>2, <2>4, <2>6
  <2>10. ws = all[n].writes
    BY <2>1
  <2> QED
    BY <1>1, <2>2, <2>3, <2>7, <2>8, <2>9, <2>10, PushMeans
<1>4. CASE StageAtOnce(c) /\ ~CanEnroll(calls[c].auth)
  BY <1>1, <1>4, RefusedWriteMeans DEF StageAtOnce
<1> QED
  BY <1>2, <1>3, <1>4

-----------------------------------------------------------------------------
\* An edition is sealed as its calls were said to do.
LEMMA SealedMeans ==
    ASSUME EditInv, Shapes, EditsMean, Goes, NEW e, editions' = Append(editions, e),
           AsMeant(e)'
    PROVE  AllAreAsMeant'
<1>1. PICK n : n = Len(editions) + 1
  OBVIOUS
<1>2. /\ DOMAIN editions' = DOMAIN editions \cup {n} /\ editions'[n] = e
      /\ \A i \in DOMAIN editions : editions'[i] = editions[i]
  BY <1>1, AppendedTo DEF Shapes
<1>3. ASSUME NEW i \in DOMAIN editions' PROVE AsMeant(editions[i])'
  <2>1. CASE i = n
    BY <1>2, <2>1
  <2>2. CASE i # n
    <3>1. PICK f : f = editions[i]
      OBVIOUS
    <3>2. i \in DOMAIN editions /\ editions'[i] = f
      BY <1>2, <2>2, <3>1
    <3>3. AsMeant(f)'
      BY <3>1, <3>2, EditionsStayMeant
    <3> QED
      BY <3>2, <3>3
  <2> QED
    BY <2>1, <2>2
<1> QED
  BY <1>3 DEF AllAreAsMeant

LEMMA SealedIsSound ==
    ASSUME EditInv, Shapes, EditsMean, Goes, NEW e, editions' = Append(editions, e),
           IsSeq(e.writes), AreSections(ethos'), UNCHANGED <<plan, tx, batches>>,
           \A d \in DOMAIN calls' : d \in DOMAIN calls /\ calls'[d].seen = calls[d].seen
    PROVE  EditsAreSound'
<1>1. \A i \in DOMAIN editions' : IsSeq(editions'[i].writes)
  BY AppendedTo DEF Shapes, EditsMean, EditsAreSound
<1>2. ASSUME NEW t \in DOMAIN batches, NEW j \in DOMAIN batches[t].writes
      PROVE  EditIsSound(batches[t].writes[j])'
  <2>1. PICK w : w = batches[t].writes[j]
    OBVIOUS
  <2>2. EditIsSound(w)'
    BY <2>1, EditStaysSound DEF EditsMean, EditsAreSound
  <2> QED
    BY <2>1, <2>2
<1> QED
  BY <1>1, <1>2 DEF EditsMean, EditsAreSound

\* One write by itself.
LEMMA OneWrite ==
    ASSUME NEW p, AreSections(p), NEW e, EditIsSound(e), NEW now,
           now = Patched(p, NetOf(p, <<e>>))
    PROVE  /\ AreSections(now) /\ now = Said(p, e, FALSE)
           /\ Meant(p, <<e>>) = Said(p, e, calls[e.by].op = "append") /\ IsSeq(<<e>>)
<1>1. PICK ws, vs : ws = <<>> /\ vs = Append(ws, e)
  OBVIOUS
<1>2. Len(ws) = 0 /\ DOMAIN ws = {} /\ IsSeq(ws)
  BY <1>1, EmptySeq DEF IsSeq
<1>3. vs = <<e>>
  BY <1>1
<1>4. Foldable(vs)
  BY <1>1, <1>2, FoldableBegins, FoldableGrows DEF EditIsSound, EditIsTyped
<1>5. AreSections(now)
  BY <1>3, <1>4 DEF Foldable, NetFacts
<1>6. Patched(p, NetOf(p, ws)) = p /\ Meant(p, ws) = p
  BY <1>2, NothingFolds, EmptyBatch
<1>7. /\ NetOf(p, vs) = Resolve(p, NetOf(p, ws), e)
      /\ Meant(p, vs) = Said(p, e, calls[e.by].op = "append")
  <2>1. /\ NetOf(p, Append(ws, e)) = Resolve(p, NetOf(p, ws), e)
        /\ Meant(p, Append(ws, e)) = Said(Meant(p, ws), e, calls[e.by].op = "append")
    BY <1>2, LongerBatch
  <2> QED
    BY <1>1, <1>6, <2>1
<1>8. Patched(p, NetOf(p, vs)) = Said(p, e, FALSE)
  BY <1>6, <1>7, PatchedStep
<1>9. IsSeq(vs)
  BY <1>1, <1>2, AppendedTo
<1> QED
  BY <1>3, <1>5, <1>7, <1>8, <1>9

LEMMA WriteNowMeans ==
    ASSUME EditInv, Shapes, EditInv', Shapes', MeaningKept, host # "dead",
           NEW c \in InFlight, WriteNow(c)
    PROVE  MeaningKept'
<1>1. /\ c \in Writing /\ c \in DOMAIN calls /\ calls[c].op # "commit"
      /\ DOMAIN calls[c] = Fields /\ plan.auto
  BY DEF WriteNow, Writing, InFlight, WriteOps, EditInv, CallsAreTyped, CallIsSound
<1>2. CASE Refuse(c)
  BY <1>1, <1>2, RefusedWriteMeans
<1>3. CASE ~Refuse(c)
  <2>1. PICK e, p, now : e = EditOf(c) /\ p = ethos /\ now = ethos'
    OBVIOUS
  <2>2. /\ now = Patched(p, NetOf(p, <<e>>)) /\ Others /\ UNCHANGED <<tx, batches>>
        /\ editions' = Append(editions, [by |-> c, auth |-> calls[c].auth, batch |-> None,
                                         writes |-> <<e>>, before |-> p, after |-> now])
        /\ Answer(c, "written")
    BY <1>3, <2>1 DEF WriteNow, Seal, Others
  <2>3. /\ EditIsSound(e) /\ e.by = c /\ e.section = calls[c].section
        /\ calls[c].op = "append" => e.change.body = Append(calls[c].seen.body, c)
    BY <1>1, <2>1, EditOfIsSound DEF MeaningKept, EditsMean
  <2>4. AreSections(p) /\ tx = None
    BY <1>1, <2>1 DEF MeaningKept, EditsMean, EditsAreSound
  <2>5. /\ AreSections(now) /\ now = Said(p, e, FALSE)
        /\ Meant(p, <<e>>) = Said(p, e, calls[c].op = "append") /\ IsSeq(<<e>>)
    BY <2>2, <2>3, <2>4, OneWrite
  <2>6. Moves(c, "done", "written", calls[c].batch) /\ calls'[c].seen = calls[c].seen
    <3>1. calls'[c].seen = calls[c].seen
      BY <1>1, <2>2 DEF Answer, Fields
    <3> QED
      BY <1>1, <2>2, <3>1, AnswerMoves
  <2>7. Goes
    BY <2>2, <2>6, MovedGoes DEF Others, editHistory
  <2>8. PICK rec : rec = [by |-> c, auth |-> calls[c].auth, batch |-> None,
                          writes |-> <<e>>, before |-> p, after |-> now]
    OBVIOUS
  <2>9. PICK vs : vs = <<e>>
    OBVIOUS
  <2>10. /\ editions' = Append(editions, rec) /\ rec.writes = vs /\ rec.before = p
         /\ rec.after = now /\ rec.batch = None
    BY <2>2, <2>8, <2>9
  <2>11. 1 \in DOMAIN vs /\ vs[1] = e /\ \A j \in DOMAIN vs : vs[j] = e
    BY <2>9
  <2>12. AsMeant(rec)'
    <3>1. CASE c \in crowded \cup raced
      BY <2>2, <2>3, <2>10, <2>11, <3>1 DEF AsMeant, Others, editHistory
    <3>2. CASE c \notin crowded \cup raced
      <4>1. now = Meant(p, vs)
        <5>1. CASE calls[c].op # "append"
          BY <2>5, <2>9, <5>1
        <5>2. CASE calls[c].op = "append"
          <6>1. Sees(c) /\ calls[c].step = "seen"
            BY <1>1, <3>2, <5>2 DEF MeaningKept, CallsSee, LoneWritesSee, WriteNow
          <6>2. PICK ws : ws = Staged
            OBVIOUS
          <6>3. ws = <<>> /\ DOMAIN ws = {} /\ Len(ws) = 0
            BY <2>4, <6>2, EmptySeq DEF Staged
          <6>4. Stands(ws) /\ ~WouldMask(ws, e.section)
            BY <6>3 DEF Stands, WouldMask
          <6>5. calls[c].seen.body = BodyOf(Patched(p, NetOf(p, ws)), e.section)
            BY <2>1, <2>3, <5>2, <6>1, <6>2, <6>4 DEF Sees
          <6>6. Patched(p, NetOf(p, ws)) = p
            BY <2>4, <6>3, NothingFolds
          <6>7. /\ e.op # "delete" /\ DOMAIN e.change = {"body"}
                /\ e.change.body = Append(BodyOf(p, e.section), e.by)
            BY <2>3, <5>2, <6>5, <6>6 DEF EditIsSound, KindOf
          <6>8. Said(p, e, TRUE) = Said(p, e, FALSE)
            BY <2>4, <6>7, SaidAppend
          <6> QED
            BY <2>5, <2>9, <5>2, <6>8
        <5> QED
          BY <5>1, <5>2
      <4>2. IsSeq(vs) /\ \A j \in DOMAIN vs : vs[j].by \in DOMAIN calls
        BY <1>1, <2>3, <2>5, <2>9, <2>11
      <4>3. Meant(p, vs)' = Meant(p, vs)
        BY <2>7, <4>2, MeantStays DEF Goes
      <4> QED
        BY <2>10, <4>1, <4>3 DEF AsMeant
    <3> QED
      BY <3>1, <3>2
  <2>13. AllAreAsMeant'
    BY <2>7, <2>10, <2>12, SealedMeans DEF MeaningKept
  <2>14. EditsAreSound'
    <3>1. \A d \in DOMAIN calls' : d \in DOMAIN calls /\ calls'[d].seen = calls[d].seen
      BY <2>6 DEF Moves
    <3>2. IsSeq(rec.writes) /\ AreSections(ethos') /\ plan' = plan
      BY <2>1, <2>2, <2>5, <2>9, <2>10 DEF Others
    <3> QED
      BY <2>2, <2>7, <2>10, <3>1, <3>2, SealedIsSound DEF MeaningKept
  <2>15. TxIsTrue'
    BY <2>2, <2>4 DEF TxIsTrue
  <2>16. AllHaveReason'
    <3>1. ASSUME NEW d \in DOMAIN calls, calls[d].op = "commit", calls[d].answer = "refused"
          PROVE  HasReason(d, calls[d].batch)'
      BY <2>2, <2>7, <3>1, ReasonsStay DEF MeaningKept
    <3>2. \A d \in DOMAIN calls' :
            calls'[d].op = "commit" /\ calls'[d].answer = "refused" =>
                d \in DOMAIN calls /\ calls[d].op = "commit" /\ calls[d].answer = "refused"
      BY <1>1, <2>6 DEF Moves
    <3> QED
      BY <3>1, <3>2 DEF AllHaveReason
  <2>17. CallsSee'
    BY <1>1, <2>2, <2>6, WriteGoesOn DEF MeaningKept, Others, editHistory
  <2> QED
    BY <2>13, <2>14, <2>15, <2>16, <2>17 DEF MeaningKept, EditsMean
<1> QED
  BY <1>2, <1>3

-----------------------------------------------------------------------------
\* A calm batch with a write in it that a commit is about to seal is the open one, and
\* it is what its calls were said to do.
LEMMA CalmIsTrue ==
    ASSUME EditInv, Shapes, EditsMean, NEW c \in Committing, calls[c].step = "begun",
           NEW t, t = calls[c].batch, Calm(t), NEW j \in DOMAIN batches[t].writes
    PROVE  BatchIsTrue(ethos, batches[t].writes)
<1>1. /\ t # None /\ t \in DOMAIN batches /\ c \in CommitsOn(t)
  BY CommitIs
<1>2. PICK d : d = batches[t].writes[j].by
  OBVIOUS
<1>3. d \in DOMAIN calls /\ calls[d].answer = "staged" /\ calls[d].batch = t
  BY <1>1, <1>2 DEF EditInv, BatchesAreSound
<1>4. Settled(d)
  BY <1>2, <1>3 DEF Calm, Settled
<1>5. KeptIn(d, t)
  BY <1>3, <1>4 DEF EditInv, StagedStays
<1>6. EditionsOf(t) = {} /\ t \notin discarded
  BY <1>1 DEF Calm, EditInv, CommitsAreAlone
<1>7. tx = t
  BY <1>5, <1>6 DEF KeptIn
<1> QED
  BY <1>1, <1>6, <1>7 DEF EditsMean, TxIsTrue

LEMMA FirstWrite ==
    ASSUME NEW ws, IsSeq(ws), DOMAIN ws = {}
    PROVE  Len(ws) = 0
<1>1. PICK k : k = Len(ws)
  OBVIOUS
<1>2. k \in Nat /\ 1 .. k = {}
  BY <1>1, AppendedTo
<1> QED
  BY <1>1, <1>2

\* A commit fails for a reason.
LEMMA RefusalHasReason ==
    ASSUME EditInv, Shapes, EditsMean, NEW c \in Committing, calls[c].step = "begun",
           NEW t, t = calls[c].batch, NEW ws, ws = batches[t].writes,
           NEW p, p = ethos, NEW net, net = NetOf(p, ws),
           ~(Applies(net) /\ CanWrite(batches[t].auth, net))
    PROVE  HasReason(c, t)
<1>1. /\ t # None /\ t \in DOMAIN batches /\ c \in DOMAIN calls
      /\ calls[c].auth = batches[t].auth
  BY CommitIs DEF CallIsSound
<1>2. CASE ~CanWrite(batches[t].auth, net)
  BY <1>1, <1>2 DEF CanWrite, HasReason
<1>3. CASE ~Calm(t)
  <2>1. CASE t \in contested \cup stale
    BY <2>1 DEF HasReason
  <2>2. CASE t \notin contested \cup stale
    <3>1. PICK j \in DOMAIN batches[t].writes : batches[t].writes[j].by \in crowded \cup raced
      BY <1>3, <2>2 DEF Calm
    <3>2. /\ batches[t].writes[j].by \in DOMAIN calls
          /\ calls[batches[t].writes[j].by].batch = t
      BY <1>1, <3>1 DEF EditInv, BatchesAreSound
    <3> QED
      BY <3>1, <3>2 DEF HasReason
  <2> QED
    BY <2>1, <2>2
<1>4. CASE Calm(t) /\ ~Applies(net)
  <2> SUFFICES ASSUME NEW j \in DOMAIN ws PROVE ws[j].section \in AddsIn(t)
    BY DEF HasReason
  <2>1. PICK s : s = ws[j].section
    OBVIOUS
  <2>2. BatchIsTrue(p, ws)
    BY <1>4, CalmIsTrue
  <2>3. ~net.missing /\ (s \in DOMAIN p \/ Adds(ws, s))
    BY <2>1, <2>2 DEF BatchIsTrue
  <2>4. DOMAIN net.upserts = {} /\ net.deletes = {}
    BY <1>4, <2>3 DEF Applies
  <2>5. /\ IsSeq(ws) /\ NetFacts(p, ws)
        /\ \A k \in DOMAIN ws : EditIsSound(ws[k])
    BY <1>1 DEF Shapes, EditsMean, EditsAreSound, Foldable
  <2>6. s \notin DOMAIN p
    <3>1. \A k \in DOMAIN ws : ws[k].op \in Kinds
      BY <2>5 DEF EditIsSound, EditIsTyped
    <3>2. PICK k : LastOn(ws, k) /\ ws[k].section = s
      BY <2>1, <2>5, <3>1, LastTouch DEF Touches
    <3>3. IF ws[k].op = "delete" THEN s \notin DOMAIN Patched(p, net)
          ELSE s \in DOMAIN net.upserts
      BY <2>5, <3>2 DEF NetFacts
    <3>4. DOMAIN Patched(p, net) = DOMAIN net.upserts \cup (DOMAIN p \ net.deletes)
      BY DEF Patched, Over, Without
    <3> QED
      BY <2>4, <3>3, <3>4
  <2>7. PICK k \in DOMAIN ws : ws[k].section = s /\ ws[k].op = "add"
    BY <2>3, <2>6 DEF Adds
  <2>8. PICK d : d = ws[k].by
    OBVIOUS
  <2>9. /\ d \in DOMAIN calls /\ calls[d].batch = t /\ calls[d].section = s
    BY <1>1, <2>7, <2>8 DEF EditInv, BatchesAreSound
  <2>10. calls[d].op = "add"
    <3>1. PICK op : op = calls[d].op
      OBVIOUS
    <3>2. KindOf(op) = "add"
      BY <2>5, <2>7, <2>8, <3>1 DEF EditIsSound
    <3>3. op = "add" \/ op = "delete" \/ op \notin {"add", "delete"}
      OBVIOUS
    <3> QED
      BY <3>1, <3>2, <3>3 DEF KindOf
  <2> QED
    BY <2>1, <2>9, <2>10 DEF AddsIn
<1> QED
  BY <1>2, <1>3, <1>4

LEMMA ApplyMeans ==
    ASSUME EditInv, Shapes, EditInv', Shapes', MeaningKept, NEW c \in InFlight, Apply(c)
    PROVE  MeaningKept'
<1>1. /\ c \in Committing /\ calls[c].step = "begun" /\ c \in DOMAIN calls
      /\ calls[c].op = "commit" /\ DOMAIN calls[c] = Fields /\ calls[c].answer = "none"
  BY DEF Apply, Committing, InFlight, EditInv, CallsAreTyped, CallIsSound
<1>2. PICK t, ws, p, net : /\ t = calls[c].batch /\ ws = batches[t].writes /\ p = ethos
                           /\ net = NetOf(p, ws)
  OBVIOUS
<1>3. t # None /\ t \in DOMAIN batches /\ c \in CommitsOn(t) /\ Writing \subseteq raced
  BY <1>1, <1>2, CommitIs
<1>4. /\ IsSeq(ws) /\ Foldable(ws) /\ \A j \in DOMAIN ws : ws[j].by \in DOMAIN calls
      /\ AreSections(p)
  BY <1>2, <1>3 DEF Shapes, MeaningKept, EditsMean, EditsAreSound, EditIsSound
<1>5. CASE ~(Applies(net) /\ CanWrite(batches[t].auth, net))
  <2>1. Refuse(c)
    BY <1>2, <1>5 DEF Apply
  <2>2. Moves(c, "done", "refused", t) /\ calls'[c].seen = calls[c].seen
    <3>1. calls'[c].seen = calls[c].seen
      BY <1>1, <2>1 DEF Refuse, Answer, Fields
    <3> QED
      BY <1>1, <1>2, <2>1, <3>1, AnswerMoves DEF Refuse
  <2>3. Others /\ UNCHANGED <<ethos, editions, tx, batches>>
    BY <2>1 DEF Refuse, Others
  <2>4. Goes
    BY <1>2, <2>2, <2>3, MovedGoes DEF Others, editHistory
  <2>5. HasReason(c, t)
    BY <1>1, <1>2, <1>5, RefusalHasReason DEF MeaningKept
  <2>6. HasReason(c, calls[c].batch)'
    <3>1. HasReason(c, t)'
      BY <1>1, <1>3, <2>3, <2>4, <2>5, ReasonStays
    <3>2. calls'[c].batch = t
      BY <2>2 DEF Moves
    <3> QED
      BY <3>1, <3>2
  <2>7. \A d \in DOMAIN calls' : d # c => calls'[d] = calls[d] /\ d \in DOMAIN calls
    BY <2>2 DEF Moves
  <2>8. \A d \in DOMAIN calls' :
            calls'[d].op = "commit" /\ calls'[d].answer = "refused" =>
                \/ d \in DOMAIN calls /\ calls[d].op = "commit" /\ calls[d].answer = "refused"
                \/ HasReason(d, calls[d].batch)'
    BY <2>6, <2>7
  <2>9. /\ \A d \in DOMAIN calls' : IsSeq(calls'[d].seen.body)
        /\ plan.auto => tx' = None
    BY <1>1, <2>2, <2>3, <2>7 DEF MeaningKept, EditsMean, EditsAreSound
  <2>10. Quiet
    BY <2>3, <2>4, <2>8, <2>9 DEF Quiet, Others
  <2>11. EditsMean'
    BY <2>10, QuietKeeps DEF MeaningKept
  <2>12. CallsSee'
    BY <1>1, <2>2, <2>3, CommitGoesOn DEF MeaningKept, Others, editHistory
  <2> QED
    BY <2>11, <2>12 DEF MeaningKept
<1>6. CASE Applies(net) /\ CanWrite(batches[t].auth, net)
  <2>1. PICK now : now = ethos'
    OBVIOUS
  <2>2. /\ now = Patched(p, net) /\ Others /\ UNCHANGED <<tx, batches>>
        /\ editions' = Append(editions, [by |-> c, auth |-> batches[t].auth, batch |-> t,
                                         writes |-> ws, before |-> p, after |-> now])
        /\ calls' = [calls EXCEPT ![c].step = "applied"]
    BY <1>2, <1>6, <2>1 DEF Apply, Seal, Others
  <2>3. Moves(c, "applied", "none", t) /\ calls'[c].seen = calls[c].seen
    <3> DEFINE r == [calls[c] EXCEPT !.step = "applied"]
    <3>1. calls' = [calls EXCEPT ![c] = r]
      BY <2>2
    <3>2. /\ DOMAIN r = Fields /\ r.op = calls[c].op /\ r.auth = calls[c].auth
          /\ r.section = calls[c].section /\ r.step = "applied" /\ r.answer = "none"
          /\ r.batch = t /\ r.seen = calls[c].seen
      BY <1>1, <1>2 DEF Fields
    <3> HIDE DEF r
    <3>3. calls'[c] = r
      BY <1>1, <3>1
    <3> QED
      BY <1>1, <3>1, <3>2, <3>3, RecordsChange
  <2>4. Goes
    BY <1>2, <2>2, <2>3, MovedGoes DEF Others, editHistory
  <2>5. AreSections(now)
    BY <1>2, <1>4, <2>2 DEF Foldable, NetFacts
  <2>6. PICK rec : rec = [by |-> c, auth |-> batches[t].auth, batch |-> t,
                          writes |-> ws, before |-> p, after |-> now]
    OBVIOUS
  <2>7. /\ editions' = Append(editions, rec) /\ rec.writes = ws /\ rec.before = p
        /\ rec.after = now /\ rec.batch = t
    BY <2>2, <2>6
  <2>8. DOMAIN ws # {}
    <3>1. SUFFICES ASSUME DOMAIN ws = {} PROVE FALSE
      OBVIOUS
    <3>2. Len(ws) = 0
      BY <1>4, <3>1, FirstWrite
    <3>3. net = Unedited
      BY <1>2, <1>4, <3>1, <3>2, NothingFolds
    <3> QED
      BY <1>6, <3>3 DEF Applies, Unedited, Nothing
  <2>9. AsMeant(rec)'
    <3>1. CASE ~Calm(t)
      <4>1. CASE t \in contested \cup stale
        BY <2>2, <2>7, <4>1 DEF AsMeant, Others, editHistory
      <4>2. CASE \E j \in DOMAIN ws : ws[j].by \in crowded \cup raced
        BY <2>2, <2>7, <4>2 DEF AsMeant, Others, editHistory
      <4> QED
        BY <1>2, <3>1, <4>1, <4>2 DEF Calm
    <3>2. CASE Calm(t)
      <4>1. BatchIsTrue(p, ws)
        BY <1>1, <1>2, <2>8, <3>2, CalmIsTrue DEF MeaningKept
      <4>2. BatchIsTrue(p, ws)'
        BY <1>4, <2>4, <4>1, BatchStaysTrue
      <4>3. Masked(ws)' \/ now = Meant(p, ws)'
        BY <1>2, <2>2, <4>2 DEF BatchIsTrue
      <4> QED
        BY <2>7, <4>3 DEF AsMeant
    <3> QED
      BY <3>1, <3>2
  <2>10. AllAreAsMeant'
    BY <2>4, <2>7, <2>9, SealedMeans DEF MeaningKept
  <2>11. EditsAreSound'
    <3>1. \A d \in DOMAIN calls' : d \in DOMAIN calls /\ calls'[d].seen = calls[d].seen
      BY <2>3 DEF Moves
    <3>2. IsSeq(rec.writes) /\ AreSections(ethos') /\ plan' = plan
      BY <1>4, <2>1, <2>2, <2>5, <2>7 DEF Others
    <3> QED
      BY <2>2, <2>4, <2>7, <3>1, <3>2, SealedIsSound DEF MeaningKept
  \* Another transaction that is open has nothing in it.
  <2>12. TxIsTrue'
    <3> SUFFICES ASSUME tx # None, Calm(tx)', EditionsOf(tx)' = {}
                 PROVE  BatchIsTrue(ethos, batches[tx].writes)'
      BY <2>2 DEF TxIsTrue
    <3>1. PICK u, vs : u = tx /\ vs = batches[tx].writes
      OBVIOUS
    <3>2. u \in DOMAIN batches /\ IsSeq(vs)
      BY <3>1 DEF EditInv, TxIsSound, Shapes
    <3>3. u # t
      <4>1. PICK n : n = Len(editions) + 1
        OBVIOUS
      <4>2. n \in DOMAIN editions' /\ editions'[n] = rec
        BY <2>7, <4>1, AppendedTo DEF Shapes
      <4> QED
        BY <2>2, <2>7, <3>1, <4>2 DEF EditionsOf
    <3>4. Calm(u)
      BY <2>2, <2>4, <3>1, CalmWas
    <3>5. DOMAIN vs = {}
      <4>1. SUFFICES ASSUME NEW j \in DOMAIN vs PROVE FALSE
        OBVIOUS
      <4>2. PICK d : d = vs[j].by
        OBVIOUS
      <4>3. d \in DOMAIN calls /\ calls[d].answer = "staged" /\ calls[d].batch = u
        BY <3>1, <3>2, <4>1, <4>2 DEF EditInv, BatchesAreSound
      <4>4. Settled(d)
        BY <3>1, <3>4, <4>1, <4>2, <4>3 DEF Calm, Settled
      <4>5. KeptIn(d, u)
        BY <4>3, <4>4 DEF EditInv, StagedStays
      <4>6. c \in CommitsOn(u)
        BY <1>1, <3>1, <4>5 DEF KeptIn
      <4> QED
        BY <1>2, <3>3, <4>6 DEF CommitsOn
    <3>6. BatchIsTrue(now, vs)
      BY <2>5, <3>2, <3>5, FirstWrite, EmptyIsTrue
    <3>7. BatchIsTrue(now, vs)'
      BY <2>4, <3>2, <3>5, <3>6, BatchStaysTrue
    <3> QED
      BY <2>1, <2>2, <3>1, <3>7
  <2>13. AllHaveReason'
    <3>1. ASSUME NEW d \in DOMAIN calls, calls[d].op = "commit", calls[d].answer = "refused"
          PROVE  HasReason(d, calls[d].batch)'
      BY <2>2, <2>4, <3>1, ReasonsStay DEF MeaningKept
    <3>2. \A d \in DOMAIN calls' :
            calls'[d].op = "commit" /\ calls'[d].answer = "refused" =>
                d \in DOMAIN calls /\ calls[d].op = "commit" /\ calls[d].answer = "refused"
      BY <2>3 DEF Moves
    <3> QED
      BY <3>1, <3>2 DEF AllHaveReason
  <2>14. CallsSee'
    BY <1>1, <2>2, <2>3, CommitGoesOn DEF MeaningKept, Others, editHistory
  <2> QED
    BY <2>10, <2>11, <2>12, <2>13, <2>14 DEF MeaningKept, EditsMean
<1> QED
  BY <1>5, <1>6

-----------------------------------------------------------------------------
LEMMA EditMeans ==
    ASSUME EditInv, Shapes, EditInv', Shapes', MeaningKept, Edit
    PROVE  MeaningKept'
<1>1. EditNext /\ host' = host /\ host # "dead"
  BY DEF Edit, hostVars
<1>2. ASSUME NEW op, NEW auth, NEW section, BeginWrite(op, auth, section) PROVE MeaningKept'
  BY <1>2, BeginMeans
<1>3. ASSUME NEW auth, NEW z, BeginAdd(auth, z) PROVE MeaningKept'
  BY <1>2, <1>3 DEF BeginAdd
<1>4. CASE BeginCommit
  BY <1>4, BeginMeans
<1>5. ASSUME NEW c \in InFlight,
             \/ StageAtOnce(c) \/ EnrollAndLook(c) \/ LookForAppend(c) \/ ReadPersisted(c)
             \/ StageSeen(c) \/ WriteNow(c) \/ Apply(c) \/ Finish(c)
      PROVE  MeaningKept'
  BY <1>1, <1>5, StageMeans, EnrollMeans, LookForAppendMeans, ReadMeans, WriteNowMeans,
     ApplyMeans, FinishMeans
<1>6. CASE Discard
  BY <1>1, <1>6, RestMeans DEF Discard
<1>7. ASSUME NEW s, WriteBeside(s) PROVE MeaningKept'
  BY <1>7, WriteBesideMeans
<1>8. ASSUME NEW m, NEW why, MandateEnds(m, why) PROVE MeaningKept'
  <2>1. DOMAIN dead \subseteq DOMAIN dead'
    BY <1>8 DEF MandateEnds, With
  <2> QED
    BY <1>1, <1>8, <2>1, RestMeans DEF MandateEnds, editHistory
<1> QED
  BY <1>1, <1>2, <1>3, <1>4, <1>5, <1>6, <1>7, <1>8 DEF EditNext

\* What the edits mean is kept, whatever the host around them does.
THEOREM MeaningInvariant == Spec => []MeaningKept
<1>1. Init => MeaningKept
  <2> SUFFICES ASSUME Init PROVE MeaningKept
    OBVIOUS
  <2>1. /\ calls = <<>> /\ batches = <<>> /\ editions = <<>> /\ tx = None
        /\ ethos = [s \in Present |-> [title |-> None, body |-> <<None>>]]
    BY DEF Init, EditInit
  <2>2. DOMAIN <<>> = {}
    BY EmptySeq
  <2>3. AreSections(ethos)
    <3>1. PICK x : x = [title |-> None, body |-> <<None>>]
      OBVIOUS
    <3>2. <<None>> \in Seq({None})
      OBVIOUS
    <3>3. IsContent(x)
      BY <3>1, <3>2 DEF IsContent, IsSeq
    <3>4. ethos = [s \in Present |-> x]
      BY <2>1, <3>1
    <3> QED
      BY <3>3, <3>4 DEF AreSections
  <2>4. EditsMean
    BY <2>1, <2>2, <2>3 DEF EditsMean, EditsAreSound, TxIsTrue, AllAreAsMeant, AllHaveReason
  <2>5. Writing = {}
    BY <2>1, <2>2 DEF Writing, InFlight
  <2>6. CallsSee
    BY <2>5 DEF CallsSee, OverlapsAreNoted, LoneWritesSee
  <2> QED
    BY <2>4, <2>6 DEF MeaningKept
<1>2. EditInv /\ Shapes /\ EditInv' /\ Shapes' /\ MeaningKept /\ [Next]_vars => MeaningKept'
  <2> SUFFICES ASSUME EditInv, Shapes, EditInv', Shapes', MeaningKept, [Next]_vars
               PROVE  MeaningKept'
    OBVIOUS
  <2>1. ASSUME UNCHANGED editVars, host # "dead" \/ host' = host PROVE MeaningKept'
    <3>1. CASE host # "dead"
      BY <2>1, <3>1, RestMeans DEF editVars, editHistory
    <3>2. CASE host' = "dead"
      BY <2>1, <3>2, RestMeans DEF editVars, editHistory
    <3> QED
      BY <2>1, <3>1, <3>2
  <2>2. CASE Serve
    BY <2>1, <2>2 DEF Serve
  <2>3. ASSUME NEW d \in DOMAIN dispatches, TakeEffect(d), UNCHANGED editVars
        PROVE  MeaningKept'
    BY <2>1, <2>3 DEF TakeEffect
  <2>4. CASE UNCHANGED vars
    BY <2>1, <2>4 DEF vars, hostVars
  <2>5. CASE Kill
    BY <2>5, RestMeans DEF Kill
  <2> QED
    BY <2>2, <2>3, <2>4, <2>5, EditMeans DEF Next
<1> QED
  BY <1>1, <1>2, EditInvariant, PTL DEF Spec

\* What the calls of an edition were said to do is what it holds, when they were made
\* one at a time and nobody wrote beside; and one authority was entitled to all of it.
THEOREM EditionsAreAlwaysSound == Spec => []EditionsAreSound
<1>1. MeaningKept => EditionsAreAsMeant
  BY DEF MeaningKept, EditsMean, AllAreAsMeant, AsMeant, EditionsAreAsMeant
<1>2. OneAuthorityPerEdition /\ EditionsAreAsMeant => EditionsAreSound
  BY DEF EditionsAreSound
<1> QED
  BY <1>1, <1>2, MeaningInvariant, EditionsHaveOneAuthority, PTL

\* A commit that was let in fails only if its batch amounts to nothing, its mandate
\* ended, or something went on beside it.
THEOREM CommitsFailForAReason == Spec => []CommitFailsForAReason
<1>1. MeaningKept => CommitFailsForAReason
  BY DEF MeaningKept, EditsMean, AllHaveReason, HasReason, AddsIn, CommitFailsForAReason
<1> QED
  BY <1>1, MeaningInvariant, PTL
-----------------------------------------------------------------------------
(* The missions of the harnesses *)

\* What is in the mailbox was posted, and a harness reports how a run may end.
MailboxIsSound ==
    /\ \A i \in DOMAIN queue : status[queue[i]] # "absent"
    /\ \A h \in Harnesses : pc[h] = "report" =>
          to[h] \in {"done", "failed", "waiting_input", "interrupted"}

\* A mission that waits for a harness has been queued more often than run; and so has,
\* by the harness that has it in its list, a mission that waits there for its claim.
QueuedIsOwed ==
    \A m \in Missions :
        /\ status[m] = "absent" => runs[m] = 0 /\ \A h \in Harnesses : ranBy[h][m] = 0
        /\ status[m] = "pending" =>
              /\ \A h \in Harnesses : ranBy[h][m] <= answers[m]
              /\ m \notin doubled => runs[m] <= answers[m]
ListedIsOwed ==
    \A h \in Harnesses : pc[h] = "claim" =>
        \A i \in DOMAIN list[h] : ranBy[h][list[h][i]] <= answers[list[h][i]]

\* The inductive invariant of the mailbox and its harnesses.
MissionInv == RunsAreSound /\ MailboxIsSound /\ QueuedIsOwed /\ ListedIsOwed

\* The mailbox is empty at first.
LEMMA MissionInitIsSound == MissionInit => MissionInv
<1> SUFFICES ASSUME MissionInit PROVE MissionInv
  OBVIOUS
<1>1. TypeOK
  BY MailboxAssumption DEF MissionInit, TypeOK, Steps, MissionStatus
<1>2. OneRunAtATime /\ RunsAreJustified /\ MailboxIsSound /\ QueuedIsOwed /\ ListedIsOwed
  BY DEF MissionInit, OneRunAtATime, RunsAreJustified, MailboxIsSound, QueuedIsOwed,
         ListedIsOwed, Working
<1>3. doubled = {}
  BY DEF MissionInit
<1> QED
  BY <1>1, <1>2, <1>3 DEF MissionInv, RunsAreSound

\* A busy harness has a mission.
LEMMA BusyHasMission ==
    ASSUME TypeOK, NEW h \in Harnesses, pc[h] \in {"claim", "run", "report"}
    PROVE  /\ Head(list[h]) \in Missions /\ list[h] # <<>>
           /\ list[h] \in Seq(Missions) /\ Tail(list[h]) \in Seq(Missions)
<1>1. list[h] \in Seq(Missions) /\ list[h] # <<>>
  BY DEF TypeOK
<1> QED
  BY <1>1

\* A mission is posted.
LEMMA PostKeeps == ASSUME MissionInv, NEW m \in Missions, Post(m) PROVE MissionInv'
<1> USE DEF MissionInv, RunsAreSound, ranVars
<1>1. TypeOK'
  <2>1. queue' = Append(queue, m) /\ queue \in Seq(Missions) /\ Len(queue) \in Nat
    BY DEF Post, TypeOK
  <2>2. \A i \in DOMAIN queue : queue[i] # m
    BY DEF Post, MailboxIsSound
  <2>3. queue' \in Seq(Missions) /\ \A i, j \in DOMAIN queue' : queue'[i] = queue'[j] => i = j
    BY <2>1, <2>2 DEF TypeOK
  <2> QED
    BY <2>3 DEF Post, TypeOK, MissionStatus
<1>2. OneRunAtATime' /\ (mailbox.kind = "contract" => doubled = {})'
  BY BusyHasMission DEF Post, TypeOK, OneRunAtATime, Working
<1>3. RunsAreJustified' /\ QueuedIsOwed' /\ ListedIsOwed'
  BY DEF Post, TypeOK, RunsAreJustified, QueuedIsOwed, ListedIsOwed
<1>4. MailboxIsSound'
  BY DEF Post, TypeOK, MailboxIsSound
<1> QED
  BY <1>1, <1>2, <1>3, <1>4

\* A human answers.
LEMMA AnswerKeeps == ASSUME MissionInv, NEW m \in Missions, AnswerMission(m) PROVE MissionInv'
<1> USE DEF MissionInv, RunsAreSound, ranVars
<1>0. mailbox \in Mailboxes /\ mailbox.answers \in Nat
  BY MailboxAssumption DEF TypeOK
<1>1. TypeOK'
  BY <1>0 DEF AnswerMission, TypeOK, MissionStatus
<1>2. OneRunAtATime' /\ (mailbox.kind = "contract" => doubled = {})'
  BY BusyHasMission DEF AnswerMission, TypeOK, OneRunAtATime, Working
<1>3. RunsAreJustified' /\ QueuedIsOwed'
  BY <1>0 DEF AnswerMission, TypeOK, RunsAreJustified, QueuedIsOwed
<1>4. MailboxIsSound'
  BY DEF AnswerMission, TypeOK, MailboxIsSound
<1>5. ListedIsOwed'
  <2> SUFFICES ASSUME NEW h \in Harnesses, pc[h] = "claim", NEW i \in DOMAIN list[h]
               PROVE  ranBy[h][list[h][i]] <= answers'[list[h][i]]
    BY DEF AnswerMission, ListedIsOwed
  <2>1. PICK n \in Missions : n = list[h][i] /\ ranBy[h][n] <= answers[n]
    BY DEF ListedIsOwed, TypeOK
  <2>2. ranBy[h][n] \in Nat /\ answers[n] \in Nat
    BY <1>0, <2>1 DEF TypeOK
  <2>3. answers'[n] \in {answers[n], answers[n] + 1}
    BY <1>0, <2>1 DEF AnswerMission, TypeOK
  <2> QED
    BY <2>1, <2>2, <2>3
<1> QED
  BY <1>1, <1>2, <1>3, <1>4, <1>5

\* What a poll returns is a list of missions that are pending.
LEMMA PollKeeps == ASSUME MissionInv, NEW h \in Harnesses, Poll(h) PROVE MissionInv'
<1> USE DEF MissionInv, RunsAreSound, ranVars
<1>1. PICK p \in OldestFirst(Pending) : Goto(h, "claim", [i \in DOMAIN p |-> queue[p[i]]])
  BY DEF Poll
<1>2. Cardinality(Pending) \in Nat \ {0}
  <2>1. Len(queue) \in Nat /\ DOMAIN queue = 1..Len(queue)
    BY DEF TypeOK
  <2>2. IsFiniteSet(1..Len(queue))
    BY <2>1, FS_Interval
  <2>3. IsFiniteSet(Pending)
    BY <2>1, <2>2, FS_Subset DEF Pending
  <2> QED
    BY <2>3, FS_CardinalityType, FS_EmptySet DEF Poll
<1> DEFINE l == [i \in DOMAIN p |-> queue[p[i]]]
<1>3. l \in Seq(Missions) /\ l # <<>> /\ \A i \in DOMAIN l : status[l[i]] = "pending"
  <2>1. DOMAIN p = 1..Cardinality(Pending) /\ \A i \in DOMAIN p : p[i] \in DOMAIN queue
    BY DEF OldestFirst, Pending
  <2>2. \A i \in DOMAIN p : queue[p[i]] \in Missions /\ status[queue[p[i]]] = "pending"
    <3>1. \A i \in DOMAIN p : p[i] \in Pending
      BY DEF OldestFirst
    <3> QED
      BY <2>1, <3>1 DEF TypeOK, Pending
  <2>3. l \in [1..Cardinality(Pending) -> Missions] /\ 1 \in DOMAIN l
    BY <1>2, <2>1, <2>2
  <2> QED
    BY <1>2, <2>2, <2>3
<1>4. Goto(h, "claim", l)
  BY <1>1
<1> HIDE DEF l
<1>5. TypeOK'
  BY <1>3, <1>4 DEF Poll, Goto, TypeOK, Steps
<1>6. OneRunAtATime' /\ (mailbox.kind = "contract" => doubled = {})'
  BY <1>4 DEF Poll, Goto, TypeOK, OneRunAtATime, Working
<1>7. RunsAreJustified' /\ QueuedIsOwed' /\ MailboxIsSound'
  BY <1>4 DEF Poll, Goto, TypeOK, RunsAreJustified, QueuedIsOwed, MailboxIsSound
<1>8. ListedIsOwed'
  <2>1. \A i \in DOMAIN l : l[i] \in Missions /\ ranBy[h][l[i]] <= answers[l[i]]
    BY <1>3 DEF QueuedIsOwed
  <2> QED
    BY <1>4, <2>1 DEF Poll, Goto, TypeOK, ListedIsOwed
<1> QED
  BY <1>5, <1>6, <1>7, <1>8

\* After a claim that failed the harness takes up the next candidate or polls again.
LEMMA NextCandidateIs ==
    ASSUME TypeOK, ListedIsOwed, NEW h \in Harnesses, pc[h] = "claim", NextCandidate(h)
    PROVE  \E step \in {"idle", "claim"}, rest \in Seq(Missions) :
              /\ Goto(h, step, rest)
              /\ rest = <<>> <=> step = "idle"
              /\ \A i \in DOMAIN rest : ranBy[h][rest[i]] <= answers[rest[i]]
<1> DEFINE rest == Tail(list[h])
<1>1. rest \in Seq(Missions)
  BY BusyHasMission
<1>2. Goto(h, IF rest = <<>> THEN "idle" ELSE "claim", rest)
  BY DEF NextCandidate
<1>0. \A i \in DOMAIN rest : ranBy[h][rest[i]] <= answers[rest[i]]
  <2> SUFFICES ASSUME NEW i \in DOMAIN rest PROVE ranBy[h][rest[i]] <= answers[rest[i]]
    OBVIOUS
  <2>1. list[h] \in Seq(Missions) /\ list[h] # <<>>
    BY BusyHasMission
  <2>2. i + 1 \in DOMAIN list[h] /\ rest[i] = list[h][i + 1]
    BY <2>1
  <2> QED
    BY <2>2 DEF ListedIsOwed
<1> HIDE DEF rest
<1>3. CASE rest = <<>>
  BY <1>0, <1>1, <1>2, <1>3
<1>4. CASE rest # <<>>
  BY <1>0, <1>1, <1>2, <1>4
<1> QED
  BY <1>3, <1>4

\* A mission that is taken and was pending is nobody's; otherwise it is doubled.
LEMMA TakenIs ==
    ASSUME MissionInv, NEW m \in Missions, Take(m)
    PROVE  /\ status' \in [Missions -> MissionStatus \cup {"absent"}]
           /\ doubled \subseteq doubled' /\ doubled' \subseteq Missions
           /\ \A n \in Missions : n # m => status'[n] = status[n]
           /\ status'[m] = "in_progress"
           /\ m \notin doubled' => m \notin doubled /\ status[m] = "pending"
           /\ \A n \in Missions : n # m /\ n \notin doubled' => n \notin doubled
           /\ status[m] = "pending" => doubled' = doubled
BY DEF MissionInv, RunsAreSound, TypeOK, Take, MissionStatus

\* Whoever works on a mission that is not doubled does not work on one that is taken.
LEMMA NobodyWorksOnTaken ==
    ASSUME MissionInv, NEW m \in Missions, Take(m), NEW g \in Harnesses, Working(g),
           Head(list[g]) \notin doubled'
    PROVE  Head(list[g]) \in Missions /\ Head(list[g]) # m
<1>1. Head(list[g]) \in Missions
  BY BusyHasMission DEF Working, MissionInv, RunsAreSound
<1>2. Head(list[g]) \notin doubled
  BY TakenIs
<1>3. status[Head(list[g])] = "in_progress"
  BY <1>2 DEF MissionInv, RunsAreSound, OneRunAtATime
<1> QED
  BY <1>1, <1>3, TakenIs

\* A claim: what was pending is nobody's, and what was not is doubled.
LEMMA ClaimKeeps ==
    ASSUME MissionInv, NEW h \in Harnesses, Claim(h) PROVE MissionInv'
<1> USE DEF MissionInv, RunsAreSound, ranVars
<1>1. PICK m \in Missions : m = Head(list[h])
  BY BusyHasMission DEF Claim
<1>2. CASE /\ Claimable(m) /\ Goto(h, "run", list[h]) /\ Take(m)
           /\ runs' = [runs EXCEPT ![m] = @ + 1]
           /\ ranBy' = [ranBy EXCEPT ![h][m] = @ + 1]
  <2>1. list' = list /\ pc' = [pc EXCEPT ![h] = "run"] /\ pc[h] = "claim"
    BY <1>2 DEF Goto, TypeOK, Claim
  <2>0. /\ status' \in [Missions -> MissionStatus \cup {"absent"}]
        /\ doubled \subseteq doubled' /\ doubled' \subseteq Missions
        /\ \A n \in Missions : n # m => status'[n] = status[n]
        /\ status'[m] = "in_progress"
        /\ m \notin doubled' => m \notin doubled /\ status[m] = "pending"
        /\ \A n \in Missions : n # m /\ n \notin doubled' => n \notin doubled
    BY <1>2, TakenIs
  <2>00. UNCHANGED <<mailbox, queue, to, stopped, restarts, answers, lost>>
    BY DEF Claim
  <2>2. TypeOK'
    <3>1. /\ runs' \in [Missions -> Nat]
          /\ ranBy' \in [Harnesses -> [Missions -> Nat]]
      BY <1>2 DEF TypeOK
    <3>2. pc' \in [Harnesses -> Steps] /\ list' \in [Harnesses -> Seq(Missions)]
          /\ \A g \in Harnesses : list'[g] = <<>> <=> pc'[g] \in {"idle", "down"}
      BY <2>1 DEF TypeOK, Steps
    <3> QED
      BY <2>0, <2>00, <3>1, <3>2 DEF TypeOK
  <2>3. OneRunAtATime'
    <3>1. \A g \in Harnesses : Working(g)' <=> Working(g) \/ g = h
      BY <2>1 DEF Working, TypeOK
    <3>2. \A g \in Harnesses : Working(g) /\ Head(list[g]) \notin doubled' =>
             Head(list[g]) \in Missions /\ Head(list[g]) # m
      BY <1>2, NobodyWorksOnTaken
    <3>3. ASSUME NEW g \in Harnesses, Working(g), Head(list[g]) \notin doubled'
          PROVE  /\ status'[Head(list[g])] = "in_progress"
                 /\ \A f \in Harnesses \ {g} : Working(f)' => Head(list[f]) # Head(list[g])
      <4>1. Head(list[g]) \notin doubled
        BY <1>2, <3>3, TakenIs
      <4>2. /\ status[Head(list[g])] = "in_progress"
            /\ \A f \in Harnesses \ {g} : Working(f) => Head(list[f]) # Head(list[g])
        BY <3>3, <4>1 DEF OneRunAtATime
      <4> QED
        BY <1>1, <1>2, <3>1, <3>2, <3>3, <4>2, TakenIs
    <3>4. ASSUME m \notin doubled'
          PROVE  /\ status'[m] = "in_progress"
                 /\ \A f \in Harnesses \ {h} : Working(f)' => Head(list[f]) # m
      BY <1>2, <3>1, <3>2, <3>4, TakenIs
    <3> QED
      BY <1>1, <2>1, <3>1, <3>3, <3>4 DEF OneRunAtATime
  <2>4. ranBy[h][m] <= answers[m]
    <3>1. list[h] \in Seq(Missions) /\ list[h] # <<>>
      BY <2>1, BusyHasMission
    <3>2. 1 \in DOMAIN list[h] /\ m = list[h][1]
      BY <1>1, <3>1
    <3> QED
      BY <2>1, <3>2 DEF ListedIsOwed
  <2>5. RunsAreJustified'
    <3> SUFFICES ASSUME NEW n \in Missions
                 PROVE  /\ \A g \in Harnesses : ranBy'[g][n] <= 1 + answers[n]
                        /\ n \notin doubled' => runs'[n] <= 1 + answers[n]
      BY <2>00 DEF RunsAreJustified
    <3>0. answers[n] \in Nat /\ runs[n] \in Nat /\ \A g \in Harnesses : ranBy[g][n] \in Nat
      BY MailboxAssumption DEF TypeOK
    <3>1. \A g \in Harnesses : ranBy'[g][n] = ranBy[g][n] \/ (g = h /\ n = m)
      BY <1>2 DEF TypeOK
    <3>2. ranBy'[h][m] = ranBy[h][m] + 1 /\ runs'[m] = runs[m] + 1
      BY <1>2 DEF TypeOK
    <3>3. n # m => runs'[n] = runs[n]
      BY <1>2 DEF TypeOK
    <3>4. \A g \in Harnesses : ranBy'[g][n] <= 1 + answers[n]
      BY <2>4, <3>0, <3>1, <3>2 DEF RunsAreJustified
    <3>5. ASSUME n \notin doubled' PROVE runs'[n] <= 1 + answers[n]
      BY <2>0, <3>0, <3>2, <3>3, <3>5 DEF RunsAreJustified, QueuedIsOwed
    <3> QED
      BY <3>4, <3>5
  <2>6. QueuedIsOwed'
    <3>1. \A n \in Missions : n # m =>
             runs'[n] = runs[n] /\ \A g \in Harnesses : ranBy'[g][n] = ranBy[g][n]
      BY <1>2 DEF TypeOK
    <3> QED
      BY <2>0, <2>00, <3>1 DEF QueuedIsOwed
  <2>7. ListedIsOwed'
    BY <1>2, <2>1 DEF Claim, TypeOK, ListedIsOwed
  <2>8. MailboxIsSound'
    <3>1. \A i \in DOMAIN queue : queue[i] \in Missions
      BY DEF TypeOK
    <3> QED
      BY <2>0, <2>00, <2>1, <3>1 DEF TypeOK, MailboxIsSound
  <2>9. (mailbox.kind = "contract" => doubled = {})'
    BY <1>2, TakenIs DEF Claim, Claimable
  <2> QED
    BY <2>2, <2>3, <2>5, <2>6, <2>7, <2>8, <2>9
<1>3. CASE NextCandidate(h) /\ UNCHANGED <<status, ranVars>>
  <2>1. PICK step \in {"idle", "claim"}, rest \in Seq(Missions) :
           /\ Goto(h, step, rest) /\ (rest = <<>> <=> step = "idle")
           /\ \A i \in DOMAIN rest : ranBy[h][rest[i]] <= answers[rest[i]]
    BY <1>3, NextCandidateIs DEF Claim
  <2>2. TypeOK'
    BY <1>3, <2>1 DEF Claim, Goto, TypeOK, Steps
  <2>3. OneRunAtATime' /\ (mailbox.kind = "contract" => doubled = {})'
    BY <1>3, <2>1 DEF Claim, Goto, TypeOK, OneRunAtATime, Working
  <2>4. RunsAreJustified' /\ QueuedIsOwed' /\ MailboxIsSound'
    BY <1>3, <2>1 DEF Claim, Goto, TypeOK, RunsAreJustified, QueuedIsOwed, MailboxIsSound
  <2>5. ListedIsOwed'
    BY <1>3, <2>1 DEF Claim, Goto, TypeOK, ListedIsOwed
  <2> QED
    BY <2>2, <2>3, <2>4, <2>5
<1> QED
  BY <1>1, <1>2, <1>3 DEF Claim

\* A claim without an answer may have been made; no agent is spawned for it.
LEMMA UnansweredClaimKeeps ==
    ASSUME MissionInv, NEW h \in Harnesses, ClaimUnanswered(h) PROVE MissionInv'
<1> USE DEF MissionInv, RunsAreSound, ranVars
<1>1. PICK m \in Missions : m = Head(list[h])
  BY BusyHasMission DEF ClaimUnanswered
<1>2. PICK step \in {"idle", "claim"}, rest \in Seq(Missions) :
         /\ Goto(h, step, rest) /\ (rest = <<>> <=> step = "idle")
         /\ \A i \in DOMAIN rest : ranBy[h][rest[i]] <= answers[rest[i]]
  BY NextCandidateIs DEF ClaimUnanswered
<1>3. /\ list' = [list EXCEPT ![h] = rest] /\ pc' = [pc EXCEPT ![h] = step]
      /\ UNCHANGED <<mailbox, queue, to, stopped, restarts, answers, runs, ranBy>>
      /\ pc[h] = "claim"
  BY <1>2 DEF ClaimUnanswered, Goto
<1>4. ListedIsOwed'
  BY <1>2, <1>3 DEF TypeOK, ListedIsOwed
<1>5. \A g \in Harnesses : (Working(g)' <=> Working(g)) /\ (Working(g) => list'[g] = list[g])
  BY <1>2, <1>3 DEF Working, TypeOK
<1>6. CASE Claimable(m) /\ Take(m) /\ lost' = lost \cup {m}
  <2>0. /\ status' \in [Missions -> MissionStatus \cup {"absent"}]
        /\ doubled' \subseteq Missions
        /\ \A n \in Missions : n # m => status'[n] = status[n]
        /\ status'[m] = "in_progress"
    BY <1>6, TakenIs
  <2>1. TypeOK'
    BY <1>2, <1>3, <1>6, <2>0 DEF TypeOK, Steps
  <2>2. OneRunAtATime'
    <3>1. ASSUME NEW g \in Harnesses, Working(g), Head(list[g]) \notin doubled'
          PROVE  /\ status'[Head(list[g])] = "in_progress"
                 /\ \A f \in Harnesses \ {g} : Working(f) => Head(list[f]) # Head(list[g])
      <4>1. Head(list[g]) \notin doubled /\ Head(list[g]) \in Missions /\ Head(list[g]) # m
        BY <1>6, <3>1, TakenIs, NobodyWorksOnTaken
      <4>2. /\ status[Head(list[g])] = "in_progress"
            /\ \A f \in Harnesses \ {g} : Working(f) => Head(list[f]) # Head(list[g])
        BY <3>1, <4>1 DEF OneRunAtATime
      <4> QED
        BY <1>6, <4>1, <4>2, TakenIs
    <3> QED
      BY <1>5, <3>1 DEF OneRunAtATime
  <2>3. RunsAreJustified' /\ QueuedIsOwed'
    BY <1>3, <1>6, TakenIs DEF TypeOK, RunsAreJustified, QueuedIsOwed
  <2>4. MailboxIsSound'
    <3>1. \A i \in DOMAIN queue : queue[i] \in Missions
      BY DEF TypeOK
    <3>2. \A g \in Harnesses : pc'[g] = "report" => pc[g] = "report"
      BY <1>2, <1>3 DEF TypeOK
    <3>3. \A i \in DOMAIN queue' : status'[queue'[i]] # "absent"
      BY <1>3, <2>0, <3>1 DEF MailboxIsSound
    <3> QED
      BY <1>3, <3>2, <3>3 DEF MailboxIsSound
  <2>5. (mailbox.kind = "contract" => doubled = {})'
    BY <1>3, <1>6, TakenIs DEF Claimable
  <2> QED
    BY <1>4, <2>1, <2>2, <2>3, <2>4, <2>5
<1>7. CASE UNCHANGED <<status, doubled, lost>>
  <2>1. TypeOK'
    BY <1>2, <1>3, <1>7 DEF TypeOK, Steps
  <2>2. OneRunAtATime' /\ (mailbox.kind = "contract" => doubled = {})'
    BY <1>3, <1>5, <1>7 DEF OneRunAtATime
  <2>3. RunsAreJustified' /\ QueuedIsOwed' /\ MailboxIsSound'
    BY <1>2, <1>3, <1>7 DEF TypeOK, RunsAreJustified, QueuedIsOwed, MailboxIsSound
  <2> QED
    BY <1>4, <2>1, <2>2, <2>3
<1> QED
  BY <1>1, <1>6, <1>7 DEF ClaimUnanswered

\* A run ends one way or another.
LEMMA RunEndsKeeps == ASSUME MissionInv, NEW h \in Harnesses, RunEnds(h) PROVE MissionInv'
<1> USE DEF MissionInv, RunsAreSound, ranVars
<1>1. PICK s \in {"done", "failed", "waiting_input", "interrupted"} : to' = [to EXCEPT ![h] = s]
  BY DEF RunEnds, Outcomes, NextStatus
<1>2. Goto(h, "report", list[h])
  BY DEF RunEnds
<1>3. list' = list /\ pc' = [pc EXCEPT ![h] = "report"]
  BY <1>2 DEF Goto, TypeOK
<1>4. TypeOK'
  BY <1>1, <1>3 DEF RunEnds, TypeOK, Steps, MissionStatus
<1>5. OneRunAtATime' /\ (mailbox.kind = "contract" => doubled = {})'
  BY <1>3 DEF RunEnds, TypeOK, OneRunAtATime, Working
<1>6. RunsAreJustified' /\ QueuedIsOwed' /\ MailboxIsSound' /\ ListedIsOwed'
  BY <1>1, <1>3 DEF RunEnds, TypeOK, RunsAreJustified, QueuedIsOwed, MailboxIsSound, ListedIsOwed
<1> QED
  BY <1>4, <1>5, <1>6

\* A report, whether or not it arrives: nobody else works on the mission, or it is
\* doubled.
LEMMA ReportKeeps ==
    ASSUME MissionInv, NEW h \in Harnesses, Report(h) \/ ReportUnanswered(h) PROVE MissionInv'
<1> USE DEF MissionInv, RunsAreSound, ranVars
<1>1. PICK m \in Missions : m = Head(list[h]) /\ pc[h] = "report"
  BY BusyHasMission DEF Report, ReportUnanswered
<1>2. /\ status' \in {status, [status EXCEPT ![m] = to[h]]} /\ EndTick(h)
      /\ lost' \in {lost, lost \cup {m}}
      /\ UNCHANGED <<mailbox, queue, stopped, restarts, answers, ranVars>>
  BY <1>1 DEF Report, ReportUnanswered
<1>3. to[h] \in {"done", "failed", "waiting_input", "interrupted"} /\ Working(h)
  BY <1>1 DEF MailboxIsSound, Working
<1>4. TypeOK'
  <2>1. status' \in [Missions -> MissionStatus \cup {"absent"}] /\ lost' \subseteq Missions
    BY <1>2, <1>3 DEF TypeOK, MissionStatus
  <2> QED
    BY <1>2, <2>1 DEF EndTick, Goto, TypeOK, Steps, MissionStatus, ranVars
<1>5. OneRunAtATime' /\ (mailbox.kind = "contract" => doubled = {})'
  <2>1. \A g \in Harnesses : Working(g)' => Working(g) /\ g # h /\ list'[g] = list[g]
    BY <1>2 DEF EndTick, Goto, Working, TypeOK
  <2>2. ASSUME NEW g \in Harnesses, Working(g), g # h, Head(list[g]) \notin doubled
        PROVE  /\ status'[Head(list[g])] = "in_progress"
               /\ \A f \in Harnesses \ {g} : Working(f) => Head(list[f]) # Head(list[g])
    <3>1. /\ status[Head(list[g])] = "in_progress"
          /\ \A f \in Harnesses \ {g} : Working(f) => Head(list[f]) # Head(list[g])
      BY <2>2 DEF OneRunAtATime
    <3>2. Head(list[g]) # m /\ Head(list[g]) \in Missions
      BY <1>1, <1>3, <2>2, <3>1, BusyHasMission DEF Working
    <3> QED
      BY <1>2, <3>1, <3>2 DEF TypeOK
  <2> QED
    BY <1>2, <2>1, <2>2 DEF OneRunAtATime
<1>6. RunsAreJustified' /\ QueuedIsOwed' /\ MailboxIsSound' /\ ListedIsOwed'
  BY <1>2, <1>3 DEF EndTick, Goto, TypeOK, RunsAreJustified, QueuedIsOwed, MailboxIsSound,
                    ListedIsOwed
<1> QED
  BY <1>4, <1>5, <1>6

\* A harness stops, leaves, dies or comes back: it forgets, the mailbox does not.
LEMMA ComingAndGoingKeeps ==
    ASSUME MissionInv, NEW h \in Harnesses, Stop(h) \/ Leave(h) \/ Crash(h) \/ Restart(h)
    PROVE  MissionInv'
<1> USE DEF MissionInv, RunsAreSound, ranVars
<1>1. CASE Stop(h)
  BY <1>1 DEF Stop, TypeOK, OneRunAtATime, Working, RunsAreJustified, QueuedIsOwed,
              MailboxIsSound, ListedIsOwed
<1>2. CASE Leave(h) \/ Crash(h)
  <2>1. /\ Exit(h) /\ UNCHANGED <<mailbox, status, queue, restarts, answers, ranVars>>
        /\ lost' \subseteq Missions
    BY <1>2, BusyHasMission DEF Leave, Crash, TypeOK, Working
  <2>2. TypeOK'
    BY <2>1 DEF Exit, Goto, TypeOK, Steps, MissionStatus
  <2>3. OneRunAtATime' /\ (mailbox.kind = "contract" => doubled = {})'
    BY <2>1 DEF Exit, Goto, TypeOK, OneRunAtATime, Working
  <2>4. RunsAreJustified' /\ QueuedIsOwed' /\ MailboxIsSound' /\ ListedIsOwed'
    BY <2>1 DEF Exit, Goto, TypeOK, RunsAreJustified, QueuedIsOwed, MailboxIsSound, ListedIsOwed
  <2> QED
    BY <2>2, <2>3, <2>4
<1>3. CASE Restart(h)
  <2>0. mailbox \in Mailboxes /\ mailbox.restarts \in Nat
    BY MailboxAssumption DEF TypeOK
  <2>1. TypeOK'
    BY <1>3, <2>0 DEF Restart, Goto, TypeOK, Steps
  <2>2. OneRunAtATime' /\ (mailbox.kind = "contract" => doubled = {})'
    BY <1>3 DEF Restart, Goto, TypeOK, OneRunAtATime, Working
  <2>3. RunsAreJustified' /\ QueuedIsOwed' /\ MailboxIsSound' /\ ListedIsOwed'
    BY <1>3 DEF Restart, Goto, TypeOK, RunsAreJustified, QueuedIsOwed, MailboxIsSound,
                ListedIsOwed
  <2> QED
    BY <2>1, <2>2, <2>3
<1> QED
  BY <1>1, <1>2, <1>3

\* Every step keeps the invariant.
LEMMA MissionStep == MissionInv /\ [MissionNext]_missionVars => MissionInv'
<1> SUFFICES ASSUME MissionInv, [MissionNext]_missionVars PROVE MissionInv'
  OBVIOUS
<1>1. CASE UNCHANGED missionVars
  BY <1>1 DEF missionVars, ranVars, MissionInv, RunsAreSound, TypeOK, OneRunAtATime, Working,
              RunsAreJustified, QueuedIsOwed, MailboxIsSound, ListedIsOwed
<1>2. CASE MissionNext
  BY <1>2, PostKeeps, AnswerKeeps, PollKeeps, ClaimKeeps, UnansweredClaimKeeps, RunEndsKeeps,
     ReportKeeps, ComingAndGoingKeeps DEF MissionNext, Proceed
<1> QED
  BY <1>1, <1>2

\* Nobody else runs the mission that a harness runs, and an agent was spawned once for
\* each time that somebody queued it, for any number of harnesses and missions, lost
\* answers, deaths and restarts; unless the mission was claimed while it was not
\* pending, which the mailbox of the interface refuses and that of the gateway does
\* not: then still no harness runs it twice for one time that it was queued.
THEOREM MissionsRunAlone == MissionSpec => []RunsAreSound
<1>1. MissionInv /\ [MissionNext]_missionVars => MissionInv'
  BY MissionStep
<1>2. MissionInv => RunsAreSound
  BY DEF MissionInv
<1> QED
  BY <1>1, <1>2, MissionInitIsSound, PTL DEF MissionSpec

\* Only the legal transitions are taken, although report overwrites whatever is there:
\* what a harness works on is in progress until it reports, or was claimed while it was
\* not pending.
THEOREM TransitionsAreLegal == MissionSpec => StatusFollowsTransitions
<1>1. ASSUME MissionInv, [MissionNext]_missionVars
      PROVE  [\A m \in Missions : \/ status'[m] = status[m]
                                  \/ status[m] = "absent" \/ m \in doubled'
                                  \/ status'[m] \in Transitions[status[m]]]_missionVars
  <2> SUFFICES ASSUME NEW m \in Missions, status'[m] # status[m], status[m] # "absent",
                      m \notin doubled'
               PROVE  status'[m] \in Transitions[status[m]]
    OBVIOUS
  <2>1. status \in [Missions -> MissionStatus \cup {"absent"}]
    BY <1>1 DEF MissionInv, RunsAreSound, TypeOK
  <2>2. ASSUME NEW n \in Missions, AnswerMission(n) PROVE status'[m] \in Transitions[status[m]]
    BY <2>1, <2>2 DEF AnswerMission, Transitions
  <2>3. ASSUME NEW h \in Harnesses, Claim(h) \/ ClaimUnanswered(h)
        PROVE  status'[m] \in Transitions[status[m]]
    BY <2>1, <2>3 DEF Claim, ClaimUnanswered, Take, Transitions
  <2>4. ASSUME NEW h \in Harnesses, Report(h) \/ ReportUnanswered(h)
        PROVE  status'[m] \in Transitions[status[m]]
    <3>1. Working(h) /\ pc[h] = "report" /\ doubled' = doubled
      BY <2>4 DEF Report, ReportUnanswered, Working, ranVars
    <3>2. m = Head(list[h]) /\ status'[m] = to[h]
      BY <2>1, <2>4 DEF Report, ReportUnanswered
    <3>3. /\ status[m] = "in_progress"
          /\ to[h] \in {"done", "failed", "waiting_input", "interrupted"}
      BY <1>1, <3>1, <3>2 DEF MissionInv, RunsAreSound, OneRunAtATime, MailboxIsSound
    <3> QED
      BY <3>2, <3>3 DEF Transitions
  <2>5. \/ \E n \in Missions : AnswerMission(n)
        \/ \E h \in Harnesses : Claim(h) \/ ClaimUnanswered(h)
        \/ \E h \in Harnesses : Report(h) \/ ReportUnanswered(h)
    BY <1>1, <2>1 DEF MissionNext, Proceed, missionVars, Post, Poll, RunEnds, Leave, Stop, Crash, Restart
  <2> QED
    BY <2>2, <2>3, <2>4, <2>5
<1>2. MissionInv /\ [MissionNext]_missionVars => MissionInv'
  BY MissionStep
<1> QED
  BY <1>1, <1>2, MissionInitIsSound, PTL DEF MissionSpec, StatusFollowsTransitions
==============================================================================
