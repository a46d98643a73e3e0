---------------------------- MODULE MissionHarness ----------------------------
(***************************************************************************)
(* The mission mailbox and the harnesses that serve it (deploy/container/  *)
(* harness).  The orchestrator posts missions; a harness polls the mailbox,*)
(* claims one mission, runs an agent on it and reports how it ended; a     *)
(* human re-queues what waits for input or was interrupted.                *)
(*                                                                         *)
(* A call on the mailbox is one action; an agent run is the time between   *)
(* Claim and RunEnds.  There are two mailboxes.  That of the interface     *)
(* (mailbox.ts) moves a mission from pending to in_progress or refuses.    *)
(* EthosMailbox asks the gateway for the same, with expect_status, which   *)
(* ethos_update_section does not know: its claim succeeds whatever the     *)
(* status is.  Neither looks at the status that a report overwrites; the   *)
(* legal transitions, which InMemoryMailbox asserts, are a property here.  *)
(***************************************************************************)
EXTENDS Naturals, Sequences, FiniteSets

CONSTANTS
    Missions,      \* mission ids
    Harnesses,     \* harness processes that share the mailbox
    Mailboxes      \* mailboxes, with what happens there; a behaviour has one of them

\* kind: that of the interface or of the gateway; posted: the missions there may be; answers: how
\* often each is re-queued; restarts: how often harnesses are started again.
ASSUME MailboxAssumption ==
    \A b \in Mailboxes : /\ b.kind \in {"contract", "gateway"}
                         /\ b.posted \subseteq Missions
                         /\ b.answers \in Nat /\ b.restarts \in Nat

VARIABLES
    mailbox,    \* the mailbox of this behaviour
    status,     \* the status of each mission in the mailbox
    queue,      \* the missions of the mailbox, oldest first
    pc,         \* where each harness is
    list,       \* what the poll returned; the head is claimed, or is being run
    to,         \* the status that the harness will report
    stopped,    \* the flag that stop() sets
    restarts,   \* how many times harnesses were started again
    answers,    \* history: how often each mission was re-queued
    runs,       \* history: how many agents were spawned for each mission
    ranBy,      \* history: how many of them by each harness
    doubled,    \* history: the missions claimed while they were not pending
    lost        \* history: the missions in progress whose harness died, or
                \* got no answer to its claim or its report

ranVars == <<runs, ranBy, doubled>>
missionVars == <<mailbox, status, queue, pc, list, to, stopped, restarts, answers,
                 ranVars, lost>>
-----------------------------------------------------------------------------
MissionStatus == {"pending", "in_progress", "done", "failed", "interrupted",
                  "waiting_input"}

Transitions ==
    [pending       |-> {"in_progress"},
     in_progress   |-> {"done", "failed", "waiting_input", "interrupted"},
     waiting_input |-> {"pending"},
     interrupted   |-> {"pending"},
     done          |-> {},
     failed        |-> {}]

Outcomes == {"done", "failed", "needs_input", "interrupted"}

\* Mutant: an interrupted run is queued again at once.
NextStatusRequeues(outcome) ==
    CASE outcome = "needs_input" -> "waiting_input"
      [] outcome = "interrupted" -> "pending"
      [] OTHER -> outcome

NextStatus(outcome) == IF outcome = "needs_input" THEN "waiting_input" ELSE outcome

Steps == {"idle", "claim", "run", "report", "down"}

MissionInit ==
    /\ mailbox \in Mailboxes
    /\ status = [m \in Missions |-> "absent"]
    /\ queue = <<>>
    /\ pc = [h \in Harnesses |-> "idle"]
    /\ list = [h \in Harnesses |-> <<>>]
    /\ to = [h \in Harnesses |-> "done"]
    /\ stopped = [h \in Harnesses |-> FALSE]
    /\ restarts = 0
    /\ answers = [m \in Missions |-> 0]
    /\ runs = [m \in Missions |-> 0]
    /\ ranBy = [h \in Harnesses |-> [m \in Missions |-> 0]]
    /\ doubled = {} /\ lost = {}

\* The harness goes to its next step, with what is left of its list.
Goto(h, step, rest) ==
    /\ pc' = [pc EXCEPT ![h] = step]
    /\ list' = [list EXCEPT ![h] = rest]

\* The process is gone, with all it had in memory.
Exit(h) ==
    /\ Goto(h, "down", <<>>)
    /\ to' = [to EXCEPT ![h] = "done"]
    /\ stopped' = [stopped EXCEPT ![h] = FALSE]

\* The tick is over.
EndTick(h) ==
    /\ Goto(h, "idle", <<>>)
    /\ to' = [to EXCEPT ![h] = "done"]

Working(h) == pc[h] \in {"run", "report"}
-----------------------------------------------------------------------------
\* The orchestrator writes a mission section.
Post(m) ==
    /\ m \in mailbox.posted /\ status[m] = "absent"
    /\ status' = [status EXCEPT ![m] = "pending"]
    /\ queue' = Append(queue, m)
    /\ UNCHANGED <<mailbox, pc, list, to, stopped, restarts, answers, ranVars, lost>>

\* A human answers: the mission is pending again.
AnswerMission(m) ==
    /\ status[m] \in {"waiting_input", "interrupted"}
    /\ answers[m] < mailbox.answers
    /\ status' = [status EXCEPT ![m] = "pending"]
    /\ answers' = [answers EXCEPT ![m] = @ + 1]
    /\ UNCHANGED <<mailbox, queue, pc, list, to, stopped, restarts, ranVars, lost>>

\* Mutant: only the oldest mission is looked at.
OldestPending == {i \in DOMAIN queue : i = 1 /\ status[queue[i]] = "pending"}

\* listPending: where the pending missions are in the mailbox.
Pending == {i \in DOMAIN queue : status[queue[i]] = "pending"}

\* Some places of the mailbox, oldest first.
OldestFirst(S) ==
    {p \in [1..Cardinality(S) -> S] : \A i, j \in DOMAIN p : i < j => p[i] < p[j]}

\* tickOnce polls.  After an empty list, and after an error, it polls again.
Poll(h) ==
    /\ pc[h] = "idle" /\ ~stopped[h]
    /\ Pending # {}
    /\ \E p \in OldestFirst(Pending) :
          Goto(h, "claim", [i \in DOMAIN p |-> queue[p[i]]])
    /\ UNCHANGED <<mailbox, status, queue, to, stopped, restarts, answers, ranVars, lost>>

\* Mutant: the loop does not look where its list ends.
NextCandidateAlways(h) == Goto(h, "claim", Tail(list[h]))

\* After a claim that did not succeed: the next candidate, or the end of the tick.
NextCandidate(h) ==
    LET rest == Tail(list[h]) IN
    Goto(h, IF rest = <<>> THEN "idle" ELSE "claim", rest)

\* Mutant: the precondition is dropped.
ClaimableAlways(m) == TRUE

\* The precondition of a claim: the gateway has none.
Claimable(m) == mailbox.kind = "contract" => status[m] = "pending"

\* The mission is in progress, whatever it was.
Take(m) ==
    /\ status' = [status EXCEPT ![m] = "in_progress"]
    /\ doubled' = IF status[m] = "pending" THEN doubled ELSE doubled \cup {m}

\* claim, then a fresh agent.
Claim(h) ==
    LET m == Head(list[h]) IN
    /\ pc[h] = "claim"
    /\ \/ /\ Claimable(m)
          /\ Take(m)
          /\ runs' = [runs EXCEPT ![m] = @ + 1]
          /\ ranBy' = [ranBy EXCEPT ![h][m] = @ + 1]
          /\ Goto(h, "run", list[h])
       \/ /\ ~Claimable(m)
          /\ NextCandidate(h)
          /\ UNCHANGED <<status, ranVars>>
    /\ UNCHANGED <<mailbox, queue, to, stopped, restarts, answers, lost>>

\* The call throws: claim returns false, whether or not it took effect.
ClaimUnanswered(h) ==
    LET m == Head(list[h]) IN
    /\ pc[h] = "claim"
    /\ NextCandidate(h)
    /\ \/ /\ Claimable(m)
          /\ Take(m)
          /\ lost' = lost \cup {m}
       \/ UNCHANGED <<status, doubled, lost>>
    /\ UNCHANGED <<mailbox, queue, to, stopped, restarts, answers, runs, ranBy>>

\* The agent ends, by itself or killed after its timeout.  Once stop() has been
\* called the runner calls every end an interruption; a runner that throws has
\* failed in any case.
RunEnds(h) ==
    /\ pc[h] = "run"
    /\ \E outcome \in IF stopped[h] THEN {"interrupted", "failed"}
                     ELSE Outcomes \ {"interrupted"} :
          to' = [to EXCEPT ![h] = NextStatus(outcome)]
    /\ Goto(h, "report", list[h])
    /\ UNCHANGED <<mailbox, status, queue, stopped, restarts, answers, ranVars, lost>>

\* Mutant: an escalation is not written to the mailbox.
ReportTerminal(h) ==
    /\ pc[h] = "report"
    /\ status' = [status EXCEPT ![Head(list[h])] = IF to[h] = "waiting_input" THEN @ ELSE to[h]]
    /\ EndTick(h)
    /\ UNCHANGED <<mailbox, queue, stopped, restarts, answers, ranVars, lost>>

\* report writes the status without a condition; the tick is over.
Report(h) ==
    /\ pc[h] = "report"
    /\ status' = [status EXCEPT ![Head(list[h])] = to[h]]
    /\ EndTick(h)
    /\ UNCHANGED <<mailbox, queue, stopped, restarts, answers, ranVars, lost>>

\* report throws, whether or not it took effect: the loop logs it and goes on.
ReportUnanswered(h) ==
    LET m == Head(list[h]) IN
    /\ pc[h] = "report"
    /\ status' \in {status, [status EXCEPT ![m] = to[h]]}
    /\ lost' = lost \cup {m}
    /\ EndTick(h)
    /\ UNCHANGED <<mailbox, queue, stopped, restarts, answers, ranVars>>

\* stop(): it is looked at between ticks, and by the runner.
Stop(h) ==
    /\ pc[h] # "down" /\ ~stopped[h]
    /\ stopped' = [stopped EXCEPT ![h] = TRUE]
    /\ UNCHANGED <<mailbox, status, queue, pc, list, to, restarts, answers, ranVars, lost>>

\* The loop ends.
Leave(h) ==
    /\ pc[h] = "idle" /\ stopped[h]
    /\ Exit(h)
    /\ UNCHANGED <<mailbox, status, queue, restarts, answers, ranVars, lost>>

\* Mutant: the mission of a harness that died is queued again.
CrashRequeues(h) ==
    /\ pc[h] # "down"
    /\ status' = IF Working(h) THEN [status EXCEPT ![Head(list[h])] = "pending"] ELSE status
    /\ Exit(h)
    /\ UNCHANGED <<mailbox, queue, restarts, answers, ranVars, lost>>

\* The process dies, and its agent with it.
Crash(h) ==
    /\ pc[h] # "down"
    /\ lost' = IF Working(h) THEN lost \cup {Head(list[h])} ELSE lost
    /\ Exit(h)
    /\ UNCHANGED <<mailbox, status, queue, restarts, answers, ranVars>>

\* The container is started again: nothing of the old process is left.
Restart(h) ==
    /\ pc[h] = "down"
    /\ restarts < mailbox.restarts
    /\ restarts' = restarts + 1
    /\ Goto(h, "idle", <<>>)
    /\ UNCHANGED <<mailbox, status, queue, to, stopped, answers, ranVars, lost>>

\* What the loop and the mailbox do of themselves.
Proceed(h) ==
    \/ Poll(h) \/ Claim(h) \/ ClaimUnanswered(h)
    \/ RunEnds(h) \/ Report(h) \/ ReportUnanswered(h)
    \/ Leave(h)

MissionNext ==
    \/ \E m \in Missions : Post(m) \/ AnswerMission(m)
    \/ \E h \in Harnesses : Proceed(h) \/ Stop(h) \/ Crash(h) \/ Restart(h)

\* The loop keeps polling, the runner kills an agent that takes too long, every
\* call returns or throws, and the gateway answers some of the claims that are
\* sent again and again.  Nobody need post, answer, stop or restart.
Fairness == \A h \in Harnesses : WF_missionVars(Proceed(h)) /\ SF_missionVars(Claim(h))

MissionSpec == MissionInit /\ [][MissionNext]_missionVars /\ Fairness
-----------------------------------------------------------------------------
(***************************************************************************)
(* Properties                                                              *)
(***************************************************************************)

\* Every variable keeps its type; the list of a busy harness is not empty.
TypeOK ==
    /\ status \in [Missions -> MissionStatus \cup {"absent"}]
    /\ queue \in Seq(Missions)
    /\ \A i, j \in DOMAIN queue : queue[i] = queue[j] => i = j
    /\ pc \in [Harnesses -> Steps]
    /\ list \in [Harnesses -> Seq(Missions)]
    /\ \A h \in Harnesses : list[h] = <<>> <=> pc[h] \in {"idle", "down"}
    /\ to \in [Harnesses -> MissionStatus]
    /\ stopped \in [Harnesses -> BOOLEAN]
    /\ restarts \in 0..mailbox.restarts
    /\ answers \in [Missions -> 0..mailbox.answers]
    /\ mailbox \in Mailboxes
    /\ runs \in [Missions -> Nat]
    /\ ranBy \in [Harnesses -> [Missions -> Nat]]
    /\ doubled \subseteq Missions /\ lost \subseteq Missions

\* "Two harnesses never double-execute": no mission is run by two of them at the
\* same time.  That is what the claim is for, and what the gateway does not give.
NeverDoubleExecuted ==
    \A g, h \in Harnesses :
        Working(g) /\ Working(h) /\ Head(list[g]) = Head(list[h]) => g = h

\* A mission that is being run is in progress for everybody, and nobody else runs it,
\* unless it was claimed while it was not pending.
OneRunAtATime ==
    \A h \in Harnesses : Working(h) /\ Head(list[h]) \notin doubled =>
        /\ status[Head(list[h])] = "in_progress"
        /\ \A g \in Harnesses \ {h} : Working(g) => Head(list[g]) # Head(list[h])

\* A harness spawns at most one agent for each time that somebody queued the
\* mission, and so do all of them together for a mission that was only claimed
\* while it was pending: deaths, unanswered claims and unanswered reports run
\* nothing twice.
RunsAreJustified ==
    \A m \in Missions :
        /\ \A h \in Harnesses : ranBy[h][m] <= 1 + answers[m]
        /\ m \notin doubled => runs[m] <= 1 + answers[m]

\* What was only claimed while it was pending takes the legal transitions, although
\* report does not look at the status it overwrites: InMemoryMailbox's assertion
\* never fires.
StatusFollowsTransitions ==
    [][\A m \in Missions : \/ status'[m] = status[m]
                           \/ status[m] = "absent" \/ m \in doubled'
                           \/ status'[m] \in Transitions[status[m]]]_missionVars

\* A mission does not stay in progress, unless its harness died or a call about
\* it had no answer.
OnlyLossStrands ==
    \A m \in Missions :
        status[m] = "in_progress" ~> status[m] # "in_progress" \/ m \in lost

\* As long as one harness stays up, every pending mission is taken.
PendingIsTaken ==
    (\E h \in Harnesses : <>[](pc[h] # "down" /\ ~stopped[h])) =>
        \A m \in Missions : status[m] = "pending" ~> status[m] # "pending"

\* The types, and what a run of a mission rests on: nobody else runs it, somebody
\* queued it, and behind the interface it was pending when it was claimed.
RunsAreSound ==
    /\ TypeOK /\ OneRunAtATime /\ RunsAreJustified
    /\ mailbox.kind = "contract" => doubled = {}
=============================================================================
