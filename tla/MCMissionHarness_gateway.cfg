\* Two harnesses share the mailbox of the gateway.
CONSTANTS
    m1 = m1
    m2 = m2
    Missions = {m1, m2}
    Harnesses = {h1, h2}
    Mailboxes <- GatewayMailboxes
SPECIFICATION MissionSpec
INVARIANT NeverDoubleExecuted
CHECK_DEADLOCK FALSE
