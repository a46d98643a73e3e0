\* Two harnesses share two missions of either mailbox; calls get lost, harnesses stop and die.
CONSTANTS
    m1 = m1
    m2 = m2
    Missions = {m1, m2}
    Harnesses = {h1, h2}
    Mailboxes <- MCMailboxes
SPECIFICATION MissionSpec
INVARIANT RunsAreSound
PROPERTY StatusFollowsTransitions
PROPERTY OnlyLossStrands
PROPERTY PendingIsTaken
CHECK_DEADLOCK FALSE
