SPECIFICATION FairSpec
CONSTANTS
    Queue = {q1, q2}
    Output = {q2}
    Socket = {s1, s2}
    Report = Report
    NoFd = NoFd
    MaxEvents = 3
    Buffer = 2
    MaxUnread = 3
    MaxPushes = 3
INVARIANTS TypeOK NoLostWakeup DroppedItemsRemain UnreadIsReported NoStaleEvents
PROPERTY ClientsTaken
CHECK_DEADLOCK FALSE
