CONSTANTS
    Requests = {r1}
    Daemon = daemon
    First = first
    NoPause = NoPause
    NoAck = NoAck
    MaxRestarts = 1
    MaxFaults = 1
SPECIFICATION FairSpec
INVARIANTS
    AcknowledgedIsDurable
    NoOrderOnUnreadChannel
PROPERTIES
    PauseTakesHold
