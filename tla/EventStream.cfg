\* One browser over a ring and a channel of two, with five changes and one
\* restart. The number of changes is bounded, so it stops.
SPECIFICATION FairSpec
CONSTANTS
    a = a
    Clients = {a}
    Events <- MCEvents
    RingCapacity = 2
    ChannelCapacity = 2
    StreamsTotal = 1
    SameSecond = FALSE
    MaxChanges = 5
    MaxRestarts = 1
    MaxFaults = 1
CHECK_DEADLOCK FALSE
INVARIANTS
    DrainedMissedNothing
PROPERTIES
    FollowsFeed
    StreamCatchesUp
