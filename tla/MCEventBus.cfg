CONSTANTS
    learner = learner
    control = control
    monitor = monitor
    p1 = p1
    p2 = p2
    l1 = l1
    t1 = t1
    stream = stream
    Stream = stream
    Plugins <- LoadOrder
    Event = {p1, p2, l1, t1}
    EVENTS <- Types
    EventType <- TypeOf
    Origin <- OriginOf
    Subscriptions <- Subscribed
    Background = {control}
    Writers = {learner, monitor}
    Responsive = {learner, control}
    ShutdownRaises = {control}
SPECIFICATION FairSpec
CHECK_DEADLOCK FALSE
INVARIANTS
    TypeOK
    SentinelLast
PROPERTIES
    RefinesMailboxes
    Drained
