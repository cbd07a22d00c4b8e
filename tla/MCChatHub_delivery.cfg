SPECIFICATION FairSpec
CONSTANTS
    c1 = c1
    c2 = c2
    general = general
    course = course
    m1 = m1
    m2 = m2
    m3 = m3
    m4 = m4
    w1 = w1
    w2 = w2
    Clients = {c1, c2}
    Channels = {general, course}
    Subs <- MCSubs
    Messages = {m1, m2}
    ChannelOf <- MCChannelOf
    Workers = {w1, w2}
    SendBuffer = 2
    QueueSize = 2
    IncomingSize = 2
    Disconnects = TRUE
    Stops = FALSE
INVARIANTS
    NoDoubleClose
PROPERTIES
    Delivered
    Joined
CHECK_DEADLOCK FALSE
