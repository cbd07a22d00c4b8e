SPECIFICATION FairSpec
CONSTANTS
    c1 = c1
    c2 = c2
    general = general
    course = course
    m1 = m1
    m2 = m2
    m3 = m3
    m4 = m4
    w1 = w1
    w2 = w2
    Clients = {c1}
    Channels = {general}
    Subs <- MCSubs
    Messages = {m1, m2, m3, m4}
    ChannelOf <- MCChannelOf
    Workers = {w1}
    SendBuffer = 1
    QueueSize = 1
    IncomingSize = 4
    Disconnects = FALSE
    Stops = TRUE
PROPERTIES
    ShutdownReturns
CHECK_DEADLOCK FALSE
