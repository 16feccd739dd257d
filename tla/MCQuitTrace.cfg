CONSTANTS
    c1 = c1
    c2 = c2
    Client <- MCClient
    Nick <- MCNick
    Lower <- MCLower
    BadNick = BadNick
    NoNick = NoNick
    NoClient = NoClient
    Chan <- MCChan
    NoChan = NoChan
    Persistent <- MCPersistent
    PasswordSet = FALSE
    QueueCap = 1
    EventCap = 1
    ConnCap = 1
    SentVerb <- ChannelVerbs
    DbFaults = FALSE
SPECIFICATION Spec
INVARIANT QuitLeavesNoTrace
CHECK_DEADLOCK FALSE
