CONSTANTS
    c1 = c1
    c2 = c2
    Client <- MCClient
    Nick <- MCNick2
    Lower <- MCLower
    BadNick = BadNick
    NoNick = NoNick
    NoClient = NoClient
    Chan <- MCChan
    NoChan = NoChan
    Persistent <- MCPersistent
    PasswordSet = FALSE
    QueueCap = 1
    EventCap = 1
    ConnCap = 1
    SentVerb <- OperVerbs
    DbFaults = FALSE
SPECIFICATION TimedSpec
CHECK_DEADLOCK FALSE
PROPERTY SilentClientRemoved
