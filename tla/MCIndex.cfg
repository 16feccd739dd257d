CONSTANTS
    c1 = c1
    c2 = c2
    Client <- MCClient
    Nick <- MCNick
    Lower <- MCLower
    BadNick = BadNick
    NoNick = NoNick
    NoClient = NoClient
    Chan <- MCChan
    NoChan = NoChan
    Persistent <- MCPersistent
    PasswordSet = TRUE
    QueueCap = 2
    EventCap = 1
    ConnCap = 1
    SentVerb <- IndexVerbs
    DbFaults = FALSE
SPECIFICATION Spec
SYMMETRY MCSymmetry
INVARIANT TypeOK
INVARIANT IndexConsistent
INVARIANT IndexedNormalOrTerminated
INVARIANT DbMirrorsIndex
PROPERTY IndexEntryStable
PROPERTY RegistrySpec
CHECK_DEADLOCK FALSE
PROPERTY LifecycleSpec
