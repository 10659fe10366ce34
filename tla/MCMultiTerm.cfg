\* The end of the server, with fairness, for two clients.
CONSTANTS
    c1 = c1
    c2 = c2
    c3 = c3
    None = None
    Clients <- TwoClients
    UserLimit = 2
    Messages = 1
    Signals = 2
SPECIFICATION FairSpec
PROPERTY TermEndsServer
CHECK_DEADLOCK FALSE
