\* Two children, both of which may crash, three clients and a termination signal.
CONSTANTS
    c1 = c1
    c2 = c2
    c3 = c3
    Nobody = Nobody
    ProcessNum = 2
    Clients <- MCClients
    Crashes = 2
SPECIFICATION FairSpec
INVARIANTS ParentLeavesLast
PROPERTIES EveryClientAccepted TermEndsPool ParentFollows
\* the pool is idle or gone once every client has been accepted
CHECK_DEADLOCK FALSE
