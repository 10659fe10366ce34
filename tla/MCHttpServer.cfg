\* Three descriptors and two workers: the queue of the pool can refuse a connection.
CONSTANTS
    c1 = c1
    c2 = c2
    c3 = c3
    w1 = w1
    w2 = w2
    None = None
    Clients <- MCClients
    Workers <- TwoWorkers
    Fds = {0, 1, 2}
    MaxRequest = 1
    MaxFd = 3
    Chunks <- OneEach
SPECIFICATION Spec
INVARIANTS OneOwner NothingStale
PROPERTIES LostOnlyByReuse OnlyRacesMiscount
SYMMETRY Symmetry
\* the server is idle once every client has come and gone
CHECK_DEADLOCK FALSE
