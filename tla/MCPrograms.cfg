\* The bounds of every program: two or three users, and texts that fill the buffers.
CONSTANTS
    t1 = t1
    t2 = t2
    c1 = c1
    c2 = c2
    w1 = w1
    w2 = w2
    h1 = h1
    h2 = h2
    h3 = h3
    v1 = v1
    v2 = v2
    v3 = v3
    Timers <- MCTimers
    Handles <- MCTimers
    Timeouts = {0, 1, 3, 4, 7}
    Lifetimes = {0, 1, 3, 4, 7}
    N = 2
    si = 2
    MaxNow = 6
    MaxLines = 4
    MaxKills = 3
    Sessions <- MCSessions
    BufSize = 12
    HeaderSize = 3
    FileSize = 2
    Clients <- MCClients
    Workers <- MCWorkers
    MaxData = 3
    none = none
    Guests = {1, 2, 3}
    Fds = {1, 2, 3}
    Handlers <- MCHandlers
    nobody = nobody
    Visits <- MCVisits
    MaxFails = 1
    Users = {1, 2, 3, 4}
    Socks = {1, 2, 3}
    UserMax = 3
    MaxSays = 2
    Jobs <- MCJobs
    PieceSize = 3
    CommandSize = 5
    u1 = u1
    u2 = u2
    n1 = n1
    n2 = n2
    Talkers <- MCTalkers
    Nicks <- MCNicks
    House = House
    MaxWords = 2
    Conns <- MCClients
    Room = 2
SPECIFICATION Spec
INVARIANTS WithinOneTick LinesInOrder ThreadsFinishRight
           AnswersAreRight UnansweredHasReason AllIsRead OneThreadEach
           HeardOnce ZombiesCounted LastIsHeard TransfersWhole RoomIsHeard LoadGoesOn
PROPERTIES WheelImplements HeapImplements
\* the programs end, are idle, or wait for one another for ever
CHECK_DEADLOCK FALSE
