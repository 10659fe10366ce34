\* Whether an inactive connection is always closed.
CONSTANTS
    c1 = c1
    c2 = c2
    None = None
    Listen = Listen
    Signal = Signal
    Stray = Stray
    Clients <- MCClients
    Timers = {1, 2, 3}
    Fds = {1, 2}
    TIMESLOT = 1
    Messages = 1
SPECIFICATION FairSpec
PROPERTY IdleIsClosed
CHECK_DEADLOCK FALSE
