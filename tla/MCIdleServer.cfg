\* Two clients and descriptors that can be reused, with fairness.
CONSTANTS
    c1 = c1
    c2 = c2
    None = None
    Listen = Listen
    Signal = Signal
    Stray = Stray
    Clients <- MCClients
    Timers = {1, 2, 3}
    Fds = {1, 2}
    TIMESLOT = 1
    Messages = 1
SPECIFICATION FairSpec
INVARIANT TimersMatch
PROPERTIES OnlyTheIdle NothingOverdue IdleIsClosedIfTold
\* the server is idle, or stopped, once every client has come and gone
CHECK_DEADLOCK FALSE
