\* Two slots for three clients, so that a slot is freed, moved and filled again.
CONSTANTS
    c1 = c1
    c2 = c2
    c3 = c3
    None = None
    Clients <- MCClients
    UserLimit = 2
    Messages = 2
    Signals = 1
SPECIFICATION Spec
INVARIANTS TableIsExact ServerStopsLast NoEchoUnmoved
SYMMETRY Symmetry
\* the server is idle, or stopped, once every client has come and gone
CHECK_DEADLOCK FALSE
