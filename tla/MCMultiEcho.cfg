\* Whether a client can be sent its own data.
CONSTANTS
    c1 = c1
    c2 = c2
    c3 = c3
    None = None
    Clients <- MCClients
    UserLimit = 2
    Messages = 2
    Signals = 1
SPECIFICATION Spec
INVARIANT NoEcho
SYMMETRY Symmetry
CHECK_DEADLOCK FALSE
