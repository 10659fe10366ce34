\* Three clients, two descriptors, so that they are reused, run out, and the server
\* can be busy.  One client may send a part of a request and the rest, or a second
\* request, one a single piece, and one only connects; with fairness.
CONSTANTS
    c1 = c1
    c2 = c2
    c3 = c3
    w1 = w1
    w2 = w2
    None = None
    Clients <- MCClients
    Workers <- OneWorker
    Fds = {0, 1}
    MaxRequest = 1
    MaxFd = 2
    Chunks <- TwoOneNone
SPECIFICATION FairSpec
PROPERTY RequestSettled
\* the server is idle once every client has come and gone
CHECK_DEADLOCK FALSE
