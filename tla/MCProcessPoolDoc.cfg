\* The documented end of the parent, with no condition on when the children die.
CONSTANTS
    c1 = c1
    c2 = c2
    c3 = c3
    Nobody = Nobody
    ProcessNum = 2
    Clients <- MCClients
    Crashes = 2
SPECIFICATION FairSpec
PROPERTY ParentAlwaysFollows
CHECK_DEADLOCK FALSE
