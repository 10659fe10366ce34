\* Two producers and two workers; three workers with spurious wake-ups.
CONSTANTS
    p1 = p1
    p2 = p2
    w1 = w1
    w2 = w2
    r1 = r1
    r2 = r2
    NULL = NULL
    NoThread = NoThread
    Producers <- MCProducers
    Workers <- MCWorkers
    Requests <- MCRequests
    MaxRequest = 1
    c1 = c1
    c2 = c2
    c3 = c3
    t1 = t1
    t2 = t2
    t3 = t3
    Main = Main
    NoTask = NoTask
    NoHolder = NoHolder
    CondWorkers <- MCCondWorkers
    Tasks <- MCTasks
SPECIFICATION FairPools
INVARIANTS WakeAccounting WokenFindsWork TakeFindsTask
PROPERTIES ImplementsWorkQueue EveryRequestRuns
           CondImplementsQueue EveryTaskRuns DestroyEnds
\* a destroyed pool, or one with nothing to append or add, stops
CHECK_DEADLOCK FALSE
