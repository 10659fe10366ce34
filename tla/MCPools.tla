------------------------------- MODULE MCPools -------------------------------
(***************************************************************************)
(* A behaviour runs one of the two pools: two producers that append two    *)
(* requests and the null pointer to the queue of _max_request = 1 of       *)
(* thread_pool, so that it fills and an append is refused; or three        *)
(* workers and three tasks of the pool with a condition variable.          *)
(***************************************************************************)
EXTENDS ThreadPool, CondPool

CONSTANTS p1, p2, w1, w2, r1, r2, t1, t2, t3, c1, c2, c3

MCProducers   == {p1, p2}
MCWorkers     == {w1, w2}
MCRequests    == {r1, r2, NULL}
MCCondWorkers == {c1, c2, c3}
MCTasks       == {t1, t2, t3}

VARIABLE chosen     \* which of them runs

poolsVars == <<chosen, vars, condVars>>

PoolsInit == chosen \in {"semaphore", "condition"} /\ Init /\ CondInit

Semaphore(A) == chosen = "semaphore" /\ A /\ UNCHANGED <<chosen, condVars>>
Condition(A) == chosen = "condition" /\ A /\ UNCHANGED <<chosen, vars>>

PoolsNext == Semaphore(Next) \/ Condition(CondNext)

\* Fairness and CondFairness, each of the pool that runs
PoolsFairness ==
    /\ \A p \in Producers : WF_poolsVars(Semaphore(ProducerStep(p)))
    /\ \A w \in Workers : /\ WF_poolsVars(Semaphore(WorkerStep(w)))
                          /\ SF_poolsVars(Semaphore(RunLock(w)))
    /\ WF_poolsVars(Condition(MainStep)) /\ SF_poolsVars(Condition(AddPush))
    /\ \A w \in CondWorkers : /\ WF_poolsVars(Condition(CondWorkerStep(w)))
                              /\ SF_poolsVars(Condition(CondLock(w)))

FairPools == PoolsInit /\ [][PoolsNext]_poolsVars /\ PoolsFairness
==============================================================================
