----------------------------- MODULE ForkServer -----------------------------
(***************************************************************************)
(* multi_process_server of 40_multi_process_server/main.cpp: a process per *)
(* client, and a handler of SIGCHLD that waits for one child.              *)
(***************************************************************************)
EXTENDS Naturals, FiniteSets

CONSTANTS
    Visits,     \* the connections there will be
    MaxFails    \* how often fork fails

ASSUME ForkAssumption == IsFiniteSet(Visits)

VARIABLES
    visit,      \* visit[v]: "none", "queued", "accepted", "served", "ended",
                \* "refused" (fork failed)
    process,    \* the child of v: "none", "runs", "zombie", "reaped"
    pending,    \* SIGCHLD is pending in the parent
    inHandler,  \* the parent runs child_exit, and has not called waitpid
    parentPc,   \* "accept", "fork"
    merged,     \* history: how many SIGCHLD became one with a pending one
    fails

forkVars == <<visit, process, pending, inHandler, parentPc, merged, fails>>

ForkInit ==
    /\ visit = [v \in Visits |-> "none"] /\ process = [v \in Visits |-> "none"]
    /\ pending = FALSE /\ inHandler = FALSE /\ parentPc = "accept"
    /\ merged = 0 /\ fails = 0

Arrive(v) ==
    /\ visit[v] = "none"
    /\ visit' = [visit EXCEPT ![v] = "queued"]
    /\ UNCHANGED <<process, pending, inHandler, parentPc, merged, fails>>

\* The client closes its end.
Depart(v) ==
    /\ visit[v] = "served"
    /\ visit' = [visit EXCEPT ![v] = "ended"]
    /\ UNCHANGED <<process, pending, inHandler, parentPc, merged, fails>>

\* A signal interrupts accept, which is called again.
ParentAccept(v) ==
    /\ parentPc = "accept" /\ ~inHandler /\ visit[v] = "queued"
    /\ visit' = [visit EXCEPT ![v] = "accepted"]
    /\ parentPc' = "fork"
    /\ UNCHANGED <<process, pending, inHandler, merged, fails>>

ParentFork(v) ==
    /\ parentPc = "fork" /\ ~inHandler /\ visit[v] = "accepted"
    /\ \/ /\ visit' = [visit EXCEPT ![v] = "served"]
          /\ process' = [process EXCEPT ![v] = "runs"]
          /\ UNCHANGED fails
       \/ /\ fails < MaxFails
          /\ visit' = [visit EXCEPT ![v] = "refused"]
          /\ fails' = fails + 1
          /\ UNCHANGED process
    /\ parentPc' = "accept"
    /\ UNCHANGED <<pending, inHandler, merged>>

\* read returns 0: exit(0), and SIGCHLD
ChildExit(v) ==
    /\ process[v] = "runs" /\ visit[v] = "ended"
    /\ process' = [process EXCEPT ![v] = "zombie"]
    /\ pending' = TRUE
    /\ merged' = IF pending THEN merged + 1 ELSE merged
    /\ UNCHANGED <<visit, inHandler, parentPc, fails>>

\* mutant: a SIGCHLD that comes while the handler runs is lost
HandlerEnterNested ==
    /\ pending
    /\ pending' = FALSE /\ inHandler' = TRUE
    /\ UNCHANGED <<visit, process, parentPc, merged, fails>>

\* The handler blocks SIGCHLD while it runs.
HandlerEnter ==
    /\ pending /\ ~inHandler
    /\ pending' = FALSE /\ inHandler' = TRUE
    /\ UNCHANGED <<visit, process, parentPc, merged, fails>>

Zombies == {v \in Visits : process[v] = "zombie"}

\* waitpid(-1, WNOHANG)
HandlerWaitpid ==
    /\ inHandler /\ inHandler' = FALSE
    /\ IF Zombies = {} THEN UNCHANGED process
       ELSE \E v \in Zombies : process' = [process EXCEPT ![v] = "reaped"]
    /\ UNCHANGED <<visit, pending, parentPc, merged, fails>>

ForkStep == \/ \E v \in Visits : ParentAccept(v) \/ ParentFork(v) \/ ChildExit(v)
            \/ HandlerEnter \/ HandlerWaitpid
ForkNext == ForkStep \/ \E v \in Visits : Arrive(v) \/ Depart(v)

ForkSpec == ForkInit /\ [][ForkNext]_forkVars

-----------------------------------------------------------------------------
(***************************************************************************)
(* Every child that has ended is reaped, is about to be, or is one of      *)
(* those whose SIGCHLD merged with another: the handler waits for one      *)
(* child per signal, and a zombie is left for every merged signal.         *)
(***************************************************************************)
ZombiesCounted ==
    Cardinality(Zombies) = merged + (IF pending THEN 1 ELSE 0)
                                  + (IF inHandler THEN 1 ELSE 0)
=============================================================================
