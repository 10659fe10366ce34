------------------------------ MODULE SemPair -------------------------------
(***************************************************************************)
(* sem_test2 and sem_test3 of 06_system_v_ipc/main.cpp: a writer and a     *)
(* reader that pass lines through shared memory, with two System V         *)
(* semaphores.  Either may be started first, may be killed, and is started *)
(* again.  Whoever creates the set initialises it, in two calls.           *)
(***************************************************************************)
EXTENDS Naturals, Sequences

CONSTANTS
    MaxLines,   \* the user types so many lines, the last of which is "exit"
    MaxKills    \* how often a process is killed

ASSUME SemAssumption == MaxLines \in Nat \ {0} /\ MaxKills \in Nat

Procs == {"writer", "reader"}
Exit == MaxLines

VARIABLES
    sem,        \* the values of the set: [read, write], or <<>> if there is none
    msg,        \* the shared memory: the number of a line
    ppc,        \* the step of each process
    typed,      \* lines typed so far
    printed,    \* the lines the reader has printed
    kills, torn \* history: how many were killed, one between its two semops

semVars == <<sem, msg, ppc, typed, printed, kills, torn>>

SemInit ==
    /\ sem = <<>> /\ msg = 0
    /\ ppc = [p \in Procs |-> "off"]
    /\ typed = 0 /\ printed = <<>>
    /\ kills = 0 /\ torn = FALSE

Goto(p, step) == ppc' = [ppc EXCEPT ![p] = step]

\* semget: the set is created with both values 0
OpenSet(p) ==
    /\ ppc[p] = "off" /\ (p = "writer" => typed < Exit)
    /\ IF sem = <<>> THEN sem' = [read |-> 0, write |-> 0] /\ Goto(p, "setRead")
                     ELSE Goto(p, "wait") /\ UNCHANGED sem
    /\ UNCHANGED <<msg, typed, printed, kills, torn>>

SetRead(p) ==
    /\ ppc[p] = "setRead" /\ sem # <<>>
    /\ sem' = [sem EXCEPT !.read = 0] /\ Goto(p, "setWrite")
    /\ UNCHANGED <<msg, typed, printed, kills, torn>>

SetWrite(p) ==
    /\ ppc[p] = "setWrite" /\ sem # <<>>
    /\ sem' = [sem EXCEPT !.write = 1] /\ Goto(p, "wait")
    /\ UNCHANGED <<msg, typed, printed, kills, torn>>

\* Of whom a process waits for, and whom it releases.
Mine(p)   == IF p = "writer" THEN "write" ELSE "read"
TheirsOwn(p) == IF p = "writer" THEN "write" ELSE "read"   \* mutant: releases itself
Theirs(p) == IF p = "writer" THEN "read" ELSE "write"

SemDown(p) ==
    /\ ppc[p] = "wait" /\ sem # <<>> /\ sem[Mine(p)] > 0
    /\ sem' = [sem EXCEPT ![Mine(p)] = @ - 1] /\ Goto(p, "use")
    /\ UNCHANGED <<msg, typed, printed, kills, torn>>

WriteLine ==
    /\ ppc["writer"] = "use" /\ typed < Exit
    /\ typed' = typed + 1 /\ msg' = typed'
    /\ Goto("writer", "release")
    /\ UNCHANGED <<sem, printed, kills, torn>>

\* Reading "exit", the reader removes the set.
ReadLine ==
    /\ ppc["reader"] = "use"
    /\ IF msg = Exit
       THEN Goto("reader", "done") /\ sem' = <<>> /\ UNCHANGED printed
       ELSE Goto("reader", "release") /\ printed' = Append(printed, msg) /\ UNCHANGED sem
    /\ UNCHANGED <<msg, typed, kills, torn>>

\* semop fails, unnoticed, when the set has been removed.
SemUp(p) ==
    /\ ppc[p] = "release"
    /\ sem' = IF sem = <<>> THEN sem ELSE [sem EXCEPT ![Theirs(p)] = @ + 1]
    /\ Goto(p, IF p = "writer" THEN "compare" ELSE "wait")
    /\ UNCHANGED <<msg, typed, printed, kills, torn>>

CompareMsg ==
    /\ ppc["writer"] = "compare"
    /\ Goto("writer", IF msg = Exit THEN "done" ELSE "wait")
    /\ UNCHANGED <<sem, msg, typed, printed, kills, torn>>

Kill(p) ==
    /\ ppc[p] \notin {"off", "done"} /\ kills < MaxKills
    /\ kills' = kills + 1
    /\ torn' = (torn \/ ppc[p] \in {"setRead", "setWrite", "use", "release"})
    /\ Goto(p, "off")
    /\ UNCHANGED <<sem, msg, typed, printed>>

SemStep == \/ \E p \in Procs : \/ OpenSet(p) \/ SetRead(p) \/ SetWrite(p)
                               \/ SemDown(p) \/ SemUp(p)
           \/ WriteLine \/ ReadLine \/ CompareMsg
SemNext == SemStep \/ \E p \in Procs : Kill(p)

SemSpec == SemInit /\ [][SemNext]_semVars

\* A process that takes no step: it waits for the other, or is over.
CannotGo(p) == \/ ppc[p] = "wait" /\ (sem = <<>> \/ sem[Mine(p)] = 0)
               \/ ppc[p] = "done"
               \/ ppc[p] = "off" /\ p = "writer" /\ typed = Exit

(***************************************************************************)
(* The reader prints every line once and in order, whoever starts first    *)
(* and finds the set half initialised, and the pair stops only when "exit" *)
(* has been read.  If a process was killed while it owed the other a semop *)
(* lines may be missing and both may wait: the values of a set outlive its *)
(* users, and nobody sets them again.                                      *)
(***************************************************************************)
LinesInOrder ==
    /\ \A i, j \in DOMAIN printed : i < j => printed[i] < printed[j]
    /\ ~torn => /\ printed = [i \in 1..Len(printed) |-> i]
                /\ ppc["reader"] = "done" \/ \E p \in Procs : ~CannotGo(p)
=============================================================================
