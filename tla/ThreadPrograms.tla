--------------------------- MODULE ThreadPrograms ---------------------------
(***************************************************************************)
(* The small programs of 84_multi_threading, 48_multi_thread_server and    *)
(* 04_thread in which threads share mutexes, semaphores and variables.     *)
(* A thread is the sequence of the calls that synchronise it and of its    *)
(* reads and writes of shared variables; a machine with one instruction    *)
(* for each runs them all.  Loops of a fixed length are shortened to two   *)
(* turns.                                                                  *)
(***************************************************************************)
EXTENDS Integers, Sequences

VARIABLES
    program,    \* which program runs
    at,         \* at[t]: the next instruction of thread t; 0 before it is created
    reg,        \* reg[t]: the value t has read
    mem,        \* the shared variables
    holder,     \* holder[m]: the thread that has locked mutex m
    count,      \* the semaphores
    cancelled,  \* the threads pthread_cancel has been called for
    cleanup,    \* the threads that have pushed a cleanup handler
    differed    \* a thread has found two variables different

programVars == <<program, at, reg, mem, holder, count, cancelled, cleanup, differed>>

Names == {"main", "t1", "t2", "child"}
Vars == {"x", "y"}
Mutexes == {"a", "b", "copy of a"}
unlocked == "unlocked"
Over == 99      \* where a thread that has ended is

Lock(m) == <<"lock", m>>
Unlock(m) == <<"unlock", m>>
Bump(x, n) == <<<<"load", x>>, <<"store", x, n>>>>
Twice(s) == s \o s
For(s) == s \o <<<<"again">>>>
Both == <<<<"create", "t1">>, <<"create", "t2">>, <<"join", "t1">>, <<"join", "t2">>>>

\* 84 deadlock_test, routine
LockOrder == [
    main |-> <<<<"create", "t1">>, Lock("a"), Lock("b"), Unlock("b"), Unlock("a"),
               <<"join", "t1">>>>,
    t1   |-> <<Lock("b"), Lock("a"), Unlock("a"), Unlock("b")>>]

\* mutant: without pthread_atfork
AtForkBare == [
    main  |-> <<<<"create", "t1">>, <<"fork">>, <<"join", "child">>, <<"join", "t1">>>>,
    t1    |-> <<Lock("a"), Unlock("a")>>,
    child |-> <<Lock("copy of a"), Unlock("copy of a")>>]

\* 84 parent_child_lock, routine2; fork calls prepare, and parent and child
AtFork == [
    main  |-> <<<<"create", "t1">>, Lock("a"), <<"fork">>, Unlock("a"),
                <<"join", "child">>, <<"join", "t1">>>>,
    t1    |-> <<Lock("a"), Unlock("a")>>,
    child |-> <<Unlock("copy of a"), Lock("copy of a"), Unlock("copy of a")>>]

\* 48 thread_test4, thread_add, thread_sub
Unlocked == [main |-> Both, t1 |-> Twice(Bump("x", 1)), t2 |-> Twice(Bump("x", -1))]

\* 48 thread_test5, thread_add2, thread_sub2
Locked == [
    main |-> Both,
    t1   |-> <<Lock("a")>> \o Twice(Bump("x", 1)) \o <<Unlock("a")>>,
    t2   |-> Twice(<<Lock("a")>> \o Bump("x", -1) \o <<Unlock("a")>>)]

\* 48 sem_test, read, accu: x is num3, y the sum
PingPong == [
    main |-> Both,
    t1   |-> Twice(<<<<"wait", "sem2">>, <<"input", "x">>, <<"post", "sem1">>>>),
    t2   |-> Twice(<<<<"wait", "sem1">>, <<"load", "x">>, <<"add", "y">>, <<"post", "sem2">>>>)]

\* 04 data_test: thread8, thread9; lock_test: thread10, thread11
Write == <<<<"flip", "x">>, <<"flip", "y">>>>
Pair == [main |-> Both, t1 |-> For(Write), t2 |-> For(<<<<"compare">>>>)]
\* mutant: the reader does not lock
HalfLockedPair == [
    main |-> Both,
    t1   |-> For(<<Lock("a")>> \o Write \o <<Unlock("a")>>),
    t2   |-> For(<<<<"compare">>>>)]
LockedPair == [
    main |-> Both,
    t1   |-> For(<<Lock("a")>> \o Write \o <<Unlock("a")>>),
    t2   |-> For(<<Lock("a"), <<"compare">>, Unlock("a")>>)]

\* 04 deadlock_test: thread12, thread13; clean_test: thread14, thread15
CancelMain == <<<<"create", "t1">>, <<"create", "t2">>, <<"cancel", "t1">>,
                <<"join", "t1">>, <<"join", "t2">>>>
Guard == For(<<<<"sleep">>, Lock("a"), Unlock("a")>>)
Cancel == [
    main |-> CancelMain,
    t1   |-> For(<<Lock("a"), <<"sleep">>, Unlock("a")>>),
    t2   |-> Guard]
CancelClean == [
    main |-> CancelMain,
    t1   |-> For(<<Lock("a"), <<"push">>, <<"sleep">>, <<"pop">>, Unlock("a")>>),
    t2   |-> Guard]

Programs == [LockOrder |-> LockOrder, AtFork |-> AtFork, Unlocked |-> Unlocked,
             Locked |-> Locked, PingPong |-> PingPong, Pair |-> Pair,
             LockedPair |-> LockedPair, Cancel |-> Cancel, CancelClean |-> CancelClean]

-----------------------------------------------------------------------------
Text(t) == Programs[program][t]
Threads == DOMAIN Programs[program]
Running(t) == t \in Threads /\ at[t] \in 1..Len(Text(t))
Op(t)  == Text(t)[at[t]]
Ended(t) == at[t] = Over \/ at[t] = Len(Text(t)) + 1

ProgramInit ==
    /\ program \in DOMAIN Programs
    /\ at = [t \in Names |-> IF t = "main" THEN 1 ELSE 0]
    /\ reg = [t \in Names |-> 0] /\ mem = [x \in Vars |-> 0]
    /\ holder = [m \in Mutexes |-> unlocked]
    /\ count = [sem1 |-> 0, sem2 |-> 1]
    /\ cancelled = {} /\ cleanup = {} /\ differed = FALSE

Runs(t, op) == Running(t) /\ Op(t)[1] = op
Advance(t) == at' = [at EXCEPT ![t] = @ + 1] /\ UNCHANGED program

LockMutex(t) ==
    /\ Runs(t, "lock") /\ holder[Op(t)[2]] = unlocked
    /\ holder' = [holder EXCEPT ![Op(t)[2]] = t]
    /\ Advance(t) /\ UNCHANGED <<reg, mem, count, cancelled, cleanup, differed>>

UnlockMutex(t) ==
    /\ Runs(t, "unlock")
    /\ holder' = [holder EXCEPT ![Op(t)[2]] = unlocked]
    /\ Advance(t) /\ UNCHANGED <<reg, mem, count, cancelled, cleanup, differed>>

SemWait(t) ==
    /\ Runs(t, "wait") /\ count[Op(t)[2]] > 0
    /\ count' = [count EXCEPT ![Op(t)[2]] = @ - 1]
    /\ Advance(t) /\ UNCHANGED <<reg, mem, holder, cancelled, cleanup, differed>>

SemPost(t) ==
    /\ Runs(t, "post")
    /\ count' = [count EXCEPT ![Op(t)[2]] = @ + 1]
    /\ Advance(t) /\ UNCHANGED <<reg, mem, holder, cancelled, cleanup, differed>>

Load(t) ==
    /\ Runs(t, "load")
    /\ reg' = [reg EXCEPT ![t] = mem[Op(t)[2]]]
    /\ Advance(t) /\ UNCHANGED <<mem, holder, count, cancelled, cleanup, differed>>

\* Every write of a variable: what has been read and one more or less, what
\* the user types (one more every time), a sum, the next value of a pair.
Store(t) ==
    /\ Running(t) /\ Op(t)[1] \in {"store", "input", "add", "flip"}
    /\ LET x == Op(t)[2]
       IN  mem' = [mem EXCEPT ![x] = CASE Op(t)[1] = "store" -> reg[t] + Op(t)[3]
                                       [] Op(t)[1] = "input" -> @ + 1
                                       [] Op(t)[1] = "add"   -> @ + reg[t]
                                       [] Op(t)[1] = "flip"  -> 1 - @]
    /\ Advance(t) /\ UNCHANGED <<reg, holder, count, cancelled, cleanup, differed>>

Compare(t) ==
    /\ Runs(t, "compare")
    /\ differed' = (differed \/ mem["x"] # mem["y"])
    /\ Advance(t) /\ UNCHANGED <<reg, mem, holder, count, cancelled, cleanup>>

Create(t) ==
    /\ Runs(t, "create")
    /\ at' = [at EXCEPT ![t] = @ + 1, ![Op(t)[2]] = 1]
    /\ UNCHANGED <<program, reg, mem, holder, count, cancelled, cleanup, differed>>

Join(t) ==
    /\ Runs(t, "join") /\ Ended(Op(t)[2])
    /\ Advance(t) /\ UNCHANGED <<reg, mem, holder, count, cancelled, cleanup, differed>>

\* The child has a copy of the memory: its mutex is locked if the other is.
Fork(t) ==
    /\ Runs(t, "fork")
    /\ at' = [at EXCEPT ![t] = @ + 1, !["child"] = 1]
    /\ holder' = [holder EXCEPT !["copy of a"] = holder["a"]]
    /\ UNCHANGED <<program, reg, mem, count, cancelled, cleanup, differed>>

Again(t) ==
    /\ Runs(t, "again")
    /\ at' = [at EXCEPT ![t] = 1]
    /\ UNCHANGED <<program, reg, mem, holder, count, cancelled, cleanup, differed>>

PushPop(t) ==
    /\ Running(t) /\ Op(t)[1] \in {"push", "pop"}
    /\ cleanup' = IF Op(t)[1] = "push" THEN cleanup \cup {t} ELSE cleanup \ {t}
    /\ Advance(t) /\ UNCHANGED <<reg, mem, holder, count, cancelled, differed>>

CancelThread(t) ==
    /\ Runs(t, "cancel")
    /\ cancelled' = cancelled \cup {Op(t)[2]}
    /\ Advance(t) /\ UNCHANGED <<reg, mem, holder, count, cleanup, differed>>

\* sleep is a cancellation point: the thread ends there, its handler unlocks.
Sleep(t) ==
    /\ Runs(t, "sleep") /\ t \notin cancelled
    /\ Advance(t) /\ UNCHANGED <<reg, mem, holder, count, cancelled, cleanup, differed>>

SleepCancelled(t) ==
    /\ Runs(t, "sleep") /\ t \in cancelled
    /\ at' = [at EXCEPT ![t] = Over]
    /\ holder' = IF t \in cleanup THEN [holder EXCEPT !["a"] = unlocked] ELSE holder
    /\ UNCHANGED <<program, reg, mem, count, cancelled, cleanup, differed>>

ThreadStep(t) == \/ LockMutex(t) \/ UnlockMutex(t) \/ SemWait(t) \/ SemPost(t)
                 \/ Load(t) \/ Store(t) \/ Compare(t) \/ Again(t)
                 \/ Create(t) \/ Join(t) \/ Fork(t)
                 \/ CancelThread(t) \/ PushPop(t) \/ Sleep(t) \/ SleepCancelled(t)
ProgramNext == \E t \in Names : ThreadStep(t)
-----------------------------------------------------------------------------
\* the additions and subtractions of one number, and the numbers typed
SumsAreRight ==
    /\ program = "Locked" => mem["x"] = 0
    /\ program = "PingPong" => mem["y"] = 1 + 2

Blocked(t) == \/ Runs(t, "lock") /\ holder[Op(t)[2]] # unlocked
              \/ Runs(t, "wait") /\ count[Op(t)[2]] = 0
              \/ Runs(t, "join") /\ ~Ended(Op(t)[2])

AllBlocked == /\ \E t \in Threads : Running(t)
              /\ \A t \in Threads : Running(t) => Blocked(t)

(***************************************************************************)
(* When all threads have ended the results are the ones the lock or the    *)
(* semaphores promise, and a pair that is written and read under one lock  *)
(* is never seen half written.  Threads wait for one another for ever in   *)
(* two ways only: two threads that take two mutexes in opposite orders,    *)
(* each holding one; and a mutex whose holder was cancelled before it had  *)
(* a cleanup handler.  Neither the child of a fork, nor threads that pass  *)
(* a turn with two semaphores, nor one that is cancelled under a cleanup   *)
(* handler, does it.  Three comments of the programs say the opposite: 84  *)
(* main.cpp:172-175 has the child of the fork block for ever, which        *)
(* pthread_atfork, called above them, prevents; 48 main.cpp:184 has the    *)
(* data come out wrong in the function that locks; 04 main.cpp:387 has the *)
(* cancelled thread cause a deadlock where its cleanup handler unlocks.    *)
(***************************************************************************)
ThreadsFinishRight ==
    /\ (\A t \in Threads : Ended(t)) => SumsAreRight
    /\ program = "LockedPair" => ~differed
    /\ AllBlocked => \/ program = "LockOrder" /\ holder["a"] = "main" /\ holder["b"] = "t1"
                     \/ program = "Cancel" /\ holder["a"] = "t1" /\ at["t1"] = Over
=============================================================================
