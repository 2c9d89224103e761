------------------------------- MODULE Lab2Add -------------------------------
(***************************************************************************)
(* Project 2A, lab2_add.c: --threads threads each add 1 and then -1 to one *)
(* shared counter, --iterations times, under one of the --sync options:    *)
(* "m" a pthread mutex, "s" a test-and-set spin lock, "c" compare and      *)
(* swap, "none" no synchronization.  "other" stands for any other argument *)
(* of --sync, which the program accepts and for which it performs no add.  *)
(*                                                                         *)
(* One step is one C statement: the load of the counter and the store into *)
(* it are separate steps, between which any other thread may run.  The     *)
(* calls of sched_yield that --yield enables only make those interleavings *)
(* likelier, so the option adds no behaviour and is left out.  The clock   *)
(* and the formatting of the report are left out too.                      *)
(***************************************************************************)
EXTENDS Integers, FiniteSets

CONSTANT CommandLines   \* the command lines the program may be started with

SyncTypes == {"none", "m", "s", "c", "other"}

ASSUME CommandLinesAssumption ==
  \A c \in CommandLines : /\ c.threads \in Nat
                          /\ c.iterations \in Nat
                          /\ c.sync_type \in SyncTypes

VARIABLES
  opt,      \* the parsed command line: threads, iterations, sync_type
  counter,  \* the shared long long
  mutex,    \* the thread that holds the pthread mutex, 0 when it is free
  lock,     \* the spin lock word
  pc,       \* pc[t]: the statement thread t is about to execute
  iter,     \* iter[t]: the loop variable i of thread_worker
  arg,      \* arg[t]: the value the current call of add is to add, 1 or -1
  reg,      \* reg[t]: the value of the counter the current call has loaded
  created,  \* how many threads main has created
  joined,   \* how many threads main has joined
  status    \* "running", or how the process ended

threadVars == <<pc, iter, arg, reg>>
mainVars == <<created, joined>>
vars == <<opt, counter, mutex, lock, threadVars, mainVars, status>>

Threads == 1..opt.threads

Protected == opt.sync_type \in {"m", "s", "c"}

Locking == opt.sync_type \in {"m", "s"}

Statuses == {"running", "ok", "syscall_failed", "divided_by_zero"}

\* "ok" is exit(0), "syscall_failed" exit(1), "divided_by_zero" death by SIGFPE.
Running == status = "running"

Init ==
  /\ opt \in CommandLines
  /\ counter = 0
  /\ mutex = 0
  /\ lock = 0
  /\ pc = [t \in Threads |-> "unborn"]
  /\ iter = [t \in Threads |-> 0]
  /\ arg = [t \in Threads |-> 1]
  /\ reg = [t \in Threads |-> 0]
  /\ created = 0
  /\ joined = 0
  /\ status = "running"

-----------------------------------------------------------------------------
(***************************************************************************)
(* The steps of a thread.                                                  *)
(***************************************************************************)
At(t, label) == Running /\ pc[t] = label

Goto(t, label) == pc' = [pc EXCEPT ![t] = label]

\* The call of an add function returns: the next one adds -1 if this one
\* added 1, and otherwise the loop of thread_worker goes round.
Return(t) ==
  /\ Goto(t, "call")
  /\ arg' = [arg EXCEPT ![t] = -@]
  /\ iter' = [iter EXCEPT ![t] = IF arg[t] = 1 THEN @ ELSE @ + 1]

\* The loop ends; with an unknown --sync argument its body does nothing.
LeaveLoop(t) ==
  /\ At(t, "call")
  /\ ~(iter[t] < opt.iterations) \/ opt.sync_type = "other"
  /\ Goto(t, "done")
  /\ UNCHANGED <<opt, counter, mutex, lock, iter, arg, reg, mainVars, status>>

\* Mutant of MayCall: <= in the loop condition.
MayCallOnceMore(t) == At(t, "call") /\ iter[t] <= opt.iterations

MayCall(t) == At(t, "call") /\ iter[t] < opt.iterations

\* Mutant of CallUnlocked: the -1 is added to what was loaded for the 1.
CallWithoutLoad(t) ==
  /\ MayCall(t)
  /\ opt.sync_type \in {"none", "c"}
  /\ Goto(t, IF opt.sync_type = "none" /\ arg[t] = -1 THEN "store" ELSE "load")
  /\ UNCHANGED <<opt, counter, mutex, lock, iter, arg, reg, mainVars, status>>

\* add and cmpnswp_add take no lock.
CallUnlocked(t) ==
  /\ MayCall(t)
  /\ opt.sync_type \in {"none", "c"}
  /\ Goto(t, "load")
  /\ UNCHANGED <<opt, counter, mutex, lock, iter, arg, reg, mainVars, status>>

MutexLock(t) ==
  /\ MayCall(t)
  /\ opt.sync_type = "m"
  /\ mutex = 0
  /\ mutex' = t
  /\ Goto(t, "load")
  /\ UNCHANGED <<opt, counter, lock, iter, arg, reg, mainVars, status>>

\* Mutant of SpinLock: a plain store instead of test-and-set.
SpinLockUntested(t) ==
  /\ MayCall(t)
  /\ opt.sync_type = "s"
  /\ lock' = 1
  /\ Goto(t, "load")
  /\ UNCHANGED <<opt, counter, mutex, iter, arg, reg, mainVars, status>>

\* The test-and-set that finds 0; one that finds 1 changes nothing.
SpinLock(t) ==
  /\ MayCall(t)
  /\ opt.sync_type = "s"
  /\ lock = 0
  /\ lock' = 1
  /\ Goto(t, "load")
  /\ UNCHANGED <<opt, counter, mutex, iter, arg, reg, mainVars, status>>

\* sum = *pointer + value, or prev = *pointer.
Load(t) ==
  /\ At(t, "load")
  /\ reg' = [reg EXCEPT ![t] = counter]
  /\ Goto(t, IF opt.sync_type = "c" THEN "cas" ELSE "store")
  /\ UNCHANGED <<opt, counter, mutex, lock, iter, arg, mainVars, status>>

\* *pointer = sum, under the lock when there is one.
StoreLocked(t) ==
  /\ At(t, "store")
  /\ Locking
  /\ counter' = reg[t] + arg[t]
  /\ Goto(t, "unlock")
  /\ UNCHANGED <<opt, mutex, lock, iter, arg, reg, mainVars, status>>

\* Mutant of StoreUnlocked: the sum is added to the counter, not stored.
StoreAccumulates(t) ==
  /\ At(t, "store")
  /\ ~Locking
  /\ counter' = counter + reg[t] + arg[t]
  /\ Return(t)
  /\ UNCHANGED <<opt, mutex, lock, reg, mainVars, status>>

StoreUnlocked(t) ==
  /\ At(t, "store")
  /\ ~Locking
  /\ counter' = reg[t] + arg[t]
  /\ Return(t)
  /\ UNCHANGED <<opt, mutex, lock, reg, mainVars, status>>

\* Mutant of CompareAndSwap: the value is stored without the comparison.
SwapUncompared(t) ==
  /\ At(t, "cas")
  /\ counter' = reg[t] + arg[t]
  /\ Return(t)
  /\ UNCHANGED <<opt, mutex, lock, reg, mainVars, status>>

CompareAndSwap(t) ==
  /\ At(t, "cas")
  /\ counter = reg[t]
  /\ counter' = reg[t] + arg[t]
  /\ Return(t)
  /\ UNCHANGED <<opt, mutex, lock, reg, mainVars, status>>

CompareFails(t) ==
  /\ At(t, "cas")
  /\ counter # reg[t]
  /\ Goto(t, "load")
  /\ UNCHANGED <<opt, counter, mutex, lock, iter, arg, reg, mainVars, status>>

\* Mutant of Unlock: the spin lock is not released.
UnlockMutexOnly(t) ==
  /\ At(t, "unlock")
  /\ mutex' = 0
  /\ Return(t)
  /\ UNCHANGED <<opt, counter, lock, reg, mainVars, status>>

Unlock(t) ==
  /\ At(t, "unlock")
  /\ IF opt.sync_type = "m" THEN mutex' = 0 /\ UNCHANGED lock
                            ELSE lock' = 0 /\ UNCHANGED mutex
  /\ Return(t)
  /\ UNCHANGED <<opt, counter, reg, mainVars, status>>

thread_worker(t) ==
  \/ LeaveLoop(t)
  \/ CallUnlocked(t) \/ MutexLock(t) \/ SpinLock(t)
  \/ Load(t)
  \/ StoreLocked(t) \/ StoreUnlocked(t)
  \/ CompareAndSwap(t) \/ CompareFails(t)
  \/ Unlock(t)

-----------------------------------------------------------------------------
(***************************************************************************)
(* The steps of main.                                                      *)
(***************************************************************************)
CreateThread ==
  /\ Running
  /\ created < opt.threads
  /\ created' = created + 1
  /\ Goto(created + 1, "call")
  /\ UNCHANGED <<opt, counter, mutex, lock, iter, arg, reg, joined, status>>

\* Threads are joined in the order they were created.
JoinThread ==
  /\ Running
  /\ created = opt.threads
  /\ joined < opt.threads
  /\ pc[joined + 1] = "done"
  /\ joined' = joined + 1
  /\ UNCHANGED <<opt, counter, mutex, lock, threadVars, created, status>>

\* A library call of main fails: exit(1), wherever the threads are.
SystemCallFails ==
  /\ Running
  /\ status' = "syscall_failed"
  /\ UNCHANGED <<opt, counter, mutex, lock, threadVars, mainVars>>

\* The report divides the run time by the number of operations.
Report ==
  /\ Running
  /\ joined = opt.threads
  /\ status' = IF opt.threads * opt.iterations * 2 = 0
               THEN "divided_by_zero" ELSE "ok"
  /\ UNCHANGED <<opt, counter, mutex, lock, threadVars, mainVars>>

main == CreateThread \/ JoinThread \/ Report

\* The process is gone.
Exited == ~Running /\ UNCHANGED vars

Next ==
  \/ main
  \/ SystemCallFails
  \/ \E t \in Threads : thread_worker(t)
  \/ Exited

Spec == Init /\ [][Next]_vars

\* Every thread that can run is eventually scheduled; a spinning thread is
\* one whose SpinLock step is disabled until the lock word is 0.
Fairness ==
  /\ WF_vars(main)
  /\ \A c \in CommandLines : \A t \in 1..c.threads :
       WF_vars(t \in Threads /\ thread_worker(t))

FairSpec == Spec /\ Fairness

-----------------------------------------------------------------------------
(***************************************************************************)
(* Properties.                                                             *)
(***************************************************************************)
Labels == {"unborn", "call", "load", "store", "cas", "unlock", "done"}

\* Every variable has its type; a thread past the last one created is unborn.
TypeOK ==
  /\ opt \in CommandLines
  /\ counter \in Int
  /\ mutex \in Threads \cup {0}
  /\ lock \in {0, 1}
  /\ pc \in [Threads -> Labels]
  /\ iter \in [Threads -> 0..opt.iterations]
  /\ arg \in [Threads -> {1, -1}]
  /\ reg \in [Threads -> Int]
  /\ created \in 0..opt.threads
  /\ joined \in 0..created
  /\ status \in Statuses
  /\ \A t \in Threads : pc[t] = "unborn" <=> t > created

InAdd(t) == pc[t] \in {"load", "store", "unlock"}

\* Under --sync=m and --sync=s (mutex_add, spinlock_add) two threads are never
\* both between taking the lock and releasing it, and the lock says which.
MutualExclusion ==
  Locking =>
    /\ \A t, u \in Threads : InAdd(t) /\ InAdd(u) => t = u
    /\ opt.sync_type = "m" => \A t \in Threads : InAdd(t) <=> mutex = t
    /\ opt.sync_type = "s" => (lock = 1 <=> \E t \in Threads : InAdd(t))

\* How often the 1, and the -1, of thread t have reached the counter.
Ups == [t \in Threads |->
          iter[t] + (IF arg[t] = -1 \/ pc[t] = "unlock" THEN 1 ELSE 0)]
Downs == [t \in Threads |->
            iter[t] + (IF arg[t] = -1 /\ pc[t] = "unlock" THEN 1 ELSE 0)]

\* The threads that have added a 1 and not yet taken it back.
Outstanding == {t \in Threads : Ups[t] # Downs[t]}

\* With any of the three --sync options no add is ever lost: at every moment
\* the counter is the number of threads between their 1 and their -1.
NoLostUpdate == Protected => counter = Cardinality(Outstanding)

\* What the report line of a protected run shows: a counter of 0.
CounterZeroAtExit == Protected /\ status = "ok" => counter = 0

\* Without protection adds are lost, but a racing add still leaves a value one off one
\* that the counter has had: it never leaves -N..N, where N is the
\* number of times a 1 (or a -1) is added.
DriftBounded ==
  LET N == opt.threads * opt.iterations IN counter \in -N..N

\* The value that a thread has loaded for the call it is in.
Loaded(t) == pc[t] \in {"store", "cas"}
Seen == [t \in Threads |-> IF Loaded(t) THEN {reg[t]} ELSE {}]

Counter == INSTANCE SharedCounter
             WITH total <- counter, ups <- Ups, downs <- Downs, seen <- Seen,
                  indivisible <- Protected

\* lab2_add implements the shared counter: every store that reaches the counter is one
\* add of the thread's alternating 1 and -1, to the counter as it is if protected, and
\* otherwise to what it was at some time after the thread's last add.
RefinesSharedCounter == Counter!Spec

\* Neither the locks nor the compare-and-swap retry loop can hold up the
\* process for ever: it ends.
Termination == <>~Running
=============================================================================
