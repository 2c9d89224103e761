------------------------------ MODULE Lab2aList ------------------------------
(***************************************************************************)
(* Project 2A, lab2_list.c: each of --threads threads inserts its          *)
(* --iterations elements into one list, asks for the length of the list,   *)
(* and then looks up and deletes each of the keys it inserted.  With       *)
(* --sync=m or --sync=s a thread holds the one lock for all of that;       *)
(* "none" is a run without --sync, and one with any other argument of      *)
(* --sync, which takes no lock either.  Keys are random in the program and *)
(* arbitrary here: two elements may have the same key.                     *)
(*                                                                         *)
(* Thread 0 is main, which measures the final list once the others are     *)
(* joined.  The --yield options, the clock and the formatting of the       *)
(* record are left out, as in Lab2Add.                                     *)
(***************************************************************************)
EXTENDS SortedList

CONSTANTS
  CommandLines,   \* the command lines the program may be started with
  KeyStreams      \* the streams of keys rand may fill the pool with

SyncTypes == {"none", "m", "s"}

ASSUME CommandLinesAssumption ==
  \A c \in CommandLines : /\ c.threads \in Nat
                          /\ c.iterations \in Nat
                          /\ c.sync_type \in SyncTypes

\* A stream is long enough for the pool of every command line.
ASSUME KeysAssumption ==
  \A r \in KeyStreams :
    /\ \A i \in DOMAIN r : r[i] \in Nat
    /\ \A c \in CommandLines : 1..(c.threads * c.iterations) \subseteq DOMAIN r

VARIABLES
  opt,      \* the parsed command line: threads, iterations, sync_type
  mutex,    \* the thread that holds the pthread mutex, 0 when it is free
  lock,     \* the spin lock word
  pc,       \* pc[t]: what thread t is doing in thread_worker
  index,    \* index[t]: the loop variable of the loop thread t is in
  created,  \* how many threads main has created
  joined,   \* how many threads main has joined
  status    \* "running", or how the process ended

threadVars == <<pc, index>>
mainVars == <<created, joined>>
workerVars == <<opt, mutex, lock, threadVars, mainVars, status>>
vars == <<memory, key, frame, workerVars>>

Threads == 1..opt.threads

main_thread == 0

head == -1

Pool == 1..(opt.threads * opt.iterations)

\* The element at position i, counted from 0, of those given to thread t.
element(t, i) == (t - 1) * opt.iterations + i + 1

Running == status = "running"

Init ==
  /\ opt \in CommandLines
  /\ next = [p \in Pool \cup {head} |-> NULL]
  /\ prev = [e \in Pool |-> NULL]
  /\ \E r \in KeyStreams : key = [e \in Pool |-> r[e]]
  /\ frame = [t \in Threads \cup {main_thread} |-> NoCall]
  /\ mutex = 0
  /\ lock = 0
  /\ pc = [t \in Threads |-> "unborn"]
  /\ index = [t \in Threads |-> 0]
  /\ created = 0
  /\ joined = 0
  /\ status = "running"

-----------------------------------------------------------------------------
(***************************************************************************)
(* thread_worker.                                                          *)
(***************************************************************************)
At(t, label) == Running /\ pc[t] = label

Enter(t, label) == pc' = [pc EXCEPT ![t] = label]

MutexLock(t) ==
  /\ At(t, "start")
  /\ opt.sync_type = "m"
  /\ mutex = 0
  /\ mutex' = t
  /\ Enter(t, "insert")
  /\ UNCHANGED <<memory, key, frame, opt, lock, index, mainVars, status>>

\* Mutant of SpinLock: a plain store instead of test-and-set.
SpinLockUntested(t) ==
  /\ At(t, "start")
  /\ opt.sync_type = "s"
  /\ lock' = 1
  /\ Enter(t, "insert")
  /\ UNCHANGED <<memory, key, frame, opt, mutex, index, mainVars, status>>

SpinLock(t) ==
  /\ At(t, "start")
  /\ opt.sync_type = "s"
  /\ lock = 0
  /\ lock' = 1
  /\ Enter(t, "insert")
  /\ UNCHANGED <<memory, key, frame, opt, mutex, index, mainVars, status>>

NoLock(t) ==
  /\ At(t, "start")
  /\ opt.sync_type = "none"
  /\ Enter(t, "insert")
  /\ UNCHANGED <<memory, key, frame, opt, mutex, lock, index, mainVars, status>>

\* Mutant of InsertElement: <= in the loop condition.
InsertOneMore(t) ==
  /\ At(t, "insert")
  /\ Idle(t)
  /\ index[t] <= opt.iterations
  /\ Call(t, "insert", head, element(t, index[t]))
  /\ UNCHANGED <<memory, key, workerVars>>

InsertElement(t) ==
  /\ At(t, "insert")
  /\ Idle(t)
  /\ index[t] < opt.iterations
  /\ Call(t, "insert", head, element(t, index[t]))
  /\ UNCHANGED <<memory, key, workerVars>>

ElementInserted(t) ==
  /\ At(t, "insert")
  /\ Returned(t)
  /\ Leave(t)
  /\ index' = [index EXCEPT ![t] = @ + 1]
  /\ UNCHANGED <<memory, key, opt, mutex, lock, pc, mainVars, status>>

GetLength(t) ==
  /\ At(t, "insert")
  /\ Idle(t)
  /\ index[t] = opt.iterations
  /\ Call(t, "length", head, NULL)
  /\ Enter(t, "length")
  /\ UNCHANGED <<memory, key, opt, mutex, lock, index, mainVars, status>>

\* The test for the length -1 fails: SortedList_length never returns it.
LengthObtained(t) ==
  /\ At(t, "length")
  /\ Returned(t)
  /\ status' = IF frame[t].ret = -1 THEN "exit_2" ELSE "running"
  /\ Leave(t)
  /\ Enter(t, "lookup")
  /\ index' = [index EXCEPT ![t] = 0]
  /\ UNCHANGED <<memory, key, opt, mutex, lock, mainVars>>

LookUpKey(t) ==
  /\ At(t, "lookup")
  /\ Idle(t)
  /\ index[t] < opt.iterations
  /\ Call(t, "lookup", head, element(t, index[t]))
  /\ UNCHANGED <<memory, key, workerVars>>

\* What lookup found is deleted, whichever thread inserted it.
DeleteFound(t) ==
  /\ At(t, "lookup")
  /\ Returned(t)
  /\ IF frame[t].ret = NULL
       THEN status' = "exit_2" /\ UNCHANGED <<frame, pc>>
       ELSE /\ Call(t, "delete", NULL, frame[t].ret)
            /\ Enter(t, "delete")
            /\ UNCHANGED status
  /\ UNCHANGED <<memory, key, opt, mutex, lock, index, mainVars>>

ElementDeleted(t) ==
  /\ At(t, "delete")
  /\ Returned(t)
  /\ IF frame[t].ret = 1
       THEN status' = "exit_2" /\ UNCHANGED <<frame, threadVars>>
       ELSE /\ Leave(t)
            /\ Enter(t, "lookup")
            /\ index' = [index EXCEPT ![t] = @ + 1]
            /\ UNCHANGED status
  /\ UNCHANGED <<memory, key, opt, mutex, lock, mainVars>>

\* Mutant of Finish: the spin lock is not released.
FinishMutexOnly(t) ==
  /\ At(t, "lookup")
  /\ Idle(t)
  /\ index[t] = opt.iterations
  /\ mutex' = IF opt.sync_type = "m" THEN 0 ELSE mutex
  /\ Enter(t, "done")
  /\ UNCHANGED <<memory, key, frame, opt, lock, index, mainVars, status>>

\* The thread releases what it locked and returns.
Finish(t) ==
  /\ At(t, "lookup")
  /\ Idle(t)
  /\ index[t] = opt.iterations
  /\ mutex' = IF opt.sync_type = "m" THEN 0 ELSE mutex
  /\ lock' = IF opt.sync_type = "s" THEN 0 ELSE lock
  /\ Enter(t, "done")
  /\ UNCHANGED <<memory, key, frame, opt, index, mainVars, status>>

\* segHandler, which exits whatever the other threads are doing.
SegHandler(t) ==
  /\ Running
  /\ Faulted(t)
  /\ status' = "exit_2"
  /\ UNCHANGED <<memory, key, frame, opt, mutex, lock, threadVars, mainVars>>

\* A statement of the list function that thread t, or main, has called.
InList(t) ==
  /\ Running
  /\ ListStep(t)
  /\ UNCHANGED workerVars

thread_worker(t) ==
  \/ MutexLock(t) \/ SpinLock(t) \/ NoLock(t)
  \/ InsertElement(t) \/ ElementInserted(t)
  \/ GetLength(t) \/ LengthObtained(t)
  \/ LookUpKey(t) \/ DeleteFound(t) \/ ElementDeleted(t)
  \/ Finish(t)
  \/ InList(t) \/ SegHandler(t)

-----------------------------------------------------------------------------
(***************************************************************************)
(* main.                                                                   *)
(***************************************************************************)
CreateThread ==
  /\ Running
  /\ created < opt.threads
  /\ created' = created + 1
  /\ Enter(created + 1, "start")
  /\ UNCHANGED <<memory, key, frame, opt, mutex, lock, index, joined, status>>

JoinThread ==
  /\ Running
  /\ created = opt.threads
  /\ joined < opt.threads
  /\ pc[joined + 1] = "done"
  /\ joined' = joined + 1
  /\ UNCHANGED <<memory, key, frame, opt, mutex, lock, threadVars, created, status>>

\* A library call of main fails.
SystemCallFails ==
  /\ Running
  /\ Idle(main_thread)
  /\ status' = "exit_1"
  /\ UNCHANGED <<memory, key, frame, opt, mutex, lock, threadVars, mainVars>>

MeasureList ==
  /\ Running
  /\ joined = opt.threads
  /\ Idle(main_thread)
  /\ Call(main_thread, "length", head, NULL)
  /\ UNCHANGED <<memory, key, workerVars>>

\* A length other than 0 is complained of, and the record printed all the same.
\* The record divides the run time by the number of operations.
Report ==
  /\ Running
  /\ Returned(main_thread)
  /\ status' = IF opt.threads * opt.iterations * 3 = 0 THEN "sigfpe" ELSE "exit_0"
  /\ UNCHANGED <<memory, key, frame, opt, mutex, lock, threadVars, mainVars>>

main ==
  \/ CreateThread \/ JoinThread \/ MeasureList \/ InList(main_thread) \/ Report

Exited == ~Running /\ UNCHANGED vars

Next ==
  \/ main
  \/ SystemCallFails
  \/ \E t \in Threads : thread_worker(t)
  \/ Exited

Spec == Init /\ [][Next]_vars

\* Every thread that can run is eventually scheduled.
Fairness ==
  /\ WF_vars(main)
  /\ \A c \in CommandLines : \A t \in 1..c.threads :
       WF_vars(t \in Threads /\ thread_worker(t))

FairSpec == Spec /\ Fairness

-----------------------------------------------------------------------------
(***************************************************************************)
(* Properties.                                                             *)
(***************************************************************************)
TypeOK ==
  /\ opt \in CommandLines
  /\ ListTypeOK
  /\ Elements = Pool
  /\ Heads = {head}
  /\ DOMAIN frame = Threads \cup {main_thread}
  /\ mutex \in Threads \cup {0}
  /\ lock \in {0, 1}
  /\ pc \in [Threads -> {"unborn", "start", "insert", "length", "lookup",
                         "delete", "done"}]
  /\ index \in [Threads -> 0..opt.iterations]
  /\ created \in 0..opt.threads
  /\ joined \in 0..created
  /\ status \in {"running", "exit_0", "exit_1", "exit_2", "sigfpe"}
  /\ \A t \in Threads : pc[t] = "unborn" <=> t > created

Locking == opt.sync_type \in {"m", "s"}

\* The runs in which only one thread at a time works on the list.
Protected == Locking \/ opt.threads <= 1

Working(t) == pc[t] \notin {"unborn", "start", "done"}

\* With a lock, at most one thread is at work, and it has the list to itself:
\* no other thread, and not main either, is inside a list function.
ListToItself ==
  Locking =>
    \A t \in Threads : Working(t) =>
      /\ \A u \in Threads \ {t} : ~Working(u)
      /\ \A u \in DOMAIN frame \ {t} : Idle(u)

\* The elements thread t has inserted, and how many keys it has deleted.
Inserted(t) ==
  IF pc[t] \in {"length", "lookup", "delete", "done"}
    THEN {element(t, i) : i \in 0..(opt.iterations - 1)}
    ELSE {element(t, i) : i \in 0..(index[t] - 1)}
Deleted(t) ==
  IF pc[t] \in {"lookup", "delete", "done"}
    THEN {element(t, i) : i \in 0..(index[t] - 1)}
    ELSE {}

WithKey(k, S) == {e \in S : key[e] = k}

\* Whenever no insert or delete is half done, the list of a protected run is
\* well formed, and holds each key as often as it was inserted and not deleted:
\* a key that two threads share may be deleted by either, through either element.
KeysBalance ==
  Protected /\ (\A t \in Threads : Idle(t)) =>
    /\ WellFormed(head)
    /\ \A k \in {key[e] : e \in Pool} :
         Cardinality(WithKey(k, Contents(head)))
           = Cardinality(WithKey(k, UNION {Inserted(t) : t \in Threads}))
               - Cardinality(WithKey(k, UNION {Deleted(t) : t \in Threads}))

\* The length a thread obtains under the lock is the number of its own elements:
\* it never sees another thread's work half done.
LengthIsOwn ==
  Protected =>
    \A t \in Threads :
      pc[t] = "length" /\ Returned(t) => frame[t].ret = opt.iterations

\* A protected run never fails: no lookup misses, no delete finds the links
\* broken, nothing faults, and the length that main measures is 0.
NeverCorrupt ==
  Protected =>
    /\ status # "exit_2"
    /\ \A t \in DOMAIN frame : ~Faulted(t)
    /\ Returned(main_thread) => frame[main_thread].ret = 0

\* A protected run ends: neither the lock nor a loop over the list goes on for ever.
Termination == Protected ~> ~Running

\* The specification of the project: a final list that is not empty is an error
\* after which no results record is printed.
RecordOnlyIfEmpty == status = "exit_0" => frame[main_thread].ret = 0
=============================================================================
