------------------------------ MODULE Lab2bList ------------------------------
(***************************************************************************)
(* Project 2B, lab2_list.c: the work of Lab2aList over --lists sublists,   *)
(* each with a lock of its own that a thread takes for one insert, for one *)
(* length, or for one lookup and the delete of what it found.  get_key     *)
(* spreads the keys over the sublists by their first character; a key is a *)
(* number here and stands for its first character, so that keys are equal, *)
(* or fall into the same sublist, in the ways they can in the program.     *)
(*                                                                         *)
(* Thread 0 is main.  The --yield options, the clock, the time spent       *)
(* waiting for locks and the formatting of the record are left out.        *)
(***************************************************************************)
EXTENDS SortedList

CONSTANTS
  CommandLines,   \* the command lines the program may be started with
  KeyStreams      \* the streams of keys rand may fill the pool with

SyncTypes == {"none", "m", "s"}

ASSUME CommandLinesAssumption ==
  \A c \in CommandLines : /\ c.threads \in Nat
                          /\ c.iterations \in Nat
                          /\ c.sync_type \in SyncTypes
                          /\ c.lists \in Nat

\* A stream is long enough for the pool of every command line.
ASSUME KeysAssumption ==
  \A r \in KeyStreams :
    /\ \A i \in DOMAIN r : r[i] \in Nat
    /\ \A c \in CommandLines : 1..(c.threads * c.iterations) \subseteq DOMAIN r

VARIABLES
  opt,      \* the parsed command line: threads, iterations, sync_type, lists
  mutex,    \* mutex[s]: the thread that holds the mutex of sublist s, or 0
  lock,     \* lock[s]: the spin lock word of sublist s
  pc,       \* pc[t]: what thread t is doing in thread_worker
  index,    \* index[t]: the loop variable of the loop thread t, or main, is in
  total,    \* total[t]: list_length of thread t, or of main
  created,  \* how many threads main has created
  joined,   \* how many threads main has joined
  status    \* "running", or how the process ended

locks == <<mutex, lock>>
mainVars == <<created, joined>>
workerVars == <<opt, locks, pc, index, total, mainVars, status>>
vars == <<memory, key, frame, workerVars>>

Threads == 1..opt.threads

main_thread == 0

Sublists == 0..(opt.lists - 1)

head(s) == -1 - s

Pool == 1..(opt.threads * opt.iterations)

\* The element at position i, counted from 0, of those given to thread t.
element(t, i) == (t - 1) * opt.iterations + i + 1

get_key(e) == key[e] % opt.lists

Running == status = "running"

Init ==
  /\ opt \in CommandLines
  /\ next = [p \in Pool \cup {head(s) : s \in Sublists} |-> NULL]
  /\ prev = [e \in Pool |-> NULL]
  /\ \E r \in KeyStreams : key = [e \in Pool |-> r[e]]
  /\ frame = [t \in Threads \cup {main_thread} |-> NoCall]
  /\ mutex = [s \in Sublists |-> 0]
  /\ lock = [s \in Sublists |-> 0]
  /\ pc = [t \in Threads |-> "unborn"]
  /\ index = [t \in Threads \cup {main_thread} |-> 0]
  /\ total = [t \in Threads \cup {main_thread} |-> 0]
  /\ created = 0
  /\ joined = 0
  /\ status = "running"

-----------------------------------------------------------------------------
(***************************************************************************)
(* thread_worker.                                                          *)
(***************************************************************************)
At(t, label) == Running /\ pc[t] = label

Enter(t, label) == pc' = [pc EXCEPT ![t] = label]

\* The lock of sublist s is free and thread t takes it.
Acquire(t, s) ==
  \/ /\ opt.sync_type = "m"
     /\ mutex[s] = 0
     /\ mutex' = [mutex EXCEPT ![s] = t]
     /\ UNCHANGED lock
  \/ /\ opt.sync_type = "s"
     /\ lock[s] = 0
     /\ lock' = [lock EXCEPT ![s] = 1]
     /\ UNCHANGED mutex
  \/ /\ opt.sync_type = "none"
     /\ UNCHANGED locks

\* Mutant of Release: always the lock of the first sublist.
ReleaseFirst(s) ==
  /\ mutex' = IF opt.sync_type = "m" THEN [mutex EXCEPT ![0] = 0] ELSE mutex
  /\ lock' = IF opt.sync_type = "s" THEN [lock EXCEPT ![0] = 0] ELSE lock

Release(s) ==
  /\ mutex' = IF opt.sync_type = "m" THEN [mutex EXCEPT ![s] = 0] ELSE mutex
  /\ lock' = IF opt.sync_type = "s" THEN [lock EXCEPT ![s] = 0] ELSE lock

\* The sublist that the element thread t is working on belongs to.
OwnSublist(t) == get_key(element(t, index[t]))

HasElement(t) == index[t] < opt.iterations /\ opt.lists # 0

\* Mutant of InsertElement: the lock is not taken.
InsertUnlocked(t) ==
  /\ At(t, "insert")
  /\ HasElement(t)
  /\ Call(t, "insert", head(OwnSublist(t)), element(t, index[t]))
  /\ Enter(t, "inserting")
  /\ UNCHANGED <<memory, key, opt, locks, index, total, mainVars, status>>

InsertElement(t) ==
  /\ At(t, "insert")
  /\ HasElement(t)
  /\ Acquire(t, OwnSublist(t))
  /\ Call(t, "insert", head(OwnSublist(t)), element(t, index[t]))
  /\ Enter(t, "inserting")
  /\ UNCHANGED <<memory, key, opt, index, total, mainVars, status>>

\* get_key computes a remainder by list_num.
HashByZero(t) ==
  /\ At(t, "insert")
  /\ index[t] < opt.iterations
  /\ opt.lists = 0
  /\ status' = "sigfpe"
  /\ UNCHANGED <<memory, key, frame, opt, locks, pc, index, total, mainVars>>

\* Mutant of ElementInserted: the lock is not released.
InsertedKeepLock(t) ==
  /\ At(t, "inserting")
  /\ Returned(t)
  /\ Leave(t)
  /\ index' = [index EXCEPT ![t] = @ + 1]
  /\ Enter(t, "insert")
  /\ UNCHANGED <<memory, key, opt, locks, total, mainVars, status>>

ElementInserted(t) ==
  /\ At(t, "inserting")
  /\ Returned(t)
  /\ Leave(t)
  /\ Release(OwnSublist(t))
  /\ index' = [index EXCEPT ![t] = @ + 1]
  /\ Enter(t, "insert")
  /\ UNCHANGED <<memory, key, opt, total, mainVars, status>>

\* Mutant of AllInserted: the loop variable is not set back.
AllInsertedKeepIndex(t) ==
  /\ At(t, "insert")
  /\ index[t] = opt.iterations
  /\ Enter(t, "length")
  /\ UNCHANGED <<memory, key, frame, opt, locks, index, total, mainVars, status>>

AllInserted(t) ==
  /\ At(t, "insert")
  /\ index[t] = opt.iterations
  /\ index' = [index EXCEPT ![t] = 0]
  /\ Enter(t, "length")
  /\ UNCHANGED <<memory, key, frame, opt, locks, total, mainVars, status>>

\* Mutant of GetLength: the length is taken without the lock.
GetLengthUnlocked(t) ==
  /\ At(t, "length")
  /\ index[t] < opt.lists
  /\ Call(t, "length", head(index[t]), NULL)
  /\ Enter(t, "measuring")
  /\ UNCHANGED <<memory, key, opt, locks, index, total, mainVars, status>>

GetLength(t) ==
  /\ At(t, "length")
  /\ index[t] < opt.lists
  /\ Acquire(t, index[t])
  /\ Call(t, "length", head(index[t]), NULL)
  /\ Enter(t, "measuring")
  /\ UNCHANGED <<memory, key, opt, index, total, mainVars, status>>

\* The test for the length -1 fails: the lengths add up to no less than 0.
LengthObtained(t) ==
  /\ At(t, "measuring")
  /\ Returned(t)
  /\ total' = [total EXCEPT ![t] = @ + frame[t].ret]
  /\ IF total'[t] = -1
       THEN status' = "exit_2" /\ UNCHANGED <<frame, locks, index, pc>>
       ELSE /\ Leave(t)
            /\ Release(index[t])
            /\ index' = [index EXCEPT ![t] = @ + 1]
            /\ Enter(t, "length")
            /\ UNCHANGED status
  /\ UNCHANGED <<memory, key, opt, mainVars>>

AllMeasured(t) ==
  /\ At(t, "length")
  /\ index[t] = opt.lists
  /\ index' = [index EXCEPT ![t] = 0]
  /\ Enter(t, "lookup")
  /\ UNCHANGED <<memory, key, frame, opt, locks, total, mainVars, status>>

LookUpKey(t) ==
  /\ At(t, "lookup")
  /\ HasElement(t)
  /\ Acquire(t, OwnSublist(t))
  /\ Call(t, "lookup", head(OwnSublist(t)), element(t, index[t]))
  /\ Enter(t, "finding")
  /\ UNCHANGED <<memory, key, opt, index, total, mainVars, status>>

\* Mutant of DeleteFound: the lock is released between the lookup and the delete.
DeleteFoundUnlocked(t) ==
  /\ At(t, "finding")
  /\ Returned(t)
  /\ Call(t, "delete", NULL, frame[t].ret)
  /\ Release(OwnSublist(t))
  /\ Enter(t, "deleting")
  /\ UNCHANGED <<memory, key, opt, index, total, mainVars, status>>

\* What lookup found is deleted, whichever thread inserted it.
DeleteFound(t) ==
  /\ At(t, "finding")
  /\ Returned(t)
  /\ IF frame[t].ret = NULL
       THEN status' = "exit_2" /\ UNCHANGED <<frame, pc>>
       ELSE /\ Call(t, "delete", NULL, frame[t].ret)
            /\ Enter(t, "deleting")
            /\ UNCHANGED status
  /\ UNCHANGED <<memory, key, opt, locks, index, total, mainVars>>

ElementDeleted(t) ==
  /\ At(t, "deleting")
  /\ Returned(t)
  /\ IF frame[t].ret = 1
       THEN status' = "exit_2" /\ UNCHANGED <<frame, locks, index, pc>>
       ELSE /\ Leave(t)
            /\ Release(OwnSublist(t))
            /\ index' = [index EXCEPT ![t] = @ + 1]
            /\ Enter(t, "lookup")
            /\ UNCHANGED status
  /\ UNCHANGED <<memory, key, opt, total, mainVars>>

Finish(t) ==
  /\ At(t, "lookup")
  /\ index[t] = opt.iterations
  /\ Enter(t, "done")
  /\ UNCHANGED <<memory, key, frame, opt, locks, index, total, mainVars, status>>

\* segHandler, which exits whatever the other threads are doing.
SegHandler(t) ==
  /\ Running
  /\ Faulted(t)
  /\ status' = "exit_2"
  /\ UNCHANGED <<memory, key, frame, opt, locks, pc, index, total, mainVars>>

\* A statement of the list function that thread t, or main, has called.
InList(t) ==
  /\ Running
  /\ ListStep(t)
  /\ UNCHANGED workerVars

thread_worker(t) ==
  \/ InsertElement(t) \/ ElementInserted(t) \/ AllInserted(t)
  \/ GetLength(t) \/ LengthObtained(t) \/ AllMeasured(t)
  \/ LookUpKey(t) \/ DeleteFound(t) \/ ElementDeleted(t)
  \/ Finish(t)
  \/ InList(t) \/ SegHandler(t) \/ HashByZero(t)

-----------------------------------------------------------------------------
(***************************************************************************)
(* main.                                                                   *)
(***************************************************************************)
CreateThread ==
  /\ Running
  /\ created < opt.threads
  /\ created' = created + 1
  /\ Enter(created + 1, "insert")
  /\ UNCHANGED <<memory, key, frame, opt, locks, index, total, joined, status>>

JoinThread ==
  /\ Running
  /\ created = opt.threads
  /\ joined < opt.threads
  /\ pc[joined + 1] = "done"
  /\ joined' = joined + 1
  /\ UNCHANGED <<memory, key, frame, opt, locks, pc, index, total, created, status>>

\* A library call of main fails.
SystemCallFails ==
  /\ Running
  /\ Idle(main_thread)
  /\ index[main_thread] = 0
  /\ status' = "exit_1"
  /\ UNCHANGED <<memory, key, frame, opt, locks, pc, index, total, mainVars>>

\* main takes no locks.
MeasureSublist ==
  /\ Running
  /\ joined = opt.threads
  /\ Idle(main_thread)
  /\ index[main_thread] < opt.lists
  /\ Call(main_thread, "length", head(index[main_thread]), NULL)
  /\ UNCHANGED <<memory, key, workerVars>>

SublistMeasured ==
  /\ Running
  /\ Returned(main_thread)
  /\ total' = [total EXCEPT ![main_thread] = @ + frame[main_thread].ret]
  /\ index' = [index EXCEPT ![main_thread] = @ + 1]
  /\ Leave(main_thread)
  /\ UNCHANGED <<memory, key, opt, locks, pc, mainVars, status>>

Report ==
  /\ Running
  /\ joined = opt.threads
  /\ Idle(main_thread)
  /\ index[main_thread] = opt.lists
  /\ status' = CASE total[main_thread] # 0 -> "exit_2"
                 [] total[main_thread] = 0 /\ opt.threads * opt.iterations * 3 = 0
                      -> "sigfpe"
                 [] OTHER -> "exit_0"
  /\ UNCHANGED <<memory, key, frame, opt, locks, pc, index, total, mainVars>>

main ==
  \/ CreateThread \/ JoinThread
  \/ MeasureSublist \/ InList(main_thread) \/ SublistMeasured
  \/ Report

Exited == ~Running /\ UNCHANGED vars

Next ==
  \/ main
  \/ SystemCallFails
  \/ \E t \in Threads : thread_worker(t)
  \/ Exited

Spec == Init /\ [][Next]_vars

\* Every thread that can run is eventually scheduled.
Fairness ==
  /\ WF_vars(main)
  /\ \A c \in CommandLines : \A t \in 1..c.threads :
       WF_vars(t \in Threads /\ thread_worker(t))

FairSpec == Spec /\ Fairness

-----------------------------------------------------------------------------
(***************************************************************************)
(* Properties.                                                             *)
(***************************************************************************)
Labels == {"unborn", "insert", "inserting", "length", "measuring", "lookup",
           "finding", "deleting", "done"}

TypeOK ==
  /\ opt \in CommandLines
  /\ ListTypeOK
  /\ Elements = Pool
  /\ Heads = {head(s) : s \in Sublists}
  /\ DOMAIN frame = Threads \cup {main_thread}
  /\ mutex \in [Sublists -> Threads \cup {0}]
  /\ lock \in [Sublists -> {0, 1}]
  /\ pc \in [Threads -> Labels]
  /\ DOMAIN index = Threads \cup {main_thread}
  /\ \A t \in Threads :
       index[t] \in 0..(IF pc[t] \in {"length", "measuring"} THEN opt.lists
                                                            ELSE opt.iterations)
  /\ index[main_thread] \in 0..opt.lists
  /\ total \in [Threads \cup {main_thread} -> Nat]
  /\ created \in 0..opt.threads
  /\ joined \in 0..created
  /\ status \in {"running", "exit_0", "exit_1", "exit_2", "sigfpe"}
  /\ \A t \in Threads : pc[t] = "unborn" <=> t > created

Locking == opt.sync_type \in {"m", "s"}

\* The runs in which only one thread at a time works on a sublist.
Protected == Locking \/ opt.threads <= 1

\* Thread t is between taking and releasing the lock of sublist s.
Holds(t, s) ==
  \/ pc[t] \in {"inserting", "finding", "deleting"} /\ OwnSublist(t) = s
  \/ pc[t] = "measuring" /\ index[t] = s

Free(s) == \A t \in Threads : ~Holds(t, s)

\* Two threads never hold one sublist; the lock of a sublist says whether it is
\* held; and no thread holds any while main, without a lock, measures the lists.
SublistExclusion ==
  Locking =>
    /\ \A s \in Sublists : \A t, u \in Threads :
         Holds(t, s) /\ Holds(u, s) => t = u
    /\ \A s \in Sublists :
         /\ opt.sync_type = "m" => \A t \in Threads : Holds(t, s) <=> mutex[s] = t
         /\ opt.sync_type = "s" => (lock[s] = 0 <=> Free(s))
    /\ ~Idle(main_thread) => \A s \in Sublists : Free(s)

\* The elements thread t has inserted, and those whose keys it has deleted.
Inserted(t) ==
  CASE pc[t] \in {"unborn", "insert", "inserting"} ->
         {element(t, i) : i \in 0..(index[t] - 1)}
    [] OTHER -> {element(t, i) : i \in 0..(opt.iterations - 1)}
Deleted(t) ==
  IF pc[t] \in {"lookup", "finding", "deleting", "done"}
    THEN {element(t, i) : i \in 0..(index[t] - 1)}
    ELSE {}

WithKey(k, S) == {e \in S : key[e] = k}

\* A sublist whose lock nobody holds is well formed and holds exactly the keys
\* that hash to it, each as often as it was inserted and not yet deleted, however
\* the threads took turns: a key two threads share may be deleted by either.
KeysBalance ==
  Protected =>
    \A s \in Sublists : Free(s) =>
      /\ WellFormed(head(s))
      /\ \A k \in {key[e] : e \in Pool} :
           Cardinality(WithKey(k, Contents(head(s)))) =
             IF k % opt.lists = s
               THEN Cardinality(WithKey(k, UNION {Inserted(t) : t \in Threads}))
                    - Cardinality(WithKey(k, UNION {Deleted(t) : t \in Threads}))
               ELSE 0

\* The length a thread adds up, one sublist at a time while the others go on
\* inserting and deleting, counts at least its own elements and at most all.
LengthCountsOwn ==
  Protected =>
    \A t \in Threads : pc[t] \in {"lookup", "finding", "deleting", "done"} =>
      opt.lists = 0 \/ total[t] \in opt.iterations..(opt.threads * opt.iterations)

\* A protected run never fails: no lookup misses, no delete finds the links
\* broken, nothing faults, and main finds the sublists empty.
NeverCorrupt ==
  Protected => /\ status # "exit_2"
               /\ \A t \in DOMAIN frame : ~Faulted(t)

\* A protected run ends, whatever the order in which threads wait for sublists.
Termination == Protected ~> ~Running
=============================================================================
