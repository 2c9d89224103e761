--------------------------- MODULE Lab2aListProofs ---------------------------
(***************************************************************************)
(* Theorems about Lab2aList, for any set of command lines and any keys:    *)
(* any number of threads and elements.                                     *)
(***************************************************************************)
EXTENDS Lab2aList, SortedListProofs

Labels == {"unborn", "start", "insert", "length", "lookup", "delete", "done"}

\* The types that the lock depends on.
LockTypes ==
  /\ opt \in CommandLines
  /\ DOMAIN frame = Threads \cup {main_thread}
  /\ mutex \in Threads \cup {0}
  /\ lock \in {0, 1}
  /\ pc \in [Threads -> Labels]

\* main measures the list when every thread is done.
JoinInv ==
  /\ created \in 0..opt.threads
  /\ joined \in 0..created
  /\ \A t \in Threads : pc[t] = "unborn" <=> t > created
  /\ \A t \in 1..joined : pc[t] = "done"
  /\ ~Idle(main_thread) => joined = opt.threads

\* A thread is inside a list function only while it works.
IdleInv == \A t \in Threads : ~Working(t) => Idle(t)

\* One thread works at a time, and the lock says so.
LockInv ==
  Locking =>
    /\ \A t, u \in Threads : Working(t) /\ Working(u) => t = u
    /\ opt.sync_type = "m" => \A t \in Threads : Working(t) <=> mutex = t
    /\ opt.sync_type = "s" => (lock = 0 <=> \A t \in Threads : ~Working(t))

IInv == LockTypes /\ JoinInv /\ IdleInv /\ LockInv

\* A step of thread t: the other threads and main are where they were.
Only(t) ==
  /\ opt' = opt /\ UNCHANGED mainVars
  /\ DOMAIN frame' = DOMAIN frame
  /\ \A u \in DOMAIN frame \ {t} : frame'[u] = frame[u]
  /\ pc' \in [Threads -> Labels]
  /\ \A u \in Threads \ {t} : pc'[u] = pc[u]
  /\ pc[t] # "unborn" /\ pc'[t] # "unborn" /\ pc[t] # "done"

LEMMA OptType ==
  LockTypes => /\ opt.threads \in Nat /\ opt.iterations \in Nat
               /\ opt.sync_type \in SyncTypes
BY CommandLinesAssumption DEF LockTypes

-----------------------------------------------------------------------------
(***************************************************************************)
(* The kinds of steps.                                                     *)
(***************************************************************************)

\* Every step of a thread keeps JoinInv, and what LockTypes says but for the lock.
LEMMA OnlyStep ==
  ASSUME IInv, NEW t \in Threads, Only(t)
  PROVE  /\ JoinInv' /\ Threads' = Threads
         /\ opt' \in CommandLines
         /\ (DOMAIN frame = Threads \cup {main_thread})'
         /\ (pc \in [Threads -> Labels])'
         /\ \A u \in Threads \ {t} : (Working(u)' <=> Working(u)) /\ (Idle(u)' <=> Idle(u))
<1>1. Threads' = Threads /\ main_thread \notin Threads
  BY DEF Only, Threads, main_thread
<1>2. frame'[main_thread] = frame[main_thread]
  BY <1>1 DEF Only, IInv, LockTypes
<1>3. JoinInv'
  <2>1. created' = created /\ joined' = joined /\ opt' = opt /\ opt.threads \in Nat
    BY OptType DEF Only, mainVars, IInv
  <2>2. \A u \in Threads : pc'[u] = "unborn" <=> u > created
    BY DEF Only, IInv, JoinInv
  <2>3. \A u \in 1..joined : u \in Threads /\ u # t
    BY <2>1 DEF Only, IInv, JoinInv, Threads
  <2>4. \A u \in 1..joined : pc'[u] = "done"
    BY <2>3 DEF Only, IInv, JoinInv
  <2> QED
    BY <1>1, <1>2, <2>1, <2>2, <2>4 DEF IInv, JoinInv, Idle
<1>4. \A u \in Threads \ {t} : frame'[u] = frame[u]
  BY DEF Only, IInv, LockTypes
<1> QED
  BY <1>1, <1>3, <1>4 DEF Only, IInv, LockTypes, Working, Idle

\* Thread t works, and goes on working.
LEMMA WorkStep ==
  ASSUME IInv, NEW t \in Threads, Only(t), Working(t), Working(t)',
         UNCHANGED <<mutex, lock>>
  PROVE  IInv'
BY OnlyStep DEF IInv, LockTypes, IdleInv, LockInv, Locking, Only

\* Thread t begins to work.
LEMMA BeginStep ==
  ASSUME IInv, NEW t \in Threads, Only(t), ~Working(t), Working(t)',
         opt.sync_type = "m" => mutex = 0 /\ mutex' = t /\ lock' = lock,
         opt.sync_type = "s" => lock = 0 /\ lock' = 1 /\ mutex' = mutex,
         opt.sync_type = "none" => UNCHANGED <<mutex, lock>>
  PROVE  IInv'
<1>1. opt.sync_type \in SyncTypes /\ 0 \notin Threads /\ opt' = opt
  BY OptType DEF IInv, Threads, Only
<1>2. LockTypes'
  BY <1>1, OnlyStep DEF IInv, LockTypes, SyncTypes
<1>3. IdleInv' /\ JoinInv'
  BY OnlyStep DEF IInv, IdleInv
<1>4. LockInv'
  <2>1. Locking => \A u \in Threads : ~Working(u)
    BY <1>1 DEF IInv, LockInv, Locking
  <2>2. Locking => \A u \in Threads : Working(u)' <=> u = t
    BY <2>1, OnlyStep
  <2> QED
    BY <1>1, <2>1, <2>2, OnlyStep DEF LockInv, Locking
<1> QED
  BY <1>2, <1>3, <1>4 DEF IInv

\* Thread t ends its work.
LEMMA EndStep ==
  ASSUME IInv, NEW t \in Threads, Only(t), Working(t), ~Working(t)', Idle(t)',
         mutex' = IF opt.sync_type = "m" THEN 0 ELSE mutex,
         lock' = IF opt.sync_type = "s" THEN 0 ELSE lock
  PROVE  IInv'
<1>1. 0 \notin Threads /\ opt' = opt
  BY DEF Threads, Only
<1>2. LockTypes' /\ JoinInv' /\ IdleInv'
  BY <1>1, OnlyStep DEF IInv, LockTypes, IdleInv
<1>3. LockInv'
  BY <1>1, OnlyStep DEF IInv, LockInv, Locking
<1> QED
  BY <1>2, <1>3 DEF IInv

-----------------------------------------------------------------------------
LEMMA InitIInv == Init => IInv
<1> SUFFICES ASSUME Init PROVE IInv
  OBVIOUS
<1>1. opt.threads \in Nat
  BY CommandLinesAssumption DEF Init
<1>2. LockTypes
  BY DEF Init, LockTypes, Labels
<1>3. JoinInv
  BY <1>1 DEF Init, JoinInv, Threads, Idle, NoCall, Frame, main_thread
<1>4. IdleInv /\ LockInv
  <2>1. \A t \in Threads : ~Working(t) /\ t # 0
    BY DEF Init, Working, Threads
  <2>2. \A t \in Threads : Idle(t)
    BY DEF Init, Idle, NoCall, Frame
  <2>3. mutex = 0 /\ lock = 0
    BY DEF Init
  <2> QED
    BY <2>1, <2>2, <2>3 DEF IdleInv, LockInv
<1> QED
  BY <1>2, <1>3, <1>4 DEF IInv

LEMMA NextIInv == IInv /\ [Next]_vars => IInv'
<1> SUFFICES ASSUME IInv, [Next]_vars PROVE IInv'
  OBVIOUS
<1>t. LockTypes /\ JoinInv /\ IdleInv /\ LockInv
  BY DEF IInv
<1>a. opt.threads \in Nat /\ opt.sync_type \in SyncTypes
  BY <1>t, OptType
<1>p. pc \in [Threads -> Labels] /\ DOMAIN frame = Threads \cup {main_thread}
  BY <1>t DEF LockTypes
<1> USE DEF At, Enter
\* The steps that take the lock, or go without one.
<1>1. ASSUME NEW t \in Threads, MutexLock(t) \/ SpinLock(t) \/ NoLock(t) PROVE IInv'
  <2>1. Only(t) /\ ~Working(t) /\ Working(t)'
    BY <1>1, <1>p DEF MutexLock, SpinLock, NoLock, Only, Working, Labels, mainVars
  <2> QED
    BY <1>1, <2>1, BeginStep DEF MutexLock, SpinLock, NoLock
\* The steps of a thread at work.
<1>2. ASSUME NEW t \in Threads,
             \/ InsertElement(t) \/ ElementInserted(t) \/ GetLength(t)
             \/ LengthObtained(t) \/ LookUpKey(t) \/ DeleteFound(t) \/ ElementDeleted(t)
      PROVE  IInv'
  <2> USE DEF Only, Working, Labels, mainVars, Call, Leave
  <2>1. CASE InsertElement(t) \/ LookUpKey(t)
    <3>1. Only(t) /\ Working(t) /\ Working(t)' /\ UNCHANGED <<mutex, lock>>
      BY <2>1, <1>p DEF InsertElement, LookUpKey, workerVars, threadVars
    <3> QED
      BY <3>1, WorkStep
  <2>2. CASE ElementInserted(t)
    <3>1. Only(t) /\ Working(t) /\ Working(t)' /\ UNCHANGED <<mutex, lock>>
      BY <2>2, <1>p DEF ElementInserted
    <3> QED
      BY <3>1, WorkStep
  <2>3. CASE GetLength(t) \/ LengthObtained(t)
    <3>1. Only(t) /\ Working(t) /\ Working(t)' /\ UNCHANGED <<mutex, lock>>
      BY <2>3, <1>p DEF GetLength, LengthObtained
    <3> QED
      BY <3>1, WorkStep
  <2>4. CASE DeleteFound(t)
    <3>1. Only(t) /\ Working(t) /\ Working(t)' /\ UNCHANGED <<mutex, lock>>
      BY <2>4, <1>p DEF DeleteFound
    <3> QED
      BY <3>1, WorkStep
  <2>5. CASE ElementDeleted(t)
    <3>1. Only(t) /\ Working(t) /\ Working(t)' /\ UNCHANGED <<mutex, lock>>
      BY <2>5, <1>p DEF ElementDeleted, threadVars
    <3> QED
      BY <3>1, WorkStep
  <2> QED
    BY <1>2, <2>1, <2>2, <2>3, <2>4, <2>5
<1>3. ASSUME NEW t \in Threads, InList(t) PROVE IInv'
  <2>1. ListStep(t) /\ UNCHANGED <<opt, mutex, lock, pc, created, joined>>
    BY <1>3 DEF InList, workerVars, threadVars, mainVars
  <2>2. Working(t) /\ Working(t)'
    BY <1>t, <2>1, ListStepFrame DEF IdleInv, Working
  <2>3. Only(t)
    BY <1>p, <2>1, <2>2, ListStepFrame DEF Only, Working, mainVars
  <2> QED
    BY <2>1, <2>2, <2>3, WorkStep
\* The step that gives the lock back.
<1>4. ASSUME NEW t \in Threads, Finish(t) PROVE IInv'
  <2>1. Only(t) /\ Working(t) /\ ~Working(t)' /\ Idle(t)'
    BY <1>4, <1>p DEF Finish, Only, Working, Idle, Labels, mainVars
  <2> QED
    BY <1>4, <2>1, EndStep DEF Finish
\* The steps that move no thread.
<1>5. ASSUME UNCHANGED <<opt, mutex, lock, pc, mainVars>>,
             DOMAIN frame' = DOMAIN frame,
             \A t \in Threads : frame'[t] = frame[t],
             Idle(main_thread)' \/ joined = opt.threads
      PROVE  IInv'
  <2>1. Threads' = Threads
    BY <1>5 DEF Threads
  <2>2. \A t \in Threads : (Working(t)' <=> Working(t)) /\ (Idle(t)' <=> Idle(t))
    BY <1>5 DEF Working, Idle
  <2> QED
    BY <1>5, <1>t, <2>1, <2>2
       DEF IInv, LockTypes, JoinInv, IdleInv, LockInv, Locking, mainVars
<1>6. ASSUME UNCHANGED <<frame, opt, mutex, lock, pc, mainVars>> PROVE IInv'
  BY <1>5, <1>6, <1>t DEF JoinInv, Idle
<1>7. ASSUME NEW t \in Threads, SegHandler(t) PROVE IInv'
  BY <1>6, <1>7 DEF SegHandler, threadVars
<1>8. CASE SystemCallFails \/ Report
  BY <1>6, <1>8 DEF SystemCallFails, Report, threadVars
<1>9. CASE MeasureList
  <2>1. \A t \in Threads : t # main_thread
    BY DEF Threads, main_thread
  <2> QED
    BY <1>5, <1>9, <1>p, <2>1 DEF MeasureList, Call, workerVars, threadVars
<1>10. CASE InList(main_thread)
  <2>1. ListStep(main_thread) /\ UNCHANGED <<opt, mutex, lock, pc, mainVars>>
    BY <1>10 DEF InList, workerVars, threadVars
  <2>2. \A t \in Threads : t \in DOMAIN frame \ {main_thread}
    BY <1>p DEF Threads, main_thread
  <2> QED
    BY <1>5, <1>t, <2>1, <2>2, ListStepFrame DEF JoinInv
<1>11. CASE CreateThread
  <2>1. created + 1 \in Threads /\ pc[created + 1] = "unborn"
    BY <1>11, <1>a, <1>t DEF CreateThread, JoinInv, Threads
  <2>2. /\ Threads' = Threads /\ opt' = opt /\ frame' = frame
        /\ mutex' = mutex /\ lock' = lock
        /\ \A t \in Threads : pc'[t] = IF t = created + 1 THEN "start" ELSE pc[t]
        /\ created' = created + 1 /\ joined' = joined /\ created < opt.threads
    BY <1>11, <1>p DEF CreateThread, Threads
  <2>3. \A t \in Threads : (Working(t)' <=> Working(t)) /\ (Idle(t)' <=> Idle(t))
    BY <2>1, <2>2 DEF Working, Idle
  <2>4. LockTypes'
    BY <1>11, <1>t, <2>1, <2>2 DEF CreateThread, LockTypes, Labels
  <2>5. JoinInv'
    <3>1. created \in Nat /\ joined \in 0..created
      BY <1>a, <1>t DEF JoinInv
    <3>2. Idle(main_thread)'
      BY <1>t, <2>2, <3>1 DEF JoinInv, Idle
    <3>3. created' \in 0..opt.threads /\ joined' \in 0..created'
      BY <1>a, <2>2, <3>1
    <3>4. \A t \in Threads : pc'[t] = "unborn" <=> t > created'
      BY <1>a, <1>t, <2>2, <3>1 DEF JoinInv, Threads
    <3>5. \A t \in 1..joined' : pc'[t] = "done"
      BY <1>a, <1>t, <2>2, <3>1 DEF JoinInv, Threads
    <3> QED
      BY <2>2, <3>2, <3>3, <3>4, <3>5 DEF JoinInv
  <2>6. IdleInv' /\ LockInv'
    BY <1>t, <2>2, <2>3 DEF IdleInv, LockInv, Locking
  <2> QED
    BY <2>4, <2>5, <2>6 DEF IInv
<1>12. CASE JoinThread
  <2>1. /\ Threads' = Threads /\ UNCHANGED <<opt, frame, mutex, lock, pc, created>>
        /\ joined' = joined + 1 /\ pc[joined + 1] = "done"
        /\ created = opt.threads /\ joined < opt.threads
    BY <1>12 DEF JoinThread, Threads, threadVars
  <2>2. \A t \in Threads : (Working(t)' <=> Working(t)) /\ (Idle(t)' <=> Idle(t))
    BY <2>1 DEF Working, Idle
  <2>3. JoinInv'
    BY <1>a, <1>t, <2>1 DEF JoinInv, Idle, Threads
  <2> QED
    BY <1>t, <2>1, <2>2, <2>3 DEF IInv, LockTypes, IdleInv, LockInv, Locking
<1>13. CASE UNCHANGED vars
  BY <1>6, <1>13 DEF vars, workerVars, threadVars
<1> QED
  BY <1>1, <1>2, <1>3, <1>4, <1>7, <1>8, <1>9, <1>10, <1>11, <1>12, <1>13
     DEF Next, main, thread_worker, Exited

\* IInv holds in every reachable state.
THEOREM Invariance == Spec => []IInv
BY InitIInv, NextIInv, PTL DEF Spec

\* The lock of 2A: with --sync one thread at a time works on the list, and neither
\* another thread nor main is inside a list function meanwhile.
THEOREM OneAtWork == Spec => []ListToItself
<1>1. IInv => ListToItself
  <2> SUFFICES ASSUME IInv, Locking, NEW t \in Threads, Working(t)
               PROVE  /\ \A u \in Threads \ {t} : ~Working(u)
                      /\ \A u \in DOMAIN frame \ {t} : Idle(u)
    BY DEF ListToItself
  <2>1. \A u \in Threads \ {t} : ~Working(u) /\ Idle(u)
    BY DEF IInv, LockInv, IdleInv
  <2>2. Idle(main_thread)
    BY DEF IInv, JoinInv, Working, Threads
  <2> QED
    BY <2>1, <2>2 DEF IInv, LockTypes
<1> QED
  BY Invariance, <1>1, PTL

-----------------------------------------------------------------------------
(***************************************************************************)
(* Types.                                                                  *)
(***************************************************************************)
ListTypes ==
  /\ ListTypeOK
  /\ Elements = Pool
  /\ Heads = {head}
  /\ \A t \in DOMAIN frame : HasArguments(frame[t])
  /\ index \in [Threads -> 0..opt.iterations]
  /\ status \in {"running", "exit_0", "exit_1", "exit_2", "sigfpe"}

\* Where in which function a thread is, and that it works on an element of its own.
PcOf(t) ==
  /\ pc[t] = "insert" => frame[t].at \in InsertStatements \cup {"idle", "returned"}
  /\ pc[t] = "length" => frame[t].at \in LengthStatements \cup {"returned"}
  /\ pc[t] = "lookup" =>
       /\ frame[t].at \in LookupStatements \cup {"idle", "returned", "fault"}
       /\ Returned(t) => frame[t].ret \in Elements \cup {NULL}
  /\ pc[t] = "delete" => frame[t].at \in DeleteStatements \cup {"returned", "fault"}
  /\ pc[t] \in {"insert", "lookup", "delete"} /\ ~Idle(t) => index[t] < opt.iterations
  /\ pc[t] \in {"unborn", "start"} => index[t] = 0
  /\ pc[t] = "done" => index[t] = opt.iterations

PcInv ==
  /\ \A t \in Threads : PcOf(t)
  /\ frame[main_thread].at \in LengthStatements \cup {"idle", "returned"}

TypeInv == IInv /\ ListTypes /\ PcInv

\* Position i of thread t is in the pool, and in no other position of a thread.
LEMMA ElementInPool ==
  ASSUME opt.threads \in Nat, opt.iterations \in Nat, NEW t \in Threads, NEW i \in Nat,
         i < opt.iterations
  PROVE  element(t, i) \in Pool
BY PoolPosition DEF element, Pool, Threads

LEMMA ElementsDistinct ==
  ASSUME opt.threads \in Nat, opt.iterations \in Nat,
         NEW t \in Threads, NEW i \in Nat, i < opt.iterations,
         NEW u \in Threads, NEW j \in Nat, j < opt.iterations,
         element(t, i) = element(u, j)
  PROVE  t = u /\ i = j
BY PoolDistinct DEF element, Threads

\* The numbering of the pool that the lemmas about the list assume.
LEMMA PoolNumbered ==
  ASSUME TypeInv
  PROVE  /\ Numbered /\ key \in [Elements -> Nat] /\ head \in Heads
         /\ opt.threads \in Nat /\ opt.iterations \in Nat
         /\ opt.sync_type \in SyncTypes /\ opt \in CommandLines
         /\ DOMAIN frame = Threads \cup {main_thread} /\ main_thread \notin Threads
<1>1. /\ opt.threads \in Nat /\ opt.iterations \in Nat /\ opt.sync_type \in SyncTypes
      /\ opt \in CommandLines
  BY OptType DEF TypeInv, IInv, LockTypes
<1>2. opt.threads * opt.iterations \in Nat
  BY <1>1
<1>3. Numbered
  BY <1>2 DEF TypeInv, ListTypes, Numbered, Pool, head
<1> QED
  BY <1>1, <1>3 DEF TypeInv, ListTypes, IInv, LockTypes, ListTypeOK, Threads, main_thread

\* A step of thread t that keeps the types of the list keeps those of the program,
\* if it leaves the thread itself where PcOf allows.
LEMMA ThreadTypes ==
  ASSUME TypeInv, NEW t \in Threads, IInv', opt' = opt,
         ListTypeOK', Elements' = Elements, Heads' = Heads,
         DOMAIN frame' = DOMAIN frame, HasArguments(frame'[t]),
         \A u \in DOMAIN frame \ {t} : frame'[u] = frame[u],
         \A u \in Threads \ {t} : pc'[u] = pc[u] /\ index'[u] = index[u],
         index' \in [Threads -> 0..opt.iterations],
         status' \in {"running", "exit_0", "exit_1", "exit_2", "sigfpe"},
         PcOf(t)'
  PROVE  TypeInv'
<1>1. Threads' = Threads /\ Pool' = Pool /\ head' = head
  BY DEF Threads, Pool, head
<1>2. ListTypes'
  BY <1>1 DEF TypeInv, ListTypes
<1>3. main_thread \in DOMAIN frame \ {t}
  BY PoolNumbered DEF main_thread
<1>4. \A u \in Threads \ {t} : frame'[u] = frame[u]
  BY PoolNumbered
<1>5. ASSUME NEW u \in Threads \ {t} PROVE PcOf(u)'
  <2>1. PcOf(u)
    BY DEF TypeInv, PcInv
  <2>2. pc'[u] = pc[u] /\ index'[u] = index[u] /\ frame'[u] = frame[u]
    BY <1>4
  <2> QED
    BY <2>1, <2>2 DEF PcOf, Idle, Returned
<1>6. PcInv'
  BY <1>1, <1>3, <1>5 DEF TypeInv, PcInv
<1> QED
  BY <1>2, <1>6 DEF TypeInv

\* A step that moves no thread and calls no function.
LEMMA StillTypes ==
  ASSUME TypeInv, IInv', UNCHANGED <<memory, key, frame, opt, pc, index>>,
         status' \in {"running", "exit_0", "exit_1", "exit_2", "sigfpe"}
  PROVE  TypeInv'
<1>1. /\ Threads' = Threads /\ Pool' = Pool /\ Elements' = Elements /\ Heads' = Heads
      /\ ListTypeOK' /\ head' = head
  BY DEF Threads, Pool, Elements, Heads, ListTypeOK, TypeInv, ListTypes, memory, LengthCap, head
<1>2. ListTypes'
  BY <1>1 DEF TypeInv, ListTypes
<1>3. PcInv'
  BY <1>1 DEF TypeInv, PcInv, PcOf, Idle, Returned
<1> QED
  BY <1>2, <1>3 DEF TypeInv

LEMMA InitTypeInv == Init => TypeInv
<1> SUFFICES ASSUME Init PROVE TypeInv
  OBVIOUS
<1>1. IInv /\ opt.threads \in Nat /\ opt.iterations \in Nat
  BY InitIInv, CommandLinesAssumption DEF Init
<1>2. PICK r \in KeyStreams : key = [e \in Pool |-> r[e]]
  BY DEF Init
<1>3. Elements = Pool /\ key \in [Elements -> Nat]
  <2>1. Pool \subseteq DOMAIN r /\ \A i \in DOMAIN r : r[i] \in Nat
    BY KeysAssumption DEF Init, Pool
  <2> QED
    BY <1>2, <2>1 DEF Elements
<1>4. Pool \subseteq Nat \ {0} /\ head \notin Pool
  <2>1. opt.threads * opt.iterations \in Nat
    BY <1>1
  <2> QED
    BY <2>1 DEF Pool, head
<1>5. Heads = {head}
  BY <1>3, <1>4 DEF Init, Heads
<1>6. Numbered
  <2>1. opt.threads * opt.iterations \in Nat
    BY <1>1
  <2> QED
    BY <1>3, <1>5, <2>1 DEF Numbered, Pool, head
<1>7. \A t \in DOMAIN frame : frame[t] = NoCall
  BY DEF Init
<1>8. NoCall \in Frames /\ HasArguments(NoCall)
  <2>1. 0 \in 0..LengthCap
    BY <1>6, NumberedFacts
  <2> QED
    BY <2>1 DEF NoCall, Frame, Frames, Statements, HasArguments, DeleteStatements
<1>9. ListTypeOK
  <2>1. frame \in [DOMAIN frame -> Frames]
    BY <1>7, <1>8 DEF Init
  <2> QED
    BY <1>3, <1>5, <2>1 DEF ListTypeOK, Init, Frames
<1>10. ListTypes
  BY <1>1, <1>3, <1>5, <1>7, <1>8, <1>9 DEF ListTypes, Init
<1>11. PcInv
  <2>1. \A t \in Threads \cup {main_thread} : frame[t].at = "idle"
    BY DEF Init, NoCall, Frame
  <2>2. \A t \in Threads : pc[t] = "unborn" /\ index[t] = 0
    BY DEF Init
  <2> QED
    BY <2>1, <2>2 DEF PcInv, PcOf
<1> QED
  BY <1>1, <1>10, <1>11 DEF TypeInv

LEMMA NextTypeInv == TypeInv /\ [Next]_vars => TypeInv'
<1> SUFFICES ASSUME TypeInv, [Next]_vars PROVE TypeInv'
  OBVIOUS
<1>i. IInv'
  BY NextIInv DEF TypeInv
<1>n. /\ Numbered /\ head \in Heads /\ opt.threads \in Nat /\ opt.iterations \in Nat
      /\ DOMAIN frame = Threads \cup {main_thread} /\ main_thread \notin Threads
  BY PoolNumbered
<1>t. /\ ListTypeOK /\ Elements = Pool /\ index \in [Threads -> 0..opt.iterations]
      /\ status \in {"running", "exit_0", "exit_1", "exit_2", "sigfpe"}
      /\ pc \in [Threads -> Labels] /\ head # NULL
      /\ \A t \in DOMAIN frame : HasArguments(frame[t])
  BY DEF TypeInv, ListTypes, IInv, LockTypes, head, NULL
<1>p. \A t \in Threads : PcOf(t)
  BY DEF TypeInv, PcInv
<1>e. \A t \in Threads : index[t] < opt.iterations =>
        /\ element(t, index[t]) \in Elements /\ element(t, index[t]) # NULL
        /\ index[t] + 1 \in 0..opt.iterations
  <2> SUFFICES ASSUME NEW t \in Threads, index[t] < opt.iterations
               PROVE  /\ element(t, index[t]) \in Elements /\ element(t, index[t]) # NULL
                      /\ index[t] + 1 \in 0..opt.iterations
    OBVIOUS
  <2>1. index[t] \in Nat
    BY <1>t
  <2>2. element(t, index[t]) \in Elements
    BY <1>n, <1>t, <2>1, ElementInPool
  <2> QED
    BY <1>n, <2>1, <2>2, NumberedFacts
<1> USE DEF At, Enter
\* Steps outside the functions of the list.
<1>1. ASSUME NEW t \in Threads, MutexLock(t) \/ SpinLock(t) \/ NoLock(t) \/ Finish(t)
      PROVE  TypeInv'
  <2>1. /\ UNCHANGED <<memory, key, frame, opt, index, status>>
        /\ \A u \in Threads \ {t} : pc'[u] = pc[u]
    BY <1>1, <1>t DEF MutexLock, SpinLock, NoLock, Finish
  <2>2. \/ /\ pc[t] = "start" /\ pc'[t] = "insert"
        \/ /\ pc[t] = "lookup" /\ pc'[t] = "done" /\ index[t] = opt.iterations
           /\ Idle(t)
    BY <1>1, <1>t DEF MutexLock, SpinLock, NoLock, Finish
  <2>3. frame[t].at = "idle"
    BY <2>2 DEF Idle, TypeInv, IInv, IdleInv, Working
  <2>4. PcOf(t)'
    BY <2>1, <2>2, <2>3 DEF PcOf, Idle, Returned
  <2>5. ListTypeOK' /\ Elements' = Elements /\ Heads' = Heads
    BY <1>t, <2>1 DEF ListTypeOK, Elements, Heads, memory, LengthCap
  <2> QED
    BY <1>i, <1>n, <1>t, <2>1, <2>4, <2>5, ThreadTypes
\* A thread calls a function.
<1>2. ASSUME NEW t \in Threads, InsertElement(t) \/ GetLength(t) \/ LookUpKey(t)
      PROVE  TypeInv'
  <2>1. PICK f \in {"insert", "length", "lookup"}, e \in Elements \cup {NULL} :
          /\ frame' = [frame EXCEPT ![t] = Frame(f, head, e, 0)]
          /\ pc'[t] = f /\ (f # "length" => index[t] < opt.iterations)
    BY <1>2, <1>e, <1>t DEF InsertElement, GetLength, LookUpKey, Call, workerVars, threadVars
  <2>2. /\ UNCHANGED <<next, prev, key, opt, index, status>>
        /\ \A u \in Threads \ {t} : pc'[u] = pc[u]
    BY <1>2, <1>t
       DEF InsertElement, GetLength, LookUpKey, memory, workerVars, threadVars
  <2>3. f \in Statements /\ f \notin DeleteStatements
    BY DEF Statements, DeleteStatements
  <2>4. /\ ListTypeOK' /\ Elements' = Elements /\ Heads' = Heads
        /\ DOMAIN frame' = DOMAIN frame /\ HasArguments(frame'[t])
        /\ frame'[t] = Frame(f, head, e, 0)
        /\ \A u \in DOMAIN frame \ {t} : frame'[u] = frame[u]
    BY <1>n, <1>t, <2>1, <2>2, <2>3, Called
  <2>5. PcOf(t)'
    <3>1. frame'[t].at = f
      BY <2>4 DEF Frame
    <3> QED
      BY <2>1, <2>2, <3>1
         DEF PcOf, Idle, Returned, InsertStatements, LengthStatements, LookupStatements
  <2> QED
    BY <1>i, <1>n, <1>t, <2>2, <2>4, <2>5, ThreadTypes
\* A thread leaves a function.
<1>3. ASSUME NEW t \in Threads, ElementInserted(t) \/ LengthObtained(t)
      PROVE  TypeInv'
  <2>1. /\ frame' = [frame EXCEPT ![t] = Frame("idle", NULL, NULL, 0)]
        /\ pc'[t] \in {"insert", "lookup"}
        /\ UNCHANGED <<next, prev, key, opt>>
        /\ \A u \in Threads \ {t} : pc'[u] = pc[u]
    BY <1>3, <1>t DEF ElementInserted, LengthObtained, Leave, NoCall, memory
  <2>2. /\ index' \in [Threads -> 0..opt.iterations]
        /\ \A u \in Threads \ {t} : index'[u] = index[u]
        /\ status' \in {"running", "exit_0", "exit_1", "exit_2", "sigfpe"}
    <3>1. CASE ElementInserted(t)
      <4>1. index[t] < opt.iterations
        BY <1>p, <3>1 DEF PcOf, ElementInserted, Returned, Idle
      <4> QED
        BY <1>e, <1>t, <3>1, <4>1 DEF ElementInserted
    <3>2. CASE LengthObtained(t)
      BY <1>n, <1>t, <3>2 DEF LengthObtained
    <3> QED
      BY <1>3, <3>1, <3>2
  <2>3. "idle" \in Statements /\ "idle" \notin DeleteStatements
    BY DEF Statements, DeleteStatements
  <2>4. /\ ListTypeOK' /\ Elements' = Elements /\ Heads' = Heads
        /\ DOMAIN frame' = DOMAIN frame /\ HasArguments(frame'[t])
        /\ frame'[t] = Frame("idle", NULL, NULL, 0)
        /\ \A u \in DOMAIN frame \ {t} : frame'[u] = frame[u]
    BY <1>n, <1>t, <2>1, <2>3, Called
  <2>5. PcOf(t)'
    <3>1. frame'[t].at = "idle"
      BY <2>4 DEF Frame
    <3> QED
      BY <2>1, <3>1 DEF PcOf, Idle, Returned
  <2> QED
    BY <1>i, <1>n, <1>t, <2>1, <2>2, <2>4, <2>5, ThreadTypes
<1>4. ASSUME NEW t \in Threads, DeleteFound(t) PROVE TypeInv'
  <2>1. CASE frame[t].ret = NULL
    BY <1>4, <1>i, <2>1, StillTypes DEF DeleteFound
  <2>2. CASE frame[t].ret # NULL
    <3>1. frame[t].ret \in Elements /\ index[t] < opt.iterations
      BY <1>4, <1>p, <2>2 DEF DeleteFound, PcOf, Returned, Idle
    <3>2. /\ frame' = [frame EXCEPT ![t] = Frame("delete", NULL, frame[t].ret, 0)]
          /\ pc'[t] = "delete" /\ UNCHANGED <<next, prev, key, opt, index, status>>
          /\ \A u \in Threads \ {t} : pc'[u] = pc[u]
      BY <1>4, <1>t, <2>2 DEF DeleteFound, Call, memory
    <3>3. "delete" \in Statements /\ "delete" \in DeleteStatements
      BY DEF Statements, DeleteStatements
    <3>4. /\ ListTypeOK' /\ Elements' = Elements /\ Heads' = Heads
          /\ DOMAIN frame' = DOMAIN frame /\ HasArguments(frame'[t])
          /\ frame'[t] = Frame("delete", NULL, frame[t].ret, 0)
          /\ \A u \in DOMAIN frame \ {t} : frame'[u] = frame[u]
      BY <1>n, <1>t, <2>2, <3>1, <3>2, <3>3, Called
    <3>5. PcOf(t)'
      <4>1. frame'[t].at = "delete"
        BY <3>4 DEF Frame
      <4> QED
        BY <3>1, <3>2, <3>3, <4>1 DEF PcOf, Idle, Returned
    <3> QED
      BY <1>i, <1>n, <1>t, <3>2, <3>4, <3>5, ThreadTypes
  <2> QED
    BY <2>1, <2>2
<1>5. ASSUME NEW t \in Threads, ElementDeleted(t) PROVE TypeInv'
  <2>1. CASE frame[t].ret = 1
    BY <1>5, <1>i, <2>1, StillTypes DEF ElementDeleted, threadVars
  <2>2. CASE frame[t].ret # 1
    <3>1. index[t] < opt.iterations
      BY <1>5, <1>p DEF ElementDeleted, PcOf, Returned, Idle
    <3>2. /\ frame' = [frame EXCEPT ![t] = Frame("idle", NULL, NULL, 0)]
          /\ pc'[t] = "lookup" /\ UNCHANGED <<next, prev, key, opt, status>>
          /\ \A u \in Threads \ {t} : pc'[u] = pc[u] /\ index'[u] = index[u]
          /\ index' \in [Threads -> 0..opt.iterations]
      BY <1>5, <1>e, <1>t, <2>2, <3>1 DEF ElementDeleted, Leave, NoCall, memory
    <3>3. "idle" \in Statements /\ "idle" \notin DeleteStatements
      BY DEF Statements, DeleteStatements
    <3>4. /\ ListTypeOK' /\ Elements' = Elements /\ Heads' = Heads
          /\ DOMAIN frame' = DOMAIN frame /\ HasArguments(frame'[t])
          /\ frame'[t] = Frame("idle", NULL, NULL, 0)
          /\ \A u \in DOMAIN frame \ {t} : frame'[u] = frame[u]
      BY <1>n, <1>t, <3>2, <3>3, Called
    <3>5. PcOf(t)'
      <4>1. frame'[t].at = "idle"
        BY <3>4 DEF Frame
      <4> QED
        BY <3>2, <4>1 DEF PcOf, Idle, Returned
    <3> QED
      BY <1>i, <1>n, <1>t, <3>2, <3>4, <3>5, ThreadTypes
  <2> QED
    BY <2>1, <2>2
\* A statement of a function.
<1>6. ASSUME NEW t \in DOMAIN frame, InList(t)
      PROVE  /\ ListTypeOK' /\ HasArguments(frame'[t])
             /\ Elements' = Elements /\ Heads' = Heads
             /\ DOMAIN frame' = DOMAIN frame
             /\ \A u \in DOMAIN frame \ {t} : frame'[u] = frame[u]
             /\ UNCHANGED <<opt, pc, index, status>>
  <2>1. ListStep(t) /\ UNCHANGED <<opt, pc, index, status>>
    BY <1>6 DEF InList, workerVars, threadVars
  <2> QED
    BY <1>n, <1>t, <2>1, ListTypeStep
<1>7. ASSUME NEW t \in Threads, InList(t) PROVE TypeInv'
  <2>1. t \in DOMAIN frame /\ ListStep(t)
    BY <1>7, <1>n DEF InList
  <2>2. UNCHANGED <<opt, pc, index, status>>
    BY <1>6, <1>7, <2>1
  <2>3. Working(t) /\ frame[t].at # "idle"
    BY <2>1, ListStepFrame DEF TypeInv, IInv, IdleInv, Idle
  <2>4. frame'[t].at # "idle" => PcOf(t)'
    <3> DEFINE Here == frame[t].at
               There == frame'[t].at
    <3>1. \/ /\ Here \in InsertStatements /\ There \in InsertStatements \cup {"returned"}
          \/ /\ Here \in DeleteStatements
             /\ There \in DeleteStatements \cup {"returned", "fault"}
          \/ /\ Here \in LookupStatements /\ SortedList_lookup(t)
             /\ There \in LookupStatements \cup {"returned", "fault"}
          \/ /\ Here \in LengthStatements /\ There \in LengthStatements \cup {"returned"}
      BY <1>t, <2>1, StepOfFunction
    <3>2. SortedList_lookup(t) /\ Returned(t)' =>
            frame'[t].ret \in (Elements \cup {NULL})'
      BY <1>6, <1>7, <1>n, <1>t, <2>1, LookupTypes DEF NULL
    <3>3. PcOf(t)
      BY <1>p
    <3> QED
      BY <2>2, <2>3, <3>1, <3>2, <3>3
         DEF PcOf, Idle, Returned, Working, InsertStatements, DeleteStatements,
             LookupStatements, LengthStatements
  <2>5. frame'[t].at # "idle"
    BY <1>t, <2>1, StepOfFunction
       DEF InsertStatements, DeleteStatements, LookupStatements, LengthStatements
  <2>6. PcOf(t)'
    BY <2>4, <2>5
  <2> QED
    BY <1>6, <1>7, <1>i, <1>t, <2>1, <2>2, <2>6, ThreadTypes
<1>8. CASE InList(main_thread)
  <2>1. main_thread \in DOMAIN frame /\ ListStep(main_thread)
    BY <1>8, <1>n DEF InList
  <2>2. frame'[main_thread].at \in LengthStatements \cup {"idle", "returned"}
    BY <1>t, <2>1, StepOfFunction
       DEF TypeInv, PcInv, InsertStatements, DeleteStatements, LookupStatements,
           LengthStatements
  <2>3. /\ Threads' = Threads /\ Pool' = Pool /\ head' = head
        /\ UNCHANGED <<opt, pc, index, status>>
    BY <1>6, <1>8, <2>1 DEF Threads, Pool, head
  <2>4. \A u \in Threads : frame'[u] = frame[u]
    BY <1>6, <1>8, <1>n, <2>1
  <2>5. ListTypes'
    BY <1>6, <1>8, <2>1, <2>3 DEF TypeInv, ListTypes
  <2>6. \A u \in Threads : PcOf(u)'
    BY <1>6, <1>8, <1>p, <2>1, <2>3, <2>4 DEF PcOf, Idle, Returned
  <2> QED
    BY <1>i, <2>2, <2>3, <2>5, <2>6 DEF TypeInv, PcInv
\* The steps of main, and the ends.
<1>9. ASSUME NEW t \in Threads, SegHandler(t) PROVE TypeInv'
  BY <1>9, <1>i, StillTypes DEF SegHandler, threadVars
<1>10. CASE SystemCallFails \/ Report \/ JoinThread
  BY <1>10, <1>i, <1>t, StillTypes DEF SystemCallFails, Report, JoinThread, threadVars
<1>11. CASE MeasureList
  <2>1. /\ frame' = [frame EXCEPT ![main_thread] = Frame("length", head, NULL, 0)]
        /\ UNCHANGED <<next, prev, key, opt, pc, index, status>>
    BY <1>11 DEF MeasureList, Call, memory, workerVars, threadVars
  <2>2. "length" \in Statements /\ "length" \notin DeleteStatements
    BY DEF Statements, DeleteStatements
  <2>3. /\ ListTypeOK' /\ Elements' = Elements /\ Heads' = Heads
        /\ DOMAIN frame' = DOMAIN frame /\ HasArguments(frame'[main_thread])
        /\ frame'[main_thread] = Frame("length", head, NULL, 0)
        /\ \A u \in DOMAIN frame \ {main_thread} : frame'[u] = frame[u]
    BY <1>n, <1>t, <2>1, <2>2, Called
  <2>4. Threads' = Threads /\ Pool' = Pool /\ head' = head
    BY <2>1 DEF Threads, Pool, head
  <2>5. \A u \in Threads : frame'[u] = frame[u]
    BY <1>n, <2>3
  <2>6. ListTypes'
    BY <2>1, <2>3, <2>4 DEF TypeInv, ListTypes
  <2>7. \A u \in Threads : PcOf(u)'
    BY <1>p, <2>1, <2>3, <2>5 DEF PcOf, Idle, Returned
  <2>8. frame'[main_thread].at \in LengthStatements \cup {"idle", "returned"}
    BY <2>3 DEF Frame, LengthStatements
  <2> QED
    BY <1>i, <2>4, <2>6, <2>7, <2>8 DEF TypeInv, PcInv
<1>12. CASE CreateThread
  <2>1. PICK t \in Threads : t = created + 1 /\ pc[t] = "unborn"
    BY <1>12, <1>n DEF CreateThread, TypeInv, IInv, JoinInv, Threads
  <2>2. /\ UNCHANGED <<memory, key, frame, opt, index, status>>
        /\ pc'[t] = "start" /\ \A u \in Threads \ {t} : pc'[u] = pc[u]
    BY <1>12, <1>t, <2>1 DEF CreateThread
  <2>3. index[t] = 0 /\ frame[t].at = "idle"
    BY <1>p, <2>1 DEF PcOf, TypeInv, IInv, IdleInv, Working, Idle
  <2>4. PcOf(t)'
    BY <2>2, <2>3 DEF PcOf, Idle, Returned
  <2>5. ListTypeOK' /\ Elements' = Elements /\ Heads' = Heads
    BY <1>t, <2>2 DEF ListTypeOK, Elements, Heads, memory, LengthCap
  <2> QED
    BY <1>i, <1>n, <1>t, <2>1, <2>2, <2>4, <2>5, ThreadTypes
<1>13. CASE UNCHANGED vars
  BY <1>13, <1>i, <1>t, StillTypes DEF vars, workerVars, threadVars
<1> QED
  BY <1>1, <1>2, <1>3, <1>4, <1>5, <1>7, <1>8, <1>9, <1>10, <1>11, <1>12, <1>13
     DEF Next, main, thread_worker, Exited

\* The variables of the program and of the list keep their types, a thread's index
\* stays within its own elements, and main has created the threads that have begun.
THEOREM TypeCorrect == Spec => []TypeOK
<1>1. Spec => []TypeInv
  BY InitTypeInv, NextTypeInv, PTL DEF Spec
<1>2. TypeInv => TypeOK
  BY DEF TypeInv, ListTypes, IInv, LockTypes, JoinInv, TypeOK, Labels
<1> QED
  BY <1>1, <1>2, PTL

-----------------------------------------------------------------------------
(***************************************************************************)
(* What the list of a protected run holds.  Entered and Left are what the  *)
(* threads have inserted and whose keys they have deleted.                 *)
(***************************************************************************)
Entered == UNION {Inserted(t) : t \in Threads}
Left == UNION {Deleted(t) : t \in Threads}

\* The function that thread t, or main, is in, and the element it works on.
Kind(t) ==
  CASE Idle(t) -> "none"
    [] ~Idle(t) /\ t = main_thread -> "length"
    [] OTHER -> pc[t]
Own(t) == element(t, index[t])

AtWork(t) ==
  \E k, I, D, e :
    /\ k = Kind(t) /\ I = Entered /\ D = Left /\ e = Own(t)
    /\ Serving(t, k, head, I, D, e)

\* The thread at work serves the list, or else main does.
Attended ==
  /\ \A t \in Threads : Working(t) => AtWork(t)
  /\ (\A t \in Threads : ~Working(t)) => AtWork(main_thread)
  /\ status # "exit_2"

Served == Protected => Attended

\* The first n elements of thread t.
FirstOf(t, n) == {element(t, i) : i \in 0..(n - 1)}

LEMMA FirstOfGrows ==
  /\ \A t : FirstOf(t, 0) = {}
  /\ \A t : \A n \in Nat : FirstOf(t, n + 1) = FirstOf(t, n) \cup {element(t, n)}
<1>1. 0..(0 - 1) = {}
  OBVIOUS
<1>2. \A n \in Nat : 0..((n + 1) - 1) = (0..(n - 1)) \cup {n}
  OBVIOUS
<1> QED
  BY <1>1, <1>2 DEF FirstOf

\* A thread's own books, in those terms.
LEMMA OwnBooks ==
  ASSUME TypeInv, NEW t \in Threads
  PROVE  /\ index[t] \in 0..opt.iterations /\ opt.iterations \in Nat
         /\ Inserted(t) = FirstOf(t, IF pc[t] \in {"length", "lookup", "delete", "done"}
                                       THEN opt.iterations ELSE index[t])
         /\ Deleted(t) = FirstOf(t, IF pc[t] \in {"lookup", "delete", "done"}
                                      THEN index[t] ELSE 0)
<1>1. index[t] \in 0..opt.iterations /\ opt.iterations \in Nat
  BY PoolNumbered DEF TypeInv, ListTypes
<1>2. Inserted(t) = FirstOf(t, IF pc[t] \in {"length", "lookup", "delete", "done"}
                                 THEN opt.iterations ELSE index[t])
  BY DEF Inserted, FirstOf
<1>3. Deleted(t) = FirstOf(t, IF pc[t] \in {"lookup", "delete", "done"}
                                THEN index[t] ELSE 0)
  BY FirstOfGrows DEF Deleted, FirstOf
<1> QED
  BY <1>1, <1>2, <1>3

\* The books change with those of one thread.
LEMMA Books ==
  ASSUME opt' = opt, NEW t \in Threads,
         \A u \in Threads \ {t} : pc'[u] = pc[u] /\ index'[u] = index[u],
         NEW X, NEW Y, Inserted(t)' = Inserted(t) \cup X, Deleted(t)' = Deleted(t) \cup Y
  PROVE  Entered' = Entered \cup X /\ Left' = Left \cup Y
<1>1. Threads' = Threads
  BY DEF Threads
<1>2. \A u \in Threads \ {t} : Inserted(u)' = Inserted(u) /\ Deleted(u)' = Deleted(u)
  BY DEF Inserted, Deleted, element
<1>3. Entered' = UNION {Inserted(u)' : u \in Threads}
  BY <1>1 DEF Entered
<1>4. Left' = UNION {Deleted(u)' : u \in Threads}
  BY <1>1 DEF Left
<1>5. Entered' = Entered \cup X
  BY <1>2, <1>3 DEF Entered
<1>6. Left' = Left \cup Y
  BY <1>2, <1>4 DEF Left
<1> QED
  BY <1>5, <1>6

\* One thread moves, and its books stay the same.
LEMMA BooksKept ==
  ASSUME UNCHANGED <<opt, index>>, NEW t \in Threads, \A u \in Threads \ {t} : pc'[u] = pc[u],
         Inserted(t)' = Inserted(t), Deleted(t)' = Deleted(t)
  PROVE  Entered' = Entered /\ Left' = Left
<1>1. Inserted(t)' = Inserted(t) \cup {} /\ Deleted(t)' = Deleted(t) \cup {}
  OBVIOUS
<1>2. \A u \in Threads \ {t} : pc'[u] = pc[u] /\ index'[u] = index[u]
  OBVIOUS
<1>3. Entered' = Entered \cup {} /\ Left' = Left \cup {}
  BY <1>1, <1>2, Books
<1> QED
  BY <1>3

\* No thread's books change.
LEMMA SameBooks ==
  ASSUME opt' = opt, \A u \in Threads : Inserted(u)' = Inserted(u) /\ Deleted(u)' = Deleted(u)
  PROVE  Entered' = Entered /\ Left' = Left
<1>1. Threads' = Threads
  BY DEF Threads
<1> QED
  BY <1>1 DEF Entered, Left

\* The element a thread is about to insert is new, and the one whose key it is about
\* to look up or delete has been inserted and not been deleted.
LEMMA OwnElement ==
  ASSUME TypeInv, NEW t \in Threads, index[t] < opt.iterations
  PROVE  /\ Own(t) \in Elements /\ Own(t) # NULL
         /\ pc[t] = "insert" => Own(t) \notin Entered
         /\ pc[t] \in {"lookup", "delete"} => Own(t) \in Entered \ Left
<1>1. /\ \A u \in Threads : index[u] \in 0..opt.iterations
      /\ opt.iterations \in Nat /\ opt.threads \in Nat /\ Elements = Pool /\ Numbered
  BY OwnBooks, PoolNumbered DEF TypeInv, ListTypes
<1>2. index[t] \in Nat
  BY <1>1
<1>3. Own(t) \in Elements /\ Own(t) # NULL
  <2>1. Own(t) \in Pool
    BY <1>1, <1>2, ElementInPool DEF Own
  <2> QED
    BY <1>1, <2>1, NumberedFacts
<1>4. ASSUME NEW u \in Threads, NEW n \in 0..opt.iterations, Own(t) \in FirstOf(u, n)
      PROVE  u = t /\ index[t] < n
  <2>1. PICK j \in 0..(n - 1) : element(u, j) = element(t, index[t])
    BY <1>4 DEF FirstOf, Own
  <2>2. j \in Nat /\ j < n /\ j < opt.iterations
    BY <1>1
  <2>3. u = t /\ j = index[t]
    BY <1>1, <1>2, <2>1, <2>2, ElementsDistinct
  <2> QED
    BY <2>2, <2>3
<1>5. ASSUME pc[t] = "insert" PROVE Own(t) \notin Entered
  <2> SUFFICES ASSUME NEW u \in Threads, Own(t) \in Inserted(u) PROVE FALSE
    BY DEF Entered
  <2>1. PICK n \in 0..opt.iterations :
          Inserted(u) = FirstOf(u, n) /\ (u = t => n = index[t])
    BY <1>1, <1>5, OwnBooks
  <2>2. u = t /\ index[t] < n
    BY <1>4, <2>1
  <2> QED
    BY <1>2, <2>1, <2>2
<1>6. ASSUME pc[t] \in {"lookup", "delete"} PROVE Own(t) \in Entered \ Left
  <2>1. Own(t) \in FirstOf(t, opt.iterations)
    BY <1>1, <1>2 DEF FirstOf, Own
  <2>2. Own(t) \in Entered
    BY <1>6, <2>1, OwnBooks DEF Entered
  <2>3. ASSUME NEW u \in Threads, Own(t) \in Deleted(u) PROVE FALSE
    <3>1. PICK n \in 0..opt.iterations :
            Deleted(u) = FirstOf(u, n) /\ (u = t => n = index[t])
      BY <1>1, <1>6, OwnBooks
    <3>2. u = t /\ index[t] < n
      BY <1>4, <2>3, <3>1
    <3> QED
      BY <1>2, <3>1, <3>2
  <2> QED
    BY <2>2, <2>3 DEF Left
<1> QED
  BY <1>3, <1>5, <1>6

\* Once every thread is done, what was inserted has been deleted.
LEMMA AllDone ==
  ASSUME TypeInv, \A t \in Threads : pc[t] = "done"
  PROVE  Entered \ Left = {}
<1>1. \A t \in Threads : index[t] = opt.iterations
  BY DEF TypeInv, PcInv, PcOf
<1>2. \A t \in Threads : Inserted(t) = Deleted(t)
  BY <1>1, OwnBooks
<1> QED
  BY <1>2 DEF Entered, Left

\* A thread that is alone at work and measures the list has inserted what the list
\* holds: its own elements.
LEMMA OnlyOwn ==
  ASSUME TypeInv, NEW t \in Threads, pc[t] = "length",
         \A u \in Threads \ {t} : ~Working(u)
  PROVE  Cardinality(Entered \ Left) = opt.iterations
<1> DEFINE N == opt.iterations
           A == (t - 1) * N
<1>1. /\ \A u \in Threads : index[u] \in 0..N
      /\ N \in Nat /\ opt.threads \in Nat /\ t \in Nat /\ pc \in [Threads -> Labels]
  BY OwnBooks, PoolNumbered DEF TypeInv, IInv, LockTypes, Threads
<1>2. ASSUME NEW u \in Threads \ {t} PROVE Inserted(u) = Deleted(u)
  <2>1. pc[u] \in {"unborn", "start", "done"}
    BY DEF Working
  <2>2. /\ pc[u] \in {"unborn", "start"} => index[u] = 0
        /\ pc[u] = "done" => index[u] = N
    BY DEF TypeInv, PcInv, PcOf
  <2> QED
    BY <2>1, <2>2, OwnBooks
<1>3. Inserted(t) = FirstOf(t, N) /\ Deleted(t) = {}
  BY OwnBooks, FirstOfGrows
<1>4. ASSUME NEW u \in Threads \ {t}, NEW e \in Deleted(u), e \in Inserted(t) PROVE FALSE
  <2>1. PICK n \in 0..N : Deleted(u) = FirstOf(u, n)
    BY <1>1, OwnBooks
  <2>2. PICK i \in 0..(N - 1), j \in 0..(n - 1) : e = element(t, i) /\ e = element(u, j)
    BY <1>3, <1>4, <2>1 DEF FirstOf
  <2>3. i \in Nat /\ i < N /\ j \in Nat /\ j < N
    BY <1>1
  <2> QED
    BY <1>1, <2>2, <2>3, ElementsDistinct
<1>5. Entered \ Left = FirstOf(t, N)
  BY <1>2, <1>3, <1>4 DEF Entered, Left
<1>6. FirstOf(t, N) = (A + 1)..(A + N)
  <2>1. A \in Int
    BY <1>1
  <2>2. \A i : element(t, i) = A + i + 1
    BY DEF element
  <2> HIDE DEF A, N
  <2>3. \A i \in 0..(N - 1) : A + i + 1 \in (A + 1)..(A + N)
    BY <1>1, <2>1
  <2>4. \A x \in (A + 1)..(A + N) : x - A - 1 \in 0..(N - 1) /\ x = A + (x - A - 1) + 1
    BY <1>1, <2>1
  <2> QED
    BY <2>2, <2>3, <2>4 DEF FirstOf
<1>7. Cardinality((A + 1)..(A + N)) = N
  <2>1. A \in Int
    BY <1>1
  <2> HIDE DEF A, N
  <2>2. A + 1 \in Int /\ A + N \in Int
    BY <1>1, <2>1
  <2>3. Cardinality((A + 1)..(A + N)) = IF A + 1 > A + N THEN 0 ELSE (A + N) - (A + 1) + 1
    BY <2>2, FS_Interval
  <2> QED
    BY <1>1, <2>1, <2>3
<1> QED
  BY <1>5, <1>6, <1>7

-----------------------------------------------------------------------------
(***************************************************************************)
(* Attended is invariant in a protected run.                               *)
(***************************************************************************)

\* One thread at a time works in a protected run.
LEMMA OneWorks ==
  ASSUME TypeInv, Protected, NEW t \in Threads, Working(t)
  PROVE  \A u \in Threads \ {t} : ~Working(u)
<1>1. CASE Locking
  BY <1>1 DEF TypeInv, IInv, LockInv
<1>2. CASE opt.threads <= 1
  BY <1>2, PoolNumbered DEF Threads
<1> QED
  BY <1>1, <1>2 DEF Protected

\* A thread that works and serves the list after a step in which no other thread began.
LEMMA ThreadAttends ==
  ASSUME TypeInv, Protected, opt' = opt, NEW t \in Threads, Working(t)',
         \A u \in Threads \ {t} : ~Working(u)', AtWork(t)', status' # "exit_2"
  PROVE  Attended'
<1>1. Threads' = Threads
  BY DEF Threads
<1> QED
  BY <1>1 DEF Attended

\* A step of the thread at work that leaves it at work.
LEMMA WorkerAttends ==
  ASSUME TypeInv, Protected, opt' = opt, NEW t \in Threads, Working(t), Working(t)',
         \A u \in Threads \ {t} : pc'[u] = pc[u], AtWork(t)', status' # "exit_2"
  PROVE  Attended'
<1>1. \A u \in Threads \ {t} : ~Working(u)'
  BY OneWorks DEF Working
<1> QED
  BY <1>1, ThreadAttends

LEMMA AtWorkNext ==
  ASSUME NEW t, NEW k, NEW I, NEW D, NEW e,
         k = Kind(t)', I = Entered', D = Left', e = Own(t)', Serving(t, k, head, I, D, e)'
  PROVE  AtWork(t)'
BY DEF AtWork, head

\* A step that leaves the list, the books and the threads at work where they are.
LEMMA StillAttended ==
  ASSUME TypeInv, Attended, UNCHANGED <<memory, key, frame, opt, index>>,
         Entered' = Entered, Left' = Left, status' # "exit_2",
         \A u \in Threads : /\ Working(u)' <=> Working(u)
                            /\ Working(u) => pc'[u] = pc[u]
  PROVE  Attended'
<1>1. Numbered /\ head \in Heads /\ main_thread \notin Threads
  BY PoolNumbered
<1>2. Threads' = Threads
  BY DEF Threads
<1>3. ASSUME NEW u \in Threads \cup {main_thread}, AtWork(u), u \in Threads => pc'[u] = pc[u]
      PROVE  AtWork(u)'
  <2>1. PICK k, I, D, e : /\ k = Kind(u) /\ I = Entered /\ D = Left /\ e = Own(u)
                          /\ Serving(u, k, head, I, D, e)
    BY <1>3 DEF AtWork
  <2>2. Kind(u)' = Kind(u) /\ Own(u)' = Own(u)
    BY <1>1, <1>3 DEF Kind, Idle, Own, element, main_thread
  <2>3. k \in Calls \cup {"none"}
    <3>1. CASE u = main_thread
      BY <2>1, <3>1 DEF Kind, Calls
    <3>2. CASE u \in Threads
      <4>1. ~Idle(u) => Working(u)
        BY <3>2 DEF TypeInv, IInv, IdleInv
      <4>2. pc[u] \in Labels
        BY <3>2 DEF TypeInv, IInv, LockTypes
      <4> QED
        BY <2>1, <4>1, <4>2 DEF Kind, Calls, Working, Labels
    <3> QED
      BY <3>1, <3>2
  <2>4. Untouched({}) /\ {} \cap ({head} \cup I \cup {e}) = {} /\ key' = key
    BY NothingTouched DEF memory
  <2>5. Serving(u, k, head, I, D, e)'
    BY <1>1, <2>1, <2>3, <2>4, ServingKept
  <2> QED
    BY <2>1, <2>2, <2>5, AtWorkNext
<1>4. \A u \in Threads : Working(u)' => AtWork(u)'
  BY <1>3 DEF Attended
<1>5. (\A u \in Threads : ~Working(u)') => AtWork(main_thread)'
  BY <1>1, <1>3 DEF Attended
<1> QED
  BY <1>2, <1>4, <1>5 DEF Attended

LEMMA InitServed == Init => Served
<1> SUFFICES ASSUME Init PROVE Attended
  BY DEF Served
<1>1. TypeInv
  BY InitTypeInv
<1>2. Numbered /\ head \in Heads
  BY <1>1, PoolNumbered
<1>3. Entered = {} /\ Left = {}
  <2>1. \A t \in Threads : pc[t] = "unborn" /\ index[t] = 0
    BY DEF Init
  <2>2. \A t \in Threads : Inserted(t) = {} /\ Deleted(t) = {}
    BY <1>1, <2>1, OwnBooks, FirstOfGrows
  <2> QED
    BY <2>2 DEF Entered, Left
<1>4. Kind(main_thread) = "none"
  BY DEF Init, Kind, Idle, NoCall, Frame
<1>5. next[head] = NULL
  BY DEF Init
<1>6. Serving(main_thread, "none", head, {}, {}, Own(main_thread))
  BY <1>2, <1>5, ServingEmpty
<1>7. AtWork(main_thread)
  BY <1>3, <1>4, <1>6 DEF AtWork
<1>8. \A t \in Threads : ~Working(t)
  BY DEF Init, Working
<1> QED
  BY <1>7, <1>8 DEF Attended, Init

LEMMA NextServed == TypeInv /\ Served /\ [Next]_vars => Served'
<1> SUFFICES ASSUME TypeInv, Served, [Next]_vars, Protected' PROVE Attended'
  BY DEF Served
<1>i. TypeInv'
  BY NextTypeInv
<1>o. opt' = opt
  BY DEF Next, main, CreateThread, JoinThread, MeasureList, InList, Report, SystemCallFails,
     thread_worker, MutexLock, SpinLock, NoLock, InsertElement, ElementInserted, GetLength,
     LengthObtained, LookUpKey, DeleteFound, ElementDeleted, Finish, SegHandler, Exited,
     vars, workerVars
<1>a. Protected /\ Attended
  BY <1>o DEF Protected, Locking, Served
<1>n. /\ Numbered /\ head \in Heads /\ key \in [Elements -> Nat] /\ ListTypeOK
      /\ opt.iterations \in Nat /\ opt.threads \in Nat
      /\ DOMAIN frame = Threads \cup {main_thread} /\ main_thread \notin Threads
      /\ \A t \in DOMAIN frame : HasArguments(frame[t])
      /\ frame \in [DOMAIN frame -> Frames]
  BY PoolNumbered DEF TypeInv, ListTypes, ListTypeOK, Frames
<1>t. /\ pc \in [Threads -> Labels] /\ index \in [Threads -> 0..opt.iterations]
      /\ status # "exit_2" /\ Threads' = Threads
  BY <1>a, <1>o DEF TypeInv, ListTypes, IInv, LockTypes, Attended, Threads
<1>p. \A t \in Threads : PcOf(t)
  BY DEF TypeInv, PcInv
\* What thread t at work is doing.
<1>w. ASSUME NEW t \in Threads, Working(t)
      PROVE  \E k, I, D, e :
               /\ k = Kind(t) /\ I = Entered /\ D = Left /\ e = Own(t)
               /\ k = IF Idle(t) THEN "none" ELSE pc[t]
               /\ pc[t] \in Calls
               /\ Serving(t, k, head, I, D, e)
  <2>1. AtWork(t)
    BY <1>a, <1>w DEF Attended
  <2>2. Kind(t) = IF Idle(t) THEN "none" ELSE pc[t]
    BY <1>n, <1>w DEF Kind
  <2>3. pc[t] \in Calls
    BY <1>t, <1>w DEF Working, Labels, Calls
  <2> QED
    BY <2>1, <2>2, <2>3 DEF AtWork
<1> USE DEF At, Enter
\* A thread begins, where nobody works on the list.
<1>1. ASSUME NEW t \in Threads, MutexLock(t) \/ SpinLock(t) \/ NoLock(t)
      PROVE  Attended'
  <2>1. /\ pc' = [pc EXCEPT ![t] = "insert"] /\ pc[t] = "start"
        /\ UNCHANGED <<next, prev, key, frame, index, status>>
    BY <1>1, <1>t DEF MutexLock, SpinLock, NoLock, memory
  <2>2. ~Working(t) /\ Working(t)' /\ \A u \in Threads \ {t} : pc'[u] = pc[u]
    BY <1>t, <2>1 DEF Working
  <2>3. \A u \in Threads : ~Working(u)
    <3> SUFFICES ASSUME NEW u \in Threads, Working(u) PROVE FALSE
      OBVIOUS
    <3>1. u # t /\ Working(u)'
      BY <2>2 DEF Working
    <3>2. CASE Locking
      <4>1. Locking'
        BY <1>o, <3>2 DEF Locking
      <4> QED
        BY <1>i, <1>t, <2>2, <3>1, <4>1 DEF TypeInv, IInv, LockInv
    <3>3. CASE opt.threads <= 1
      BY <1>n, <3>1, <3>3 DEF Threads
    <3> QED
      BY <1>a, <3>2, <3>3 DEF Protected
  <2>4. Idle(t) /\ index[t] = 0
    BY <1>p, <2>1, <2>2 DEF TypeInv, IInv, IdleInv, PcOf
  <2>5. AtWork(main_thread)
    BY <1>a, <2>3 DEF Attended
  <2>6. Idle(main_thread)
    <3>1. joined # opt.threads
      BY <1>n, <2>1 DEF TypeInv, IInv, JoinInv, Threads
    <3> QED
      BY <3>1 DEF TypeInv, IInv, JoinInv
  <2>7. PICK k, I, D, e : /\ k = "none" /\ I = Entered /\ D = Left
                          /\ Serving(main_thread, k, head, I, D, e)
    BY <2>5, <2>6 DEF AtWork, Kind
  <2>8. Inserted(t)' = Inserted(t) /\ Deleted(t)' = Deleted(t)
    BY <1>o, <1>t, <2>1 DEF Inserted, Deleted, element
  <2>9. Entered' = I /\ Left' = D
    <3>1. Entered' = Entered /\ Left' = Left
      BY <1>o, <2>1, <2>2, <2>7, <2>8, BooksKept
    <3> QED
      BY <3>1, <2>1, <2>2, <2>7, <2>8
  <2>10. Kind(t)' = "none"
    BY <2>1, <2>4 DEF Kind, Idle
  <2>11. PICK x : x = Own(t)'
    OBVIOUS
  <2>12. Serving(t, "none", head, I, D, x)'
    BY <1>n, <2>1, <2>7, ServingNobody
  <2>13. AtWork(t)'
    BY <2>9, <2>10, <2>11, <2>12, AtWorkNext
  <2>14. \A u \in Threads \ {t} : ~Working(u)'
    BY <2>2, <2>3 DEF Working
  <2> QED
    BY <1>a, <1>o, <1>t, <2>1, <2>2, <2>13, <2>14, ThreadAttends
\* A thread calls a function.
<1>2. ASSUME NEW t \in Threads, InsertElement(t) \/ GetLength(t) \/ LookUpKey(t)
      PROVE  Attended'
  <2>1. PICK f \in {"insert", "length", "lookup"} :
          /\ frame'[t] = Frame(f, head, IF f = "length" THEN NULL ELSE Own(t), 0)
          /\ pc'[t] = f /\ Idle(t)
          /\ f = "length" => pc[t] = "insert" /\ index[t] = opt.iterations
          /\ f # "length" => pc[t] = f /\ index[t] < opt.iterations
    BY <1>2, <1>n, <1>t DEF InsertElement, GetLength, LookUpKey, Call, Own, workerVars, threadVars
  <2>2. /\ UNCHANGED <<next, prev, key, index, status>>
        /\ \A u \in Threads \ {t} : pc'[u] = pc[u]
    BY <1>2, <1>t
       DEF InsertElement, GetLength, LookUpKey, memory, workerVars, threadVars
  <2>3. Working(t) /\ Working(t)'
    BY <2>1 DEF Working
  <2>4. PICK k, I, D, e : /\ k = "none" /\ I = Entered /\ D = Left /\ e = Own(t)
                          /\ Serving(t, k, head, I, D, e)
    BY <1>w, <2>1, <2>3
  <2>5. Inserted(t)' = Inserted(t) /\ Deleted(t)' = Deleted(t)
    BY <1>o, <2>1, <2>2 DEF Inserted, Deleted, element
  <2>6. Entered' = I /\ Left' = D
    <3>1. Entered' = Entered /\ Left' = Left
      BY <1>o, <2>2, <2>4, <2>5, BooksKept
    <3> QED
      BY <3>1, <2>2, <2>4, <2>5
  <2>7. Kind(t)' = f /\ Own(t)' = e
    BY <1>n, <1>o, <2>1, <2>2, <2>4 DEF Kind, Own, Idle, Frame, element
  <2>8. Serving(t, f, head, I, D, e)'
    <3>1. /\ f = "insert" => e \in Elements \ I
          /\ f = "lookup" => e \in I \ D
      BY <2>1, <2>4, OwnElement
    <3>2. /\ e \in Elements \ I /\ frame'[t] = Frame("insert", head, e, 0) =>
               Serving(t, "insert", head, I, D, e)'
          /\ frame'[t] = Frame("length", head, NULL, 0) =>
               Serving(t, "length", head, I, D, e)'
          /\ e \in I \ D /\ frame'[t] = Frame("lookup", head, e, 0) =>
               Serving(t, "lookup", head, I, D, e)'
      BY <1>n, <2>2, <2>4, ServingCalled, Zenon
    <3>3. CASE f = "insert"
      BY <2>1, <2>4, <3>1, <3>2, <3>3
    <3>4. CASE f = "length"
      BY <2>1, <2>4, <3>1, <3>2, <3>4
    <3>5. CASE f = "lookup"
      BY <2>1, <2>4, <3>1, <3>2, <3>5
    <3> QED
      BY <2>1, <3>3, <3>4, <3>5
  <2>9. AtWork(t)'
    BY <2>6, <2>7, <2>8, AtWorkNext
  <2> QED
    BY <1>a, <1>o, <1>t, <2>2, <2>3, <2>9, WorkerAttends
\* A function returns, and the thread enters what it did in its books.
<1>3. ASSUME NEW t \in Threads, ElementInserted(t) \/ LengthObtained(t) \/ ElementDeleted(t)
      PROVE  Attended'
  <2>1. Working(t) /\ Returned(t) /\ ~Idle(t)
    BY <1>3 DEF ElementInserted, LengthObtained, ElementDeleted, Working, Returned, Idle
  <2>2. PICK k, I, D, e : /\ k = pc[t] /\ k \in Calls
                          /\ I = Entered /\ D = Left /\ e = Own(t)
                          /\ Serving(t, k, head, I, D, e)
    BY <1>w, <2>1
  <2>3. k = "delete" => frame[t].ret = 0
    BY <1>n, <2>1, <2>2, ServingResult
  <2>4. frame[t].ret # -1
    BY <1>n DEF Frames
  <2>5. /\ UNCHANGED <<next, prev, key>>
        /\ status' # "exit_2" /\ Working(t)' /\ Idle(t)'
        /\ \A u \in Threads \ {t} : pc'[u] = pc[u] /\ index'[u] = index[u]
        /\ k = "insert" => pc'[t] = "insert" /\ index'[t] = index[t] + 1
        /\ k = "length" => pc'[t] = "lookup" /\ index'[t] = 0
        /\ k = "delete" => pc'[t] = "lookup" /\ index'[t] = index[t] + 1
        /\ k \in {"insert", "length", "delete"}
    BY <1>3, <1>n, <1>t, <2>2, <2>3, <2>4
       DEF ElementInserted, LengthObtained, ElementDeleted, Leave, NoCall, Frame,
           Working, Idle, memory
  <2>6. /\ Inserted(t)' = Inserted(t) \cup (IF k = "insert" THEN {e} ELSE {})
        /\ Deleted(t)' = Deleted(t) \cup (IF k = "delete" THEN {e} ELSE {})
    <3>1. \A n : FirstOf(t, n)' = FirstOf(t, n)
      BY <1>o DEF FirstOf, element
    <3>2. /\ Inserted(t)' = FirstOf(t, IF pc'[t] \in {"length", "lookup", "delete", "done"}
                                         THEN opt.iterations ELSE index'[t])
          /\ Deleted(t)' = FirstOf(t, IF pc'[t] \in {"lookup", "delete", "done"}
                                        THEN index'[t] ELSE 0)
      BY <1>o, FirstOfGrows DEF Inserted, Deleted, FirstOf, element
    <3>3. index[t] \in Nat /\ e = element(t, index[t])
      BY <1>t, <2>2 DEF Own
    <3>4. FirstOf(t, index[t] + 1) = FirstOf(t, index[t]) \cup {e} /\ FirstOf(t, 0) = {}
      BY <3>3, FirstOfGrows
    <3> QED
      BY <2>2, <2>5, <3>2, <3>4, OwnBooks
  <2>7. /\ Entered' = IF k = "insert" THEN I \cup {e} ELSE I
        /\ Left' = IF k = "delete" THEN D \cup {e} ELSE D
    <3>1. PICK X, Y : /\ X = IF k = "insert" THEN {e} ELSE {}
                      /\ Y = IF k = "delete" THEN {e} ELSE {}
      OBVIOUS
    <3>2. Inserted(t)' = Inserted(t) \cup X /\ Deleted(t)' = Deleted(t) \cup Y
      BY <2>6, <3>1
    <3>3. \A u \in Threads \ {t} : pc'[u] = pc[u] /\ index'[u] = index[u]
      BY <2>5
    <3>4. Entered' = Entered \cup X /\ Left' = Left \cup Y
      BY <1>o, <3>2, <3>3, Books
    <3> QED
      BY <2>2, <3>1, <3>4
  <2>8. Kind(t)' = "none"
    BY <2>5 DEF Kind
  <2>9. PICK x : x = Own(t)'
    OBVIOUS
  <2>10. Serving(t, "none", head, IF k = "insert" THEN I \cup {e} ELSE I,
                 IF k = "delete" THEN D \cup {e} ELSE D, x)'
    BY <2>1, <2>2, <2>5, ServingReturned
  <2>11. AtWork(t)'
    BY <2>7, <2>8, <2>9, <2>10, AtWorkNext
  <2> QED
    BY <1>a, <1>o, <2>1, <2>5, <2>11, WorkerAttends
\* What was found is deleted.
<1>4. ASSUME NEW t \in Threads, DeleteFound(t) PROVE Attended'
  <2>1. Working(t) /\ Returned(t) /\ ~Idle(t) /\ pc[t] = "lookup"
    BY <1>4 DEF DeleteFound, Working, Returned, Idle
  <2>2. PICK k, I, D, e : /\ k = "lookup" /\ k \in Calls
                          /\ I = Entered /\ D = Left /\ e = Own(t)
                          /\ Serving(t, k, head, I, D, e)
    BY <1>w, <2>1
  <2>3. frame[t].ret \in Elements
    BY <1>n, <2>1, <2>2, ServingResult
  <2>4. frame[t].ret # NULL
    BY <1>n, <2>3, NumberedFacts
  <2>5. /\ frame'[t] = Frame("delete", NULL, frame[t].ret, 0)
        /\ pc'[t] = "delete" /\ UNCHANGED <<next, prev, key, index, status>>
        /\ \A u \in Threads \ {t} : pc'[u] = pc[u]
    BY <1>4, <1>n, <1>t, <2>4 DEF DeleteFound, Call, memory
  <2>6. Inserted(t)' = Inserted(t) /\ Deleted(t)' = Deleted(t)
    BY <1>o, <2>1, <2>5 DEF Inserted, Deleted, element
  <2>7. Entered' = I /\ Left' = D
    <3>1. Entered' = Entered /\ Left' = Left
      BY <1>o, <2>2, <2>5, <2>6, BooksKept
    <3> QED
      BY <3>1, <2>2, <2>5, <2>6
  <2>8. Kind(t)' = "delete" /\ Own(t)' = e
    BY <1>n, <1>o, <2>2, <2>5 DEF Kind, Own, Idle, Frame, element
  <2>9. Serving(t, "delete", head, I, D, e)'
    BY <2>1, <2>2, <2>5, ServingDeletes
  <2>10. AtWork(t)'
    BY <2>7, <2>8, <2>9, AtWorkNext
  <2>11. Working(t)'
    BY <2>5 DEF Working
  <2> QED
    BY <1>a, <1>o, <1>t, <2>1, <2>5, <2>10, <2>11, WorkerAttends
\* The thread at work finishes, and nobody is at work.
<1>5. ASSUME NEW t \in Threads, Finish(t) PROVE Attended'
  <2>1. /\ Working(t) /\ Idle(t) /\ pc[t] = "lookup" /\ index[t] = opt.iterations
        /\ pc'[t] = "done" /\ UNCHANGED <<next, prev, key, frame, index, status>>
        /\ \A u \in Threads \ {t} : pc'[u] = pc[u]
    BY <1>5, <1>t DEF Finish, Working, memory
  <2>2. \A u \in Threads : ~Working(u)'
    BY <1>a, <2>1, OneWorks DEF Working
  <2>3. PICK k, I, D, e : /\ k = "none" /\ I = Entered /\ D = Left
                          /\ Serving(t, k, head, I, D, e)
    BY <1>w, <2>1
  <2>4. Inserted(t)' = Inserted(t) /\ Deleted(t)' = Deleted(t)
    BY <1>o, <2>1 DEF Inserted, Deleted, element
  <2>5. Entered' = I /\ Left' = D
    <3>1. Entered' = Entered /\ Left' = Left
      BY <1>o, <2>1, <2>3, <2>4, BooksKept
    <3> QED
      BY <3>1, <2>1, <2>3, <2>4
  <2>6. Kind(main_thread)' = "none"
    <3>1. joined # opt.threads
      BY <1>n, <2>1 DEF TypeInv, IInv, JoinInv, Threads
    <3>2. Idle(main_thread)
      BY <3>1 DEF TypeInv, IInv, JoinInv
    <3> QED
      BY <2>1, <3>2 DEF Kind, Idle
  <2>7. PICK x : x = Own(main_thread)'
    OBVIOUS
  <2>8. Serving(main_thread, "none", head, I, D, x)'
    BY <1>n, <2>1, <2>3, ServingNobody
  <2>9. AtWork(main_thread)'
    BY <2>5, <2>6, <2>7, <2>8, AtWorkNext
  <2> QED
    BY <1>t, <2>1, <2>2, <2>9 DEF Attended
\* A statement of the function that the thread at work, or main, is in.
<1>6. ASSUME NEW t \in DOMAIN frame, InList(t)
      PROVE  /\ ListStep(t) /\ key' = key /\ UNCHANGED <<pc, index, status>>
             /\ ~Idle(t) /\ ~Idle(t)' /\ Entered' = Entered /\ Left' = Left
             /\ Kind(t)' = Kind(t) /\ Own(t)' = Own(t)
  <2>1. ListStep(t) /\ UNCHANGED <<pc, index, status>>
    BY <1>6 DEF InList, workerVars, threadVars
  <2>2. key' = key
    BY <1>n, <2>1, ListTypeStep
  <2>3. ~Idle(t) /\ ~Idle(t)'
    BY <1>n, <2>1, ListStepFrame, StepOfFunction
       DEF Idle, InsertStatements, DeleteStatements, LookupStatements, LengthStatements
  <2>4. Entered' = Entered /\ Left' = Left
    <3>1. \A u \in Threads : Inserted(u)' = Inserted(u) /\ Deleted(u)' = Deleted(u)
      BY <1>o, <2>1 DEF Inserted, Deleted, element
    <3> QED
      BY <1>o, <3>1, SameBooks
  <2>5. Kind(t)' = Kind(t) /\ Own(t)' = Own(t)
    BY <1>o, <2>1, <2>3 DEF Kind, Own, element, main_thread
  <2> QED
    BY <2>1, <2>2, <2>3, <2>4, <2>5
<1>7. ASSUME NEW t \in DOMAIN frame, InList(t), AtWork(t), Kind(t) \in Calls
      PROVE  AtWork(t)'
  <2>1. PICK k, I, D, e : /\ k = Kind(t) /\ I = Entered /\ D = Left /\ e = Own(t)
                          /\ Serving(t, k, head, I, D, e)
    BY <1>7 DEF AtWork
  <2>2. k \in Calls /\ ListStep(t) /\ HasArguments(frame[t])
    BY <1>6, <1>7, <1>n, <2>1
  <2>3. Serving(t, k, head, I, D, e)' /\ Untouched({head} \cup I \cup {e})
    BY <1>n, <2>1, <2>2, ServingStep
  <2>4. k = Kind(t)' /\ I = Entered' /\ D = Left' /\ e = Own(t)'
    BY <1>6, <1>7, <2>1
  <2> QED
    BY <2>3, <2>4, AtWorkNext
<1>8. ASSUME NEW t \in Threads, InList(t) PROVE Attended'
  <2>1. t \in DOMAIN frame
    BY <1>n
  <2>2. ~Idle(t) /\ UNCHANGED <<pc, index, status>>
    BY <1>6, <1>8, <2>1
  <2>3. Working(t) /\ Working(t)'
    BY <2>2 DEF TypeInv, IInv, IdleInv, Working
  <2>4. AtWork(t) /\ Kind(t) \in Calls
    BY <1>a, <1>n, <1>t, <2>2, <2>3 DEF Attended, Kind, Calls, Working, Labels
  <2>5. AtWork(t)'
    BY <1>7, <1>8, <2>1, <2>4
  <2> QED
    BY <1>a, <1>o, <1>t, <2>2, <2>3, <2>5, WorkerAttends
<1>m. ASSUME joined = opt.threads
      PROVE  (\A t \in Threads : pc[t] = "done" /\ ~Working(t)) /\ AtWork(main_thread)
  <2>1. \A t \in Threads : pc[t] = "done" /\ ~Working(t)
    BY <1>m, <1>n DEF TypeInv, IInv, JoinInv, Threads, Working
  <2> QED
    BY <1>a, <2>1 DEF Attended
<1>9. CASE InList(main_thread)
  <2>1. main_thread \in DOMAIN frame
    BY <1>n
  <2>2. ~Idle(main_thread) /\ UNCHANGED <<pc, index, status>>
    BY <1>6, <1>9, <2>1
  <2>3. joined = opt.threads
    BY <2>2 DEF TypeInv, IInv, JoinInv
  <2>4. AtWork(main_thread) /\ Kind(main_thread) \in Calls
    BY <1>m, <2>2, <2>3 DEF Kind, Calls
  <2>5. AtWork(main_thread)'
    BY <1>7, <1>9, <2>1, <2>4
  <2>6. \A t \in Threads : ~Working(t)'
    BY <1>m, <2>2, <2>3 DEF Working
  <2> QED
    BY <1>t, <2>2, <2>5, <2>6 DEF Attended
<1>10. CASE MeasureList
  <2>1. /\ joined = opt.threads /\ Idle(main_thread)
        /\ frame'[main_thread] = Frame("length", head, NULL, 0)
        /\ UNCHANGED <<next, prev, key, pc, index, status>>
    BY <1>10, <1>n DEF MeasureList, Call, memory, workerVars, threadVars
  <2>2. \A t \in Threads : ~Working(t)'
    BY <1>m, <2>1 DEF Working
  <2>3. PICK k, I, D, e : /\ k = "none" /\ I = Entered /\ D = Left /\ e = Own(main_thread)
                          /\ Serving(main_thread, k, head, I, D, e)
    BY <1>m, <2>1 DEF AtWork, Kind
  <2>4. Entered' = I /\ Left' = D
    <3>1. \A u \in Threads : Inserted(u)' = Inserted(u) /\ Deleted(u)' = Deleted(u)
      BY <1>o, <2>1 DEF Inserted, Deleted, element
    <3> QED
      BY <1>o, <2>3, <3>1, SameBooks
  <2>5. Kind(main_thread)' = "length" /\ Own(main_thread)' = e
    BY <1>o, <2>1, <2>3 DEF Kind, Own, Idle, Frame, element, main_thread
  <2>6. Serving(main_thread, "length", head, I, D, e)'
    BY <1>n, <2>1, <2>3, ServingCalled
  <2>7. AtWork(main_thread)'
    BY <2>4, <2>5, <2>6, AtWorkNext
  <2> QED
    BY <1>t, <2>1, <2>2, <2>7 DEF Attended
\* Nothing faults, so that segHandler is never called.
<1>11. ASSUME NEW t \in Threads, SegHandler(t) PROVE Attended'
  <2>1. Faulted(t) /\ ~Idle(t)
    BY <1>11 DEF SegHandler, Faulted, Idle
  <2>2. Working(t)
    BY <2>1 DEF TypeInv, IInv, IdleInv
  <2>3. PICK k, I, D, e : k \in Calls /\ Serving(t, k, head, I, D, e)
    BY <1>w, <2>1, <2>2
  <2> QED
    BY <1>n, <2>1, <2>3, ServingResult
<1>12. CASE SystemCallFails \/ Report \/ JoinThread \/ UNCHANGED vars
  <2>1. UNCHANGED <<memory, key, frame, opt, pc, index>> /\ status' # "exit_2"
    BY <1>12, <1>t
       DEF SystemCallFails, Report, JoinThread, vars, workerVars, threadVars
  <2>2. \A u \in Threads : Inserted(u)' = Inserted(u) /\ Deleted(u)' = Deleted(u)
    BY <2>1 DEF Inserted, Deleted, element
  <2>3. Entered' = Entered /\ Left' = Left
    BY <1>o, <2>2, SameBooks
  <2>4. \A u \in Threads : (Working(u)' <=> Working(u)) /\ pc'[u] = pc[u]
    BY <2>1 DEF Working
  <2> QED
    BY <1>a, <2>1, <2>3, <2>4, StillAttended
<1>13. CASE CreateThread
  <2>1. PICK t \in Threads : t = created + 1 /\ pc[t] = "unborn"
    BY <1>13, <1>n DEF CreateThread, TypeInv, IInv, JoinInv, Threads
  <2>2. /\ UNCHANGED <<memory, key, frame, opt, index>> /\ status' # "exit_2"
        /\ pc'[t] = "start" /\ \A u \in Threads \ {t} : pc'[u] = pc[u]
    BY <1>13, <1>t, <2>1 DEF CreateThread
  <2>3. Inserted(t)' = Inserted(t) /\ Deleted(t)' = Deleted(t)
    BY <2>1, <2>2 DEF Inserted, Deleted, element
  <2>4. Entered' = Entered /\ Left' = Left
    BY <2>2, <2>3, BooksKept
  <2>5. \A u \in Threads : (Working(u)' <=> Working(u)) /\ (Working(u) => pc'[u] = pc[u])
    BY <2>1, <2>2 DEF Working
  <2> QED
    BY <1>a, <2>2, <2>4, <2>5, StillAttended
<1> QED
  BY <1>1, <1>2, <1>3, <1>4, <1>5, <1>8, <1>9, <1>10, <1>11, <1>12, <1>13
     DEF Next, main, thread_worker, Exited

-----------------------------------------------------------------------------
(***************************************************************************)
(* What follows for the properties of the program.                         *)
(***************************************************************************)

\* TypeInv and Served hold in every reachable state.
THEOREM ServedAlways == Spec => [](TypeInv /\ Served)
BY InitTypeInv, InitServed, NextTypeInv, NextServed, PTL DEF Spec

\* Whoever is inside a function is served: the threads, and main once it measures.
LEMMA InsideServed ==
  ASSUME TypeInv, Served, Protected, NEW t \in DOMAIN frame, ~Idle(t)
  PROVE  /\ Serving(t, Kind(t), head, Entered, Left, Own(t)) /\ Kind(t) \in Calls
         /\ t # main_thread => t \in Threads /\ Working(t) /\ Kind(t) = pc[t]
         /\ t = main_thread => Kind(t) = "length" /\ \A u \in Threads : pc[u] = "done"
<1>1. Attended /\ DOMAIN frame = Threads \cup {main_thread} /\ main_thread \notin Threads
  BY PoolNumbered DEF Served
<1>2. CASE t = main_thread
  <2>1. \A u \in Threads : pc[u] = "done"
    BY <1>2, PoolNumbered DEF TypeInv, IInv, JoinInv, Threads
  <2>2. AtWork(t)
    BY <1>1, <1>2, <2>1 DEF Attended, Working
  <2> QED
    BY <1>2, <2>1, <2>2 DEF AtWork, Kind, Calls
<1>3. CASE t # main_thread
  <2>1. t \in Threads /\ Working(t)
    BY <1>1, <1>3 DEF TypeInv, IInv, IdleInv
  <2>2. AtWork(t) /\ Kind(t) = pc[t]
    BY <1>1, <1>3, <2>1 DEF Attended, Kind
  <2>3. pc[t] \in Labels
    BY <2>1 DEF TypeInv, IInv, LockTypes
  <2> QED
    BY <1>3, <2>1, <2>2, <2>3 DEF AtWork, Working, Labels, Calls
<1> QED
  BY <1>2, <1>3

\* In a protected run, whenever no thread is inside an insert or a delete, the list is
\* well formed and holds each key as often as it was inserted and not deleted.
THEOREM KeysAlwaysBalance == Spec => []KeysBalance
<1>1. TypeInv /\ Served => KeysBalance
  <2> SUFFICES ASSUME TypeInv, Served, Protected, \A t \in Threads : Idle(t)
               PROVE  /\ WellFormed(head)
                      /\ \A k \in {key[e] : e \in Pool} :
                           Cardinality(WithKey(k, Contents(head)))
                             = Cardinality(WithKey(k, Entered)) - Cardinality(WithKey(k, Left))
    BY DEF KeysBalance, Entered, Left
  <2>1. /\ Numbered /\ key \in [Elements -> Nat] /\ head \in Heads /\ Elements = Pool
        /\ main_thread \notin Threads
    BY PoolNumbered DEF TypeInv, ListTypes
  <2>2. PICK t, kind, I, D, x : /\ kind \in {"none", "length", "lookup"}
                                   /\ I = Entered /\ D = Left
                                   /\ Serving(t, kind, head, I, D, x)
    <3>1. CASE \E t \in Threads : Working(t)
      <4>1. PICK t \in Threads : AtWork(t)
        BY <3>1 DEF Served, Attended
      <4> QED
        BY <2>1, <4>1 DEF AtWork, Kind
    <3>2. CASE \A t \in Threads : ~Working(t)
      <4>1. AtWork(main_thread)
        BY <3>2 DEF Served, Attended
      <4> QED
        BY <4>1 DEF AtWork, Kind
    <3> QED
      BY <3>1, <3>2
  <2>3. WellFormed(head) /\ Counted(Contents(head), I, D)
    BY <2>1, <2>2, ServingWellFormed
  <2>4. \A k, S : WithKey(k, S) = OfKey(k, S)
    BY DEF WithKey, OfKey
  <2>5. ASSUME NEW k \in {key[e] : e \in Pool}
        PROVE  Cardinality(WithKey(k, Contents(head)))
                 = Cardinality(WithKey(k, Entered)) - Cardinality(WithKey(k, Left))
    <3>1. k \in Nat
      BY <2>1
    <3>2. Cardinality(OfKey(k, Contents(head)))
            = Cardinality(OfKey(k, I)) - Cardinality(OfKey(k, D))
      BY <2>1, <2>3, <3>1, CountedKey
    <3> QED
      BY <2>2, <2>4, <3>2
  <2> QED
    BY <2>3, <2>5
<1> QED
  BY <1>1, ServedAlways, PTL

\* In a protected run the length a thread obtains is the number of its own elements,
\* however many the threads before it have inserted and deleted.
THEOREM LengthAlwaysOwn == Spec => []LengthIsOwn
<1>1. TypeInv /\ Served => LengthIsOwn
  <2> SUFFICES ASSUME TypeInv, Served, Protected, NEW t \in Threads,
                      pc[t] = "length", Returned(t)
               PROVE  frame[t].ret = opt.iterations
    BY DEF LengthIsOwn
  <2>1. /\ Numbered /\ key \in [Elements -> Nat] /\ head \in Heads /\ t \in DOMAIN frame
        /\ t # main_thread /\ ~Idle(t)
    BY PoolNumbered DEF Returned, Idle
  <2>2. Serving(t, "length", head, Entered, Left, Own(t)) /\ Working(t)
    BY <2>1, InsideServed
  <2>3. frame[t].ret = Cardinality(Entered \ Left)
    BY <2>1, <2>2, ServingResult DEF Calls
  <2>4. \A u \in Threads \ {t} : ~Working(u)
    BY <2>2, OneWorks
  <2> QED
    BY <2>3, <2>4, OnlyOwn
<1> QED
  BY <1>1, ServedAlways, PTL

\* A protected run never fails: no lookup misses, no delete finds the links broken,
\* nothing faults, and main finds the list empty.
THEOREM NeverAnyCorrupt == Spec => []NeverCorrupt
<1>1. TypeInv /\ Served => NeverCorrupt
  <2> SUFFICES ASSUME TypeInv, Served, Protected
               PROVE  /\ status # "exit_2"
                      /\ \A t \in DOMAIN frame : ~Faulted(t)
                      /\ Returned(main_thread) => frame[main_thread].ret = 0
    BY DEF NeverCorrupt
  <2>1. /\ Numbered /\ key \in [Elements -> Nat] /\ head \in Heads
        /\ main_thread \in DOMAIN frame
    BY PoolNumbered
  <2>2. ASSUME NEW t \in DOMAIN frame, Faulted(t) PROVE FALSE
    <3>1. ~Idle(t)
      BY <2>2 DEF Faulted, Idle
    <3>2. Serving(t, Kind(t), head, Entered, Left, Own(t)) /\ Kind(t) \in Calls
      BY <3>1, InsideServed
    <3> QED
      BY <2>1, <2>2, <3>2, ServingResult
  <2>3. ASSUME Returned(main_thread) PROVE frame[main_thread].ret = 0
    <3>1. ~Idle(main_thread)
      BY <2>3 DEF Returned, Idle
    <3>2. /\ Serving(main_thread, "length", head, Entered, Left, Own(main_thread))
          /\ \A u \in Threads : pc[u] = "done"
      BY <2>1, <3>1, InsideServed
    <3>3. frame[main_thread].ret = Cardinality(Entered \ Left)
      BY <2>1, <2>3, <3>2, ServingResult DEF Calls
    <3> QED
      BY <3>2, <3>3, AllDone, FS_EmptySet
  <2> QED
    BY <2>2, <2>3 DEF Served, Attended
<1> QED
  BY <1>1, ServedAlways, PTL
=============================================================================
