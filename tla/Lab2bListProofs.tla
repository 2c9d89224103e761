--------------------------- MODULE Lab2bListProofs ---------------------------
(***************************************************************************)
(* Theorems about Lab2bList, for any set of command lines and any keys:    *)
(* any number of threads, elements and sublists.                           *)
(***************************************************************************)
EXTENDS Lab2bList, SortedListProofs

\* The lock of a sublist is held by one thread at most, and says so.
LockInv ==
  Locking =>
    /\ \A s \in Sublists : \A t, u \in Threads : Holds(t, s) /\ Holds(u, s) => t = u
    /\ \A s \in Sublists :
         /\ opt.sync_type = "m" => \A t \in Threads : Holds(t, s) <=> mutex[s] = t
         /\ opt.sync_type = "s" => (lock[s] = 0 <=> Free(s))

\* The types that the locks depend on.
LockTypes ==
  /\ opt \in CommandLines
  /\ key \in [Pool -> Nat]
  /\ DOMAIN frame = Threads \cup {main_thread}
  /\ mutex \in [Sublists -> Threads \cup {0}]
  /\ lock \in [Sublists -> {0, 1}]
  /\ pc \in [Threads -> Labels]
  /\ index \in [Threads \cup {main_thread} -> Nat]

\* A thread that holds a lock is inside the loop that took it.
InLoop ==
  \A t \in Threads :
    /\ pc[t] \in {"inserting", "finding", "deleting"} =>
         index[t] < opt.iterations /\ opt.lists # 0
    /\ pc[t] = "measuring" => index[t] < opt.lists

\* main measures the lists when every thread is done.
JoinInv ==
  /\ created \in 0..opt.threads
  /\ joined \in 0..created
  /\ \A t \in Threads : pc[t] = "unborn" <=> t > created
  /\ \A t \in 1..joined : pc[t] = "done"
  /\ ~Idle(main_thread) => joined = opt.threads

IInv == LockTypes /\ InLoop /\ JoinInv /\ LockInv

LEMMA OptType ==
  LockTypes => /\ opt.threads \in Nat /\ opt.iterations \in Nat
               /\ opt.lists \in Nat /\ opt.sync_type \in SyncTypes
BY CommandLinesAssumption DEF LockTypes

\* Position i of thread t is in the pool, and in no other position of a thread.
LEMMA ElementInPool ==
  ASSUME LockTypes, NEW t \in Threads, NEW i \in Nat, i < opt.iterations
  PROVE  element(t, i) \in Pool
BY OptType, PoolPosition DEF element, Pool, Threads

LEMMA ElementsDistinct ==
  ASSUME LockTypes,
         NEW t \in Threads, NEW i \in Nat, i < opt.iterations,
         NEW u \in Threads, NEW j \in Nat, j < opt.iterations,
         element(t, i) = element(u, j)
  PROVE  t = u /\ i = j
BY OptType, PoolDistinct DEF element, Threads

\* The sublist a thread works on exists.
LEMMA OwnSublistExists ==
  ASSUME LockTypes, NEW t \in Threads, index[t] < opt.iterations, opt.lists # 0
  PROVE  OwnSublist(t) \in Sublists
<1>1. index[t] \in Nat
  BY DEF LockTypes
<1>2. element(t, index[t]) \in Pool
  BY <1>1, ElementInPool
<1>3. key[element(t, index[t])] \in Nat
  BY <1>2 DEF LockTypes
<1>4. opt.lists \in Nat \ {0}
  BY OptType
<1>5. \A a \in Nat, b \in Nat \ {0} : a % b \in 0..(b - 1)
  OBVIOUS
<1> QED
  BY <1>3, <1>4, <1>5 DEF OwnSublist, get_key, Sublists

\* A thread holds one lock at most.
LEMMA HoldsOne ==
  ASSUME NEW t, NEW s, NEW r, Holds(t, s), Holds(t, r)
  PROVE  s = r
BY DEF Holds

-----------------------------------------------------------------------------
(***************************************************************************)
(* The three ways in which a step can bear on the locks.                   *)
(***************************************************************************)

\* No thread takes or releases a lock.
LEMMA NoLockStep ==
  ASSUME LockInv, opt' = opt, UNCHANGED locks,
         \A u \in Threads : \A s \in Sublists : Holds(u, s)' <=> Holds(u, s)
  PROVE  LockInv'
BY DEF LockInv, Locking, locks, Threads, Sublists, Free

\* Thread t takes the lock of sublist r.
LEMMA AcquireStep ==
  ASSUME LockTypes, LockInv, opt' = opt,
         NEW t \in Threads, NEW r \in Sublists, Acquire(t, r),
         \A s \in Sublists : ~Holds(t, s),
         \A s \in Sublists : Holds(t, s)' <=> s = r,
         \A u \in Threads \ {t} : \A s \in Sublists : Holds(u, s)' <=> Holds(u, s)
  PROVE  LockInv' /\ mutex' \in [Sublists -> Threads \cup {0}]
                  /\ lock' \in [Sublists -> {0, 1}]
<1>a. Threads' = Threads /\ Sublists' = Sublists
  BY DEF Threads, Sublists
<1>t. mutex \in [Sublists -> Threads \cup {0}] /\ lock \in [Sublists -> {0, 1}]
  BY DEF LockTypes
<1>z. 0 \notin Threads
  BY DEF Threads
<1>1. CASE opt.sync_type = "m"
  <2>1. mutex[r] = 0 /\ mutex' = [mutex EXCEPT ![r] = t] /\ lock' = lock
    BY <1>1 DEF Acquire
  <2>2. \A u \in Threads : ~Holds(u, r)
    BY <1>1, <1>z, <2>1 DEF LockInv, Locking
  <2> QED
    BY <1>1, <1>a, <1>t, <1>z, <2>1, <2>2 DEF LockInv, Locking
<1>2. CASE opt.sync_type = "s"
  <2>1. lock[r] = 0 /\ lock' = [lock EXCEPT ![r] = 1] /\ mutex' = mutex
    BY <1>2 DEF Acquire
  <2>2. \A u \in Threads : ~Holds(u, r)
    BY <1>2, <2>1 DEF LockInv, Locking, Free
  <2> QED
    BY <1>2, <1>a, <1>t, <2>1, <2>2 DEF LockInv, Locking, Free
<1>3. CASE opt.sync_type = "none"
  BY <1>3, <1>t DEF LockInv, Locking, Acquire, locks
<1> QED
  BY <1>1, <1>2, <1>3 DEF Acquire

\* Thread t releases the lock of sublist r, which it holds.
LEMMA ReleaseStep ==
  ASSUME LockTypes, LockInv, opt' = opt,
         NEW t \in Threads, NEW r \in Sublists, Release(r), Holds(t, r),
         \A s \in Sublists : ~Holds(t, s)',
         \A u \in Threads \ {t} : \A s \in Sublists : Holds(u, s)' <=> Holds(u, s)
  PROVE  LockInv' /\ mutex' \in [Sublists -> Threads \cup {0}]
                  /\ lock' \in [Sublists -> {0, 1}]
<1>a. Threads' = Threads /\ Sublists' = Sublists
  BY DEF Threads, Sublists
<1>t. mutex \in [Sublists -> Threads \cup {0}] /\ lock \in [Sublists -> {0, 1}]
  BY DEF LockTypes
<1>z. 0 \notin Threads
  BY DEF Threads
<1>o. \A s \in Sublists \ {r} : ~Holds(t, s)
  BY HoldsOne
<1>1. CASE opt.sync_type = "m"
  <2>1. mutex' = [mutex EXCEPT ![r] = 0] /\ lock' = lock
    BY <1>1 DEF Release
  <2>2. \A u \in Threads \ {t} : ~Holds(u, r)
    BY <1>1 DEF LockInv, Locking
  <2> QED
    BY <1>1, <1>a, <1>t, <1>z, <1>o, <2>1, <2>2 DEF LockInv, Locking
<1>2. CASE opt.sync_type = "s"
  <2>1. lock' = [lock EXCEPT ![r] = 0] /\ mutex' = mutex
    BY <1>2 DEF Release
  <2>2. \A u \in Threads \ {t} : ~Holds(u, r)
    BY <1>2 DEF LockInv, Locking
  <2> QED
    BY <1>2, <1>a, <1>t, <1>o, <2>1, <2>2 DEF LockInv, Locking, Free
<1>3. CASE ~Locking
  BY <1>3, <1>t DEF LockInv, Locking, Release
<1> QED
  BY <1>1, <1>2, <1>3 DEF Locking

-----------------------------------------------------------------------------
LEMMA InitIInv == Init => IInv
<1> SUFFICES ASSUME Init PROVE IInv
  OBVIOUS
<1>1. /\ opt.threads \in Nat /\ opt.iterations \in Nat
      /\ opt.lists \in Nat /\ opt.sync_type \in SyncTypes
  BY CommandLinesAssumption DEF Init
<1>2. key \in [Pool -> Nat]
  BY KeysAssumption DEF Init, Pool
<1>3. LockTypes
  BY <1>2 DEF Init, LockTypes, Labels
<1>4. InLoop
  BY DEF Init, InLoop
<1>5. JoinInv
  BY <1>1 DEF Init, JoinInv, Threads, Idle, NoCall, Frame, main_thread
<1>6. LockInv
  BY DEF Init, LockInv, Holds, Free, Threads
<1> QED
  BY <1>3, <1>4, <1>5, <1>6 DEF IInv

\* A step of thread t that calls, or returns from, a list function or goes on to
\* the next loop leaves the frame of main and the threads' number alone.
LEMMA ThreadStep ==
  ASSUME IInv, NEW t \in Threads,
         opt' = opt, UNCHANGED mainVars, UNCHANGED key,
         NEW label \in Labels \ {"unborn"},
         pc[t] \notin {"unborn", "done"},
         pc' = [pc EXCEPT ![t] = label],
         NEW i \in Nat, index' = [index EXCEPT ![t] = i],
         DOMAIN frame' = DOMAIN frame,
         \A u \in DOMAIN frame \ {t} : frame'[u] = frame[u]
  PROVE  /\ JoinInv'
         /\ opt' \in CommandLines /\ key' \in [Pool -> Nat]'
         /\ (DOMAIN frame = Threads \cup {main_thread})'
         /\ pc' \in [Threads -> Labels]'
         /\ index' \in [Threads \cup {main_thread} -> Nat]'
         /\ Threads' = Threads /\ Sublists' = Sublists
         /\ \A u \in Threads \ {t} : \A s \in Sublists : Holds(u, s)' <=> Holds(u, s)
         /\ (/\ label \in {"inserting", "finding", "deleting"} =>
                  i < opt.iterations /\ opt.lists # 0
             /\ label = "measuring" => i < opt.lists) => InLoop'
<1>a. /\ Threads' = Threads /\ Sublists' = Sublists /\ Pool' = Pool
      /\ key' = key /\ created' = created /\ joined' = joined
  BY DEF Threads, Sublists, Pool, mainVars
<1>t. LockTypes /\ JoinInv /\ InLoop
  BY DEF IInv
<1>z. main_thread \notin Threads
  BY DEF Threads, main_thread
<1>1. pc' \in [Threads -> Labels]' /\ index' \in [Threads \cup {main_thread} -> Nat]'
  BY <1>a, <1>t DEF LockTypes
<1>2. frame'[main_thread] = frame[main_thread]
  BY <1>t, <1>z DEF LockTypes
<1>3. \A u \in Threads \ {t} : pc'[u] = pc[u] /\ index'[u] = index[u]
  BY <1>t, <1>z DEF LockTypes
<1>4. pc'[t] = label /\ index'[t] = i
  BY <1>t DEF LockTypes
<1>5. JoinInv'
  BY <1>a, <1>t, <1>2, <1>3, <1>4 DEF JoinInv, Idle, Threads
<1>6. \A u \in Threads \ {t} : \A s \in Sublists : Holds(u, s)' <=> Holds(u, s)
  <2>1. \A u \in Threads \ {t} : OwnSublist(u)' = OwnSublist(u)
    BY <1>a, <1>3 DEF OwnSublist, get_key, element
  <2> QED
    BY <1>3, <2>1 DEF Holds
<1>7. ASSUME label \in {"inserting", "finding", "deleting"} =>
               i < opt.iterations /\ opt.lists # 0,
             label = "measuring" => i < opt.lists
      PROVE  InLoop'
  BY <1>a, <1>t, <1>3, <1>4, <1>7 DEF InLoop
<1> QED
  BY <1>a, <1>t, <1>1, <1>5, <1>6, <1>7 DEF LockTypes

LEMMA NextIInv == IInv /\ [Next]_vars => IInv'
<1> SUFFICES ASSUME IInv, [Next]_vars PROVE IInv'
  OBVIOUS
<1>t. LockTypes /\ InLoop /\ JoinInv /\ LockInv
  BY DEF IInv
<1>a. /\ opt.threads \in Nat /\ opt.iterations \in Nat
      /\ opt.lists \in Nat /\ opt.sync_type \in SyncTypes
  BY <1>t, OptType
<1>i. \A t \in Threads : index[t] \in Nat /\ index[t] + 1 \in Nat
  BY <1>t DEF LockTypes
<1>p. /\ pc \in [Threads -> Labels]
      /\ index \in [Threads \cup {main_thread} -> Nat]
      /\ DOMAIN frame = Threads \cup {main_thread}
  BY <1>t DEF LockTypes
<1>k. \A t \in Threads : [index EXCEPT ![t] = @] = index
  BY <1>p
<1> USE DEF At, Enter
\* The steps that take a lock.
<1>1. ASSUME NEW t \in Threads, InsertElement(t) PROVE IInv'
  <2>1. OwnSublist(t) \in Sublists
    BY <1>1, <1>t, OwnSublistExists DEF InsertElement, HasElement
  <2>2. pc'[t] = "inserting" /\ OwnSublist(t)' = OwnSublist(t)
    BY <1>1, <1>p DEF InsertElement, OwnSublist, get_key, element
  <2>3. \A s \in Sublists : ~Holds(t, s) /\ (Holds(t, s)' <=> s = OwnSublist(t))
    BY <1>1, <2>2 DEF InsertElement, Holds
  <2>4. JoinInv' /\ InLoop' /\ LockTypes' /\ LockInv'
    <3>1. index' = [index EXCEPT ![t] = index[t]]
      BY <1>1, <1>k DEF InsertElement
    <3> QED
      BY <1>1, <1>t, <1>i, <2>1, <2>3, <3>1, ThreadStep, AcquireStep
         DEF InsertElement, HasElement, Labels, Call, LockTypes
  <2> QED
    BY <2>4 DEF IInv
<1>2. ASSUME NEW t \in Threads, GetLength(t) PROVE IInv'
  <2>1. index[t] \in Sublists
    BY <1>2, <1>a, <1>i DEF GetLength, Sublists
  <2>2. pc'[t] = "measuring" /\ index'[t] = index[t]
    BY <1>2, <1>p DEF GetLength
  <2>3. \A s \in Sublists : ~Holds(t, s) /\ (Holds(t, s)' <=> s = index[t])
    BY <1>2, <2>2 DEF GetLength, Holds
  <2>4. JoinInv' /\ InLoop' /\ LockTypes' /\ LockInv'
    <3>1. index' = [index EXCEPT ![t] = index[t]]
      BY <1>2, <1>k DEF GetLength
    <3>2. opt' = opt /\ Acquire(t, index[t]) /\ UNCHANGED <<key, mainVars>>
      BY <1>2 DEF GetLength
    <3>3. /\ pc' = [pc EXCEPT ![t] = "measuring"] /\ pc[t] = "length"
          /\ DOMAIN frame' = DOMAIN frame /\ index[t] < opt.lists
          /\ \A u \in DOMAIN frame \ {t} : frame'[u] = frame[u]
      BY <1>2 DEF GetLength, Call
    <3>4. /\ JoinInv' /\ InLoop' /\ opt' \in CommandLines /\ key' \in [Pool -> Nat]'
          /\ (DOMAIN frame = Threads \cup {main_thread})'
          /\ pc' \in [Threads -> Labels]'
          /\ index' \in [Threads \cup {main_thread} -> Nat]'
          /\ Threads' = Threads /\ Sublists' = Sublists
          /\ \A u \in Threads \ {t} : \A s \in Sublists : Holds(u, s)' <=> Holds(u, s)
      BY <1>i, <3>1, <3>2, <3>3, ThreadStep DEF Labels
    <3> QED
      BY <1>t, <2>1, <2>3, <3>2, <3>3, <3>4, AcquireStep DEF LockTypes
  <2> QED
    BY <2>4 DEF IInv
<1>3. ASSUME NEW t \in Threads, LookUpKey(t) PROVE IInv'
  <2>1. OwnSublist(t) \in Sublists
    BY <1>3, <1>t, OwnSublistExists DEF LookUpKey, HasElement
  <2>2. pc'[t] = "finding" /\ OwnSublist(t)' = OwnSublist(t)
    BY <1>3, <1>p DEF LookUpKey, OwnSublist, get_key, element
  <2>3. \A s \in Sublists : ~Holds(t, s) /\ (Holds(t, s)' <=> s = OwnSublist(t))
    BY <1>3, <2>2 DEF LookUpKey, Holds
  <2>4. JoinInv' /\ InLoop' /\ LockTypes' /\ LockInv'
    <3>1. index' = [index EXCEPT ![t] = index[t]]
      BY <1>3, <1>k DEF LookUpKey
    <3> QED
      BY <1>3, <1>t, <1>i, <2>1, <2>3, <3>1, ThreadStep, AcquireStep
         DEF LookUpKey, HasElement, Labels, Call, LockTypes
  <2> QED
    BY <2>4 DEF IInv
\* The steps that release one.
<1>4. ASSUME NEW t \in Threads, ElementInserted(t) PROVE IInv'
  <2>1. OwnSublist(t) \in Sublists
    BY <1>4, <1>t, OwnSublistExists DEF ElementInserted, InLoop
  <2>2. pc'[t] = "insert" /\ Holds(t, OwnSublist(t))
    BY <1>4, <1>p DEF ElementInserted, Holds
  <2>3. \A s \in Sublists : ~Holds(t, s)'
    BY <2>2 DEF Holds
  <2>4. JoinInv' /\ InLoop' /\ LockTypes' /\ LockInv'
    BY <1>4, <1>t, <1>i, <2>1, <2>2, <2>3, ThreadStep, ReleaseStep
       DEF ElementInserted, Labels, Leave, LockTypes
  <2> QED
    BY <2>4 DEF IInv
<1>5. ASSUME NEW t \in Threads, LengthObtained(t), total'[t] # -1 PROVE IInv'
  <2>1. index[t] \in Sublists
    BY <1>5, <1>a, <1>i, <1>t DEF LengthObtained, InLoop, Sublists
  <2>2. pc'[t] = "length" /\ Holds(t, index[t])
    BY <1>5, <1>p DEF LengthObtained, Holds
  <2>3. \A s \in Sublists : ~Holds(t, s)'
    BY <2>2 DEF Holds
  <2>4. JoinInv' /\ InLoop' /\ LockTypes' /\ LockInv'
    BY <1>5, <1>t, <1>i, <2>1, <2>2, <2>3, ThreadStep, ReleaseStep
       DEF LengthObtained, Labels, Leave, LockTypes
  <2> QED
    BY <2>4 DEF IInv
<1>6. ASSUME NEW t \in Threads, ElementDeleted(t), frame[t].ret # 1 PROVE IInv'
  <2>1. OwnSublist(t) \in Sublists
    BY <1>6, <1>t, OwnSublistExists DEF ElementDeleted, InLoop
  <2>2. pc'[t] = "lookup" /\ Holds(t, OwnSublist(t))
    BY <1>6, <1>p DEF ElementDeleted, Holds
  <2>3. \A s \in Sublists : ~Holds(t, s)'
    BY <2>2 DEF Holds
  <2>4. JoinInv' /\ InLoop' /\ LockTypes' /\ LockInv'
    BY <1>6, <1>t, <1>i, <2>1, <2>2, <2>3, ThreadStep, ReleaseStep
       DEF ElementDeleted, Labels, Leave, LockTypes
  <2> QED
    BY <2>4 DEF IInv
\* The steps that move thread t and keep what it holds.
<1>7. ASSUME NEW t \in Threads, DeleteFound(t), frame[t].ret # NULL PROVE IInv'
  <2>1. pc'[t] = "deleting" /\ OwnSublist(t)' = OwnSublist(t)
    BY <1>7, <1>p DEF DeleteFound, OwnSublist, get_key, element
  <2>2. \A s \in Sublists : Holds(t, s)' <=> Holds(t, s)
    BY <1>7, <2>1 DEF DeleteFound, Holds
  <2>3. index' = [index EXCEPT ![t] = index[t]]
    BY <1>7, <1>k DEF DeleteFound
  <2>4. JoinInv' /\ InLoop' /\ LockTypes' /\ LockInv'
    <3>1. UNCHANGED <<opt, mutex, lock, locks, key, mainVars>>
      BY <1>7 DEF DeleteFound, locks
    <3>2. /\ pc' = [pc EXCEPT ![t] = "deleting"] /\ pc[t] = "finding"
          /\ DOMAIN frame' = DOMAIN frame
          /\ \A u \in DOMAIN frame \ {t} : frame'[u] = frame[u]
      BY <1>7 DEF DeleteFound, Call
    <3>3. index[t] < opt.iterations /\ opt.lists # 0
      BY <1>t, <3>2 DEF InLoop
    <3>4. /\ JoinInv' /\ InLoop' /\ opt' \in CommandLines /\ key' \in [Pool -> Nat]'
          /\ (DOMAIN frame = Threads \cup {main_thread})'
          /\ pc' \in [Threads -> Labels]'
          /\ index' \in [Threads \cup {main_thread} -> Nat]'
          /\ Threads' = Threads /\ Sublists' = Sublists
          /\ \A u \in Threads \ {t} : \A s \in Sublists : Holds(u, s)' <=> Holds(u, s)
      BY <1>i, <2>3, <3>1, <3>2, <3>3, ThreadStep DEF Labels
    <3>5. LockInv'
      BY <1>t, <2>2, <3>1, <3>4, NoLockStep
    <3> QED
      BY <1>t, <3>1, <3>4, <3>5 DEF LockTypes
  <2> QED
    BY <2>4 DEF IInv
<1>8. ASSUME NEW t \in Threads, AllInserted(t) \/ AllMeasured(t) \/ Finish(t)
      PROVE IInv'
  <2>1. pc'[t] \in {"length", "lookup", "done"} /\ pc[t] \in {"insert", "length", "lookup"}
    BY <1>8, <1>p DEF AllInserted, AllMeasured, Finish
  <2>2. \A s \in Sublists : Holds(t, s)' <=> Holds(t, s)
    BY <2>1 DEF Holds
  <2>3. CASE AllInserted(t)
    BY <2>3, <1>t, <2>2, ThreadStep, NoLockStep
       DEF AllInserted, Labels, LockTypes, locks, IInv
  <2>4. CASE AllMeasured(t)
    BY <2>4, <1>t, <2>2, ThreadStep, NoLockStep
       DEF AllMeasured, Labels, LockTypes, locks, IInv
  <2>5. CASE Finish(t)
    <3>1. index' = [index EXCEPT ![t] = index[t]]
      BY <2>5, <1>k DEF Finish
    <3>2. UNCHANGED <<opt, mutex, lock, locks>>
      BY <2>5 DEF Finish, locks
    <3>3. /\ JoinInv' /\ InLoop' /\ opt' \in CommandLines /\ key' \in [Pool -> Nat]'
          /\ (DOMAIN frame = Threads \cup {main_thread})'
          /\ pc' \in [Threads -> Labels]'
          /\ index' \in [Threads \cup {main_thread} -> Nat]'
          /\ Threads' = Threads /\ Sublists' = Sublists
          /\ \A u \in Threads \ {t} : \A s \in Sublists : Holds(u, s)' <=> Holds(u, s)
      <4>1. pc' = [pc EXCEPT ![t] = "done"] /\ pc[t] = "lookup"
        BY <2>5 DEF Finish
      <4>2. frame' = frame /\ opt' = opt /\ UNCHANGED <<mainVars, key>>
        BY <2>5 DEF Finish, mainVars
      <4> QED
        BY <1>i, <3>1, <4>1, <4>2, ThreadStep DEF Labels
    <3> QED
      BY <2>5, <1>t, <1>i, <2>2, <3>1, <3>2, <3>3, NoLockStep
         DEF LockTypes, IInv
  <2> QED
    BY <1>8, <2>3, <2>4, <2>5
\* The steps that move no thread.
<1>9. ASSUME UNCHANGED <<opt, key, pc, locks, mainVars>>,
             DOMAIN frame' = DOMAIN frame,
             Idle(main_thread)' \/ joined = opt.threads,
             \A t \in Threads : index'[t] = index[t],
             index' \in [Threads \cup {main_thread} -> Nat]
      PROVE  IInv'
  <2>1. Threads' = Threads /\ Sublists' = Sublists /\ Pool' = Pool
    BY <1>9 DEF Threads, Sublists, Pool
  <2>2. \A t \in Threads : \A s \in Sublists : Holds(t, s)' <=> Holds(t, s)
    BY <1>9 DEF Holds, OwnSublist, get_key, element
  <2>3. LockInv'
    BY <1>9, <1>t, <2>2, NoLockStep
  <2>4. LockTypes' /\ InLoop' /\ JoinInv'
    BY <1>9, <1>t, <2>1 DEF LockTypes, InLoop, JoinInv, locks, mainVars
  <2> QED
    BY <2>3, <2>4 DEF IInv
<1>10. ASSUME status' # "running",
              UNCHANGED <<opt, key, pc, locks, mainVars, frame, index>> PROVE IInv'
  BY <1>9, <1>10, <1>t, <1>p DEF JoinInv, Idle
<1>11. ASSUME NEW t \in Threads, InList(t) PROVE IInv'
  <2>1. frame'[main_thread] = frame[main_thread] /\ DOMAIN frame' = DOMAIN frame
    <3>1. ListStep(t)
      BY <1>11 DEF InList
    <3>2. main_thread \in DOMAIN frame \ {t}
      BY <1>p DEF Threads, main_thread
    <3> QED
      BY <3>1, <3>2, ListStepFrame
  <2> QED
    <3>1. key' = key /\ UNCHANGED workerVars
      BY <1>11, ListStepFrame DEF InList
    <3>2. Idle(main_thread)' \/ joined = opt.threads
      BY <1>t, <2>1 DEF JoinInv, Idle
    <3> QED
      BY <1>9, <1>p, <2>1, <3>1, <3>2 DEF workerVars
<1>12. CASE InList(main_thread)
  BY <1>9, <1>12, <1>t, <1>p, ListStepFrame DEF InList, workerVars, JoinInv
<1>13. CASE MeasureSublist
  BY <1>9, <1>13, <1>p DEF MeasureSublist, workerVars, Call
<1>14. CASE SublistMeasured
  BY <1>9, <1>14, <1>t, <1>p
     DEF SublistMeasured, JoinInv, Idle, Returned, Leave, Threads, main_thread
<1>15. CASE CreateThread
  <2>1. created + 1 \in Threads /\ pc[created + 1] = "unborn"
    BY <1>15, <1>a, <1>t DEF CreateThread, JoinInv, Threads
  <2>2. Threads' = Threads /\ Sublists' = Sublists /\ Pool' = Pool
    BY <1>15 DEF CreateThread, Threads, Sublists, Pool
  <2>3. \A t \in Threads : \A s \in Sublists : Holds(t, s)' <=> Holds(t, s)
    BY <1>15, <1>p, <2>1 DEF CreateThread, Holds, OwnSublist, get_key, element
  <2>4. LockInv'
    BY <1>15, <1>t, <2>3, NoLockStep DEF CreateThread
  <2>5. LockTypes' /\ InLoop'
    BY <1>15, <1>t, <2>1, <2>2 DEF CreateThread, LockTypes, InLoop, Labels, locks
  <2>6. JoinInv'
    <3>1. /\ \A t \in Threads : pc'[t] = IF t = created + 1 THEN "insert" ELSE pc[t]
          /\ created' = created + 1 /\ joined' = joined /\ frame' = frame
          /\ opt' = opt /\ created < opt.threads
      BY <1>15, <1>p DEF CreateThread
    <3>2. created \in Nat /\ joined \in 0..created
      BY <1>a, <1>t DEF JoinInv
    <3>3. Idle(main_thread)'
      BY <1>t, <3>1, <3>2 DEF JoinInv, Idle
    <3>4. created' \in 0..opt.threads /\ joined' \in 0..created'
      BY <1>a, <3>1, <3>2
    <3>5. \A t \in Threads : pc'[t] = "unborn" <=> t > created'
      BY <1>a, <1>t, <3>1, <3>2 DEF JoinInv, Threads
    <3>6. \A t \in 1..joined' : pc'[t] = "done"
      BY <1>a, <1>t, <3>1, <3>2 DEF JoinInv, Threads
    <3> QED
      BY <2>2, <3>1, <3>3, <3>4, <3>5, <3>6 DEF JoinInv
  <2> QED
    BY <2>4, <2>5, <2>6 DEF IInv
<1>16. CASE JoinThread
  <2>1. Threads' = Threads /\ Sublists' = Sublists /\ Pool' = Pool
    BY <1>16 DEF JoinThread, Threads, Sublists, Pool
  <2>2. \A t \in Threads : \A s \in Sublists : Holds(t, s)' <=> Holds(t, s)
    BY <1>16 DEF JoinThread, Holds, OwnSublist, get_key, element
  <2>3. LockInv'
    BY <1>16, <1>t, <2>2, NoLockStep DEF JoinThread
  <2>4. LockTypes' /\ InLoop' /\ JoinInv'
    BY <1>16, <1>a, <1>t, <2>1
       DEF JoinThread, LockTypes, InLoop, JoinInv, locks, Idle, Threads
  <2> QED
    BY <2>3, <2>4 DEF IInv
<1>17. ASSUME NEW t \in Threads,
              \/ SegHandler(t) \/ HashByZero(t)
              \/ LengthObtained(t) /\ total'[t] = -1
              \/ DeleteFound(t) /\ frame[t].ret = NULL
              \/ ElementDeleted(t) /\ frame[t].ret = 1
       PROVE  IInv'
  BY <1>10, <1>17
     DEF SegHandler, HashByZero, LengthObtained, DeleteFound, ElementDeleted, locks
<1>18. CASE Report \/ SystemCallFails
  BY <1>10, <1>18 DEF Report, SystemCallFails
<1>19. CASE UNCHANGED vars
  BY <1>9, <1>19, <1>t, <1>p DEF vars, workerVars, JoinInv, Idle
<1> QED
  BY <1>1, <1>2, <1>3, <1>4, <1>5, <1>6, <1>7, <1>8, <1>11, <1>12, <1>13, <1>14,
     <1>15, <1>16, <1>17, <1>18, <1>19 DEF Next, main, thread_worker, Exited

\* IInv holds in every reachable state.
THEOREM Invariance == Spec => []IInv
BY InitIInv, NextIInv, PTL DEF Spec

\* The locks of 2B: a sublist has one holder at most, its lock says who, and
\* main, which takes no lock, measures the sublists when no thread holds one.
THEOREM SublistMutex == Spec => []SublistExclusion
<1>1. IInv => SublistExclusion
  <2> SUFFICES ASSUME IInv, Locking PROVE SublistExclusion
    BY DEF SublistExclusion
  <2>1. ~Idle(main_thread) => \A s \in Sublists : Free(s)
    BY DEF IInv, JoinInv, Free, Holds, Threads
  <2> QED
    BY <2>1 DEF IInv, LockInv, SublistExclusion
<1> QED
  BY Invariance, <1>1, PTL

-----------------------------------------------------------------------------
(***************************************************************************)
(* Types.                                                                  *)
(***************************************************************************)
Statuses == {"running", "exit_0", "exit_1", "exit_2", "sigfpe"}

ListTypes ==
  /\ ListTypeOK
  /\ Elements = Pool
  /\ Heads = {head(s) : s \in Sublists}
  /\ \A t \in DOMAIN frame : HasArguments(frame[t])
  /\ total \in [Threads \cup {main_thread} -> Nat]
  /\ status \in Statuses

\* Where in which function a thread is, and how far its loop may have gone.
PcOf(t) ==
  /\ pc[t] \in {"unborn", "insert", "length", "lookup", "done"} => Idle(t)
  /\ pc[t] = "inserting" => frame[t].at \in InsertStatements \cup {"returned"}
  /\ pc[t] = "measuring" => frame[t].at \in LengthStatements \cup {"returned"}
  /\ pc[t] = "finding" =>
       /\ frame[t].at \in LookupStatements \cup {"returned", "fault"}
       /\ Returned(t) => frame[t].ret \in Elements \cup {NULL}
  /\ pc[t] = "deleting" => frame[t].at \in DeleteStatements \cup {"returned", "fault"}
  /\ index[t] \in 0..(IF pc[t] \in {"length", "measuring"} THEN opt.lists
                                                           ELSE opt.iterations)
  /\ pc[t] = "unborn" => index[t] = 0
  /\ pc[t] = "done" => index[t] = opt.iterations

MainOf ==
  /\ frame[main_thread].at \in LengthStatements \cup {"idle", "returned"}
  /\ index[main_thread] \in 0..opt.lists
  /\ ~Idle(main_thread) => index[main_thread] < opt.lists

PcInv == MainOf /\ \A t \in Threads : PcOf(t)

TypeInv == IInv /\ ListTypes /\ PcInv

\* What the lemmas about the list assume, and the types of the command line.
LEMMA PoolNumbered ==
  ASSUME TypeInv
  PROVE  /\ Numbered /\ key \in [Elements -> Nat] /\ \A s \in Sublists : head(s) \in Heads
         /\ \A s, r \in Sublists : head(s) = head(r) => s = r
         /\ opt.threads \in Nat /\ opt.iterations \in Nat /\ opt.lists \in Nat
         /\ opt.sync_type \in SyncTypes /\ LockTypes
         /\ DOMAIN frame = Threads \cup {main_thread} /\ main_thread \notin Threads
<1>1. LockTypes /\ opt.threads \in Nat /\ opt.iterations \in Nat /\ opt.lists \in Nat
      /\ opt.sync_type \in SyncTypes
  BY OptType DEF TypeInv, IInv
<1>2. opt.threads * opt.iterations \in Nat
  BY <1>1
<1>3. \A s \in Sublists : head(s) \in Int /\ head(s) < 0
  BY <1>1 DEF head, Sublists
<1>4. Numbered
  BY <1>2, <1>3 DEF TypeInv, ListTypes, Numbered, Pool
<1>5. \A s, r \in Sublists : head(s) = head(r) => s = r
  BY <1>1 DEF head, Sublists
<1> QED
  BY <1>1, <1>4, <1>5
     DEF TypeInv, ListTypes, LockTypes, ListTypeOK, Threads, main_thread

\* A step of thread t that keeps the types of the list keeps those of the program,
\* if it leaves the thread itself where PcOf allows.
LEMMA ThreadTypes ==
  ASSUME TypeInv, NEW t \in Threads, IInv', opt' = opt,
         ListTypeOK', Elements' = Elements, Heads' = Heads,
         DOMAIN frame' = DOMAIN frame, HasArguments(frame'[t]),
         \A u \in DOMAIN frame \ {t} : frame'[u] = frame[u],
         \A u \in Threads \ {t} : pc'[u] = pc[u] /\ index'[u] = index[u],
         index'[main_thread] = index[main_thread],
         total' \in [Threads \cup {main_thread} -> Nat], status' \in Statuses,
         PcOf(t)'
  PROVE  TypeInv'
<1>1. /\ Threads' = Threads /\ Pool' = Pool /\ Sublists' = Sublists
      /\ \A s : head(s)' = head(s)
  BY DEF Threads, Pool, Sublists, head
<1>2. ListTypes'
  BY <1>1 DEF TypeInv, ListTypes
<1>3. main_thread \in DOMAIN frame \ {t}
  BY PoolNumbered
<1>4. MainOf'
  BY <1>3 DEF TypeInv, PcInv, MainOf, Idle, main_thread
<1>5. ASSUME NEW u \in Threads \ {t} PROVE PcOf(u)'
  <2>1. PcOf(u)
    BY DEF TypeInv, PcInv
  <2>2. pc'[u] = pc[u] /\ index'[u] = index[u] /\ frame'[u] = frame[u]
    BY PoolNumbered
  <2> QED
    BY <2>1, <2>2 DEF PcOf, Idle, Returned
<1>6. PcInv'
  BY <1>1, <1>4, <1>5 DEF PcInv
<1> QED
  BY <1>2, <1>6 DEF TypeInv

\* A step that moves no thread and calls no function.
LEMMA StillTypes ==
  ASSUME TypeInv, IInv', UNCHANGED <<memory, key, frame, opt, pc, index, total>>,
         status' \in Statuses
  PROVE  TypeInv'
<1>1. /\ Threads' = Threads /\ Pool' = Pool /\ Elements' = Elements /\ Heads' = Heads
      /\ Sublists' = Sublists /\ \A s : head(s)' = head(s)
      /\ ListTypeOK'
  BY DEF Threads, Pool, Elements, Heads, Sublists, head, ListTypeOK, TypeInv, ListTypes,
     memory, LengthCap
<1>2. ListTypes'
  BY <1>1 DEF TypeInv, ListTypes
<1>3. PcInv'
  BY <1>1 DEF TypeInv, PcInv, PcOf, MainOf, Idle, Returned, main_thread
<1> QED
  BY <1>2, <1>3 DEF TypeInv

LEMMA InitTypeInv == Init => TypeInv
<1> SUFFICES ASSUME Init PROVE TypeInv
  OBVIOUS
<1>1. /\ IInv /\ opt.threads \in Nat /\ opt.iterations \in Nat /\ opt.lists \in Nat
  BY InitIInv, CommandLinesAssumption DEF Init
<1>2. Elements = Pool /\ key \in [Elements -> Nat]
  BY <1>1 DEF IInv, LockTypes, Elements
<1>3. /\ \E m \in Nat : Pool = 1..m
      /\ \A s \in Sublists : head(s) \in Int /\ head(s) < 0 /\ head(s) \notin Pool
  <2>1. opt.threads * opt.iterations \in Nat
    BY <1>1
  <2>2. \A s \in Sublists : head(s) \in Int /\ head(s) < 0
    BY <1>1 DEF head, Sublists
  <2> QED
    BY <2>1, <2>2 DEF Pool
<1>4. Heads = {head(s) : s \in Sublists}
  BY <1>2, <1>3 DEF Init, Heads
<1>5. Numbered
  BY <1>2, <1>3, <1>4 DEF Numbered
<1>6. \A t \in DOMAIN frame : frame[t] = NoCall
  BY DEF Init
<1>7. NoCall \in Frames /\ HasArguments(NoCall)
  <2>1. 0 \in 0..LengthCap
    BY <1>5, NumberedFacts
  <2> QED
    BY <2>1 DEF NoCall, Frame, Frames, Statements, HasArguments, DeleteStatements
<1>8. ListTypeOK
  <2>1. frame \in [DOMAIN frame -> Frames]
    BY <1>6, <1>7 DEF Init
  <2>2. next \in [Elements \cup Heads -> {NULL}] /\ prev \in [Elements -> {NULL}]
    BY <1>2, <1>4 DEF Init
  <2> QED
    BY <1>2, <2>1, <2>2 DEF ListTypeOK, Frames
<1>9. ListTypes
  BY <1>2, <1>4, <1>6, <1>7, <1>8 DEF ListTypes, Init, Statuses
<1>10. PcInv
  <2>1. \A t \in Threads \cup {main_thread} : frame[t].at = "idle" /\ index[t] = 0
    BY DEF Init, NoCall, Frame
  <2>2. \A t \in Threads : pc[t] = "unborn"
    BY DEF Init
  <2> QED
    BY <1>1, <2>1, <2>2 DEF PcInv, PcOf, MainOf, Idle, Returned
<1> QED
  BY <1>1, <1>9, <1>10 DEF TypeInv

LEMMA NextTypeInv == TypeInv /\ [Next]_vars => TypeInv'
<1> SUFFICES ASSUME TypeInv, [Next]_vars PROVE TypeInv'
  OBVIOUS
<1>i. IInv'
  BY NextIInv DEF TypeInv
<1>n. /\ Numbered /\ \A s \in Sublists : head(s) \in Heads
      /\ opt.threads \in Nat /\ opt.iterations \in Nat /\ opt.lists \in Nat
      /\ LockTypes /\ DOMAIN frame = Threads \cup {main_thread} /\ main_thread \notin Threads
  BY PoolNumbered
<1>t. /\ ListTypeOK /\ Elements = Pool /\ status \in Statuses
      /\ total \in [Threads \cup {main_thread} -> Nat]
      /\ pc \in [Threads -> Labels] /\ index \in [Threads \cup {main_thread} -> Nat]
      /\ \A t \in DOMAIN frame : HasArguments(frame[t])
      /\ \A t \in DOMAIN frame : frame[t] \in Frames
      /\ \A s \in Sublists : head(s) # NULL
  BY <1>n, NumberedFacts DEF TypeInv, ListTypes, LockTypes, ListTypeOK, Frames
<1>p. \A t \in Threads : PcOf(t)
  BY DEF TypeInv, PcInv
<1>m. MainOf /\ InLoop /\ JoinInv
  BY DEF TypeInv, PcInv, IInv
<1>e. ASSUME NEW t \in Threads, index[t] < opt.iterations, opt.lists # 0
      PROVE  /\ OwnSublist(t) \in Sublists
             /\ element(t, index[t]) \in Elements /\ element(t, index[t]) # NULL
  <2>1. element(t, index[t]) \in Elements
    BY <1>e, <1>n, <1>t, ElementInPool
  <2> QED
    BY <1>e, <1>n, <2>1, OwnSublistExists, NumberedFacts
<1> USE DEF At, Enter
\* A thread takes a lock and calls a function.
<1>1. ASSUME NEW t \in Threads, InsertElement(t) \/ GetLength(t) \/ LookUpKey(t)
      PROVE  TypeInv'
  <2>1. PICK f \in {"insert", "length", "lookup"}, s \in Sublists, e \in Elements \cup {NULL} :
          /\ frame' = [frame EXCEPT ![t] = Frame(f, head(s), e, 0)]
          /\ pc'[t] = CASE f = "insert" -> "inserting" [] f = "length" -> "measuring"
                        [] f = "lookup" -> "finding"
          /\ f = "length" => index[t] < opt.lists
          /\ f # "length" => index[t] < opt.iterations
    <3>1. CASE GetLength(t)
      <4>1. index[t] \in Sublists
        BY <1>n, <1>t, <3>1 DEF GetLength, Sublists
      <4> QED
        BY <1>t, <3>1, <4>1 DEF GetLength, Call
    <3>2. CASE InsertElement(t)
      <4>1. OwnSublist(t) \in Sublists /\ element(t, index[t]) \in Elements
        BY <1>e, <3>2 DEF InsertElement, HasElement
      <4> QED
        BY <1>t, <3>2, <4>1 DEF InsertElement, Call, HasElement
    <3>3. CASE LookUpKey(t)
      <4>1. OwnSublist(t) \in Sublists /\ element(t, index[t]) \in Elements
        BY <1>e, <3>3 DEF LookUpKey, HasElement
      <4> QED
        BY <1>t, <3>3, <4>1 DEF LookUpKey, Call, HasElement
    <3> QED
      BY <1>1, <3>1, <3>2, <3>3
  <2>2. /\ UNCHANGED <<next, prev, key, opt, index, total, status>>
        /\ \A u \in Threads \ {t} : pc'[u] = pc[u]
    BY <1>1, <1>t DEF InsertElement, GetLength, LookUpKey, memory
  <2>3. f \in Statements /\ f \notin DeleteStatements /\ head(s) \in Heads /\ head(s) # NULL
    BY <1>n, <1>t DEF Statements, DeleteStatements
  <2>4. /\ ListTypeOK' /\ Elements' = Elements /\ Heads' = Heads
        /\ DOMAIN frame' = DOMAIN frame /\ HasArguments(frame'[t])
        /\ frame'[t] = Frame(f, head(s), e, 0)
        /\ \A u \in DOMAIN frame \ {t} : frame'[u] = frame[u]
    BY <1>n, <1>t, <2>1, <2>2, <2>3, Called
  <2>5. PcOf(t)'
    <3>1. frame'[t].at = f
      BY <2>4 DEF Frame
    <3>2. index[t] \in Nat
      BY <1>t
    <3> QED
      BY <1>n, <2>1, <2>2, <3>1, <3>2
         DEF PcOf, Idle, Returned, InsertStatements, LengthStatements, LookupStatements
  <2> QED
    BY <1>i, <1>n, <1>t, <2>2, <2>4, <2>5, ThreadTypes
\* A thread leaves a function.
<1>2. ASSUME NEW t \in Threads,
             \/ ElementInserted(t)
             \/ LengthObtained(t) /\ total'[t] # -1
             \/ ElementDeleted(t) /\ frame[t].ret # 1
      PROVE  TypeInv'
  <2>1. /\ frame' = [frame EXCEPT ![t] = Frame("idle", NULL, NULL, 0)]
        /\ UNCHANGED <<next, prev, key, opt, status>>
        /\ index'[t] = index[t] + 1 /\ index'[main_thread] = index[main_thread]
        /\ \A u \in Threads \ {t} : pc'[u] = pc[u] /\ index'[u] = index[u]
    BY <1>2, <1>n, <1>t DEF ElementInserted, LengthObtained, ElementDeleted, Leave, NoCall, memory
  <2>2. \/ /\ pc'[t] \in {"insert", "lookup"} /\ index[t] < opt.iterations
        \/ /\ pc'[t] = "length" /\ index[t] < opt.lists
    BY <1>2, <1>m, <1>t DEF ElementInserted, LengthObtained, ElementDeleted, InLoop
  <2>3. total' \in [Threads \cup {main_thread} -> Nat]
    <3>1. frame[t].ret \in Nat
      BY <1>n, <1>t, NumberedFacts DEF Frames
    <3> QED
      BY <1>2, <1>t, <3>1 DEF ElementInserted, LengthObtained, ElementDeleted
  <2>4. "idle" \in Statements /\ "idle" \notin DeleteStatements
    BY DEF Statements, DeleteStatements
  <2>5. /\ ListTypeOK' /\ Elements' = Elements /\ Heads' = Heads
        /\ DOMAIN frame' = DOMAIN frame /\ HasArguments(frame'[t])
        /\ frame'[t] = Frame("idle", NULL, NULL, 0)
        /\ \A u \in DOMAIN frame \ {t} : frame'[u] = frame[u]
    BY <1>n, <1>t, <2>1, <2>4, Called
  <2>6. PcOf(t)'
    <3>1. frame'[t].at = "idle"
      BY <2>5 DEF Frame
    <3>2. index[t] \in Nat
      BY <1>t
    <3> QED
      BY <1>n, <2>1, <2>2, <3>1, <3>2 DEF PcOf, Idle, Returned
  <2> QED
    BY <1>i, <1>n, <1>t, <2>1, <2>3, <2>5, <2>6, ThreadTypes
<1>3. ASSUME NEW t \in Threads, DeleteFound(t), frame[t].ret # NULL PROVE TypeInv'
  <2>1. frame[t].ret \in Elements /\ index[t] < opt.iterations
    BY <1>3, <1>m, <1>p DEF DeleteFound, PcOf, InLoop
  <2>2. /\ frame' = [frame EXCEPT ![t] = Frame("delete", NULL, frame[t].ret, 0)]
        /\ pc'[t] = "deleting" /\ UNCHANGED <<next, prev, key, opt, index, total, status>>
        /\ \A u \in Threads \ {t} : pc'[u] = pc[u]
    BY <1>3, <1>t DEF DeleteFound, Call, memory
  <2>3. "delete" \in Statements /\ "delete" \in DeleteStatements
    BY DEF Statements, DeleteStatements
  <2>4. /\ ListTypeOK' /\ Elements' = Elements /\ Heads' = Heads
        /\ DOMAIN frame' = DOMAIN frame /\ HasArguments(frame'[t])
        /\ frame'[t] = Frame("delete", NULL, frame[t].ret, 0)
        /\ \A u \in DOMAIN frame \ {t} : frame'[u] = frame[u]
    BY <1>3, <1>n, <1>t, <2>1, <2>2, <2>3, Called
  <2>5. PcOf(t)'
    <3>1. frame'[t].at = "delete"
      BY <2>4 DEF Frame
    <3>2. index[t] \in Nat
      BY <1>t
    <3> QED
      BY <1>n, <2>1, <2>2, <2>3, <3>1, <3>2 DEF PcOf, Idle, Returned
  <2> QED
    BY <1>i, <1>n, <1>t, <2>2, <2>4, <2>5, ThreadTypes
\* A thread goes on to its next loop, or begins, or ends.
<1>4. ASSUME NEW t \in Threads, UNCHANGED <<memory, key, frame, opt, total, status>>,
             \A u \in Threads \ {t} : pc'[u] = pc[u] /\ index'[u] = index[u],
             index'[main_thread] = index[main_thread],
             pc[t] \in {"unborn", "insert", "length", "lookup"},
             pc'[t] \in {"insert", "length", "lookup", "done"},
             \/ index'[t] = 0 /\ pc'[t] # "done"
             \/ pc'[t] = "done" /\ index'[t] = opt.iterations
      PROVE  TypeInv'
  <2>1. ListTypeOK' /\ Elements' = Elements /\ Heads' = Heads
    BY <1>4, <1>t DEF ListTypeOK, Elements, Heads, memory, LengthCap
  <2>2. PcOf(t)'
    BY <1>4, <1>n, <1>p DEF PcOf, Idle, Returned
  <2> QED
    BY <1>4, <1>i, <1>n, <1>t, <2>1, <2>2, ThreadTypes
<1>5. ASSUME NEW t \in Threads, AllInserted(t) \/ AllMeasured(t) \/ Finish(t)
      PROVE  TypeInv'
  <2>1. /\ pc[t] \in {"insert", "length", "lookup"}
        /\ pc'[t] \in {"length", "lookup", "done"}
        /\ \/ index'[t] = 0 /\ pc'[t] # "done"
           \/ pc'[t] = "done" /\ index'[t] = opt.iterations
    BY <1>5, <1>t DEF AllInserted, AllMeasured, Finish
  <2>2. /\ UNCHANGED <<memory, key, frame, opt, total, status>>
        /\ \A u \in Threads \ {t} : pc'[u] = pc[u] /\ index'[u] = index[u]
        /\ index'[main_thread] = index[main_thread]
    BY <1>5, <1>n, <1>t DEF AllInserted, AllMeasured, Finish
  <2> QED
    BY <1>4, <2>1, <2>2
<1>6. CASE CreateThread
  <2>1. PICK t \in Threads : t = created + 1 /\ pc[t] = "unborn"
    BY <1>6, <1>m, <1>n DEF CreateThread, JoinInv, Threads
  <2>2. /\ UNCHANGED <<memory, key, frame, opt, index, total, status>>
        /\ pc'[t] = "insert" /\ \A u \in Threads \ {t} : pc'[u] = pc[u]
    BY <1>6, <1>t, <2>1 DEF CreateThread
  <2>3. index[t] = 0
    BY <1>p, <2>1 DEF PcOf
  <2> QED
    BY <1>4, <2>1, <2>2, <2>3
\* A statement of a function.
<1>7. ASSUME NEW t \in DOMAIN frame, InList(t)
      PROVE  /\ ListTypeOK' /\ HasArguments(frame'[t])
             /\ Elements' = Elements /\ Heads' = Heads
             /\ DOMAIN frame' = DOMAIN frame
             /\ \A u \in DOMAIN frame \ {t} : frame'[u] = frame[u]
             /\ UNCHANGED <<opt, pc, index, total, status>> /\ ListStep(t)
  <2>1. ListStep(t) /\ UNCHANGED <<opt, pc, index, total, status>>
    BY <1>7 DEF InList, workerVars
  <2> QED
    BY <1>n, <1>t, <2>1, ListTypeStep
<1>8. ASSUME NEW t \in Threads, InList(t) PROVE TypeInv'
  <2>1. t \in DOMAIN frame
    BY <1>n
  <2>2. UNCHANGED <<opt, pc, index, total, status>> /\ ListStep(t)
    BY <1>7, <1>8, <2>1
  <2>3. PcOf(t)'
    <3> DEFINE Here == frame[t].at
               There == frame'[t].at
    <3>1. \/ /\ Here \in InsertStatements /\ There \in InsertStatements \cup {"returned"}
          \/ /\ Here \in DeleteStatements
             /\ There \in DeleteStatements \cup {"returned", "fault"}
          \/ /\ Here \in LookupStatements /\ SortedList_lookup(t)
             /\ There \in LookupStatements \cup {"returned", "fault"}
          \/ /\ Here \in LengthStatements /\ There \in LengthStatements \cup {"returned"}
      BY <1>t, <2>1, <2>2, StepOfFunction
    <3>2. SortedList_lookup(t) /\ Returned(t)' => frame'[t].ret \in (Elements \cup {NULL})
      BY <1>t, <1>n, <2>1, LookupTypes DEF NULL
    <3>3. Elements' = Elements
      BY <1>7, <1>8, <2>1
    <3>4. PcOf(t) /\ pc[t] \in Labels
      BY <1>p, <1>t
    <3> QED
      BY <2>2, <3>1, <3>2, <3>3, <3>4
         DEF PcOf, Idle, Returned, Labels, InsertStatements, DeleteStatements,
             LookupStatements, LengthStatements
  <2> QED
    BY <1>7, <1>8, <1>i, <1>t, <2>1, <2>2, <2>3, ThreadTypes
\* The steps of main that measure the sublists.
<1>9. ASSUME ListTypeOK', Elements' = Elements, Heads' = Heads, DOMAIN frame' = DOMAIN frame,
             HasArguments(frame'[main_thread]),
             \A u \in DOMAIN frame \ {main_thread} : frame'[u] = frame[u],
             UNCHANGED <<opt, pc, status>>, \A u \in Threads : index'[u] = index[u],
             total' \in [Threads \cup {main_thread} -> Nat], MainOf'
      PROVE  TypeInv'
  <2>1. /\ Threads' = Threads /\ Pool' = Pool /\ Sublists' = Sublists
        /\ \A s : head(s)' = head(s)
    BY <1>9 DEF Threads, Pool, Sublists, head
  <2>2. \A u \in Threads : frame'[u] = frame[u]
    BY <1>9, <1>n
  <2>3. \A u \in Threads : PcOf(u)'
    BY <1>9, <1>p, <2>2 DEF PcOf, Idle, Returned
  <2>4. \A u \in DOMAIN frame' : HasArguments(frame'[u])
    BY <1>9, <1>t
  <2>5. ListTypes'
    BY <1>9, <2>1, <2>4 DEF TypeInv, ListTypes, main_thread
  <2> QED
    BY <1>9, <1>i, <2>1, <2>3, <2>5 DEF TypeInv, PcInv
<1>10. CASE InList(main_thread)
  <2>1. main_thread \in DOMAIN frame
    BY <1>n
  <2>2. UNCHANGED <<opt, pc, index, total, status>> /\ ListStep(main_thread)
    BY <1>7, <1>10, <2>1
  <2>3. frame'[main_thread].at \in LengthStatements \cup {"returned"} /\ ~Idle(main_thread)
    BY <1>m, <1>t, <2>1, <2>2, StepOfFunction
       DEF MainOf, InsertStatements, DeleteStatements, LookupStatements, LengthStatements,
           Idle
  <2>4. MainOf'
    BY <1>m, <2>2, <2>3 DEF MainOf, main_thread
  <2> QED
    BY <1>7, <1>9, <1>10, <1>t, <2>1, <2>2, <2>4
<1>11. CASE MeasureSublist
  <2>1. PICK s \in Sublists : s = index[main_thread]
    BY <1>11, <1>n, <1>t DEF MeasureSublist, Sublists
  <2>2. /\ frame' = [frame EXCEPT ![main_thread] = Frame("length", head(s), NULL, 0)]
        /\ UNCHANGED <<next, prev, key, opt, pc, index, total, status>>
        /\ index[main_thread] < opt.lists
    BY <1>11, <2>1 DEF MeasureSublist, Call, memory, workerVars
  <2>3. /\ "length" \in Statements /\ "length" \notin DeleteStatements
        /\ head(s) \in Heads /\ head(s) # NULL
    BY <1>n, <1>t DEF Statements, DeleteStatements
  <2>4. /\ ListTypeOK' /\ Elements' = Elements /\ Heads' = Heads
        /\ DOMAIN frame' = DOMAIN frame /\ HasArguments(frame'[main_thread])
        /\ frame'[main_thread] = Frame("length", head(s), NULL, 0)
        /\ \A u \in DOMAIN frame \ {main_thread} : frame'[u] = frame[u]
    BY <1>n, <1>t, <2>2, <2>3, Called
  <2>5. MainOf'
    BY <1>m, <2>2, <2>4 DEF MainOf, Frame, LengthStatements, main_thread
  <2> QED
    BY <1>9, <1>t, <2>2, <2>4, <2>5
<1>12. CASE SublistMeasured
  <2>1. /\ frame' = [frame EXCEPT ![main_thread] = Frame("idle", NULL, NULL, 0)]
        /\ UNCHANGED <<next, prev, key, opt, pc, status>>
        /\ index'[main_thread] = index[main_thread] + 1
        /\ \A u \in Threads : index'[u] = index[u]
        /\ total' = [total EXCEPT ![main_thread] = @ + frame[main_thread].ret]
    BY <1>12, <1>n, <1>t DEF SublistMeasured, Leave, NoCall, memory
  <2>2. "idle" \in Statements /\ "idle" \notin DeleteStatements
    BY DEF Statements, DeleteStatements
  <2>3. /\ ListTypeOK' /\ Elements' = Elements /\ Heads' = Heads
        /\ DOMAIN frame' = DOMAIN frame /\ HasArguments(frame'[main_thread])
        /\ frame'[main_thread] = Frame("idle", NULL, NULL, 0)
        /\ \A u \in DOMAIN frame \ {main_thread} : frame'[u] = frame[u]
    BY <1>n, <1>t, <2>1, <2>2, Called
  <2>4. MainOf'
    <3>1. index[main_thread] < opt.lists /\ index[main_thread] \in Nat
      BY <1>12, <1>m, <1>t DEF SublistMeasured, MainOf, Idle, Returned
    <3>2. frame'[main_thread].at = "idle"
      BY <2>3 DEF Frame
    <3> QED
      BY <1>n, <2>1, <3>1, <3>2 DEF MainOf, Idle, main_thread
  <2>5. total' \in [Threads \cup {main_thread} -> Nat]
    <3>1. frame[main_thread].ret \in Nat
      BY <1>n, <1>t, NumberedFacts DEF Frames
    <3> QED
      BY <1>t, <2>1, <3>1
  <2> QED
    BY <1>9, <2>1, <2>3, <2>4, <2>5
\* The ends, and the steps that only main's counters see.
<1>13. ASSUME NEW t \in Threads,
              \/ SegHandler(t) \/ HashByZero(t)
              \/ DeleteFound(t) /\ frame[t].ret = NULL
              \/ ElementDeleted(t) /\ frame[t].ret = 1
       PROVE  TypeInv'
  <2>1. UNCHANGED <<memory, key, frame, opt, pc, index, total>> /\ status' \in Statuses
    BY <1>13 DEF SegHandler, HashByZero, DeleteFound, ElementDeleted, Statuses
  <2> QED
    BY <1>i, <2>1, StillTypes
<1>14. ASSUME NEW t \in Threads, LengthObtained(t) PROVE total'[t] # -1
  <2>1. frame[t].ret \in Nat /\ total[t] \in Nat
    BY <1>n, <1>t, NumberedFacts DEF Frames
  <2> QED
    BY <1>14, <1>t, <2>1 DEF LengthObtained
<1>15. CASE JoinThread \/ SystemCallFails \/ Report \/ UNCHANGED vars
  <2>1. UNCHANGED <<memory, key, frame, opt, pc, index, total>> /\ status' \in Statuses
    BY <1>15, <1>t DEF JoinThread, SystemCallFails, Report, Statuses, vars, workerVars
  <2> QED
    BY <1>i, <2>1, StillTypes
<1> QED
  BY <1>1, <1>2, <1>3, <1>5, <1>6, <1>8, <1>10, <1>11, <1>12, <1>13, <1>14, <1>15
     DEF Next, main, thread_worker, Exited

\* The variables of the program and of its sublists keep their types, and the index of
\* a thread stays within the loop it is in.
THEOREM TypeCorrect == Spec => []TypeOK
<1>1. Spec => []TypeInv
  BY InitTypeInv, NextTypeInv, PTL DEF Spec
<1>2. TypeInv => TypeOK
  <2> SUFFICES ASSUME TypeInv PROVE TypeOK
    OBVIOUS
  <2>1. \A t \in Threads :
          index[t] \in 0..(IF pc[t] \in {"length", "measuring"} THEN opt.lists
                                                               ELSE opt.iterations)
    BY DEF TypeInv, PcInv, PcOf
  <2> QED
    BY <2>1 DEF TypeInv, ListTypes, IInv, LockTypes, JoinInv, PcInv, MainOf, Statuses, TypeOK
<1> QED
  BY <1>1, <1>2, PTL

-----------------------------------------------------------------------------
(***************************************************************************)
(* The books of the sublists.  Entered and Left are what the threads have  *)
(* inserted and whose keys they have deleted, and each element belongs to  *)
(* the sublist that its key hashes to.                                     *)
(***************************************************************************)
Entered == UNION {Inserted(t) : t \in Threads}
Left == UNION {Deleted(t) : t \in Threads}

In(s, S) == {e \in S : get_key(e) = s}

\* The function that a thread with a lock is in.
Doing(label) ==
  CASE label = "inserting" -> "insert"
    [] label = "measuring" -> "length"
    [] label = "finding" -> "lookup"
    [] OTHER -> "delete"

\* The function that thread t, or main, is in for sublist s, and the element of thread
\* t it works on.
Kind(t, s) ==
  IF t # main_thread THEN Doing(pc[t])
  ELSE IF ~Idle(t) /\ index[t] = s THEN "length" ELSE "none"
Own(t) ==
  IF t \in Threads /\ pc[t] \in {"inserting", "finding", "deleting"}
    THEN element(t, index[t]) ELSE NULL

AtWork(t, s) ==
  \E k, I, D, e :
    /\ k = Kind(t, s) /\ I = In(s, Entered) /\ D = In(s, Left) /\ e = Own(t)
    /\ Serving(t, k, head(s), I, D, e)

\* Who holds the lock of a sublist serves it, or else main does.
SubAttended(s) ==
  /\ \A t \in Threads : Holds(t, s) => AtWork(t, s)
  /\ Free(s) => AtWork(main_thread, s)

Attended == \A s \in Sublists : SubAttended(s)

\* The nodes that the statements of a function called for sublist s may write.
Territory(s) == {head(s)} \cup In(s, Elements)

\* The first n elements of thread t.
FirstOf(t, n) == {element(t, i) : i \in 0..(n - 1)}

LEMMA FirstOfGrows ==
  /\ \A t : FirstOf(t, 0) = {}
  /\ \A t : \A n \in Nat : FirstOf(t, n + 1) = FirstOf(t, n) \cup {element(t, n)}
<1>1. 0..(0 - 1) = {}
  OBVIOUS
<1>2. \A n \in Nat : 0..((n + 1) - 1) = (0..(n - 1)) \cup {n}
  OBVIOUS
<1> QED
  BY <1>1, <1>2 DEF FirstOf

\* How many elements thread t has inserted, and how many of their keys it has deleted.
InsertedCount(t) ==
  IF pc[t] \in {"unborn", "insert", "inserting"} THEN index[t] ELSE opt.iterations
DeletedCount(t) ==
  IF pc[t] \in {"lookup", "finding", "deleting", "done"} THEN index[t] ELSE 0

LEMMA OwnBooks ==
  ASSUME TypeInv, NEW t \in Threads
  PROVE  /\ index[t] \in Nat /\ opt.iterations \in Nat
         /\ InsertedCount(t) \in 0..opt.iterations /\ DeletedCount(t) \in 0..opt.iterations
         /\ Inserted(t) = FirstOf(t, InsertedCount(t))
         /\ Deleted(t) = FirstOf(t, DeletedCount(t))
<1>1. index[t] \in Nat /\ opt.iterations \in Nat
  BY PoolNumbered DEF LockTypes
<1>2. PcOf(t)
  BY DEF TypeInv, PcInv
<1>3. InsertedCount(t) \in 0..opt.iterations /\ DeletedCount(t) \in 0..opt.iterations
  BY <1>1, <1>2 DEF PcOf, InsertedCount, DeletedCount
<1>4. Inserted(t) = FirstOf(t, InsertedCount(t))
  BY DEF Inserted, InsertedCount, FirstOf
<1>5. Deleted(t) = FirstOf(t, DeletedCount(t))
  BY FirstOfGrows DEF Deleted, DeletedCount, FirstOf
<1> QED
  BY <1>1, <1>3, <1>4, <1>5

\* The books change with those of one thread.
LEMMA Books ==
  ASSUME opt' = opt, NEW t \in Threads,
         \A u \in Threads \ {t} : pc'[u] = pc[u] /\ index'[u] = index[u],
         NEW X, NEW Y, Inserted(t)' = Inserted(t) \cup X, Deleted(t)' = Deleted(t) \cup Y
  PROVE  Entered' = Entered \cup X /\ Left' = Left \cup Y
<1>1. Threads' = Threads
  BY DEF Threads
<1>2. \A u \in Threads \ {t} : Inserted(u)' = Inserted(u) /\ Deleted(u)' = Deleted(u)
  BY DEF Inserted, Deleted, element
<1>3. Entered' = UNION {Inserted(u)' : u \in Threads}
  BY <1>1 DEF Entered
<1>4. Left' = UNION {Deleted(u)' : u \in Threads}
  BY <1>1 DEF Left
<1>5. Entered' = Entered \cup X
  BY <1>2, <1>3 DEF Entered
<1>6. Left' = Left \cup Y
  BY <1>2, <1>4 DEF Left
<1> QED
  BY <1>5, <1>6

\* No thread's books change.
LEMMA SameBooks ==
  ASSUME opt' = opt, \A u \in Threads : Inserted(u)' = Inserted(u) /\ Deleted(u)' = Deleted(u)
  PROVE  Entered' = Entered /\ Left' = Left
<1>1. Threads' = Threads
  BY DEF Threads
<1> QED
  BY <1>1 DEF Entered, Left

\* Which sublist an element belongs to does not change.
LEMMA SameIn ==
  ASSUME UNCHANGED <<key, opt>>, NEW s
  PROVE  /\ In(s, Entered)' = In(s, Entered') /\ In(s, Left)' = In(s, Left')
         /\ Territory(s)' = Territory(s)
         /\ \A S : In(s, S)' = In(s, S)
BY DEF In, get_key, Territory, head, Elements

\* The element that a thread inserts is new, and the one whose key it looks up and
\* deletes has been inserted and not been deleted.
LEMMA OwnElement ==
  ASSUME TypeInv, NEW t \in Threads, index[t] < opt.iterations
  PROVE  /\ element(t, index[t]) \in Elements
         /\ pc[t] \in {"insert", "inserting"} => element(t, index[t]) \notin Entered
         /\ pc[t] \in {"lookup", "finding", "deleting"} =>
              element(t, index[t]) \in Entered \ Left
<1>1. /\ \A u \in Threads : index[u] \in Nat
      /\ opt.iterations \in Nat /\ Elements = Pool /\ LockTypes
  BY OwnBooks, PoolNumbered DEF TypeInv, ListTypes
<1>2. index[t] \in Nat
  BY <1>1
<1> DEFINE o == element(t, index[t])
<1>3. o \in Elements
  BY <1>1, <1>2, ElementInPool
<1>4. ASSUME NEW u \in Threads, NEW n \in 0..opt.iterations, o \in FirstOf(u, n)
      PROVE  u = t /\ index[t] < n
  <2>1. PICK j \in 0..(n - 1) : element(u, j) = element(t, index[t])
    BY <1>4 DEF FirstOf
  <2>2. j \in Nat /\ j < n /\ j < opt.iterations
    BY <1>1
  <2>3. u = t /\ j = index[t]
    BY <1>1, <1>2, <2>1, <2>2, ElementsDistinct
  <2> QED
    BY <2>2, <2>3
<1>5. ASSUME pc[t] \in {"insert", "inserting"} PROVE o \notin Entered
  <2> SUFFICES ASSUME NEW u \in Threads, o \in Inserted(u) PROVE FALSE
    BY DEF Entered
  <2>1. u = t /\ index[t] < InsertedCount(u)
    BY <1>4, OwnBooks
  <2> QED
    BY <1>2, <1>5, <2>1 DEF InsertedCount
<1>6. ASSUME pc[t] \in {"lookup", "finding", "deleting"} PROVE o \in Entered \ Left
  <2>1. o \in FirstOf(t, opt.iterations)
    BY <1>1, <1>2 DEF FirstOf
  <2>2. o \in Entered
    BY <1>6, <2>1, OwnBooks DEF Entered, InsertedCount
  <2>3. ASSUME NEW u \in Threads, o \in Deleted(u) PROVE FALSE
    <3>1. u = t /\ index[t] < DeletedCount(u)
      BY <1>4, <2>3, OwnBooks
    <3> QED
      BY <1>2, <1>6, <3>1 DEF DeletedCount
  <2> QED
    BY <2>2, <2>3 DEF Left
<1> QED
  BY <1>3, <1>5, <1>6

\* What was inserted are elements, each sublist's own in its territory.
LEMMA EnteredElements ==
  ASSUME TypeInv
  PROVE  /\ Entered \subseteq Elements
         /\ \A s \in Sublists : In(s, Entered) \subseteq Territory(s)
<1>1. ASSUME NEW t \in Threads PROVE Inserted(t) \subseteq Elements
  <2> SUFFICES ASSUME NEW x \in Inserted(t) PROVE x \in Elements
    OBVIOUS
  <2>1. PICK i \in 0..(InsertedCount(t) - 1) : x = element(t, i)
    BY OwnBooks DEF FirstOf
  <2>2. i \in Nat /\ i < opt.iterations
    BY OwnBooks
  <2> QED
    BY <2>1, <2>2, PoolNumbered, ElementInPool DEF TypeInv, ListTypes
<1>2. Entered \subseteq Elements
  BY <1>1 DEF Entered
<1> QED
  BY <1>2 DEF In, Territory

\* Once every thread is done, what was inserted has been deleted.
LEMMA AllDone ==
  ASSUME TypeInv, \A t \in Threads : pc[t] = "done"
  PROVE  \A s : In(s, Entered) \ In(s, Left) = {}
<1>1. \A t \in Threads : index[t] = opt.iterations
  BY DEF TypeInv, PcInv, PcOf
<1>2. \A t \in Threads : Inserted(t) = Deleted(t)
  BY <1>1, OwnBooks DEF InsertedCount, DeletedCount
<1> QED
  BY <1>2 DEF Entered, Left, In

\* A thread that has not begun to look its keys up finds its own elements undeleted,
\* whatever the others have deleted.
LEMMA OwnUndeleted ==
  ASSUME TypeInv, NEW t \in Threads, pc[t] \in {"length", "measuring"}
  PROVE  Inserted(t) = FirstOf(t, opt.iterations) /\ Inserted(t) \subseteq Entered \ Left
<1>1. Inserted(t) = FirstOf(t, opt.iterations) /\ DeletedCount(t) = 0
  BY OwnBooks DEF InsertedCount, DeletedCount
<1>2. ASSUME NEW e \in Inserted(t), NEW u \in Threads, e \in Deleted(u) PROVE FALSE
  <2>1. PICK i \in 0..(opt.iterations - 1) : e = element(t, i)
    BY <1>1 DEF FirstOf
  <2>2. PICK j \in 0..(DeletedCount(u) - 1) : e = element(u, j)
    BY <1>2, OwnBooks DEF FirstOf
  <2>3. i \in Nat /\ i < opt.iterations /\ j \in Nat /\ j < opt.iterations
    BY OwnBooks
  <2>4. u = t
    BY <2>1, <2>2, <2>3, PoolNumbered, ElementsDistinct
  <2> QED
    BY <1>1, <2>2, <2>4
<1> QED
  BY <1>1, <1>2 DEF Entered, Left

-----------------------------------------------------------------------------
(***************************************************************************)
(* Attended is invariant in a protected run: first what a step leaves      *)
(* attended that works on another sublist, or on none.                     *)
(***************************************************************************)

\* One thread at a time holds a sublist in a protected run.
LEMMA Exclusive ==
  ASSUME TypeInv, Protected, NEW s \in Sublists, NEW t \in Threads, Holds(t, s)
  PROVE  \A u \in Threads \ {t} : ~Holds(u, s)
<1>1. CASE Locking
  BY <1>1 DEF TypeInv, IInv, LockInv
<1>2. CASE opt.threads <= 1
  BY <1>2, PoolNumbered DEF Threads
<1> QED
  BY <1>1, <1>2 DEF Protected

\* A sublist whose lock can be taken is free in a protected run.
LEMMA AcquireFree ==
  ASSUME TypeInv, Protected, NEW s \in Sublists, NEW t \in Threads, ~Holds(t, s), Acquire(t, s)
  PROVE  Free(s)
<1>1. CASE opt.threads <= 1
  <2>1. \A u \in Threads : u = t
    BY <1>1, PoolNumbered DEF Threads
  <2> QED
    BY <2>1 DEF Free
<1>2. CASE Locking
  <2>1. CASE opt.sync_type = "m"
    BY <1>2, <2>1 DEF TypeInv, IInv, LockInv, Acquire, Free, Threads
  <2>2. CASE opt.sync_type = "s"
    BY <1>2, <2>2 DEF TypeInv, IInv, LockInv, Acquire
  <2> QED
    BY <1>2, <2>1, <2>2 DEF Locking
<1> QED
  BY <1>1, <1>2 DEF Protected

\* What thread t does for the sublist that it holds, and on which element.
LEMMA HolderFacts ==
  ASSUME TypeInv, NEW s \in Sublists, NEW t \in Threads, Holds(t, s)
  PROVE  /\ Kind(t, s) = Doing(pc[t]) /\ Kind(t, s) \in Calls
         /\ pc[t] \in {"inserting", "measuring", "finding", "deleting"}
         /\ pc[t] = "measuring" => Own(t) = NULL /\ index[t] = s
         /\ pc[t] # "measuring" =>
              /\ Own(t) = element(t, index[t]) /\ Own(t) \in Territory(s)
              /\ OwnSublist(t) = s /\ get_key(Own(t)) = s /\ Own(t) \in Elements
              /\ index[t] < opt.iterations
         /\ \A r \in Sublists \ {s} : ~Holds(t, r)
<1>1. /\ pc[t] \in {"inserting", "measuring", "finding", "deleting"}
      /\ pc[t] = "measuring" => index[t] = s
      /\ pc[t] # "measuring" => OwnSublist(t) = s
  BY DEF Holds
<1>2. t # main_thread
  BY PoolNumbered
<1>3. Kind(t, s) = Doing(pc[t]) /\ Kind(t, s) \in Calls
  BY <1>1, <1>2 DEF Kind, Doing, Calls
<1>4. ASSUME pc[t] # "measuring"
      PROVE  /\ Own(t) = element(t, index[t]) /\ Own(t) \in Territory(s)
             /\ get_key(Own(t)) = s /\ Own(t) \in Elements /\ index[t] < opt.iterations
  <2>1. Own(t) = element(t, index[t])
    BY <1>1, <1>4 DEF Own
  <2>2. get_key(Own(t)) = s
    BY <1>1, <1>4, <2>1 DEF OwnSublist
  <2>3. index[t] < opt.iterations
    BY <1>1, <1>4 DEF TypeInv, IInv, InLoop
  <2>4. Own(t) \in Elements
    BY <2>1, <2>3, OwnElement
  <2> QED
    BY <2>1, <2>2, <2>3, <2>4 DEF Territory, In
<1>5. pc[t] = "measuring" => Own(t) = NULL
  BY DEF Own
<1> QED
  BY <1>1, <1>3, <1>4, <1>5, HoldsOne

\* Sublists do not share nodes.
LEMMA Apart ==
  ASSUME TypeInv, NEW s \in Sublists, NEW r \in Sublists \ {s}
  PROVE  Territory(s) \cap Territory(r) = {}
BY PoolNumbered, NumberedFacts DEF Territory, In

LEMMA AtWorkNext ==
  ASSUME NEW t, NEW s, NEW k, NEW I, NEW D, NEW e,
         k = Kind(t, s)', I = In(s, Entered)', D = In(s, Left)', e = Own(t)',
         Serving(t, k, head(s), I, D, e)'
  PROVE  AtWork(t, s)'
BY DEF AtWork, head

\* Thread u, or main, goes on serving a sublist that the step does not write.
LEMMA AtWorkKept ==
  ASSUME TypeInv, NEW r \in Sublists, NEW u \in Threads \cup {main_thread}, AtWork(u, r),
         u \in Threads => Holds(u, r) /\ pc'[u] = pc[u],
         UNCHANGED <<key, opt>>, frame'[u] = frame[u], index'[u] = index[u],
         In(r, Entered)' = In(r, Entered), In(r, Left)' = In(r, Left),
         NEW S, Untouched(S), S \cap Territory(r) = {}
  PROVE  AtWork(u, r)'
<1>1. PICK k, I, D, e :
        /\ k = Kind(u, r) /\ I = In(r, Entered) /\ D = In(r, Left) /\ e = Own(u)
        /\ Serving(u, k, head(r), I, D, e)
  BY DEF AtWork
<1>2. Numbered /\ head(r) \in Heads /\ main_thread \notin Threads /\ NULL \notin Territory(r)
  <2>1. Numbered /\ head(r) \in Heads /\ main_thread \notin Threads
    BY PoolNumbered
  <2> QED
    BY <2>1, NumberedFacts DEF Territory, In
<1>3. /\ k \in Calls \cup {"none"} /\ e \in Territory(r) \cup {NULL}
      /\ Kind(u, r)' = Kind(u, r) /\ Own(u)' = Own(u)
  <2>1. CASE u \in Threads
    <3>1. k \in Calls /\ e \in Territory(r) \cup {NULL}
      BY <1>1, <2>1, HolderFacts
    <3>2. Kind(u, r)' = Kind(u, r)
      BY <1>2, <2>1 DEF Kind, main_thread
    <3>3. Own(u)' = Own(u)
      BY <2>1 DEF Own, element, Threads
    <3> QED
      BY <3>1, <3>2, <3>3
  <2>2. CASE u = main_thread
    <3>1. Kind(u, r)' = Kind(u, r)
      BY <2>2 DEF Kind, Idle, main_thread
    <3>2. Own(u) = NULL
      BY <1>2, <2>2 DEF Own
    <3>3. Own(u)' = NULL
      <4>1. u \notin Threads'
        BY <1>2, <2>2 DEF Threads
      <4> QED
        BY <4>1 DEF Own
    <3>4. k \in Calls \cup {"none"}
      BY <1>1, <2>2 DEF Kind, Calls
    <3> QED
      BY <1>1, <3>1, <3>2, <3>3, <3>4
  <2> QED
    BY <2>1, <2>2
<1>4. PICK Q : Q = S \ {NULL}
  OBVIOUS
<1>5. Untouched(Q)
  BY <1>2, <1>4, NumberedFacts DEF Untouched
<1>6. Q \cap ({head(r)} \cup I \cup {e}) = {}
  <2>1. I \subseteq Territory(r) /\ head(r) \in Territory(r)
    BY <1>1, EnteredElements DEF Territory
  <2> QED
    BY <1>3, <1>4, <2>1
<1>7. k # "none" => frame'[u] = frame[u]
  OBVIOUS
<1>8. Serving(u, k, head(r), I, D, e)'
  BY <1>1, <1>2, <1>3, <1>5, <1>6, <1>7, ServingKept
<1> QED
  BY <1>1, <1>3, <1>8, AtWorkNext

\* A step of thread t, which neither holds nor takes sublist r, leaves it attended.
LEMMA OthersAttended ==
  ASSUME TypeInv, NEW t, NEW r \in Sublists, SubAttended(r), UNCHANGED <<key, opt>>,
         t # main_thread, t \in Threads => ~Holds(t, r) /\ ~Holds(t, r)',
         \A u \in Threads \ {t} : pc'[u] = pc[u] /\ index'[u] = index[u],
         \A u \in DOMAIN frame \ {t} : frame'[u] = frame[u],
         index'[main_thread] = index[main_thread],
         In(r, Entered)' = In(r, Entered), In(r, Left)' = In(r, Left),
         NEW S, Untouched(S), S \cap Territory(r) = {}
  PROVE  SubAttended(r)'
<1>1. Threads' = Threads
  BY DEF Threads
<1>2. \A u \in Threads \ {t} : Holds(u, r)' <=> Holds(u, r)
  BY DEF Holds, OwnSublist, get_key, element
<1>3. \A u \in (Threads \cup {main_thread}) \ {t} : frame'[u] = frame[u]
  BY PoolNumbered
<1>4. ASSUME NEW u \in Threads, Holds(u, r)' PROVE AtWork(u, r)'
  <2>1. u # t /\ Holds(u, r)
    BY <1>2, <1>4
  <2>2. AtWork(u, r)
    BY <2>1 DEF SubAttended
  <2> QED
    BY <1>3, <2>1, <2>2, AtWorkKept
<1>5. ASSUME Free(r)' PROVE AtWork(main_thread, r)'
  <2>1. Free(r)
    BY <1>1, <1>2, <1>5 DEF Free
  <2>2. AtWork(main_thread, r)
    BY <2>1 DEF SubAttended
  <2>3. main_thread \notin Threads
    BY PoolNumbered
  <2> QED
    BY <1>3, <2>2, <2>3, AtWorkKept
<1> QED
  BY <1>1, <1>4, <1>5 DEF SubAttended, main_thread

\* A step that changes neither the memory, the books nor who holds what.
LEMMA StillAttended ==
  ASSUME TypeInv, Attended, UNCHANGED <<memory, key, opt>>, NEW t, t # main_thread,
         t \in Threads => \A r \in Sublists : ~Holds(t, r) /\ ~Holds(t, r)',
         \A u \in Threads \ {t} : pc'[u] = pc[u] /\ index'[u] = index[u],
         \A u \in DOMAIN frame \ {t} : frame'[u] = frame[u],
         index'[main_thread] = index[main_thread],
         Entered' = Entered, Left' = Left
  PROVE  Attended'
<1>1. Sublists' = Sublists
  BY DEF Sublists
<1>2. ASSUME NEW r \in Sublists PROVE SubAttended(r)'
  <2>1. In(r, Entered)' = In(r, Entered) /\ In(r, Left)' = In(r, Left)
    BY SameIn
  <2>2. Untouched({}) /\ {} \cap Territory(r) = {}
    BY NothingTouched DEF memory
  <2>3. SubAttended(r) /\ (t \in Threads => ~Holds(t, r) /\ ~Holds(t, r)')
    BY DEF Attended
  <2> QED
    BY <2>1, <2>2, <2>3, OthersAttended
<1> QED
  BY <1>1, <1>2 DEF Attended

\* A step of thread t that writes sublist s alone, and attends it.
LEMMA ElsewhereAttended ==
  ASSUME TypeInv, Attended, UNCHANGED <<key, opt>>, NEW t \in Threads, NEW s \in Sublists,
         \A r \in Sublists \ {s} : ~Holds(t, r) /\ ~Holds(t, r)',
         \A u \in Threads \ {t} : pc'[u] = pc[u] /\ index'[u] = index[u],
         \A u \in DOMAIN frame \ {t} : frame'[u] = frame[u],
         index'[main_thread] = index[main_thread],
         NEW X, NEW Y, Entered' = Entered \cup X, Left' = Left \cup Y,
         \A x \in X \cup Y : get_key(x) = s,
         Untouched(Territory(s)), SubAttended(s)'
  PROVE  Attended'
<1>1. Sublists' = Sublists /\ t # main_thread
  BY PoolNumbered DEF Sublists
<1>2. ASSUME NEW r \in Sublists \ {s} PROVE SubAttended(r)'
  <2>1. In(r, Entered') = In(r, Entered) /\ In(r, Left') = In(r, Left)
    BY DEF In
  <2>2. In(r, Entered)' = In(r, Entered) /\ In(r, Left)' = In(r, Left)
    BY <2>1, SameIn
  <2>3. Territory(s) \cap Territory(r) = {}
    BY Apart
  <2>4. SubAttended(r) /\ ~Holds(t, r) /\ ~Holds(t, r)'
    BY DEF Attended
  <2> QED
    BY <1>1, <2>2, <2>3, <2>4, OthersAttended
<1> QED
  BY <1>1, <1>2 DEF Attended

\* The one thread that holds a sublist after a step serves it.
LEMMA HolderAttends ==
  ASSUME opt' = opt, NEW t \in Threads, NEW s \in Sublists, Holds(t, s)', AtWork(t, s)',
         \A u \in Threads \ {t} : ~Holds(u, s)'
  PROVE  SubAttended(s)'
<1>1. Threads' = Threads
  BY DEF Threads
<1> QED
  BY <1>1 DEF SubAttended, Free

\* Nobody holds a sublist after a step, and main attends it.
LEMMA MainAttends ==
  ASSUME opt' = opt, NEW s \in Sublists, AtWork(main_thread, s)',
         \A u \in Threads : ~Holds(u, s)'
  PROVE  SubAttended(s)'
<1>1. Threads' = Threads
  BY DEF Threads
<1> QED
  BY <1>1 DEF SubAttended, main_thread

\* main waits as long as a thread is not done.
LEMMA MainIdle ==
  ASSUME TypeInv, NEW t \in Threads, pc[t] # "done"
  PROVE  Idle(main_thread) /\ \A s : Kind(main_thread, s) = "none"
<1>1. joined # opt.threads
  BY PoolNumbered DEF TypeInv, IInv, JoinInv, Threads
<1> QED
  BY <1>1 DEF TypeInv, IInv, JoinInv, Kind

\* Whose element the other threads hold does not change with a step of thread t.
LEMMA OthersHold ==
  ASSUME UNCHANGED <<key, opt>>, NEW t,
         \A u \in Threads \ {t} : pc'[u] = pc[u] /\ index'[u] = index[u]
  PROVE  \A u \in Threads \ {t} : \A s \in Sublists : Holds(u, s)' <=> Holds(u, s)
BY DEF Holds, OwnSublist, get_key, element

\* A thread takes the lock of a free sublist and calls a function for it.
LEMMA CallAttended ==
  ASSUME TypeInv, Attended, Protected, UNCHANGED <<memory, key, opt, index>>,
         NEW t \in Threads, NEW s \in Sublists, Acquire(t, s),
         pc[t] \in {"insert", "length", "lookup"},
         pc'[t] \in {"inserting", "measuring", "finding"},
         pc'[t] = "measuring" => pc[t] = "length" /\ index[t] = s,
         pc'[t] # "measuring" => OwnSublist(t) = s /\ index[t] < opt.iterations,
         pc'[t] = "inserting" => pc[t] = "insert",
         pc'[t] = "finding" => pc[t] = "lookup",
         \A u \in Threads \ {t} : pc'[u] = pc[u],
         \A u \in DOMAIN frame \ {t} : frame'[u] = frame[u],
         frame'[t] = Frame(Doing(pc'[t]), head(s),
                           IF pc'[t] = "measuring" THEN NULL ELSE element(t, index[t]), 0)
  PROVE  Attended'
<1>1. /\ Numbered /\ head(s) \in Heads /\ key \in [Elements -> Nat]
      /\ main_thread \notin Threads
  BY PoolNumbered
<1>2. \A r \in Sublists : ~Holds(t, r)
  BY DEF Holds
<1>3. \A u \in Threads \ {t} : pc'[u] = pc[u] /\ index'[u] = index[u]
  OBVIOUS
<1>4. Free(s)
  BY <1>2, AcquireFree
<1>5. /\ Holds(t, s)' /\ \A r \in Sublists \ {s} : ~Holds(t, r)'
      /\ \A u \in Threads \ {t} : ~Holds(u, s)'
  <2>1. OwnSublist(t)' = OwnSublist(t)
    BY DEF OwnSublist, get_key, element
  <2>2. Holds(t, s)' /\ \A r \in Sublists \ {s} : ~Holds(t, r)'
    BY <2>1 DEF Holds
  <2> QED
    BY <1>3, <1>4, <2>2, OthersHold DEF Free
<1>6. PICK k, I, D, e :
        /\ k = "none" /\ I = In(s, Entered) /\ D = In(s, Left) /\ e = Own(main_thread)
        /\ Serving(main_thread, k, head(s), I, D, e)
  BY <1>4, MainIdle DEF Attended, SubAttended, AtWork
<1>7. Entered' = Entered /\ Left' = Left
  <2>1. Inserted(t)' = Inserted(t) /\ Deleted(t)' = Deleted(t)
    BY DEF Inserted, Deleted, element
  <2>2. \A u \in Threads : Inserted(u)' = Inserted(u) /\ Deleted(u)' = Deleted(u)
    BY <2>1 DEF Inserted, Deleted, element
  <2> QED
    BY <2>2, SameBooks
<1>8. In(s, Entered)' = I /\ In(s, Left)' = D
  BY <1>6, <1>7, SameIn
<1>9. PICK f, x : f = Doing(pc'[t]) /\ x = Own(t)'
  OBVIOUS
<1>10. /\ f = Kind(t, s)'
       /\ f \in {"insert", "length", "lookup"}
       /\ f = "length" <=> pc'[t] = "measuring"
       /\ f # "length" => x = element(t, index[t])
       /\ f = "insert" => pc[t] = "insert"
       /\ f = "lookup" => pc[t] = "lookup"
  <2>1. Threads' = Threads /\ element(t, index[t])' = element(t, index[t])
    BY DEF Threads, element
  <2>2. Kind(t, s)' = Doing(pc'[t])
    BY <1>1 DEF Kind, main_thread, Doing
  <2> QED
    BY <1>9, <2>1, <2>2 DEF Doing, Own
<1>11. /\ f = "insert" => x \in Elements \ I
       /\ f = "lookup" => x \in I \ D
  <2>1. f # "length" => /\ x \in Elements /\ get_key(x) = s
                        /\ f = "insert" => x \notin Entered
                        /\ f = "lookup" => x \in Entered \ Left
    BY <1>10, OwnElement DEF OwnSublist
  <2> QED
    BY <1>6, <2>1 DEF In
<1>12. UNCHANGED <<next, prev, key>>
  BY DEF memory
<1>13. /\ x \in Elements \ I /\ frame'[t] = Frame("insert", head(s), x, 0) =>
            Serving(t, "insert", head(s), I, D, x)'
       /\ frame'[t] = Frame("length", head(s), NULL, 0) =>
            Serving(t, "length", head(s), I, D, x)'
       /\ x \in I \ D /\ frame'[t] = Frame("lookup", head(s), x, 0) =>
            Serving(t, "lookup", head(s), I, D, x)'
  BY <1>1, <1>6, <1>12, ServingCalled, Zenon
<1>14. Serving(t, f, head(s), I, D, x)'
  <2>1. CASE f = "insert"
    BY <1>9, <1>10, <1>11, <1>13, <2>1
  <2>2. CASE f = "length"
    BY <1>9, <1>10, <1>11, <1>13, <2>2
  <2>3. CASE f = "lookup"
    BY <1>9, <1>10, <1>11, <1>13, <2>3
  <2> QED
    BY <1>10, <2>1, <2>2, <2>3
<1>15. AtWork(t, s)'
  BY <1>8, <1>9, <1>10, <1>14, AtWorkNext
<1>16. SubAttended(s)'
  BY <1>5, <1>15, HolderAttends
<1>17. Entered' = Entered \cup {} /\ Left' = Left \cup {} /\ Untouched(Territory(s))
  BY <1>7, <1>12, NothingTouched
<1> QED
  BY <1>2, <1>3, <1>5, <1>16, <1>17, ElsewhereAttended

\* What a function returned for the sublist that thread t holds.
LEMMA HolderResult ==
  ASSUME TypeInv, Attended, NEW t \in Threads, NEW s \in Sublists, Holds(t, s)
  PROVE  /\ ~Faulted(t) /\ ~Idle(t)
         /\ Returned(t) /\ pc[t] = "finding" => frame[t].ret \in Elements
         /\ Returned(t) /\ pc[t] = "deleting" => frame[t].ret = 0
         /\ Returned(t) /\ pc[t] = "measuring" =>
              frame[t].ret = Cardinality(In(s, Entered) \ In(s, Left))
<1>1. PICK k, I, D, e :
        /\ k = Kind(t, s) /\ I = In(s, Entered) /\ D = In(s, Left) /\ e = Own(t)
        /\ Serving(t, k, head(s), I, D, e)
  BY DEF Attended, SubAttended, AtWork
<1>2. k = Doing(pc[t]) /\ k \in Calls
  BY <1>1, HolderFacts
<1>3. Numbered /\ head(s) \in Heads /\ key \in [Elements -> Nat]
  BY PoolNumbered
<1>4. /\ ~Faulted(t) /\ ~Idle(t)
      /\ Returned(t) /\ k = "lookup" => frame[t].ret \in Elements
      /\ Returned(t) /\ k = "delete" => frame[t].ret = 0
      /\ Returned(t) /\ k = "length" => frame[t].ret = Cardinality(I \ D)
  BY <1>1, <1>2, <1>3, ServingResult
<1> QED
  BY <1>1, <1>2, <1>4 DEF Doing

\* The function returns, and the thread enters what it did in the books and releases
\* the sublist.
LEMMA ReturnAttended ==
  ASSUME TypeInv, Attended, Protected, UNCHANGED <<memory, key, opt>>,
         NEW t \in Threads, NEW s \in Sublists, Holds(t, s), Returned(t),
         pc[t] \in {"inserting", "measuring", "deleting"},
         pc[t] = "inserting" => pc'[t] = "insert",
         pc[t] = "measuring" => pc'[t] = "length",
         pc[t] = "deleting" => pc'[t] = "lookup",
         index'[t] = index[t] + 1, index'[main_thread] = index[main_thread],
         \A u \in Threads \ {t} : pc'[u] = pc[u] /\ index'[u] = index[u],
         \A u \in DOMAIN frame \ {t} : frame'[u] = frame[u]
  PROVE  Attended'
<1>1. Numbered /\ head(s) \in Heads /\ main_thread \in DOMAIN frame \ {t}
  BY PoolNumbered
<1>2. \A r \in Sublists : ~Holds(t, r)'
  BY DEF Holds
<1>3. /\ \A r \in Sublists \ {s} : ~Holds(t, r)
      /\ \A u \in Threads : ~Holds(u, s)'
  BY <1>2, HoldsOne, OthersHold, Exclusive
<1>4. PICK k, I, D, e :
        /\ k = Kind(t, s) /\ I = In(s, Entered) /\ D = In(s, Left) /\ e = Own(t)
        /\ Serving(t, k, head(s), I, D, e)
  BY DEF Attended, SubAttended, AtWork
<1>5. /\ k \in Calls /\ k = Doing(pc[t])
      /\ k # "length" => e = element(t, index[t]) /\ get_key(e) = s
  BY <1>4, HolderFacts DEF Doing
<1>6. PICK X, Y : /\ X = IF k = "insert" THEN {e} ELSE {}
                  /\ Y = IF k = "delete" THEN {e} ELSE {}
  OBVIOUS
<1>7. Entered' = Entered \cup X /\ Left' = Left \cup Y
  <2>1. \A n : FirstOf(t, n)' = FirstOf(t, n)
    BY DEF FirstOf, element
  <2>2. /\ Inserted(t)' = FirstOf(t, IF pc'[t] \in {"unborn", "insert", "inserting"}
                                       THEN index'[t] ELSE opt.iterations)
        /\ Deleted(t)' = FirstOf(t, IF pc'[t] \in {"lookup", "finding", "deleting", "done"}
                                      THEN index'[t] ELSE 0)
    BY FirstOfGrows DEF Inserted, Deleted, FirstOf, element
  <2>3. /\ Inserted(t) = FirstOf(t, InsertedCount(t))
        /\ Deleted(t) = FirstOf(t, DeletedCount(t)) /\ index[t] \in Nat
    BY OwnBooks
  <2>4. FirstOf(t, index[t] + 1) = FirstOf(t, index[t]) \cup {element(t, index[t])}
    BY <2>3, FirstOfGrows
  <2>5. Inserted(t)' = Inserted(t) \cup X /\ Deleted(t)' = Deleted(t) \cup Y
    <3>1. CASE pc[t] = "inserting"
      BY <1>5, <1>6, <2>2, <2>3, <2>4, <3>1, FirstOfGrows DEF Doing, InsertedCount, DeletedCount
    <3>2. CASE pc[t] = "measuring"
      BY <1>5, <1>6, <2>2, <2>3, <2>4, <3>2, FirstOfGrows DEF Doing, InsertedCount, DeletedCount
    <3>3. CASE pc[t] = "deleting"
      BY <1>5, <1>6, <2>2, <2>3, <2>4, <3>3, FirstOfGrows DEF Doing, InsertedCount, DeletedCount
    <3> QED
      BY <3>1, <3>2, <3>3
  <2> QED
    BY <2>5, Books
<1>8. \A x \in X \cup Y : get_key(x) = s
  BY <1>5, <1>6
<1>9. PICK I2, D2 : /\ I2 = IF k = "insert" THEN I \cup {e} ELSE I
                    /\ D2 = IF k = "delete" THEN D \cup {e} ELSE D
  OBVIOUS
<1>10. In(s, Entered)' = I2 /\ In(s, Left)' = D2
  <2>1. In(s, Entered \cup X) = In(s, Entered) \cup X /\ In(s, Left \cup Y) = In(s, Left) \cup Y
    BY <1>8 DEF In
  <2>2. In(s, Entered)' = In(s, Entered') /\ In(s, Left)' = In(s, Left')
    BY SameIn
  <2> QED
    BY <1>4, <1>6, <1>7, <1>9, <2>1, <2>2
<1>11. "none" = Kind(main_thread, s)'
  <2>1. Idle(main_thread)
    BY MainIdle
  <2>2. Idle(main_thread)'
    BY <1>1, <2>1 DEF Idle, main_thread
  <2> QED
    BY <2>2 DEF Kind, main_thread
<1>12. PICK x : x = Own(main_thread)'
  OBVIOUS
<1>13. UNCHANGED <<next, prev, key>>
  BY DEF memory
<1>14. Serving(main_thread, "none", head(s), IF k = "insert" THEN I \cup {e} ELSE I,
               IF k = "delete" THEN D \cup {e} ELSE D, x)'
  BY <1>4, <1>5, <1>13, ServingReturned
<1>15. Serving(main_thread, "none", head(s), I2, D2, x)'
  BY <1>9, <1>14
<1>16. AtWork(main_thread, s)'
  BY <1>10, <1>11, <1>12, <1>15, AtWorkNext
<1>17. SubAttended(s)'
  BY <1>3, <1>16, MainAttends
<1>18. Untouched(Territory(s))
  BY <1>13, NothingTouched
<1> QED
  BY <1>2, <1>3, <1>7, <1>8, <1>17, <1>18, ElsewhereAttended

\* Before the threads start, every sublist is empty and main's.
LEMMA InitAttended == Init => Attended
<1> SUFFICES ASSUME Init PROVE Attended
  OBVIOUS
<1>1. TypeInv
  BY InitTypeInv
<1>2. Numbered /\ \A s \in Sublists : head(s) \in Heads
  BY <1>1, PoolNumbered
<1>3. \A t \in Threads : pc[t] = "unborn" /\ index[t] = 0
  BY DEF Init
<1>4. \A s : In(s, Entered) = {} /\ In(s, Left) = {}
  <2>1. \A t \in Threads : Inserted(t) = {} /\ Deleted(t) = {}
    BY <1>1, <1>3, OwnBooks, FirstOfGrows DEF InsertedCount, DeletedCount
  <2> QED
    BY <2>1 DEF Entered, Left, In
<1>5. \A s : Kind(main_thread, s) = "none"
  BY DEF Init, Kind, Idle, NoCall, Frame
<1>6. ASSUME NEW s \in Sublists PROVE SubAttended(s)
  <2>1. next[head(s)] = NULL
    BY DEF Init
  <2>2. Serving(main_thread, "none", head(s), {}, {}, Own(main_thread))
    BY <1>2, <2>1, ServingEmpty
  <2>3. AtWork(main_thread, s)
    BY <1>4, <1>5, <2>2 DEF AtWork
  <2>4. \A t \in Threads : ~Holds(t, s)
    BY <1>3 DEF Holds
  <2> QED
    BY <2>3, <2>4 DEF SubAttended
<1> QED
  BY <1>6 DEF Attended

\* A thread that is inside a function, or about to call one, has a sublist to do it for.
LEMMA InsideHolds ==
  ASSUME TypeInv, NEW t \in Threads
  PROVE  /\ ~Idle(t) => \E s \in Sublists : Holds(t, s)
         /\ pc[t] \in {"inserting", "finding", "deleting"} => OwnSublist(t) \in Sublists
         /\ pc[t] = "measuring" => index[t] \in Sublists
         /\ HasElement(t) => OwnSublist(t) \in Sublists
         /\ pc[t] = "length" /\ index[t] < opt.lists => index[t] \in Sublists
<1>1. /\ LockTypes /\ opt.lists \in Nat /\ index[t] \in Nat /\ pc[t] \in Labels
  BY PoolNumbered DEF LockTypes
<1>2. PcOf(t) /\ InLoop
  BY DEF TypeInv, PcInv, IInv
<1>3. HasElement(t) => OwnSublist(t) \in Sublists
  BY <1>1, OwnSublistExists DEF HasElement
<1>4. pc[t] \in {"inserting", "finding", "deleting"} => OwnSublist(t) \in Sublists
  BY <1>1, <1>2, OwnSublistExists DEF InLoop
<1>5. pc[t] \in {"length", "measuring"} /\ index[t] < opt.lists => index[t] \in Sublists
  BY <1>1 DEF Sublists
<1>6. pc[t] = "measuring" => index[t] < opt.lists
  BY <1>2 DEF InLoop
<1>7. ~Idle(t) => pc[t] \in {"inserting", "measuring", "finding", "deleting"}
  BY <1>1, <1>2 DEF PcOf, Labels
<1> QED
  BY <1>3, <1>4, <1>5, <1>6, <1>7 DEF Holds

\* What the holder of a sublist finds is deleted.
LEMMA FoundAttended ==
  ASSUME TypeInv, Attended, Protected, NEW t \in Threads, DeleteFound(t)
  PROVE  Attended'
<1>1. PICK s \in Sublists : Holds(t, s) /\ s = OwnSublist(t)
  BY InsideHolds DEF DeleteFound, At, Holds
<1>2. /\ Numbered /\ head(s) \in Heads /\ pc \in [Threads -> Labels] /\ t # main_thread
      /\ DOMAIN frame = Threads \cup {main_thread}
  BY PoolNumbered DEF LockTypes
<1>3. frame[t].ret # NULL
  <2>1. frame[t].ret \in Elements
    BY <1>1, HolderResult DEF DeleteFound, At
  <2> QED
    BY <1>2, <2>1, NumberedFacts
<1>4. /\ UNCHANGED <<memory, key, opt, index>> /\ Returned(t)
      /\ pc[t] = "finding" /\ pc'[t] = "deleting"
      /\ \A u \in Threads \ {t} : pc'[u] = pc[u] /\ index'[u] = index[u]
      /\ \A u \in DOMAIN frame \ {t} : frame'[u] = frame[u]
      /\ frame'[t] = Frame("delete", NULL, frame[t].ret, 0)
  BY <1>2, <1>3 DEF DeleteFound, At, Enter, Call
<1>5. PICK k, I, D, e :
        /\ k = Kind(t, s) /\ I = In(s, Entered) /\ D = In(s, Left) /\ e = Own(t)
        /\ Serving(t, k, head(s), I, D, e)
  BY <1>1 DEF Attended, SubAttended, AtWork
<1>6. k = "lookup"
  BY <1>1, <1>4, <1>5, HolderFacts DEF Doing
<1>7. \A r \in Sublists : Holds(t, r)' <=> Holds(t, r)
  <2>1. OwnSublist(t)' = OwnSublist(t)
    BY <1>4 DEF OwnSublist, get_key, element
  <2> QED
    BY <1>4, <2>1 DEF Holds
<1>8. Entered' = Entered /\ Left' = Left
  <2>1. Inserted(t)' = Inserted(t) /\ Deleted(t)' = Deleted(t)
    BY <1>4 DEF Inserted, Deleted, element
  <2>2. Inserted(t)' = Inserted(t) \cup {} /\ Deleted(t)' = Deleted(t) \cup {}
    BY <2>1
  <2>3. Entered' = Entered \cup {} /\ Left' = Left \cup {}
    BY <1>4, <2>2, Books
  <2> QED
    BY <2>3
<1>9. In(s, Entered)' = I /\ In(s, Left)' = D
  BY <1>4, <1>5, <1>8, SameIn
<1>10. "delete" = Kind(t, s)' /\ e = Own(t)'
  <2>1. Threads' = Threads /\ element(t, index[t])' = element(t, index[t])
    BY <1>4 DEF Threads, element
  <2>2. Kind(t, s)' = Doing(pc'[t])
    BY <1>2 DEF Kind, main_thread, Doing
  <2> QED
    BY <1>4, <1>5, <2>1, <2>2 DEF Doing, Own
<1>11. UNCHANGED <<next, prev, key>>
  BY <1>4 DEF memory
<1>12. Serving(t, "delete", head(s), I, D, e)'
  BY <1>4, <1>5, <1>6, <1>11, ServingDeletes
<1>13. AtWork(t, s)'
  BY <1>9, <1>10, <1>12, AtWorkNext
<1>14. \A u \in Threads \ {t} : ~Holds(u, s)'
  BY <1>1, <1>4, Exclusive, OthersHold
<1>15. SubAttended(s)'
  BY <1>1, <1>4, <1>7, <1>13, <1>14, HolderAttends
<1>16. \A r \in Sublists \ {s} : ~Holds(t, r) /\ ~Holds(t, r)'
  BY <1>1, <1>7, HoldsOne
<1>17. Entered' = Entered \cup {} /\ Left' = Left \cup {} /\ Untouched(Territory(s))
  BY <1>8, <1>11, NothingTouched
<1>18. index'[main_thread] = index[main_thread] /\ \A x \in {} \cup {} : get_key(x) = s
  BY <1>4
<1> QED
  BY <1>4, <1>15, <1>16, <1>17, <1>18, ElsewhereAttended

\* A statement of the function that a thread is in, for the sublist it holds.
LEMMA StatementAttended ==
  ASSUME TypeInv, Attended, Protected, NEW t \in Threads, InList(t)
  PROVE  Attended'
<1>1. /\ Numbered /\ ListTypeOK /\ key \in [Elements -> Nat] /\ t # main_thread
      /\ DOMAIN frame = Threads \cup {main_thread} /\ HasArguments(frame[t])
  BY PoolNumbered DEF TypeInv, ListTypes
<1>2. /\ ListStep(t) /\ UNCHANGED <<key, opt, pc, index>> /\ ~Idle(t)
      /\ \A u \in DOMAIN frame \ {t} : frame'[u] = frame[u]
  BY ListStepFrame DEF InList, workerVars
<1>3. PICK s \in Sublists : Holds(t, s)
  BY <1>2, InsideHolds
<1>4. PICK k, I, D, e :
        /\ k = Kind(t, s) /\ I = In(s, Entered) /\ D = In(s, Left) /\ e = Own(t)
        /\ Serving(t, k, head(s), I, D, e)
  BY <1>3 DEF Attended, SubAttended, AtWork
<1>5. k \in Calls /\ e \in Territory(s) \cup {NULL}
  BY <1>3, <1>4, HolderFacts
<1>6. head(s) \in Heads
  BY PoolNumbered
<1>7. Serving(t, k, head(s), I, D, e)' /\ Untouched({head(s)} \cup I \cup {e})
  BY <1>1, <1>2, <1>4, <1>5, <1>6, ServingStep
<1>8. Untouched(Territory(s))
  <2>1. {head(s)} \cup I \cup {e} \subseteq Territory(s) \cup {NULL}
    BY <1>4, <1>5, EnteredElements DEF Territory
  <2>2. NULL \notin Elements \cup Heads
    BY <1>1, NumberedFacts
  <2> QED
    BY <1>7, <2>1, <2>2 DEF Untouched
<1>9. Entered' = Entered /\ Left' = Left
  <2>1. \A u \in Threads : Inserted(u)' = Inserted(u) /\ Deleted(u)' = Deleted(u)
    BY <1>2 DEF Inserted, Deleted, element
  <2> QED
    BY <1>2, <2>1, SameBooks
<1>10. I = In(s, Entered)' /\ D = In(s, Left)'
  BY <1>2, <1>4, <1>9, SameIn
<1>11. k = Kind(t, s)' /\ e = Own(t)'
  BY <1>1, <1>2, <1>4 DEF Kind, Own, element, Threads, main_thread
<1>12. AtWork(t, s)'
  BY <1>7, <1>10, <1>11, AtWorkNext
<1>13. \A r \in Sublists : Holds(t, r)' <=> Holds(t, r)
  BY <1>2 DEF Holds, OwnSublist, get_key, element
<1>14. \A u \in Threads \ {t} : ~Holds(u, s)'
  BY <1>2, <1>3, Exclusive, OthersHold
<1>15. SubAttended(s)'
  BY <1>2, <1>3, <1>12, <1>13, <1>14, HolderAttends
<1>16. \A r \in Sublists \ {s} : ~Holds(t, r) /\ ~Holds(t, r)'
  BY <1>3, <1>13, HoldsOne
<1>17. /\ Entered' = Entered \cup {} /\ Left' = Left \cup {}
       /\ \A x \in {} \cup {} : get_key(x) = s
       /\ index'[main_thread] = index[main_thread]
       /\ \A u \in Threads \ {t} : pc'[u] = pc[u] /\ index'[u] = index[u]
  BY <1>2, <1>9
<1> QED
  BY <1>2, <1>8, <1>15, <1>16, <1>17, ElsewhereAttended

\* A step of main, which has joined every thread and measures sublist s.
LEMMA MainAttended ==
  ASSUME TypeInv, Attended, joined = opt.threads, UNCHANGED <<key, opt, pc>>,
         NEW s \in Sublists, index[main_thread] = s,
         index'[main_thread] = s \/ Idle(main_thread)',
         \A u \in Threads : index'[u] = index[u],
         Untouched(Territory(s)), AtWork(main_thread, s)'
  PROVE  Attended'
<1>1. /\ Numbered /\ main_thread \notin Threads
      /\ \A r \in Sublists : head(r) \in Heads
  BY PoolNumbered
<1>2. \A u \in Threads : pc[u] = "done"
  BY PoolNumbered DEF TypeInv, IInv, JoinInv, Threads
<1>3. \A u \in Threads : \A r \in Sublists : ~Holds(u, r) /\ ~Holds(u, r)'
  BY <1>2 DEF Holds
<1>4. Entered' = Entered /\ Left' = Left
  <2>1. \A u \in Threads : Inserted(u)' = Inserted(u) /\ Deleted(u)' = Deleted(u)
    BY DEF Inserted, Deleted, element
  <2> QED
    BY <2>1, SameBooks
<1>5. SubAttended(s)'
  BY <1>3, MainAttends
<1>6. ASSUME NEW r \in Sublists \ {s} PROVE SubAttended(r)'
  <2>1. AtWork(main_thread, r)
    BY <1>3 DEF Attended, SubAttended, Free
  <2>2. PICK k, I, D, e :
          /\ k = Kind(main_thread, r) /\ I = In(r, Entered) /\ D = In(r, Left)
          /\ e = Own(main_thread) /\ Serving(main_thread, k, head(r), I, D, e)
    BY <2>1 DEF AtWork
  <2>3. k = "none" /\ e = NULL
    BY <1>1, <2>2 DEF Kind, Own, main_thread
  <2>4. "none" = Kind(main_thread, r)' /\ e = Own(main_thread)'
    <3>1. Threads' = Threads
      BY DEF Threads
    <3> QED
      BY <1>1, <2>3, <3>1 DEF Kind, Own, Idle, main_thread
  <2>5. Territory(s) \cap ({head(r)} \cup I \cup {e}) = {}
    <3>1. Territory(s) \cap Territory(r) = {}
      BY Apart
    <3>2. {head(r)} \cup I \subseteq Territory(r)
      BY <2>2, EnteredElements DEF Territory
    <3>3. NULL \notin Territory(s)
      BY <1>1, NumberedFacts DEF Territory, In
    <3> QED
      BY <2>3, <3>1, <3>2, <3>3
  <2>6. Serving(main_thread, "none", head(r), I, D, e)'
    BY <1>1, <2>2, <2>3, <2>5, ServingKept
  <2>7. I = In(r, Entered)' /\ D = In(r, Left)'
    BY <1>4, <2>2, SameIn
  <2>8. AtWork(main_thread, r)'
    BY <2>4, <2>6, <2>7, AtWorkNext
  <2> QED
    BY <1>3, <2>8, MainAttends
<1>7. Sublists' = Sublists
  BY DEF Sublists
<1> QED
  BY <1>5, <1>6, <1>7 DEF Attended

\* The sublist that main measures, or is about to measure.
LEMMA MainServes ==
  ASSUME TypeInv, Attended, joined = opt.threads, NEW s \in Sublists
  PROVE  /\ \A t \in Threads : pc[t] = "done"
         /\ AtWork(main_thread, s)
         /\ index[main_thread] = s => Kind(main_thread, s) = IF Idle(main_thread) THEN "none"
                                                                                 ELSE "length"
<1>1. \A u \in Threads : pc[u] = "done"
  BY PoolNumbered DEF TypeInv, IInv, JoinInv, Threads
<1>2. Free(s)
  BY <1>1 DEF Free, Holds
<1> QED
  BY <1>1, <1>2 DEF Attended, SubAttended, Kind

\* main calls the length of a sublist.
LEMMA MeasureAttended ==
  ASSUME TypeInv, Attended, MeasureSublist
  PROVE  Attended'
<1>1. /\ Numbered /\ ListTypeOK /\ key \in [Elements -> Nat] /\ main_thread \in DOMAIN frame
      /\ index[main_thread] \in Nat /\ opt.lists \in Nat
      /\ \A s \in Sublists : head(s) \in Heads
  BY PoolNumbered DEF TypeInv, ListTypes, LockTypes
<1>2. /\ UNCHANGED <<next, prev, key, opt, pc, index>> /\ joined = opt.threads
      /\ Idle(main_thread)
      /\ frame'[main_thread] = Frame("length", head(index[main_thread]), NULL, 0)
  BY <1>1 DEF MeasureSublist, workerVars, memory, Call
<1>3. PICK s \in Sublists : s = index[main_thread]
  BY <1>1 DEF MeasureSublist, Sublists
<1>4. PICK I, D, e :
        /\ I = In(s, Entered) /\ D = In(s, Left)
        /\ e = Own(main_thread) /\ Serving(main_thread, "none", head(s), I, D, e)
  BY <1>2, <1>3, MainServes DEF AtWork
<1>5. Serving(main_thread, "length", head(s), I, D, e)'
  BY <1>1, <1>2, <1>3, <1>4, ServingCalled
<1>6. I = In(s, Entered)' /\ D = In(s, Left)'
  <2>1. \A u \in Threads : Inserted(u)' = Inserted(u) /\ Deleted(u)' = Deleted(u)
    BY <1>2 DEF Inserted, Deleted, element
  <2>2. Entered' = Entered /\ Left' = Left
    BY <1>2, <2>1, SameBooks
  <2> QED
    BY <1>2, <1>4, <2>2, SameIn
<1>7. "length" = Kind(main_thread, s)' /\ e = Own(main_thread)'
  BY <1>2, <1>3, <1>4 DEF Kind, Own, Idle, Frame, element, Threads, main_thread
<1>8. AtWork(main_thread, s)'
  BY <1>5, <1>6, <1>7, AtWorkNext
<1>9. Untouched(Territory(s))
  BY <1>2, NothingTouched
<1> QED
  BY <1>2, <1>3, <1>8, <1>9, MainAttended

\* main obtains the length of a sublist.
LEMMA MeasuredAttended ==
  ASSUME TypeInv, Attended, SublistMeasured
  PROVE  Attended'
<1>1. /\ Numbered /\ index[main_thread] \in Nat /\ opt.lists \in Nat
      /\ main_thread \in DOMAIN frame /\ main_thread \notin Threads
      /\ index \in [Threads \cup {main_thread} -> Nat]
  BY PoolNumbered DEF LockTypes
<1>2. /\ UNCHANGED <<next, prev, key, opt, pc>> /\ Returned(main_thread) /\ ~Idle(main_thread)
      /\ \A u \in Threads : index'[u] = index[u]
      /\ Idle(main_thread)'
  BY <1>1 DEF SublistMeasured, memory, Leave, NoCall, Frame, Idle, Returned, main_thread
<1>3. joined = opt.threads /\ index[main_thread] < opt.lists
  BY <1>2 DEF TypeInv, IInv, JoinInv, PcInv, MainOf
<1>4. PICK s \in Sublists : s = index[main_thread]
  BY <1>1, <1>3 DEF Sublists
<1>5. PICK I, D, e :
        /\ I = In(s, Entered) /\ D = In(s, Left)
        /\ e = Own(main_thread) /\ Serving(main_thread, "length", head(s), I, D, e)
  BY <1>2, <1>3, <1>4, MainServes DEF AtWork
<1>6. Serving(main_thread, "none", head(s), I, D, e)'
  <2>1. Serving(main_thread, "none", head(s), IF "length" = "insert" THEN I \cup {e} ELSE I,
                IF "length" = "delete" THEN D \cup {e} ELSE D, e)'
    BY <1>2, <1>5, ServingReturned DEF Calls
  <2> QED
    BY <2>1
<1>7. I = In(s, Entered)' /\ D = In(s, Left)'
  <2>1. \A u \in Threads : Inserted(u)' = Inserted(u) /\ Deleted(u)' = Deleted(u)
    BY <1>2 DEF Inserted, Deleted, element
  <2>2. Entered' = Entered /\ Left' = Left
    BY <1>2, <2>1, SameBooks
  <2> QED
    BY <1>2, <1>5, <2>2, SameIn
<1>8. "none" = Kind(main_thread, s)' /\ e = Own(main_thread)'
  <2>1. Threads' = Threads
    BY <1>2 DEF Threads
  <2> QED
    BY <1>1, <1>2, <1>5, <2>1 DEF Kind, Own, main_thread
<1>9. AtWork(main_thread, s)'
  BY <1>6, <1>7, <1>8, AtWorkNext
<1>10. Untouched(Territory(s))
  BY <1>2, NothingTouched
<1> QED
  BY <1>2, <1>3, <1>4, <1>9, <1>10, MainAttended

\* A statement of SortedList_length that main is in.
LEMMA MainStatementAttended ==
  ASSUME TypeInv, Attended, InList(main_thread)
  PROVE  Attended'
<1>1. /\ Numbered /\ ListTypeOK /\ key \in [Elements -> Nat] /\ main_thread \in DOMAIN frame
      /\ HasArguments(frame[main_thread]) /\ main_thread \notin Threads
      /\ index[main_thread] \in Nat /\ opt.lists \in Nat
  BY PoolNumbered DEF TypeInv, ListTypes, LockTypes
<1>2. /\ ListStep(main_thread) /\ UNCHANGED <<key, opt, pc, index>> /\ ~Idle(main_thread)
  BY ListStepFrame DEF InList, workerVars
<1>3. joined = opt.threads /\ index[main_thread] < opt.lists
  BY <1>2 DEF TypeInv, IInv, JoinInv, PcInv, MainOf
<1>4. PICK s \in Sublists : s = index[main_thread]
  BY <1>1, <1>3 DEF Sublists
<1>5. PICK I, D, e :
        /\ I = In(s, Entered) /\ D = In(s, Left)
        /\ e = Own(main_thread) /\ Serving(main_thread, "length", head(s), I, D, e)
  BY <1>2, <1>3, <1>4, MainServes DEF AtWork
<1>6. head(s) \in Heads /\ "length" \in Calls
  BY PoolNumbered DEF Calls
<1>7. Serving(main_thread, "length", head(s), I, D, e)' /\ Untouched({head(s)} \cup I \cup {e})
  BY <1>1, <1>2, <1>5, <1>6, ServingStep
<1>8. Untouched(Territory(s))
  <2>1. e = NULL
    BY <1>1, <1>5 DEF Own
  <2>2. {head(s)} \cup I \cup {e} \subseteq Territory(s) \cup {NULL}
    BY <1>5, <2>1, EnteredElements DEF Territory
  <2>3. NULL \notin Elements \cup Heads
    BY <1>1, NumberedFacts
  <2> QED
    BY <1>7, <2>2, <2>3 DEF Untouched
<1>9. I = In(s, Entered)' /\ D = In(s, Left)'
  <2>1. \A u \in Threads : Inserted(u)' = Inserted(u) /\ Deleted(u)' = Deleted(u)
    BY <1>2 DEF Inserted, Deleted, element
  <2>2. Entered' = Entered /\ Left' = Left
    BY <1>2, <2>1, SameBooks
  <2> QED
    BY <1>2, <1>5, <2>2, SameIn
<1>10. ~Idle(main_thread)'
  BY <1>1, <1>2, StepOfFunction
     DEF Idle, InsertStatements, DeleteStatements, LookupStatements, LengthStatements
<1>11. "length" = Kind(main_thread, s)' /\ e = Own(main_thread)'
  <2>1. Threads' = Threads
    BY <1>2 DEF Threads
  <2> QED
    BY <1>1, <1>2, <1>4, <1>5, <1>10, <2>1 DEF Kind, Own, main_thread
<1>12. AtWork(main_thread, s)'
  BY <1>7, <1>9, <1>11, AtWorkNext
<1> QED
  BY <1>2, <1>3, <1>4, <1>8, <1>12, MainAttended

\* Attended is invariant in a protected run.
LEMMA NextAttended ==
  ASSUME TypeInv, Protected, Attended, [Next]_vars
  PROVE  Attended'
<1>n. /\ DOMAIN frame = Threads \cup {main_thread} /\ main_thread \notin Threads
      /\ pc \in [Threads -> Labels] /\ index \in [Threads \cup {main_thread} -> Nat]
      /\ opt.iterations \in Nat
      /\ \A t \in DOMAIN frame : frame[t] \in Frames
  BY PoolNumbered DEF TypeInv, ListTypes, LockTypes, ListTypeOK, Frames
<1> USE DEF At, Enter
\* A thread takes a lock and calls a function.
<1>1. ASSUME NEW t \in Threads, InsertElement(t) PROVE Attended'
  <2>1. PICK s \in Sublists : s = OwnSublist(t)
    BY <1>1, InsideHolds DEF InsertElement
  <2>2. frame'[t] = Frame("insert", head(s), element(t, index[t]), 0)
    BY <1>1, <1>n, <2>1 DEF InsertElement, Call
  <2>3. /\ UNCHANGED <<memory, key, opt, index>> /\ Acquire(t, s)
        /\ pc[t] = "insert" /\ pc'[t] = "inserting" /\ index[t] < opt.iterations
        /\ \A u \in Threads \ {t} : pc'[u] = pc[u]
        /\ \A u \in DOMAIN frame \ {t} : frame'[u] = frame[u]
    BY <1>1, <1>n, <2>1 DEF InsertElement, HasElement, Call
  <2> QED
    BY <2>1, <2>2, <2>3, CallAttended DEF Doing
<1>2. ASSUME NEW t \in Threads, GetLength(t) PROVE Attended'
  <2>1. PICK s \in Sublists : s = index[t]
    BY <1>2, InsideHolds DEF GetLength
  <2>2. frame'[t] = Frame("length", head(s), NULL, 0)
    BY <1>2, <1>n, <2>1 DEF GetLength, Call
  <2>3. /\ UNCHANGED <<memory, key, opt, index>> /\ Acquire(t, s)
        /\ pc[t] = "length" /\ pc'[t] = "measuring"
        /\ \A u \in Threads \ {t} : pc'[u] = pc[u]
        /\ \A u \in DOMAIN frame \ {t} : frame'[u] = frame[u]
    BY <1>2, <1>n, <2>1 DEF GetLength, Call
  <2> QED
    BY <2>1, <2>2, <2>3, CallAttended DEF Doing
<1>3. ASSUME NEW t \in Threads, LookUpKey(t) PROVE Attended'
  <2>1. PICK s \in Sublists : s = OwnSublist(t)
    BY <1>3, InsideHolds DEF LookUpKey
  <2>2. frame'[t] = Frame("lookup", head(s), element(t, index[t]), 0)
    BY <1>3, <1>n, <2>1 DEF LookUpKey, Call
  <2>3. /\ UNCHANGED <<memory, key, opt, index>> /\ Acquire(t, s)
        /\ pc[t] = "lookup" /\ pc'[t] = "finding" /\ index[t] < opt.iterations
        /\ \A u \in Threads \ {t} : pc'[u] = pc[u]
        /\ \A u \in DOMAIN frame \ {t} : frame'[u] = frame[u]
    BY <1>3, <1>n, <2>1 DEF LookUpKey, HasElement, Call
  <2> QED
    BY <2>1, <2>2, <2>3, CallAttended DEF Doing
\* A function returns to a thread, which never finds the links broken.
<1>4. ASSUME NEW t \in Threads, ElementInserted(t) \/ LengthObtained(t) \/ ElementDeleted(t)
      PROVE  Attended'
  <2>0. Returned(t) /\ ~Idle(t)
    BY <1>4 DEF ElementInserted, LengthObtained, ElementDeleted, Returned, Idle
  <2>1. PICK s \in Sublists : Holds(t, s)
    BY <2>0, InsideHolds
  <2>2. pc[t] = "deleting" => frame[t].ret = 0
    BY <2>0, <2>1, HolderResult
  <2>3. LengthObtained(t) => total'[t] # -1
    <3>1. frame[t].ret \in Nat /\ total \in [Threads \cup {main_thread} -> Nat]
      BY <1>n, PoolNumbered, NumberedFacts DEF Frames, TypeInv, ListTypes
    <3> QED
      BY <3>1 DEF LengthObtained
  <2>4. /\ UNCHANGED <<memory, key, opt>> /\ Returned(t)
        /\ pc[t] \in {"inserting", "measuring", "deleting"}
        /\ pc[t] = "inserting" => pc'[t] = "insert"
        /\ pc[t] = "measuring" => pc'[t] = "length"
        /\ pc[t] = "deleting" => pc'[t] = "lookup"
        /\ index'[t] = index[t] + 1 /\ index'[main_thread] = index[main_thread]
        /\ \A u \in Threads \ {t} : pc'[u] = pc[u] /\ index'[u] = index[u]
        /\ \A u \in DOMAIN frame \ {t} : frame'[u] = frame[u]
    BY <1>4, <1>n, <2>2, <2>3 DEF ElementInserted, LengthObtained, ElementDeleted, Leave
  <2> QED
    BY <2>1, <2>4, ReturnAttended
\* A thread goes on to its next loop, or begins, or ends.
<1>5. ASSUME NEW t \in Threads, UNCHANGED <<memory, key, frame, opt>>,
             pc[t] \in {"unborn", "insert", "length", "lookup"},
             pc'[t] \in {"insert", "length", "lookup", "done"},
             \A u \in Threads \ {t} : pc'[u] = pc[u] /\ index'[u] = index[u],
             index'[main_thread] = index[main_thread],
             Inserted(t)' = Inserted(t), Deleted(t)' = Deleted(t)
      PROVE  Attended'
  <2>1. \A r \in Sublists : ~Holds(t, r) /\ ~Holds(t, r)'
    BY <1>5 DEF Holds
  <2>2. Inserted(t)' = Inserted(t) \cup {} /\ Deleted(t)' = Deleted(t) \cup {}
    BY <1>5
  <2>3. Entered' = Entered \cup {} /\ Left' = Left \cup {}
    BY <1>5, <2>2, Books
  <2>4. /\ Entered' = Entered /\ Left' = Left /\ t # main_thread
        /\ \A u \in DOMAIN frame \ {t} : frame'[u] = frame[u]
    BY <1>5, <1>n, <2>3
  <2> QED
    BY <1>5, <2>1, <2>4, StillAttended
<1>6. ASSUME NEW t \in Threads, AllInserted(t) \/ AllMeasured(t) \/ Finish(t)
      PROVE  Attended'
  <2>1. /\ UNCHANGED <<memory, key, frame, opt>>
        /\ \A u \in Threads \ {t} : pc'[u] = pc[u] /\ index'[u] = index[u]
        /\ index'[main_thread] = index[main_thread]
        /\ \/ pc[t] = "insert" /\ pc'[t] = "length" /\ index[t] = opt.iterations
           \/ pc[t] = "length" /\ pc'[t] = "lookup" /\ index'[t] = 0
           \/ pc[t] = "lookup" /\ pc'[t] = "done" /\ index'[t] = index[t]
    BY <1>6, <1>n DEF AllInserted, AllMeasured, Finish
  <2>2. 0..(0 - 1) = {}
    OBVIOUS
  <2>3. Inserted(t)' = Inserted(t) /\ Deleted(t)' = Deleted(t)
    BY <2>1, <2>2 DEF Inserted, Deleted, element
  <2> QED
    BY <1>5, <2>1, <2>3
<1>7. CASE CreateThread
  <2>1. PICK t \in Threads : t = created + 1 /\ pc[t] = "unborn"
    BY <1>7, PoolNumbered DEF CreateThread, TypeInv, IInv, JoinInv, Threads
  <2>2. /\ UNCHANGED <<memory, key, frame, opt, index>> /\ pc'[t] = "insert"
        /\ \A u \in Threads \ {t} : pc'[u] = pc[u]
    BY <1>7, <1>n, <2>1 DEF CreateThread
  <2>3. Inserted(t)' = Inserted(t) /\ Deleted(t)' = Deleted(t)
    BY <2>1, <2>2 DEF Inserted, Deleted, element
  <2> QED
    BY <1>5, <2>1, <2>2, <2>3
\* What was found is deleted; a statement of a function.
<1>8. ASSUME NEW t \in Threads, DeleteFound(t) PROVE Attended'
  BY <1>8, FoundAttended
<1>9. ASSUME NEW t \in Threads, InList(t) PROVE Attended'
  BY <1>9, StatementAttended
\* Nothing faults, so that segHandler is never called.
<1>10. ASSUME NEW t \in Threads, SegHandler(t) PROVE FALSE
  <2>1. Faulted(t) /\ ~Idle(t)
    BY <1>10 DEF SegHandler, Faulted, Idle
  <2>2. PICK s \in Sublists : Holds(t, s)
    BY <2>1, InsideHolds
  <2> QED
    BY <2>1, <2>2, HolderResult
\* The process ends, or main waits for a thread.
<1>11. ASSUME UNCHANGED <<memory, key, frame, opt, pc, index>> PROVE Attended'
  <2>1. \A u \in Threads : Inserted(u)' = Inserted(u) /\ Deleted(u)' = Deleted(u)
    BY <1>11 DEF Inserted, Deleted, element
  <2>2. Entered' = Entered /\ Left' = Left
    BY <1>11, <2>1, SameBooks
  <2>3. -1 # main_thread /\ -1 \notin Threads
    BY DEF main_thread, Threads
  <2> QED
    BY <1>11, <2>2, <2>3, StillAttended
<1>12. CASE \/ JoinThread \/ Report \/ SystemCallFails \/ UNCHANGED vars
            \/ \E t \in Threads : HashByZero(t)
  <2>1. UNCHANGED <<memory, key, frame, opt, pc, index>>
    BY <1>12 DEF JoinThread, Report, SystemCallFails, HashByZero, vars, workerVars
  <2> QED
    BY <1>11, <2>1
<1>13. CASE MeasureSublist
  BY <1>13, MeasureAttended
<1>14. CASE SublistMeasured
  BY <1>14, MeasuredAttended
<1>15. CASE InList(main_thread)
  BY <1>15, MainStatementAttended
<1> QED
  BY <1>1, <1>2, <1>3, <1>4, <1>6, <1>7, <1>8, <1>9, <1>10, <1>12, <1>13, <1>14, <1>15
     DEF Next, main, thread_worker, Exited

-----------------------------------------------------------------------------
(***************************************************************************)
(* The lengths that the threads and main add up.                           *)
(***************************************************************************)

\* The elements of a set in the first n sublists.
Below(n, S) == {e \in S : get_key(e) < n}

\* While a thread measures the sublists, one after another, its total is at least its own
\* elements in those it is done with, and at most all that the program has for them.
TotalOf(t) ==
  /\ pc[t] \in {"unborn", "insert", "inserting"} => total[t] = 0
  /\ pc[t] \in {"length", "measuring"} /\ opt.lists # 0 =>
       total[t] \in Cardinality(Below(index[t], FirstOf(t, opt.iterations)))
                      ..Cardinality(Below(index[t], Pool))
  /\ pc[t] \in {"lookup", "finding", "deleting", "done"} /\ opt.lists # 0 =>
       total[t] \in opt.iterations..(opt.threads * opt.iterations)

Totals == total[main_thread] = 0 /\ \A t \in Threads : TotalOf(t)

Served == Protected => Attended /\ Totals /\ status # "exit_2"

\* Cardinalities of finite sets.
LEMMA Sizes ==
  ASSUME NEW S, IsFiniteSet(S)
  PROVE  /\ Cardinality(S) \in Nat
         /\ \A R : R \subseteq S => /\ IsFiniteSet(R) /\ Cardinality(R) \in Nat
                                    /\ Cardinality(R) <= Cardinality(S)
BY FS_CardinalityType, FS_Subset

LEMMA DisjointSizes ==
  ASSUME NEW S, NEW R, IsFiniteSet(S), IsFiniteSet(R), S \cap R = {}
  PROVE  IsFiniteSet(S \cup R) /\ Cardinality(S \cup R) = Cardinality(S) + Cardinality(R)
<1>1. Cardinality(S) \in Nat /\ Cardinality(R) \in Nat
  BY FS_CardinalityType
<1>2. /\ IsFiniteSet(S \cup R)
      /\ Cardinality(S \cup R) = Cardinality(S) + Cardinality(R) - Cardinality(S \cap R)
  BY FS_Union
<1>3. Cardinality(S \cap R) = 0
  BY FS_EmptySet
<1> QED
  BY <1>1, <1>2, <1>3

\* The first n + 1 sublists are the first n and one more.
LEMMA BelowGrows ==
  ASSUME NEW S, IsFiniteSet(S), \A e \in S : get_key(e) \in Nat, NEW n \in Nat
  PROVE  /\ Cardinality(Below(n, S)) \in Nat /\ Cardinality(In(n, S)) \in Nat
         /\ Cardinality(Below(n + 1, S)) = Cardinality(Below(n, S)) + Cardinality(In(n, S))
<1>1. Below(n + 1, S) = Below(n, S) \cup In(n, S)
  BY DEF Below, In
<1>2. Below(n, S) \cap In(n, S) = {}
  BY DEF Below, In
<1>3. Below(n, S) \subseteq S /\ In(n, S) \subseteq S
  BY DEF Below, In
<1>4. /\ IsFiniteSet(Below(n, S)) /\ IsFiniteSet(In(n, S))
      /\ Cardinality(Below(n, S)) \in Nat /\ Cardinality(In(n, S)) \in Nat
  BY <1>3, Sizes
<1> QED
  BY <1>1, <1>2, <1>4, DisjointSizes

\* No sublist is below the first, and all are below the number of sublists.
LEMMA BelowEnds ==
  ASSUME NEW S, \A e \in S : get_key(e) \in Nat
  PROVE  /\ Below(0, S) = {}
         /\ \A n : (\A e \in S : get_key(e) < n) => Below(n, S) = S
BY DEF Below

\* The pool, and the elements given to a thread, and the sublists they belong to.
LEMMA PoolSizes ==
  ASSUME TypeInv, NEW t \in Threads
  PROVE  /\ IsFiniteSet(Pool) /\ Cardinality(Pool) = opt.threads * opt.iterations
         /\ FirstOf(t, opt.iterations) \subseteq Pool
         /\ Cardinality(FirstOf(t, opt.iterations)) = opt.iterations
         /\ opt.lists # 0 => \A e \in Pool : get_key(e) \in Nat /\ get_key(e) < opt.lists
<1>1. /\ LockTypes /\ opt.threads \in Nat /\ opt.iterations \in Nat /\ opt.lists \in Nat
      /\ Elements = Pool /\ key \in [Elements -> Nat]
  BY PoolNumbered DEF TypeInv, ListTypes
<1>2. opt.threads * opt.iterations \in Nat
  BY <1>1
<1>3. IsFiniteSet(Pool) /\ Cardinality(Pool) = opt.threads * opt.iterations
  <2>1. PICK m \in Nat : m = opt.threads * opt.iterations
    BY <1>2
  <2>2. IsFiniteSet(1..m) /\ Cardinality(1..m) = m
    BY FS_Interval
  <2> QED
    BY <2>1, <2>2 DEF Pool
<1>4. FirstOf(t, opt.iterations) \subseteq Pool
  <2>1. \A i \in 0..(opt.iterations - 1) : i \in Nat /\ i < opt.iterations
    BY <1>1
  <2> QED
    BY <1>1, <2>1, ElementInPool DEF FirstOf
<1>5. Cardinality(FirstOf(t, opt.iterations)) = opt.iterations
  <2>1. PICK a \in Int, N \in Nat : a = (t - 1) * opt.iterations /\ N = opt.iterations
    BY <1>1 DEF Threads
  <2>2. FirstOf(t, opt.iterations) = {a + i + 1 : i \in 0..(N - 1)}
    BY <2>1 DEF FirstOf, element
  <2>3. {a + i + 1 : i \in 0..(N - 1)} = (a + 1)..(a + N)
    <3>1. ASSUME NEW x \in (a + 1)..(a + N) PROVE x \in {a + i + 1 : i \in 0..(N - 1)}
      <4>1. x - a - 1 \in 0..(N - 1) /\ x = a + (x - a - 1) + 1
        OBVIOUS
      <4> QED
        BY <4>1
    <3>2. \A i \in 0..(N - 1) : a + i + 1 \in (a + 1)..(a + N)
      OBVIOUS
    <3> QED
      BY <3>1, <3>2
  <2>4. Cardinality((a + 1)..(a + N)) = N
    BY FS_Interval
  <2> QED
    BY <2>1, <2>2, <2>3, <2>4
<1>6. ASSUME opt.lists # 0, NEW e \in Pool
      PROVE  get_key(e) \in Nat /\ get_key(e) < opt.lists
  <2>1. key[e] \in Nat /\ opt.lists \in Nat \ {0}
    BY <1>1, <1>6
  <2>2. \A a \in Nat, b \in Nat \ {0} : a % b \in Nat /\ a % b < b
    OBVIOUS
  <2> QED
    BY <2>1, <2>2 DEF get_key
<1> QED
  BY <1>3, <1>4, <1>5, <1>6

\* The length of one more sublist brings the total up to one more sublist.
LEMMA TotalGrows ==
  ASSUME TypeInv, Attended, NEW t \in Threads, TotalOf(t), pc[t] = "measuring", Returned(t)
  PROVE  total[t] + frame[t].ret
           \in Cardinality(Below(index[t] + 1, FirstOf(t, opt.iterations)))
                 ..Cardinality(Below(index[t] + 1, Pool))
<1>1. PICK s \in Sublists : s = index[t] /\ Holds(t, s)
  BY InsideHolds DEF Holds
<1>2. frame[t].ret = Cardinality(In(s, Entered) \ In(s, Left))
  BY <1>1, HolderResult
<1>3. s \in Nat /\ opt.lists # 0 /\ Elements = Pool /\ total[t] \in Nat
  BY <1>1, PoolNumbered DEF Sublists, TypeInv, ListTypes
<1>4. PICK F : F = FirstOf(t, opt.iterations)
  OBVIOUS
<1>5. /\ IsFiniteSet(Pool) /\ F \subseteq Pool
      /\ \A e \in Pool : get_key(e) \in Nat
  BY <1>3, <1>4, PoolSizes
<1>6. PICK M : M = In(s, Entered) \ In(s, Left)
  OBVIOUS
<1>7. In(s, F) \subseteq M /\ M \subseteq In(s, Pool) /\ In(s, Pool) \subseteq Pool
  <2>1. F \subseteq Entered \ Left
    BY <1>4, OwnUndeleted
  <2>2. Entered \subseteq Pool
    BY <1>3, EnteredElements
  <2> QED
    BY <1>6, <2>1, <2>2 DEF In
<1>8. /\ Cardinality(In(s, F)) \in Nat /\ Cardinality(M) \in Nat
      /\ Cardinality(In(s, Pool)) \in Nat
      /\ Cardinality(In(s, F)) <= Cardinality(M)
      /\ Cardinality(M) <= Cardinality(In(s, Pool))
  <2>1. IsFiniteSet(In(s, Pool)) /\ IsFiniteSet(M)
    BY <1>5, <1>7, FS_Subset
  <2> QED
    BY <1>7, <2>1, FS_Subset, FS_CardinalityType
<1>9. IsFiniteSet(F)
  BY <1>5, FS_Subset
<1>10. /\ Cardinality(Below(s, F)) \in Nat /\ Cardinality(Below(s, Pool)) \in Nat
       /\ Cardinality(Below(s + 1, F)) = Cardinality(Below(s, F)) + Cardinality(In(s, F))
       /\ Cardinality(Below(s + 1, Pool)) = Cardinality(Below(s, Pool)) + Cardinality(In(s, Pool))
  BY <1>3, <1>5, <1>9, BelowGrows
<1>11. total[t] \in Cardinality(Below(s, F))..Cardinality(Below(s, Pool))
  BY <1>1, <1>3, <1>4 DEF TotalOf
<1>12. \A a, b, c, d, m, x \in Nat :
         x \in a..b /\ c <= m /\ m <= d => x + m \in (a + c)..(b + d)
  OBVIOUS
<1>13. total[t] + Cardinality(M) \in (Cardinality(Below(s, F)) + Cardinality(In(s, F)))
                                       ..(Cardinality(Below(s, Pool)) + Cardinality(In(s, Pool)))
  BY <1>3, <1>8, <1>10, <1>11, <1>12
<1> QED
  BY <1>1, <1>2, <1>4, <1>6, <1>10, <1>13

LEMMA InitServed == Init => Served
<1> SUFFICES ASSUME Init PROVE Totals
  BY InitAttended DEF Served, Init
<1>1. \A t \in Threads : pc[t] = "unborn" /\ total[t] = 0
  BY DEF Init
<1>2. total[main_thread] = 0
  BY DEF Init
<1> QED
  BY <1>1, <1>2 DEF Totals, TotalOf

\* A thread whose total, label and loop variable stay.
LEMMA TotalKept ==
  ASSUME NEW t, TotalOf(t), UNCHANGED <<key, opt>>,
         total'[t] = total[t], pc'[t] = pc[t], index'[t] = index[t]
  PROVE  TotalOf(t)'
<1>1. Pool' = Pool /\ \A n : FirstOf(t, n)' = FirstOf(t, n)
  BY DEF Pool, FirstOf, element
<1>2. \A n, S : Below(n, S)' = Below(n, S)
  BY DEF Below, get_key
<1> QED
  BY <1>1, <1>2 DEF TotalOf

\* A step of thread t keeps the totals of the others.
LEMMA ThreadTotals ==
  ASSUME Totals, UNCHANGED <<key, opt>>, NEW t \in Threads, t # main_thread,
         \A u \in (Threads \cup {main_thread}) \ {t} : total'[u] = total[u],
         \A u \in Threads \ {t} : pc'[u] = pc[u] /\ index'[u] = index[u],
         TotalOf(t)'
  PROVE  Totals'
<1>1. Threads' = Threads
  BY DEF Threads
<1>2. \A u \in Threads \ {t} : TotalOf(u)'
  BY TotalKept DEF Totals
<1> QED
  BY <1>1, <1>2 DEF Totals, main_thread

\* main measures the sublists when what was inserted has been deleted, and nothing faults.
LEMMA MainResult ==
  ASSUME TypeInv, Attended, ~Idle(main_thread)
  PROVE  ~Faulted(main_thread) /\ (Returned(main_thread) => frame[main_thread].ret = 0)
<1>1. joined = opt.threads /\ index[main_thread] < opt.lists /\ index[main_thread] \in Nat
  BY PoolNumbered DEF TypeInv, IInv, JoinInv, PcInv, MainOf
<1>2. PICK s \in Sublists : s = index[main_thread]
  BY <1>1, PoolNumbered DEF Sublists
<1>3. PICK I, D, e : /\ I = In(s, Entered) /\ D = In(s, Left)
                     /\ Serving(main_thread, "length", head(s), I, D, e)
  BY <1>1, <1>2, MainServes DEF AtWork
<1>4. I \ D = {}
  BY <1>1, <1>3, MainServes, AllDone
<1>5. Numbered /\ key \in [Elements -> Nat] /\ head(s) \in Heads /\ "length" \in Calls
  BY PoolNumbered DEF Calls
<1>6. ~Faulted(main_thread) /\ (Returned(main_thread) => frame[main_thread].ret = Cardinality(I \ D))
  BY <1>3, <1>5, ServingResult
<1> QED
  BY <1>4, <1>6, FS_EmptySet

\* Served is invariant.
LEMMA NextServed == TypeInv /\ Served /\ [Next]_vars => Served'
<1> SUFFICES ASSUME TypeInv, Served, [Next]_vars, Protected'
             PROVE  Attended' /\ Totals' /\ status' # "exit_2"
  BY DEF Served
<1>o. UNCHANGED <<key, opt>>
  BY ListStepFrame
     DEF Next, main, CreateThread, JoinThread, MeasureSublist, SublistMeasured, InList, Report,
     SystemCallFails, thread_worker, InsertElement, ElementInserted, AllInserted, GetLength,
     LengthObtained, AllMeasured, LookUpKey, DeleteFound, ElementDeleted, Finish, SegHandler,
     HashByZero, Exited, vars, workerVars
<1>a. Protected /\ Attended /\ Totals /\ status # "exit_2"
  BY <1>o DEF Protected, Locking, Served
<1>b. Attended'
  BY <1>a, NextAttended
<1>n. /\ main_thread \notin Threads
      /\ pc \in [Threads -> Labels] /\ index \in [Threads \cup {main_thread} -> Nat]
      /\ opt.iterations \in Nat /\ opt.threads \in Nat /\ opt.lists \in Nat
      /\ total \in [Threads \cup {main_thread} -> Nat]
      /\ frame \in [Threads \cup {main_thread} -> Frames]
      /\ \A t \in Threads : TotalOf(t)
  BY <1>a, PoolNumbered DEF TypeInv, ListTypes, LockTypes, ListTypeOK, Frames, Totals
<1>q. /\ Threads' = Threads /\ Pool' = Pool
      /\ \A t, n : FirstOf(t, n)' = FirstOf(t, n)
      /\ \A n, S : Below(n, S)' = Below(n, S)
  BY <1>o DEF Threads, Pool, FirstOf, element, Below, get_key
\* What a function returns to thread t.
<1>r. ASSUME NEW t \in Threads, Returned(t)
      PROVE  /\ pc[t] = "finding" => frame[t].ret # NULL
             /\ pc[t] = "deleting" => frame[t].ret # 1
             /\ frame[t].ret \in Nat
  <2>1. PICK s \in Sublists : Holds(t, s)
    BY <1>r, InsideHolds DEF Returned, Idle
  <2>2. NULL \notin Elements /\ frame[t].ret \in Nat
    BY <1>n, PoolNumbered, NumberedFacts DEF Frames
  <2>3. Attended
    BY <1>a
  <2>4. /\ pc[t] = "finding" => frame[t].ret \in Elements
        /\ pc[t] = "deleting" => frame[t].ret = 0
    BY <1>r, <2>1, <2>3, HolderResult
  <2> QED
    BY <2>2, <2>4
<1> USE DEF At, Enter
\* The label of a thread changes, and its total stays.
<1>1. ASSUME NEW t \in Threads, total' = total,
             \A u \in Threads \ {t} : pc'[u] = pc[u] /\ index'[u] = index[u],
             \/ pc[t] = "length" /\ pc'[t] = "measuring" /\ index'[t] = index[t]
             \/ pc[t] \in {"unborn", "insert", "inserting"} /\ pc'[t] \in {"insert", "inserting"}
             \/ /\ pc[t] \in {"lookup", "finding", "deleting"}
                /\ pc'[t] \in {"lookup", "finding", "deleting", "done"}
      PROVE  Totals'
  <2>1. TotalOf(t)'
    BY <1>1, <1>n, <1>o, <1>q DEF TotalOf
  <2> QED
    BY <1>1, <1>a, <1>n, <1>o, <2>1, ThreadTotals
<1>2. ASSUME NEW t \in Threads,
             \/ InsertElement(t) \/ ElementInserted(t) \/ GetLength(t) \/ LookUpKey(t)
             \/ DeleteFound(t) \/ ElementDeleted(t) \/ Finish(t)
      PROVE  Totals' /\ status' # "exit_2"
  <2>1. /\ total' = total /\ status' = status
        /\ \A u \in Threads \ {t} : pc'[u] = pc[u] /\ index'[u] = index[u]
    BY <1>2, <1>n, <1>r
       DEF InsertElement, ElementInserted, GetLength, LookUpKey, DeleteFound, ElementDeleted, Finish
  <2>2. \/ pc[t] = "length" /\ pc'[t] = "measuring" /\ index'[t] = index[t]
        \/ pc[t] \in {"insert", "inserting"} /\ pc'[t] \in {"insert", "inserting"}
        \/ /\ pc[t] \in {"lookup", "finding", "deleting"}
           /\ pc'[t] \in {"lookup", "finding", "deleting", "done"}
    BY <1>2, <1>n, <1>r
       DEF InsertElement, ElementInserted, GetLength, LookUpKey, DeleteFound, ElementDeleted, Finish
  <2> QED
    BY <1>1, <1>a, <2>1, <2>2
\* The thread begins to measure: none of the sublists, so far.
<1>3. ASSUME NEW t \in Threads, AllInserted(t) PROVE Totals' /\ status' # "exit_2"
  <2>1. /\ total' = total /\ status' = status /\ pc[t] = "insert"
        /\ pc'[t] = "length" /\ index'[t] = 0
        /\ \A u \in Threads \ {t} : pc'[u] = pc[u] /\ index'[u] = index[u]
    BY <1>3, <1>n DEF AllInserted
  <2>2. total[t] = 0
    BY <1>n, <2>1 DEF TotalOf
  <2>3. opt.lists # 0 => Below(0, FirstOf(t, opt.iterations)) = {} /\ Below(0, Pool) = {}
    <3>1. FirstOf(t, opt.iterations) \subseteq Pool
      BY PoolSizes
    <3>2. opt.lists # 0 => \A e \in Pool : get_key(e) \in Nat
      BY PoolSizes
    <3> QED
      BY <3>1, <3>2, BelowEnds
  <2>4. 0 \in Cardinality({})..Cardinality({})
    BY FS_EmptySet
  <2>5. TotalOf(t)'
    BY <1>o, <1>q, <2>1, <2>2, <2>3, <2>4 DEF TotalOf
  <2> QED
    BY <1>a, <1>n, <1>o, <2>1, <2>5, ThreadTotals
\* The length of one more sublist.
<1>4. ASSUME NEW t \in Threads, LengthObtained(t) PROVE Totals' /\ status' # "exit_2"
  <2>1. pc[t] = "measuring" /\ Returned(t) /\ total' = [total EXCEPT ![t] = @ + frame[t].ret]
    BY <1>4 DEF LengthObtained
  <2>2. total'[t] = total[t] + frame[t].ret /\ total'[t] \in Nat
    BY <1>n, <1>r, <2>1
  <2>3. /\ status' = status /\ pc'[t] = "length" /\ index'[t] = index[t] + 1
        /\ \A u \in Threads \ {t} : pc'[u] = pc[u] /\ index'[u] = index[u]
    BY <1>4, <1>n, <2>2 DEF LengthObtained
  <2>4. total'[t] \in Cardinality(Below(index'[t], FirstOf(t, opt.iterations)))
                        ..Cardinality(Below(index'[t], Pool))
    BY <1>a, <1>n, <2>1, <2>2, <2>3, TotalGrows
  <2>5. TotalOf(t)'
    BY <1>o, <1>q, <2>3, <2>4 DEF TotalOf
  <2>6. \A u \in (Threads \cup {main_thread}) \ {t} : total'[u] = total[u]
    BY <1>n, <2>1
  <2> QED
    BY <1>a, <1>n, <1>o, <2>3, <2>5, <2>6, ThreadTotals
\* The thread has measured every sublist.
<1>5. ASSUME NEW t \in Threads, AllMeasured(t) PROVE Totals' /\ status' # "exit_2"
  <2>1. /\ total' = total /\ status' = status /\ pc[t] = "length" /\ index[t] = opt.lists
        /\ pc'[t] = "lookup"
        /\ \A u \in Threads \ {t} : pc'[u] = pc[u] /\ index'[u] = index[u]
    BY <1>5, <1>n DEF AllMeasured
  <2>2. ASSUME opt.lists # 0
        PROVE  /\ Below(opt.lists, FirstOf(t, opt.iterations)) = FirstOf(t, opt.iterations)
               /\ Below(opt.lists, Pool) = Pool
    <3>1. FirstOf(t, opt.iterations) \subseteq Pool
      BY PoolSizes
    <3>2. \A e \in Pool : get_key(e) \in Nat /\ get_key(e) < opt.lists
      BY <2>2, PoolSizes
    <3> QED
      BY <3>1, <3>2, BelowEnds
  <2>3. opt.lists # 0 => total[t] \in opt.iterations..(opt.threads * opt.iterations)
    <3>1. opt.lists # 0 => total[t] \in Cardinality(Below(opt.lists, FirstOf(t, opt.iterations)))
                                          ..Cardinality(Below(opt.lists, Pool))
      BY <1>n, <2>1 DEF TotalOf
    <3>2. /\ Cardinality(FirstOf(t, opt.iterations)) = opt.iterations
          /\ Cardinality(Pool) = opt.threads * opt.iterations
      BY PoolSizes
    <3> QED
      BY <2>2, <3>1, <3>2
  <2>4. TotalOf(t)'
    BY <1>o, <2>1, <2>3 DEF TotalOf
  <2> QED
    BY <1>a, <1>n, <1>o, <2>1, <2>4, ThreadTotals
\* No thread goes on, and main's total stays.
<1>6. ASSUME UNCHANGED <<pc, total>>, \A u \in Threads : index'[u] = index[u] PROVE Totals'
  <2>1. \A u \in Threads : TotalOf(u)'
    BY <1>6, <1>n, <1>o, TotalKept
  <2> QED
    BY <1>6, <1>a, <1>q, <2>1 DEF Totals, main_thread
<1>7. ASSUME \/ JoinThread \/ SystemCallFails \/ MeasureSublist \/ Report \/ UNCHANGED vars
             \/ \E t \in Threads \cup {main_thread} : InList(t)
             \/ \E t \in Threads : HashByZero(t)
      PROVE  Totals' /\ status' # "exit_2"
  <2>1. UNCHANGED <<pc, total, index>>
    BY <1>7 DEF JoinThread, SystemCallFails, MeasureSublist, Report, InList, HashByZero, vars,
       workerVars
  <2>2. status' # "exit_2"
    BY <1>7, <1>a DEF JoinThread, SystemCallFails, MeasureSublist, Report, InList, HashByZero,
       vars, workerVars, Totals
  <2> QED
    BY <1>6, <2>1, <2>2
<1>8. ASSUME SublistMeasured PROVE Totals' /\ status' # "exit_2"
  <2>1. Returned(main_thread) /\ ~Idle(main_thread)
    BY <1>8 DEF SublistMeasured, Returned, Idle
  <2>2. frame[main_thread].ret = 0
    BY <1>a, <2>1, MainResult
  <2>3. total' = total
    BY <1>8, <1>a, <1>n, <2>2 DEF SublistMeasured, Totals
  <2>4. UNCHANGED <<pc, total, status>> /\ \A u \in Threads : index'[u] = index[u]
    BY <1>8, <1>n, <2>3 DEF SublistMeasured
  <2> QED
    BY <1>6, <1>a, <2>4
<1>9. ASSUME CreateThread PROVE Totals' /\ status' # "exit_2"
  <2>1. PICK t \in Threads : t = created + 1 /\ pc[t] = "unborn"
    BY <1>9, PoolNumbered DEF CreateThread, TypeInv, IInv, JoinInv, Threads
  <2>2. /\ UNCHANGED <<total, status, index>> /\ pc'[t] = "insert"
        /\ \A u \in Threads \ {t} : pc'[u] = pc[u]
    BY <1>9, <1>n, <2>1 DEF CreateThread
  <2> QED
    BY <1>1, <1>a, <2>1, <2>2
\* Nothing faults, so that segHandler is never called.
<1>10. ASSUME NEW t \in Threads, SegHandler(t) PROVE FALSE
  <2>1. Faulted(t) /\ ~Idle(t)
    BY <1>10 DEF SegHandler, Faulted, Idle
  <2>2. PICK s \in Sublists : Holds(t, s)
    BY <2>1, InsideHolds
  <2> QED
    BY <1>a, <2>1, <2>2, HolderResult
<1>11. Totals' /\ status' # "exit_2"
  BY <1>2, <1>3, <1>4, <1>5, <1>7, <1>8, <1>9, <1>10 DEF Next, main, thread_worker, Exited
<1> QED
  BY <1>b, <1>11

-----------------------------------------------------------------------------
(***************************************************************************)
(* What follows for the properties of the program.                         *)
(***************************************************************************)

\* TypeInv and Served hold in every reachable state.
THEOREM ServedAlways == Spec => [](TypeInv /\ Served)
BY InitTypeInv, InitServed, NextTypeInv, NextServed, PTL DEF Spec

\* In a protected run, a sublist whose lock nobody holds is well formed and holds exactly
\* the keys that hash to it, each as often as it was inserted and not yet deleted.
THEOREM KeysAlwaysBalance == Spec => []KeysBalance
<1>1. TypeInv /\ Served => KeysBalance
  <2> SUFFICES ASSUME TypeInv, Served, Protected, NEW s \in Sublists, Free(s)
               PROVE  /\ WellFormed(head(s))
                      /\ \A k \in {key[e] : e \in Pool} :
                           Cardinality(WithKey(k, Contents(head(s)))) =
                             IF k % opt.lists = s
                               THEN Cardinality(WithKey(k, Entered)) - Cardinality(WithKey(k, Left))
                               ELSE 0
    BY DEF KeysBalance, Entered, Left
  <2>1. /\ Numbered /\ key \in [Elements -> Nat] /\ head(s) \in Heads /\ Elements = Pool
    BY PoolNumbered DEF TypeInv, ListTypes
  <2>2. PICK kind, I, D, e : /\ kind \in {"none", "length", "lookup"}
                             /\ I = In(s, Entered) /\ D = In(s, Left)
                             /\ Serving(main_thread, kind, head(s), I, D, e)
    BY DEF Served, Attended, SubAttended, AtWork, Kind
  <2>3. WellFormed(head(s)) /\ Contents(head(s)) \subseteq I /\ Counted(Contents(head(s)), I, D)
    BY <2>1, <2>2, ServingWellFormed
  <2>4. \A k, S : WithKey(k, S) = OfKey(k, S)
    BY DEF WithKey, OfKey
  <2>5. ASSUME NEW k \in {key[e1] : e1 \in Pool}
        PROVE  Cardinality(WithKey(k, Contents(head(s)))) =
                 IF k % opt.lists = s
                   THEN Cardinality(WithKey(k, Entered)) - Cardinality(WithKey(k, Left))
                   ELSE 0
    <3>1. CASE k % opt.lists = s
      <4>1. k \in Nat
        BY <2>1
      <4>2. Cardinality(OfKey(k, Contents(head(s))))
              = Cardinality(OfKey(k, I)) - Cardinality(OfKey(k, D))
        BY <2>1, <2>3, <4>1, CountedKey
      <4>3. OfKey(k, I) = OfKey(k, Entered) /\ OfKey(k, D) = OfKey(k, Left)
        BY <2>2, <3>1 DEF OfKey, In, get_key
      <4> QED
        BY <2>4, <3>1, <4>2, <4>3
    <3>2. CASE k % opt.lists # s
      <4>1. OfKey(k, Contents(head(s))) = {}
        BY <2>2, <2>3, <3>2 DEF OfKey, In, get_key
      <4> QED
        BY <2>4, <3>2, <4>1, FS_EmptySet
    <3> QED
      BY <3>1, <3>2
  <2> QED
    BY <2>3, <2>5
<1> QED
  BY <1>1, ServedAlways, PTL

\* In a protected run the length that a thread adds up, one sublist at a time while the
\* others go on inserting and deleting, counts at least its own elements and at most all.
THEOREM LengthAlwaysCountsOwn == Spec => []LengthCountsOwn
<1>1. TypeInv /\ Served => LengthCountsOwn
  BY DEF Served, Totals, TotalOf, LengthCountsOwn
<1> QED
  BY <1>1, ServedAlways, PTL

\* A protected run never fails: no lookup misses, no delete finds the links broken, nothing
\* faults, and main finds the sublists empty.
THEOREM NeverAnyCorrupt == Spec => []NeverCorrupt
<1>1. TypeInv /\ Served => NeverCorrupt
  <2> SUFFICES ASSUME TypeInv, Served, Protected, NEW t \in DOMAIN frame, Faulted(t)
               PROVE  FALSE
    BY DEF NeverCorrupt, Served
  <2>1. ~Idle(t) /\ Attended /\ DOMAIN frame = Threads \cup {main_thread}
    BY PoolNumbered DEF Served, Faulted, Idle
  <2>2. CASE t = main_thread
    BY <2>1, <2>2, MainResult
  <2>3. CASE t \in Threads
    <3>1. PICK s \in Sublists : Holds(t, s)
      BY <2>1, <2>3, InsideHolds
    <3> QED
      BY <2>1, <2>3, <3>1, HolderResult
  <2> QED
    BY <2>1, <2>2, <2>3
<1> QED
  BY <1>1, ServedAlways, PTL
=============================================================================
