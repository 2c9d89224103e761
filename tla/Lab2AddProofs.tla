---------------------------- MODULE Lab2AddProofs ----------------------------
(***************************************************************************)
(* Theorems about Lab2Add, for any set of command lines: any number of     *)
(* threads, any number of iterations.                                      *)
(***************************************************************************)
EXTENDS Lab2Add, FiniteSetTheorems, TLAPS

\* A thread inside the loop body has an iteration left to finish, and is at a
\* statement that its --sync option leads to.
LoopInv ==
  \A t \in Threads :
    /\ pc[t] \in {"load", "store", "cas", "unlock"} \/ arg[t] = -1
         => iter[t] < opt.iterations /\ opt.sync_type # "other"
    /\ pc[t] = "cas" => opt.sync_type = "c"
    /\ pc[t] = "store" => opt.sync_type # "c"
    /\ pc[t] = "unlock" => Locking

\* Under a lock the value a thread has loaded is still that of the counter.
FreshLoad == Locking => \A t \in Threads : pc[t] = "store" => reg[t] = counter

IInv == TypeOK /\ LoopInv /\ MutualExclusion /\ FreshLoad

LEMMA OptType ==
  ASSUME opt \in CommandLines
  PROVE  opt.threads \in Nat /\ opt.iterations \in Nat /\ opt.sync_type \in SyncTypes
BY CommandLinesAssumption

LEMMA InitIInv == Init => IInv
<1> SUFFICES ASSUME Init PROVE IInv
  OBVIOUS
<1> opt.threads \in Nat /\ opt.iterations \in Nat /\ opt.sync_type \in SyncTypes
  BY OptType DEF Init
<1>1. TypeOK
  BY DEF Init, TypeOK, Threads, Labels, Statuses
<1>2. LoopInv /\ MutualExclusion /\ FreshLoad
  BY DEF Init, LoopInv, MutualExclusion, FreshLoad, InAdd, Threads
<1> QED
  BY <1>1, <1>2 DEF IInv

\* What the return from an add function does to the loop of its thread.
LEMMA ReturnStep ==
  ASSUME TypeOK, NEW t \in Threads, Return(t), opt' = opt, created' = created,
         pc[t] # "unborn", iter[t] < opt.iterations
  PROVE  /\ pc' \in [Threads -> Labels]
         /\ iter' \in [Threads -> 0..opt.iterations]
         /\ arg' \in [Threads -> {1, -1}]
         /\ \A u \in Threads : pc'[u] = "unborn" <=> u > created
         /\ arg'[t] = -1 => iter'[t] < opt.iterations
         /\ pc'[t] = "call"
         /\ \A u \in Threads \ {t} :
              pc'[u] = pc[u] /\ iter'[u] = iter[u] /\ arg'[u] = arg[u]
<1> opt.threads \in Nat /\ opt.iterations \in Nat
  BY OptType DEF TypeOK
<1>1. /\ pc' = [pc EXCEPT ![t] = "call"]
      /\ arg' = [arg EXCEPT ![t] = -arg[t]]
      /\ iter' = [iter EXCEPT ![t] = IF arg[t] = 1 THEN iter[t] ELSE iter[t] + 1]
  BY DEF Return, Goto
<1>2. arg[t] \in {1, -1} /\ -arg[t] \in {1, -1} /\ (-arg[t] = -1 <=> arg[t] = 1)
  BY DEF TypeOK
<1>3. (IF arg[t] = 1 THEN iter[t] ELSE iter[t] + 1) \in 0..opt.iterations
  BY DEF TypeOK
<1>4. /\ pc' \in [Threads -> Labels]
      /\ \A u \in Threads : pc'[u] = "unborn" <=> u > created
  BY <1>1 DEF TypeOK, Labels
<1>5. iter' \in [Threads -> 0..opt.iterations]
  BY <1>1, <1>3 DEF TypeOK
<1>6. arg' \in [Threads -> {1, -1}]
  BY <1>1, <1>2 DEF TypeOK
<1>7. arg'[t] = -1 => iter'[t] < opt.iterations
  BY <1>1, <1>2 DEF TypeOK
<1> QED
  BY <1>1, <1>4, <1>5, <1>6, <1>7 DEF TypeOK

\* The type invariant, with LoopInv, is inductive.
LEMMA NextTypeOK == TypeOK /\ LoopInv /\ [Next]_vars => TypeOK' /\ LoopInv'
<1> SUFFICES ASSUME TypeOK, LoopInv, [Next]_vars PROVE TypeOK' /\ LoopInv'
  OBVIOUS
<1> USE DEF TypeOK, LoopInv, Threads, Labels, Statuses, Running, At, Goto, Locking
<1>a. opt.threads \in Nat /\ opt.iterations \in Nat /\ opt.sync_type \in SyncTypes
  BY OptType
<1>1. ASSUME NEW t \in Threads, LeaveLoop(t) PROVE TypeOK' /\ LoopInv'
  BY <1>1, <1>a DEF LeaveLoop, mainVars
<1>2. ASSUME NEW t \in Threads, CallUnlocked(t) PROVE TypeOK' /\ LoopInv'
  BY <1>2, <1>a DEF CallUnlocked, MayCall, mainVars
<1>3. ASSUME NEW t \in Threads, MutexLock(t) PROVE TypeOK' /\ LoopInv'
  BY <1>3, <1>a DEF MutexLock, MayCall, mainVars
<1>4. ASSUME NEW t \in Threads, SpinLock(t) PROVE TypeOK' /\ LoopInv'
  BY <1>4, <1>a DEF SpinLock, MayCall, mainVars
<1>5. ASSUME NEW t \in Threads, Load(t) PROVE TypeOK' /\ LoopInv'
  BY <1>5, <1>a DEF Load, mainVars
<1>6. ASSUME NEW t \in Threads, StoreLocked(t) PROVE TypeOK' /\ LoopInv'
  BY <1>6, <1>a DEF StoreLocked, mainVars
<1>7. ASSUME NEW t \in Threads, StoreUnlocked(t) PROVE TypeOK' /\ LoopInv'
  BY <1>7, <1>a, ReturnStep DEF StoreUnlocked, mainVars
<1>8. ASSUME NEW t \in Threads, CompareAndSwap(t) PROVE TypeOK' /\ LoopInv'
  BY <1>8, <1>a, ReturnStep DEF CompareAndSwap, mainVars
<1>9. ASSUME NEW t \in Threads, CompareFails(t) PROVE TypeOK' /\ LoopInv'
  BY <1>9, <1>a DEF CompareFails, mainVars
<1>10. ASSUME NEW t \in Threads, Unlock(t) PROVE TypeOK' /\ LoopInv'
  BY <1>10, <1>a, ReturnStep DEF Unlock, mainVars
<1>11. CASE CreateThread
  BY <1>11, <1>a DEF CreateThread
<1>12. CASE JoinThread
  BY <1>12, <1>a DEF JoinThread, threadVars
<1>13. CASE Report
  BY <1>13, <1>a DEF Report, threadVars, mainVars
<1>14. CASE SystemCallFails
  BY <1>14, <1>a DEF SystemCallFails, threadVars, mainVars
<1>15. CASE UNCHANGED vars
  BY <1>15, <1>a DEF vars, threadVars, mainVars
<1> QED
  BY <1>1, <1>2, <1>3, <1>4, <1>5, <1>6, <1>7, <1>8, <1>9, <1>10, <1>11,
     <1>12, <1>13, <1>14, <1>15 DEF Next, main, thread_worker, Exited

\* The locks exclude, and a locked load cannot go stale before its store.
LEMMA NextMutualExclusion ==
  IInv /\ [Next]_vars => MutualExclusion' /\ FreshLoad'
<1> SUFFICES ASSUME IInv, [Next]_vars PROVE MutualExclusion' /\ FreshLoad'
  OBVIOUS
<1> USE DEF IInv, TypeOK, MutualExclusion, FreshLoad, InAdd, Threads, Locking,
            At, Goto
<1>1. ASSUME NEW t \in Threads, LeaveLoop(t) PROVE MutualExclusion' /\ FreshLoad'
  BY <1>1 DEF LeaveLoop, mainVars
<1>2. ASSUME NEW t \in Threads, CallUnlocked(t) PROVE MutualExclusion' /\ FreshLoad'
  BY <1>2 DEF CallUnlocked, MayCall, mainVars
<1>3. ASSUME NEW t \in Threads, MutexLock(t) PROVE MutualExclusion' /\ FreshLoad'
  BY <1>3 DEF MutexLock, MayCall, mainVars
<1>4. ASSUME NEW t \in Threads, SpinLock(t) PROVE MutualExclusion' /\ FreshLoad'
  BY <1>4 DEF SpinLock, MayCall, mainVars
<1>5. ASSUME NEW t \in Threads, Load(t) PROVE MutualExclusion' /\ FreshLoad'
  BY <1>5 DEF Load, mainVars
<1>6. ASSUME NEW t \in Threads, StoreLocked(t) PROVE MutualExclusion' /\ FreshLoad'
  BY <1>6 DEF StoreLocked, mainVars
<1>7. ASSUME NEW t \in Threads, StoreUnlocked(t) PROVE MutualExclusion' /\ FreshLoad'
  BY <1>7 DEF StoreUnlocked, mainVars
<1>8. ASSUME NEW t \in Threads, CompareAndSwap(t) PROVE MutualExclusion' /\ FreshLoad'
  BY <1>8 DEF CompareAndSwap, LoopInv, mainVars
<1>9. ASSUME NEW t \in Threads, CompareFails(t) PROVE MutualExclusion' /\ FreshLoad'
  BY <1>9 DEF CompareFails, LoopInv, mainVars
<1>10. ASSUME NEW t \in Threads, Unlock(t) PROVE MutualExclusion' /\ FreshLoad'
  BY <1>10 DEF Unlock, Return, mainVars
<1>11. CASE CreateThread
  <2>1. created + 1 \in Threads /\ pc[created + 1] = "unborn"
    BY <1>11, OptType DEF CreateThread
  <2> QED
    BY <1>11, <2>1 DEF CreateThread
<1>12. CASE JoinThread
  BY <1>12 DEF JoinThread, threadVars
<1>13. CASE Report
  BY <1>13 DEF Report, threadVars, mainVars
<1>14. CASE SystemCallFails
  BY <1>14 DEF SystemCallFails, threadVars, mainVars
<1>15. CASE UNCHANGED vars
  BY <1>15 DEF vars, threadVars, mainVars
<1> QED
  BY <1>1, <1>2, <1>3, <1>4, <1>5, <1>6, <1>7, <1>8, <1>9, <1>10, <1>11,
     <1>12, <1>13, <1>14, <1>15 DEF Next, main, thread_worker, Exited

\* IInv holds in every reachable state.
THEOREM Invariance == Spec => []IInv
<1>1. IInv /\ [Next]_vars => IInv'
  BY NextTypeOK, NextMutualExclusion DEF IInv
<1> QED
  BY InitIInv, <1>1, PTL DEF Spec

\* Every variable keeps its type.
THEOREM TypeCorrect == Spec => []TypeOK
<1>1. IInv => TypeOK
  BY DEF IInv
<1> QED
  BY Invariance, <1>1, PTL

\* pthread_mutex_lock and the test-and-set loop keep two threads out of add.
THEOREM Mutex == Spec => []MutualExclusion
<1>1. IInv => MutualExclusion
  BY DEF IInv
<1> QED
  BY Invariance, <1>1, PTL

-----------------------------------------------------------------------------
(***************************************************************************)
(* Refinement: a store that reaches the counter is one Up or Down of the   *)
(* abstract counter, and every other step stutters.                        *)
(***************************************************************************)

LEMMA InitRefines == Init => Counter!Init
<1> SUFFICES ASSUME Init PROVE Counter!Init
  OBVIOUS
<1>1. \A t \in Threads : Ups[t] = 0 /\ Downs[t] = 0
  BY DEF Init, Ups, Downs
<1>2. DOMAIN Ups = Threads /\ DOMAIN Downs = Threads /\ DOMAIN Seen = Threads
  BY DEF Ups, Downs, Seen
<1>3. \A t \in Threads : Seen[t] = {}
  BY DEF Init, Seen, Loaded
<1> QED
  BY <1>1, <1>2, <1>3 DEF Init, Protected, Counter!Init

\* Steps that do not touch iter or arg, nor enter or leave "unlock", add nothing.
LEMMA NothingAdded ==
  ASSUME opt' = opt, iter' = iter, arg' = arg,
         \A t \in Threads : pc'[t] = "unlock" <=> pc[t] = "unlock"
  PROVE  Threads' = Threads /\ Protected' = Protected /\ Ups' = Ups /\ Downs' = Downs
<1>1. Threads' = Threads /\ Protected' = Protected
  BY DEF Threads, Protected
<1>2. Ups' = Ups
  BY <1>1 DEF Ups
<1>3. Downs' = Downs
  BY <1>1 DEF Downs
<1> QED
  BY <1>1, <1>2, <1>3

\* Those that load nothing either, and keep what has been loaded, stutter.
LEMMA SilentStep ==
  ASSUME opt' = opt, counter' = counter, iter' = iter, arg' = arg, reg' = reg,
         \A t \in Threads : /\ pc'[t] = "unlock" <=> pc[t] = "unlock"
                            /\ Loaded(t)' <=> Loaded(t)
  PROVE  UNCHANGED Counter!vars
<1>1. Threads' = Threads /\ Protected' = Protected /\ Ups' = Ups /\ Downs' = Downs
  BY NothingAdded
<1>2. Seen' = Seen
  BY <1>1 DEF Seen
<1> QED
  BY <1>1, <1>2 DEF Counter!vars

\* A load is a look at the counter.
LEMMA LookStep ==
  ASSUME TypeOK, NEW t \in Threads, Load(t)
  PROVE  Counter!Next
<1>1. /\ opt' = opt /\ counter' = counter /\ iter' = iter /\ arg' = arg
      /\ pc \in [Threads -> Labels] /\ reg \in [Threads -> Int]
      /\ pc[t] = "load" /\ Loaded(t)' /\ reg'[t] = counter /\ pc'[t] # "unlock"
      /\ \A u \in Threads \ {t} : pc'[u] = pc[u] /\ reg'[u] = reg[u]
  BY DEF Load, TypeOK, At, Goto, Loaded
<1>2. Threads' = Threads /\ Protected' = Protected /\ Ups' = Ups /\ Downs' = Downs
  BY <1>1, NothingAdded
<1>3. Seen' = [Seen EXCEPT ![t] = {counter}]
  BY <1>1, <1>2 DEF Seen, Loaded
<1>4. Counter!Look(t)
  BY <1>1, <1>2, <1>3 DEF Counter!Look
<1> QED
  BY <1>4 DEF Counter!Next, Ups

\* A compare and swap that fails gives up what was loaded.
LEMMA ForgetStep ==
  ASSUME TypeOK, NEW t \in Threads, CompareFails(t)
  PROVE  Counter!Next
<1>1. /\ opt' = opt /\ counter' = counter /\ iter' = iter /\ arg' = arg /\ reg' = reg
      /\ pc \in [Threads -> Labels] /\ pc[t] = "cas" /\ pc'[t] = "load"
      /\ \A u \in Threads \ {t} : pc'[u] = pc[u]
  BY DEF CompareFails, TypeOK, At, Goto
<1>2. Threads' = Threads /\ Protected' = Protected /\ Ups' = Ups /\ Downs' = Downs
  BY <1>1, NothingAdded
<1>3. Seen' = [Seen EXCEPT ![t] = {}]
  BY <1>1, <1>2 DEF Seen, Loaded
<1>4. Counter!Forget(t)
  BY <1>1, <1>2, <1>3 DEF Counter!Forget
<1> QED
  BY <1>4 DEF Counter!Next, Ups

\* An add of thread t that reaches the counter, unlock still to come or not.
LEMMA AddStep ==
  ASSUME TypeOK, NEW t \in Threads, opt' = opt, reg' = reg,
         Loaded(t), counter' = reg[t] + arg[t],
         \A u \in Threads \ {t} :
           pc'[u] = pc[u] /\ iter'[u] = iter[u] /\ arg'[u] = arg[u],
         \/ pc'[t] = "unlock" /\ iter'[t] = iter[t] /\ arg'[t] = arg[t]
         \/ /\ pc'[t] = "call" /\ arg'[t] = -arg[t]
            /\ iter'[t] = IF arg[t] = 1 THEN iter[t] ELSE iter[t] + 1,
         Protected => counter' = counter + arg[t]
  PROVE  /\ Counter!Next
         /\ arg[t] = 1 => Counter!Up(t)
         /\ arg[t] = -1 => Counter!Down(t)
<1>a. Threads' = Threads /\ Protected' = Protected
  BY DEF Threads, Protected
<1>b. iter[t] \in Int /\ arg[t] \in {1, -1} /\ pc[t] # "unlock"
  BY OptType DEF TypeOK, Loaded
<1>s. /\ Seen[t] = {reg[t]}
      /\ Seen' = [Seen EXCEPT ![t] = {}]
  BY <1>a DEF Seen, Loaded
<1>v. Counter!Apply(t, arg[t])
  BY <1>s DEF Counter!Apply
<1>c. /\ Ups = [u \in Threads |->
                 iter[u] + (IF arg[u] = -1 \/ pc[u] = "unlock" THEN 1 ELSE 0)]
      /\ Ups' = [u \in Threads |->
                 iter'[u] + (IF arg'[u] = -1 \/ pc'[u] = "unlock" THEN 1 ELSE 0)]
  BY <1>a DEF Ups
<1>d. /\ Downs = [u \in Threads |->
                 iter[u] + (IF arg[u] = -1 /\ pc[u] = "unlock" THEN 1 ELSE 0)]
      /\ Downs' = [u \in Threads |->
                 iter'[u] + (IF arg'[u] = -1 /\ pc'[u] = "unlock" THEN 1 ELSE 0)]
  BY <1>a DEF Downs
<1>1. CASE arg[t] = 1
  <2>1. Ups[t] = Downs[t]
    BY <1>b, <1>c, <1>d, <1>1
  <2>2. Ups' = [Ups EXCEPT ![t] = @ + 1]
    BY <1>b, <1>c, <1>1
  <2>3. Downs' = Downs
    BY <1>b, <1>c, <1>d, <1>1
  <2>4. t \in DOMAIN Ups
    BY DEF Ups
  <2>5. Counter!Up(t)
    BY <1>a, <1>v, <1>1, <2>1, <2>2, <2>3 DEF Counter!Up
  <2> QED
    BY <1>1, <2>4, <2>5 DEF Counter!Next
<1>2. CASE arg[t] = -1
  <2>1. Ups[t] = Downs[t] + 1
    BY <1>b, <1>c, <1>d, <1>2
  <2>2. Downs' = [Downs EXCEPT ![t] = @ + 1]
    BY <1>b, <1>d, <1>2
  <2>3. Ups' = Ups
    BY <1>b, <1>c, <1>d, <1>2
  <2>4. t \in DOMAIN Ups
    BY DEF Ups
  <2>5. Counter!Down(t)
    BY <1>a, <1>v, <1>2, <2>1, <2>2, <2>3 DEF Counter!Down
  <2> QED
    BY <1>2, <2>4, <2>5 DEF Counter!Next
<1> QED
  BY <1>b, <1>1, <1>2

LEMMA NextRefines == IInv /\ [Next]_vars => [Counter!Next]_(Counter!vars)
<1> SUFFICES ASSUME IInv, [Next]_vars PROVE [Counter!Next]_(Counter!vars)
  OBVIOUS
<1> USE DEF At, Goto, Loaded
<1>t. TypeOK /\ LoopInv
  BY DEF IInv
<1>p. pc \in [Threads -> Labels] /\ iter \in [Threads -> Int] /\ arg \in [Threads -> {1, -1}]
  BY <1>t, OptType DEF TypeOK
<1>1. ASSUME NEW t \in Threads, LeaveLoop(t) PROVE UNCHANGED Counter!vars
  BY <1>1, <1>p, SilentStep DEF LeaveLoop
<1>2. ASSUME NEW t \in Threads, CallUnlocked(t) PROVE UNCHANGED Counter!vars
  BY <1>2, <1>p, SilentStep DEF CallUnlocked, MayCall
<1>3. ASSUME NEW t \in Threads, MutexLock(t) PROVE UNCHANGED Counter!vars
  BY <1>3, <1>p, SilentStep DEF MutexLock, MayCall
<1>4. ASSUME NEW t \in Threads, SpinLock(t) PROVE UNCHANGED Counter!vars
  BY <1>4, <1>p, SilentStep DEF SpinLock, MayCall
<1>5. ASSUME NEW t \in Threads, Load(t) PROVE Counter!Next
  BY <1>5, <1>t, LookStep
<1>6. ASSUME NEW t \in Threads, StoreLocked(t) PROVE Counter!Next
  <2>1. counter' = counter + arg[t]
    BY <1>6 DEF StoreLocked, IInv, FreshLoad
  <2> QED
    BY <1>6, <1>t, <1>p, <2>1, AddStep DEF StoreLocked
<1>7. ASSUME NEW t \in Threads, StoreUnlocked(t) PROVE Counter!Next
  <2>1. ~Protected
    BY <1>7, <1>t DEF StoreUnlocked, LoopInv, Protected, Locking
  <2> QED
    BY <1>7, <1>t, <1>p, <2>1, AddStep DEF StoreUnlocked, Return
<1>8. ASSUME NEW t \in Threads, CompareAndSwap(t) PROVE Counter!Next
  BY <1>8, <1>t, <1>p, AddStep DEF CompareAndSwap, Return
<1>9. ASSUME NEW t \in Threads, CompareFails(t) PROVE Counter!Next
  BY <1>9, <1>t, ForgetStep
<1>10. ASSUME NEW t \in Threads, Unlock(t) PROVE UNCHANGED Counter!vars
  <2>1. Threads' = Threads /\ Protected' = Protected /\ counter' = counter
    BY <1>10 DEF Unlock, Threads, Protected
  <2>2. Ups' = Ups
    BY <1>10, <1>p, <2>1 DEF Unlock, Return, Ups
  <2>3. Downs' = Downs
    BY <1>10, <1>p, <2>1 DEF Unlock, Return, Downs
  <2>4. Seen' = Seen
    BY <1>10, <1>p, <2>1 DEF Unlock, Return, Seen
  <2> QED
    BY <2>1, <2>2, <2>3, <2>4 DEF Counter!vars
<1>11. CASE CreateThread
  <2>1. created + 1 \in Threads /\ pc[created + 1] = "unborn"
    BY <1>11, <1>t, OptType DEF CreateThread, TypeOK, Threads
  <2> QED
    BY <1>11, <1>p, <2>1, SilentStep DEF CreateThread
<1>12. CASE JoinThread
  BY <1>12, SilentStep DEF JoinThread, threadVars
<1>13. CASE Report
  BY <1>13, SilentStep DEF Report, threadVars
<1>14. CASE SystemCallFails
  BY <1>14, SilentStep DEF SystemCallFails, threadVars
<1>15. CASE UNCHANGED vars
  BY <1>15, SilentStep DEF vars, threadVars
<1> QED
  BY <1>1, <1>2, <1>3, <1>4, <1>5, <1>6, <1>7, <1>8, <1>9, <1>10, <1>11,
     <1>12, <1>13, <1>14, <1>15 DEF Next, main, thread_worker, Exited

\* lab2_add implements SharedCounter: an add under a lock, or by compare and
\* swap, is indivisible, and no mode performs an add twice or not at all.
THEOREM Refinement == Spec => RefinesSharedCounter
BY Invariance, InitRefines, NextRefines, PTL
   DEF Spec, RefinesSharedCounter, Counter!Spec

-----------------------------------------------------------------------------
(***************************************************************************)
(* No update is lost.  The argument is about the abstract counter alone.   *)
(***************************************************************************)

LEMMA OutstandingFinite == TypeOK => IsFiniteSet(Outstanding)
<1> SUFFICES ASSUME TypeOK PROVE IsFiniteSet(Outstanding)
  OBVIOUS
<1>1. IsFiniteSet(Threads)
  BY OptType, FS_Interval DEF TypeOK, Threads
<1>2. Outstanding \in SUBSET Threads
  BY DEF Outstanding
<1> QED
  BY <1>1, <1>2, FS_Subset

\* An abstract add moves one thread into or out of the set of those between
\* their 1 and their -1, and the size of the set by as much as the counter.
LEMMA AddKeepsNoLostUpdate ==
  ASSUME TypeOK, NoLostUpdate, opt' = opt, Counter!Next
  PROVE  NoLostUpdate'
<1> SUFFICES ASSUME Protected, counter = Cardinality(Outstanding)
             PROVE  counter' = Cardinality(Outstanding')
  BY DEF NoLostUpdate, Protected
<1>f. IsFiniteSet(Outstanding) /\ Cardinality(Outstanding) \in Nat
  BY OutstandingFinite, FS_CardinalityType
<1>t. Threads' = Threads /\ DOMAIN Ups = Threads /\ DOMAIN Downs = Threads
  BY DEF Threads, Ups, Downs
<1>i. \A t \in Threads : Ups[t] \in Int /\ Downs[t] \in Int
  BY OptType DEF TypeOK, Ups, Downs
<1>1. ASSUME NEW t \in Threads, Counter!Up(t) PROVE counter' = Cardinality(Outstanding')
  <2>1. Outstanding' = Outstanding \cup {t} /\ t \notin Outstanding
    BY <1>1, <1>t, <1>i DEF Counter!Up, Outstanding
  <2>2. counter' = counter + 1
    BY <1>1 DEF Counter!Up, Counter!Apply
  <2> QED
    BY <1>f, <2>1, <2>2, FS_AddElement
<1>2. ASSUME NEW t \in Threads, Counter!Down(t) PROVE counter' = Cardinality(Outstanding')
  <2>1. Outstanding' = Outstanding \ {t} /\ t \in Outstanding
    BY <1>2, <1>t, <1>i DEF Counter!Down, Outstanding
  <2>2. counter' = counter - 1
    BY <1>2, <1>f DEF Counter!Down, Counter!Apply
  <2> QED
    BY <1>f, <2>1, <2>2, FS_RemoveElement
<1>3. ASSUME NEW t \in Threads, Counter!Look(t) \/ Counter!Forget(t)
      PROVE  counter' = Cardinality(Outstanding')
  BY <1>3, <1>t DEF Counter!Look, Counter!Forget, Outstanding
<1> QED
  BY <1>1, <1>2, <1>3, <1>t DEF Counter!Next

LEMMA NextNoLostUpdate == IInv /\ NoLostUpdate /\ [Next]_vars => NoLostUpdate'
<1> SUFFICES ASSUME IInv, NoLostUpdate, [Next]_vars PROVE NoLostUpdate'
  OBVIOUS
<1>o. opt' = opt
  BY DEF Next, main, thread_worker, CreateThread, JoinThread, Report,
         SystemCallFails, LeaveLoop, CallUnlocked, MutexLock, SpinLock, Load,
         StoreLocked, StoreUnlocked, CompareAndSwap, CompareFails, Unlock,
         Exited, vars
<1>1. CASE Counter!Next
  BY <1>1, <1>o, AddKeepsNoLostUpdate DEF IInv
<1>2. CASE UNCHANGED Counter!vars
  BY <1>2, <1>o DEF Counter!vars, NoLostUpdate, Outstanding, Protected, Threads
<1> QED
  BY <1>1, <1>2, NextRefines

\* In every reachable state of a protected run the counter is the number of
\* threads between their 1 and their -1.
THEOREM NoUpdateIsLost == Spec => []NoLostUpdate
<1>1. Init => NoLostUpdate
  <2> SUFFICES ASSUME Init PROVE NoLostUpdate
    OBVIOUS
  <2>1. Outstanding = {}
    BY DEF Init, Outstanding, Ups, Downs
  <2> QED
    BY <2>1, FS_EmptySet DEF Init, NoLostUpdate
<1> QED
  BY <1>1, NextNoLostUpdate, Invariance, PTL DEF Spec

-----------------------------------------------------------------------------
(***************************************************************************)
(* What the report shows.                                                  *)
(***************************************************************************)

\* main reports after every thread has left its loop, with no add half done.
JoinInv ==
  /\ \A t \in Threads : pc[t] = "done" \/ pc[t] = "unborn" => arg[t] = 1
  /\ \A t \in 1..joined : pc[t] = "done"
  /\ status = "ok" => joined = opt.threads

LEMMA NextJoinInv == IInv /\ JoinInv /\ [Next]_vars => JoinInv'
<1> SUFFICES ASSUME IInv, JoinInv, [Next]_vars PROVE JoinInv'
  OBVIOUS
<1> USE DEF JoinInv, Threads, At, Goto, Running
<1>t. TypeOK /\ LoopInv
  BY DEF IInv
<1>a. opt.threads \in Nat /\ opt.iterations \in Nat /\ opt.sync_type \in SyncTypes
  BY <1>t, OptType DEF TypeOK
<1>p. /\ pc \in [Threads -> Labels] /\ arg \in [Threads -> {1, -1}]
      /\ created \in 0..opt.threads /\ joined \in 0..created
      /\ iter \in [Threads -> Int]
  BY <1>t, <1>a DEF TypeOK
<1>1. ASSUME NEW t \in Threads, LeaveLoop(t) PROVE JoinInv'
  <2>1. arg[t] = 1
    BY <1>1, <1>a, <1>t, <1>p DEF LeaveLoop, LoopInv
  <2> QED
    BY <1>1, <1>a, <1>p, <2>1 DEF LeaveLoop, mainVars
<1>2. ASSUME NEW t \in Threads, CallUnlocked(t) PROVE JoinInv'
  BY <1>2, <1>a, <1>p DEF CallUnlocked, MayCall, mainVars
<1>3. ASSUME NEW t \in Threads, MutexLock(t) PROVE JoinInv'
  BY <1>3, <1>a, <1>p DEF MutexLock, MayCall, mainVars
<1>4. ASSUME NEW t \in Threads, SpinLock(t) PROVE JoinInv'
  BY <1>4, <1>a, <1>p DEF SpinLock, MayCall, mainVars
<1>5. ASSUME NEW t \in Threads, Load(t) PROVE JoinInv'
  BY <1>5, <1>a, <1>p DEF Load, mainVars
<1>6. ASSUME NEW t \in Threads, StoreLocked(t) PROVE JoinInv'
  BY <1>6, <1>a, <1>p DEF StoreLocked, mainVars
<1>7. ASSUME NEW t \in Threads, StoreUnlocked(t) PROVE JoinInv'
  BY <1>7, <1>a, <1>p DEF StoreUnlocked, Return, mainVars
<1>8. ASSUME NEW t \in Threads, CompareAndSwap(t) PROVE JoinInv'
  BY <1>8, <1>a, <1>p DEF CompareAndSwap, Return, mainVars
<1>9. ASSUME NEW t \in Threads, CompareFails(t) PROVE JoinInv'
  BY <1>9, <1>a, <1>p DEF CompareFails, mainVars
<1>10. ASSUME NEW t \in Threads, Unlock(t) PROVE JoinInv'
  BY <1>10, <1>a, <1>p DEF Unlock, Return, mainVars
<1>11. CASE CreateThread
  <2>1. pc[created + 1] = "unborn" /\ created + 1 \in Threads
    BY <1>11, <1>a, <1>t DEF CreateThread, TypeOK
  <2> QED
    BY <1>11, <1>a, <1>p, <2>1 DEF CreateThread
<1>12. CASE JoinThread
  BY <1>12, <1>a, <1>p DEF JoinThread, threadVars
<1>13. CASE Report
  BY <1>13, <1>a, <1>p DEF Report, threadVars, mainVars
<1>14. CASE SystemCallFails
  BY <1>14, <1>a, <1>p DEF SystemCallFails, threadVars, mainVars
<1>15. CASE UNCHANGED vars
  BY <1>15 DEF vars, threadVars, mainVars
<1> QED
  BY <1>1, <1>2, <1>3, <1>4, <1>5, <1>6, <1>7, <1>8, <1>9, <1>10, <1>11,
     <1>12, <1>13, <1>14, <1>15 DEF Next, main, thread_worker, Exited

\* A protected run that ends with exit(0) has reported a counter of 0.
THEOREM ReportsZero == Spec => []CounterZeroAtExit
<1>1. Init => JoinInv
  BY DEF Init, JoinInv
<1>2. IInv /\ JoinInv /\ NoLostUpdate => CounterZeroAtExit
  <2> SUFFICES ASSUME IInv, JoinInv, NoLostUpdate, Protected, status = "ok"
               PROVE  counter = 0
    BY DEF CounterZeroAtExit
  <2>1. \A t \in Threads : pc[t] = "done" /\ arg[t] = 1
    BY DEF JoinInv, Threads
  <2>2. Outstanding = {}
    BY <2>1 DEF Outstanding, Ups, Downs
  <2> QED
    BY <2>2, FS_EmptySet DEF NoLostUpdate
<1> QED
  BY <1>1, <1>2, NextJoinInv, Invariance, NoUpdateIsLost, PTL DEF Spec

-----------------------------------------------------------------------------
(***************************************************************************)
(* Without synchronization adds are lost, and the counter drifts, but a    *)
(* load returns what the counter was after some of the adds, and a store   *)
(* moves that by one.                                                      *)
(***************************************************************************)

Calls == Threads \X (1..opt.iterations)

\* The calls that have added their 1, or their -1.
UpCalls == {call \in Calls : call[2] <= Ups[call[1]]}
DownCalls == {call \in Calls : call[2] <= Downs[call[1]]}

InReach(value) == value <= Cardinality(UpCalls) /\ -value <= Cardinality(DownCalls)

DriftInv ==
  /\ InReach(counter)
  /\ \A t \in Threads : Loaded(t) => InReach(reg[t])

LEMMA CallsFinite ==
  ASSUME TypeOK
  PROVE  /\ IsFiniteSet(UpCalls) /\ IsFiniteSet(DownCalls)
         /\ Cardinality(UpCalls) \in Nat /\ Cardinality(DownCalls) \in Nat
         /\ Cardinality(UpCalls) <= opt.threads * opt.iterations
         /\ Cardinality(DownCalls) <= opt.threads * opt.iterations
<1>1. opt.threads \in Nat /\ opt.iterations \in Nat
  BY OptType DEF TypeOK
<1>2. /\ IsFiniteSet(Threads) /\ Cardinality(Threads) = opt.threads
      /\ IsFiniteSet(1..opt.iterations) /\ Cardinality(1..opt.iterations) = opt.iterations
  <2>1. ASSUME NEW n \in Nat PROVE IsFiniteSet(1..n) /\ Cardinality(1..n) = n
    <3>1. IsFiniteSet(1..n) /\ Cardinality(1..n) = IF 1 > n THEN 0 ELSE n - 1 + 1
      BY FS_Interval
    <3> QED
      BY <3>1
  <2> QED
    BY <1>1, <2>1 DEF Threads
<1>3. IsFiniteSet(Calls) /\ Cardinality(Calls) = opt.threads * opt.iterations
  BY <1>2, FS_Product DEF Calls
<1>4. UpCalls \in SUBSET Calls /\ DownCalls \in SUBSET Calls
  BY DEF UpCalls, DownCalls
<1> QED
  BY <1>3, <1>4, FS_Subset, FS_CardinalityType

\* A step after which nothing has been added.
LEMMA StillKeepsDrift ==
  ASSUME DriftInv, opt' = opt, UNCHANGED <<counter, Ups, Downs>>,
         \A t \in Threads :
           Loaded(t)' => reg'[t] = counter \/ (Loaded(t) /\ reg'[t] = reg[t])
  PROVE  DriftInv'
<1>1. UpCalls' = UpCalls /\ DownCalls' = DownCalls /\ counter' = counter /\ Threads' = Threads
  BY DEF UpCalls, DownCalls, Calls, Threads
<1> QED
  BY <1>1 DEF DriftInv, InReach, Loaded

\* A store is one more call that has added.
LEMMA AddKeepsDrift ==
  ASSUME TypeOK, LoopInv, DriftInv, NEW t \in Threads, Loaded(t), opt' = opt,
         arg[t] = 1 => Counter!Up(t), arg[t] = -1 => Counter!Down(t),
         counter' = reg[t] + arg[t],
         \A u \in Threads : Loaded(u)' => Loaded(u) /\ reg'[u] = reg[u]
  PROVE  DriftInv'
<1>1. /\ Threads' = Threads /\ Calls' = Calls /\ opt.iterations \in Nat
      /\ DOMAIN Ups = Threads /\ DOMAIN Downs = Threads
  BY OptType DEF TypeOK, Threads, Calls, Ups, Downs
<1>2. /\ arg[t] \in {1, -1} /\ iter[t] \in Nat /\ iter[t] < opt.iterations /\ pc[t] # "unlock"
      /\ reg \in [Threads -> Int]
      /\ \A u \in Threads : iter[u] \in Nat
  BY <1>1 DEF TypeOK, LoopInv, Loaded
<1>3. \A u \in Threads : Ups[u] \in Nat /\ Downs[u] \in Nat
  BY <1>2 DEF Ups, Downs
<1>4. /\ IsFiniteSet(UpCalls) /\ IsFiniteSet(DownCalls)
      /\ Cardinality(UpCalls) \in Nat /\ Cardinality(DownCalls) \in Nat
  BY CallsFinite
<1>5. InReach(reg[t])
  BY DEF DriftInv
<1>6. CASE arg[t] = 1
  <2>1. Ups' = [Ups EXCEPT ![t] = @ + 1] /\ Downs' = Downs
    BY <1>6 DEF Counter!Up
  <2>2. Ups[t] = iter[t]
    BY <1>2, <1>6 DEF Ups
  <2> DEFINE call == <<t, iter[t] + 1>>
  <2>3. call \in Calls /\ call \notin UpCalls
    BY <1>1, <1>2, <2>2 DEF Calls, UpCalls
  <2>4. UpCalls' = UpCalls \cup {call} /\ DownCalls' = DownCalls
    <3>1. \A c \in Calls : c[2] <= Ups'[c[1]] <=> c[2] <= Ups[c[1]] \/ c = call
      BY <1>1, <1>2, <1>3, <2>1, <2>2 DEF Calls
    <3> QED
      BY <1>1, <2>1, <2>3, <3>1 DEF UpCalls, DownCalls
  <2>5. Cardinality(UpCalls') = Cardinality(UpCalls) + 1
    BY <1>4, <2>3, <2>4, FS_AddElement
  <2>6. \A v \in Int : InReach(v) => InReach(v)' /\ v + 1 <= Cardinality(UpCalls')
                                                /\ -(v + 1) <= Cardinality(DownCalls')
    BY <1>4, <2>4, <2>5 DEF InReach
  <2> QED
    BY <1>1, <1>2, <1>5, <1>6, <2>6 DEF DriftInv, InReach
<1>7. CASE arg[t] = -1
  <2>1. Downs' = [Downs EXCEPT ![t] = @ + 1] /\ Ups' = Ups
    BY <1>7 DEF Counter!Down
  <2>2. Downs[t] = iter[t]
    BY <1>2, <1>7 DEF Downs
  <2> DEFINE call == <<t, iter[t] + 1>>
  <2>3. call \in Calls /\ call \notin DownCalls
    BY <1>1, <1>2, <2>2 DEF Calls, DownCalls
  <2>4. DownCalls' = DownCalls \cup {call} /\ UpCalls' = UpCalls
    <3>1. \A c \in Calls : c[2] <= Downs'[c[1]] <=> c[2] <= Downs[c[1]] \/ c = call
      BY <1>1, <1>2, <1>3, <2>1, <2>2 DEF Calls
    <3> QED
      BY <1>1, <2>1, <2>3, <3>1 DEF UpCalls, DownCalls
  <2>5. Cardinality(DownCalls') = Cardinality(DownCalls) + 1
    BY <1>4, <2>3, <2>4, FS_AddElement
  <2>6. \A v \in Int : InReach(v) => InReach(v)' /\ v - 1 <= Cardinality(UpCalls')
                                                /\ -(v - 1) <= Cardinality(DownCalls')
    BY <1>4, <2>4, <2>5 DEF InReach
  <2> QED
    BY <1>1, <1>2, <1>5, <1>7, <2>6 DEF DriftInv, InReach
<1> QED
  BY <1>2, <1>6, <1>7

LEMMA NextDriftInv == IInv /\ DriftInv /\ [Next]_vars => DriftInv'
<1> SUFFICES ASSUME IInv, DriftInv, [Next]_vars PROVE DriftInv'
  OBVIOUS
<1> USE DEF At, Goto, Loaded
<1>t. TypeOK /\ LoopInv
  BY DEF IInv
<1>p. /\ pc \in [Threads -> Labels] /\ arg \in [Threads -> {1, -1}]
      /\ reg \in [Threads -> Int] /\ iter \in [Threads -> Int] /\ counter \in Int
  BY <1>t, OptType DEF TypeOK
<1>o. opt' = opt /\ Threads' = Threads
  BY DEF Next, main, thread_worker, CreateThread, JoinThread, Report,
         SystemCallFails, LeaveLoop, CallUnlocked, MutexLock, SpinLock, Load,
         StoreLocked, StoreUnlocked, CompareAndSwap, CompareFails, Unlock,
         Exited, vars, Threads
\* The stores.
<1>1. ASSUME NEW t \in Threads, StoreLocked(t) \/ StoreUnlocked(t) \/ CompareAndSwap(t)
      PROVE  DriftInv'
  <2>1. /\ Loaded(t) /\ counter' = reg[t] + arg[t]
        /\ \A u \in Threads : Loaded(u)' => Loaded(u) /\ reg'[u] = reg[u]
    BY <1>1, <1>p DEF StoreLocked, StoreUnlocked, CompareAndSwap, Return
  <2>2. Protected => counter' = counter + arg[t]
    BY <1>1, <1>t DEF StoreLocked, StoreUnlocked, CompareAndSwap, IInv, FreshLoad,
       LoopInv, Protected, Locking
  <2>3. (arg[t] = 1 => Counter!Up(t)) /\ (arg[t] = -1 => Counter!Down(t))
    <3>1. CASE StoreLocked(t)
      BY <1>t, <1>p, <2>1, <2>2, <3>1, AddStep DEF StoreLocked
    <3>2. CASE StoreUnlocked(t) \/ CompareAndSwap(t)
      BY <1>t, <1>p, <2>1, <2>2, <3>2, AddStep DEF StoreUnlocked, CompareAndSwap, Return
    <3> QED
      BY <1>1, <3>1, <3>2
  <2> QED
    BY <1>t, <1>o, <2>1, <2>3, AddKeepsDrift
\* The load.
<1>2. ASSUME NEW t \in Threads, Load(t) PROVE DriftInv'
  <2>1. UNCHANGED <<counter, Ups, Downs>>
    BY <1>2, <1>p, NothingAdded DEF Load
  <2> QED
    BY <1>2, <1>p, <1>o, <2>1, StillKeepsDrift DEF Load
\* The other steps load nothing and add nothing.
<1>3. ASSUME UNCHANGED <<counter, Ups, Downs>>, UNCHANGED reg,
             \A t \in Threads : Loaded(t)' => Loaded(t)
      PROVE  DriftInv'
  BY <1>3, <1>o, StillKeepsDrift
<1>4. ASSUME NEW t \in Threads,
             LeaveLoop(t) \/ CallUnlocked(t) \/ MutexLock(t) \/ SpinLock(t) \/ CompareFails(t)
      PROVE  DriftInv'
  <2>1. /\ UNCHANGED <<counter, iter, arg, reg>>
        /\ \A u \in Threads : pc'[u] = "unlock" <=> pc[u] = "unlock"
        /\ \A u \in Threads : Loaded(u)' => Loaded(u)
    BY <1>4, <1>p DEF LeaveLoop, CallUnlocked, MutexLock, SpinLock, MayCall, CompareFails
  <2> QED
    BY <1>3, <1>o, <2>1, NothingAdded
<1>5. ASSUME NEW t \in Threads, Unlock(t) PROVE DriftInv'
  <2>1. Ups' = Ups
    BY <1>5, <1>o, <1>p DEF Unlock, Return, Ups
  <2>2. Downs' = Downs
    BY <1>5, <1>o, <1>p DEF Unlock, Return, Downs
  <2> QED
    BY <1>3, <1>5, <1>p, <2>1, <2>2 DEF Unlock, Return
<1>6. CASE CreateThread
  <2>1. created + 1 \in Threads /\ pc[created + 1] = "unborn"
    BY <1>6, <1>t, OptType DEF CreateThread, TypeOK, Threads
  <2> QED
    BY <1>3, <1>6, <1>p, <2>1, NothingAdded DEF CreateThread
<1>7. CASE JoinThread \/ Report \/ SystemCallFails \/ UNCHANGED vars
  BY <1>3, <1>7, NothingAdded
     DEF JoinThread, Report, SystemCallFails, vars, threadVars
<1> QED
  BY <1>1, <1>2, <1>4, <1>5, <1>6, <1>7 DEF Next, main, thread_worker, Exited

\* However many adds a run without synchronization loses, the counter stays within
\* the number of times that a 1, and that a -1, is added.
THEOREM DriftIsBounded == Spec => []DriftBounded
<1>1. Init => DriftInv
  <2> SUFFICES ASSUME Init PROVE DriftInv
    OBVIOUS
  <2>1. TypeOK
    BY InitIInv DEF IInv
  <2> QED
    BY <2>1, CallsFinite DEF Init, DriftInv, InReach, Loaded
<1>2. IInv /\ DriftInv => DriftBounded
  <2> SUFFICES ASSUME IInv, DriftInv PROVE DriftBounded
    OBVIOUS
  <2> DEFINE N == opt.threads * opt.iterations
  <2>1. TypeOK /\ counter \in Int /\ N \in Nat
    BY OptType DEF IInv, TypeOK
  <2>2. /\ Cardinality(UpCalls) \in Nat /\ Cardinality(UpCalls) <= N
        /\ Cardinality(DownCalls) \in Nat /\ Cardinality(DownCalls) <= N
    BY <2>1, CallsFinite
  <2> HIDE DEF N
  <2>3. counter <= N /\ -counter <= N
    BY <2>1, <2>2 DEF DriftInv, InReach
  <2>4. counter \in -N..N
    BY <2>1, <2>3
  <2> QED
    BY <2>4 DEF DriftBounded, N
<1> QED
  BY <1>1, <1>2, NextDriftInv, Invariance, PTL DEF Spec
=============================================================================
