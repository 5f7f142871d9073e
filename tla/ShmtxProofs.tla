---------------------------- MODULE ShmtxProofs ----------------------------
(***************************************************************************)
(* Proofs about the shared-memory mutex, for any number of processes and   *)
(* any number of deaths and semaphore errors.                              *)
(***************************************************************************)
EXTENDS Shmtx, FiniteSetTheorems, TLAPS

(* Who the lock word names: exactly the process between its successful     *)
(* cmp_set and its unlock, or a process that died there.                   *)
LockWord ==
    /\ \A p \in Procs : pc[p] \in {"undo", "owner"} => lock = p
    /\ \A p \in Procs : lock = p => pc[p] \in {"undo", "owner", "dead"}

(* Nobody sleeps on a semaphore that sem_init() did not set up. *)
SleepNeedsSemaphore ==
    \A p \in Procs : pc[p] \in {"announce", "retry", "undo", "sleep"} => Semaphore

(* The inductive invariant. *)
IInv == /\ TypeOK
        /\ LockWord
        /\ SleepNeedsSemaphore
        /\ WaitersPaidFor
        /\ NoLostWakeup

-----------------------------------------------------------------------------
(* Every step of every process keeps the types. *)
LEMMA TypeStep == TypeOK /\ [Next]_vars => TypeOK'
<1> USE ProcsAssumption, SemaphoreAssumption, MaxSemErrorsAssumption
        DEF TypeOK, All, Points, Waking, Carrying, Goto, CmpSetLock,
            AfterRelease, shared, history
<1> SUFFICES ASSUME TypeOK, [Next]_vars
             PROVE  TypeOK'
  OBVIOUS
<1>1. ASSUME NEW p \in Procs, TryLock(p) \/ CallLock(p) PROVE TypeOK'
  BY <1>1 DEF TryLock, CallLock
<1>2. ASSUME NEW p \in Procs, LockTry(p) PROVE TypeOK'
  BY <1>2 DEF LockTry
<1>3. ASSUME NEW p \in Procs, LockAnnounce(p) \/ LockUndo(p) PROVE TypeOK'
  BY <1>3 DEF LockAnnounce, LockUndo
<1>4. ASSUME NEW p \in Procs, LockRetry(p) PROVE TypeOK'
  BY <1>4 DEF LockRetry
<1>5. ASSUME NEW p \in Procs, LockSleep(p) \/ LockSleepError(p) PROVE TypeOK'
  BY <1>5 DEF LockSleep, LockSleepError
<1>6. ASSUME NEW p \in Procs, Unlock(p) PROVE TypeOK'
  BY <1>6 DEF Unlock
<1>7. ASSUME NEW p \in Procs, Die(p) PROVE TypeOK'
  BY <1>7 DEF Die
<1>8. ASSUME NEW p \in Procs, ForceUnlock(p) PROVE TypeOK'
  BY <1>8 DEF ForceUnlock
<1>9. ASSUME NEW p \in All, WakeRead(p) PROVE TypeOK'
  BY <1>9 DEF WakeRead
<1>10. ASSUME NEW p \in All, WakeCmpSet(p) PROVE TypeOK'
  BY <1>10 DEF WakeCmpSet
<1>11. ASSUME NEW p \in All, WakePost(p) \/ WakePostError(p) PROVE TypeOK'
  BY <1>11 DEF WakePost, WakePostError
<1>12. CASE UNCHANGED vars
  BY <1>12 DEF vars
<1> QED
  BY <1>1, <1>2, <1>3, <1>4, <1>5, <1>6, <1>7, <1>8, <1>9, <1>10, <1>11,
     <1>12 DEF Next, Worker, Wakeup

(* Type correctness of ngx_shmtx_t under every step of every process. *)
THEOREM TypeCorrect == Spec => []TypeOK
<1>1. Init => TypeOK
  BY ProcsAssumption DEF Init, TypeOK, All, Points, Waking
<1> QED
  BY <1>1, TypeStep, PTL DEF Spec

-----------------------------------------------------------------------------
(* LockWord and SleepNeedsSemaphore are preserved: every change of the     *)
(* lock word goes with the control point it belongs to.                    *)
LEMMA LockWordStep ==
  TypeOK /\ LockWord /\ SleepNeedsSemaphore /\ [Next]_vars
    => LockWord' /\ SleepNeedsSemaphore'
<1> USE ProcsAssumption, SemaphoreAssumption
        DEF TypeOK, LockWord, SleepNeedsSemaphore, All, Points, Waking, Carrying,
            Goto, CmpSetLock, AfterRelease, shared, history
<1> DEFINE Goal == LockWord' /\ SleepNeedsSemaphore'
<1> SUFFICES ASSUME TypeOK, LockWord, SleepNeedsSemaphore, [Next]_vars
             PROVE  Goal
  OBVIOUS
<1>1. ASSUME NEW p \in Procs, TryLock(p) \/ CallLock(p) PROVE Goal
  BY <1>1 DEF TryLock, CallLock
<1>2. ASSUME NEW p \in Procs, LockTry(p) PROVE Goal
  BY <1>2 DEF LockTry
<1>3. ASSUME NEW p \in Procs, LockAnnounce(p) \/ LockUndo(p) PROVE Goal
  BY <1>3 DEF LockAnnounce, LockUndo
<1>4. ASSUME NEW p \in Procs, LockRetry(p) PROVE Goal
  BY <1>4 DEF LockRetry
<1>5. ASSUME NEW p \in Procs, LockSleep(p) \/ LockSleepError(p) PROVE Goal
  BY <1>5 DEF LockSleep, LockSleepError
<1>6. ASSUME NEW p \in Procs, Unlock(p) PROVE Goal
  BY <1>6 DEF Unlock
<1>7. ASSUME NEW p \in Procs, Die(p) PROVE Goal
  BY <1>7 DEF Die
<1>8. ASSUME NEW p \in Procs, ForceUnlock(p) PROVE Goal
  BY <1>8 DEF ForceUnlock
<1>9. ASSUME NEW p \in All, Wakeup(p) PROVE Goal
  BY <1>9 DEF Wakeup, WakeRead, WakeCmpSet, WakePost, WakePostError
<1>10. CASE UNCHANGED vars
  BY <1>10 DEF vars
<1> QED
  BY <1>1, <1>2, <1>3, <1>4, <1>5, <1>6, <1>7, <1>8, <1>9, <1>10
     DEF Next, Worker

(* The sets that WaitersPaidFor counts are finite. *)
LEMMA CountsAreNat ==
  /\ IsFiniteSet(Waiters) /\ Cardinality(Waiters) \in Nat
  /\ IsFiniteSet(Posters) /\ Cardinality(Posters) \in Nat
<1>1. IsFiniteSet(All)
  BY ProcsAssumption, FS_AddElement DEF All
<1>2. Waiters \in SUBSET Procs /\ Posters \in SUBSET All
  BY DEF Waiters, Posters
<1>3. IsFiniteSet(Waiters) /\ IsFiniteSet(Posters)
  BY <1>1, <1>2, ProcsAssumption, FS_Subset
<1> QED
  BY <1>3, FS_CardinalityType

(* WaitersPaidFor is preserved: the one step that adds a waiter also       *)
(* increments wait, and the steps that take from wait, sem or the posters  *)
(* pass the unit on or remove a waiter.                                    *)
LEMMA PaidForStep ==
  TypeOK /\ LockWord /\ WaitersPaidFor /\ [Next]_vars => WaitersPaidFor'
<1> USE ProcsAssumption
        DEF TypeOK, All, Points, Waking, Carrying, Goto, CmpSetLock,
            AfterRelease, shared, history
<1> SUFFICES ASSUME TypeOK, LockWord, WaitersPaidFor, [Next]_vars
             PROVE  WaitersPaidFor'
  OBVIOUS
<1> DEFINE w == Cardinality(Waiters)
           q == Cardinality(Posters)
<1>0. IsFiniteSet(Waiters) /\ w \in Nat /\ IsFiniteSet(Posters) /\ q \in Nat
  BY CountsAreNat
<1>a. ASSUME Waiters' = Waiters, Posters' = Posters,
             wait' = wait, sem' = sem, lostPosts' = lostPosts
      PROVE  WaitersPaidFor'
  BY <1>a DEF WaitersPaidFor
<1>1. ASSUME NEW p \in Procs, TryLock(p) \/ CallLock(p) \/ LockTry(p) \/ Unlock(p)
      PROVE  WaitersPaidFor'
  <2>1. Waiters' = Waiters /\ Posters' = Posters
    BY <1>1 DEF TryLock, CallLock, LockTry, Unlock, Waiters, Posters
  <2> QED
    BY <1>1, <2>1, <1>a DEF TryLock, CallLock, LockTry, Unlock
<1>2. ASSUME NEW p \in Procs, LockAnnounce(p) PROVE WaitersPaidFor'
  <2>1. Waiters' = Waiters \cup {p} /\ p \notin Waiters /\ Posters' = Posters
    BY <1>2 DEF LockAnnounce, Waiters, Posters
  <2>2. Cardinality(Waiters') = w + 1
    BY <2>1, <1>0, FS_AddElement
  <2> QED
    BY <1>2, <2>1, <2>2, <1>0 DEF LockAnnounce, WaitersPaidFor
<1>3. ASSUME NEW p \in Procs, LockRetry(p) PROVE WaitersPaidFor'
  <2>1. Waiters' = Waiters /\ Posters' = Posters
    BY <1>3 DEF LockRetry, Waiters, Posters
  <2> QED
    BY <1>3, <2>1, <1>a DEF LockRetry
<1>4. ASSUME NEW p \in Procs,
             LockUndo(p) \/ LockSleep(p) \/ LockSleepError(p)
      PROVE  WaitersPaidFor'
  <2>1. Waiters' = Waiters \ {p} /\ p \in Waiters /\ Posters' = Posters
    BY <1>4 DEF LockUndo, LockSleep, LockSleepError, Waiters, Posters
  <2>2. Cardinality(Waiters') = w - 1
    BY <2>1, <1>0, FS_RemoveElement
  <2> QED
    BY <1>4, <2>1, <2>2, <1>0
       DEF LockUndo, LockSleep, LockSleepError, WaitersPaidFor
<1>5. ASSUME NEW p \in All, WakeRead(p) PROVE WaitersPaidFor'
  <2>1. Waiters' = Waiters /\ Posters' = Posters
    BY <1>5 DEF WakeRead, Waiters, Posters
  <2> QED
    BY <1>5, <2>1, <1>a DEF WakeRead
<1>6. ASSUME NEW p \in All, WakeCmpSet(p) PROVE WaitersPaidFor'
  <2>1. CASE wait = seen[p]
    <3>1. Waiters' = Waiters /\ Posters' = Posters \cup {p} /\ p \notin Posters
      BY <1>6, <2>1 DEF WakeCmpSet, Waiters, Posters
    <3>2. Cardinality(Posters') = q + 1
      BY <3>1, <1>0, FS_AddElement
    <3> QED
      BY <1>6, <2>1, <3>1, <3>2, <1>0 DEF WakeCmpSet, WaitersPaidFor
  <2>2. CASE wait # seen[p]
    <3>1. Waiters' = Waiters /\ Posters' = Posters
      BY <1>6, <2>2 DEF WakeCmpSet, Waiters, Posters
    <3> QED
      BY <1>6, <2>2, <3>1, <1>a DEF WakeCmpSet
  <2> QED
    BY <2>1, <2>2
<1>7. ASSUME NEW p \in All, WakePost(p) \/ WakePostError(p)
      PROVE  WaitersPaidFor'
  <2>1. Waiters' = Waiters /\ Posters' = Posters \ {p} /\ p \in Posters
    BY <1>7 DEF WakePost, WakePostError, Waiters, Posters
  <2>2. Cardinality(Posters') = q - 1
    BY <2>1, <1>0, FS_RemoveElement
  <2> QED
    BY <1>7, <2>1, <2>2, <1>0 DEF WakePost, WakePostError, WaitersPaidFor
<1>8. ASSUME NEW p \in Procs, Die(p) PROVE WaitersPaidFor'
  <2>1. CASE pc[p] = "wpost"
    <3>1. Waiters' = Waiters /\ Posters' = Posters \ {p} /\ p \in Posters
      BY <1>8, <2>1 DEF Die, Waiters, Posters
    <3>2. Cardinality(Posters') = q - 1
      BY <3>1, <1>0, FS_RemoveElement
    <3> QED
      BY <1>8, <2>1, <3>1, <3>2, <1>0 DEF Die, WaitersPaidFor
  <2>2. CASE pc[p] # "wpost"
    <3>1. Waiters' \in SUBSET Waiters /\ Posters' = Posters
      BY <1>8, <2>2 DEF Die, Waiters, Posters
    <3>2. Cardinality(Waiters') <= w /\ IsFiniteSet(Waiters')
      BY <3>1, <1>0, FS_Subset
    <3>3. Cardinality(Waiters') \in Nat
      BY <3>2, FS_CardinalityType
    <3> QED
      BY <1>8, <2>2, <3>1, <3>2, <3>3, <1>0 DEF Die, WaitersPaidFor
  <2> QED
    BY <2>1, <2>2
<1>9. ASSUME NEW p \in Procs, ForceUnlock(p) PROVE WaitersPaidFor'
  <2>1. Waiters' = Waiters /\ Posters' = Posters
    BY <1>9, SemaphoreAssumption DEF ForceUnlock, Waiters, Posters
  <2> QED
    BY <1>9, <2>1, <1>a DEF ForceUnlock
<1>10. CASE UNCHANGED vars
  <2>1. Waiters' = Waiters /\ Posters' = Posters
    BY <1>10 DEF vars, Waiters, Posters
  <2> QED
    BY <1>10, <2>1, <1>a DEF vars
<1> QED
  BY <1>1, <1>2, <1>3, <1>4, <1>5, <1>6, <1>7, <1>8, <1>9, <1>10
     DEF Next, Worker, Wakeup

(* NoLostWakeup is preserved.  The delicate step is ngx_shmtx_wakeup()     *)
(* giving up because it read wait <= 0: then WaitersPaidFor says that the  *)
(* sleeper's unit is a token or is in the hands of another poster.         *)
LEMMA WakeupStep ==
  IInv /\ [Next]_vars => NoLostWakeup'
<1> USE ProcsAssumption, SemaphoreAssumption
        DEF TypeOK, All, Points, Waking, Carrying, Goto, CmpSetLock,
            AfterRelease, shared, history
<1> SUFFICES ASSUME TypeOK, LockWord, SleepNeedsSemaphore, WaitersPaidFor,
                    NoLostWakeup, [Next]_vars,
                    lock' = None, Sleepers' # {}, cutWakeups' + lostPosts' = 0
             PROVE  sem' > 0 \/ Stirring'
  BY DEF IInv, NoLostWakeup
<1>s. ASSUME NEW p \in All, pc'[p] \in Carrying PROVE Stirring'
  BY <1>s DEF Stirring
<1>h. cutWakeups' \in Nat /\ lostPosts' \in Nat
  BY TypeStep
<1>1. ASSUME NEW p \in Procs,
             TryLock(p) \/ CallLock(p) \/ LockTry(p) \/ LockAnnounce(p)
      PROVE  Stirring'
  BY <1>1, <1>s DEF TryLock, CallLock, LockTry, LockAnnounce
<1>2. ASSUME NEW p \in Procs, LockRetry(p) \/ LockUndo(p) PROVE FALSE
  BY <1>2 DEF LockRetry, LockUndo, LockWord
<1>3. ASSUME NEW p \in Procs, LockSleep(p) \/ LockSleepError(p) PROVE Stirring'
  BY <1>3, <1>s DEF LockSleep, LockSleepError
<1>4. ASSUME NEW p \in Procs, Unlock(p) PROVE Stirring'
  <2>1. Semaphore
    BY <1>4 DEF Unlock, Sleepers, SleepNeedsSemaphore
  <2>2. lock = p
    BY <1>4 DEF Unlock, LockWord
  <2> QED
    BY <1>4, <2>1, <2>2, <1>s DEF Unlock
<1>5. ASSUME NEW p \in All, WakeRead(p) PROVE sem' > 0 \/ Stirring'
  <2>1. CASE wait > 0
    BY <1>5, <2>1, <1>s DEF WakeRead
  <2>2. CASE wait <= 0 /\ sem = 0
    <3>1. PICK r \in Waiters : TRUE
      BY <1>5 DEF WakeRead, Sleepers, Waiters
    <3>2. Cardinality(Waiters) >= 1
      <4>1. Cardinality(Waiters) # 0
        BY <3>1, CountsAreNat, FS_EmptySet
      <4> QED
        BY <4>1, CountsAreNat
    <3>3. lostPosts = 0
      BY <1>5, <1>h DEF WakeRead
    <3>4. Cardinality(Posters) # 0
      BY <2>2, <3>2, <3>3, CountsAreNat DEF WaitersPaidFor
    <3>5. PICK q \in Posters : TRUE
      BY <3>4, CountsAreNat, FS_EmptySet
    <3>6. q \in All /\ pc'[q] = "wpost"
      BY <1>5, <3>5 DEF WakeRead, Posters
    <3> QED
      BY <3>6, <1>s
  <2>3. CASE sem # 0
    BY <1>5, <2>3 DEF WakeRead
  <2> QED
    BY <2>1, <2>2, <2>3
<1>6. ASSUME NEW p \in All, WakeCmpSet(p) PROVE Stirring'
  BY <1>6, <1>s DEF WakeCmpSet
<1>7. ASSUME NEW p \in All, WakePost(p) \/ WakePostError(p) PROVE sem' > 0
  <2>1. ASSUME NEW m \in Nat, NEW n \in Nat, m + n = 0 PROVE n = 0
    BY <2>1
  <2>2. lostPosts' = 0
    BY <1>h, <2>1
  <2>3. ~WakePostError(p)
    BY <2>2 DEF WakePostError
  <2> QED
    BY <1>7, <2>3 DEF WakePost
<1>8. ASSUME NEW p \in Procs, Die(p) PROVE sem' > 0 \/ Stirring'
  <2>1. pc[p] \notin Carrying /\ cutWakeups + lostPosts = 0 /\ lock = None
    BY <1>8, <1>h DEF Die
  <2>2. Sleepers # {}
    BY <1>8 DEF Die, Sleepers
  <2>3. CASE sem > 0
    BY <1>8, <2>3 DEF Die
  <2>4. CASE Stirring
    <3>1. PICK q \in All : pc[q] \in Carrying
      BY <2>4 DEF Stirring
    <3>2. pc'[q] \in Carrying
      BY <1>8, <2>1, <3>1 DEF Die
    <3> QED
      BY <3>2, <1>s
  <2> QED
    BY <2>1, <2>2, <2>3, <2>4 DEF NoLostWakeup
<1>9. ASSUME NEW p \in Procs, ForceUnlock(p) PROVE sem' > 0 \/ Stirring'
  <2>1. Sleepers # {}
    BY <1>9 DEF ForceUnlock, Sleepers
  <2>2. Semaphore
    BY <2>1 DEF Sleepers, SleepNeedsSemaphore
  <2>3. CASE lock = p
    <3>1. pc'[Master] = "wread"
      BY <1>9, <2>2, <2>3 DEF ForceUnlock
    <3> QED
      BY <3>1, <1>s
  <2>4. CASE lock # p
    <3>1. lock = None /\ cutWakeups + lostPosts = 0 /\ sem' = sem
      BY <1>9, <2>4 DEF ForceUnlock
    <3>2. CASE Stirring
      <4>1. PICK q \in All : pc[q] \in Carrying
        BY <3>2 DEF Stirring
      <4>2. pc'[q] \in Carrying
        BY <1>9, <4>1 DEF ForceUnlock
      <4> QED
        BY <4>2, <1>s
    <3> QED
      BY <2>1, <3>1, <3>2 DEF NoLostWakeup
  <2> QED
    BY <2>3, <2>4
<1>10. CASE UNCHANGED vars
  BY <1>10 DEF vars, NoLostWakeup, Sleepers, Stirring
<1> QED
  BY <1>1, <1>2, <1>3, <1>4, <1>5, <1>6, <1>7, <1>8, <1>9, <1>10
     DEF Next, Worker, Wakeup

-----------------------------------------------------------------------------
(* The inductive invariant holds in every reachable state. *)
THEOREM InductiveInvariant == Spec => []IInv
<1>1. Init => IInv
  <2> SUFFICES ASSUME Init PROVE IInv
    OBVIOUS
  <2>1. TypeOK /\ LockWord /\ SleepNeedsSemaphore
    BY ProcsAssumption
       DEF Init, TypeOK, All, Points, Waking, LockWord, SleepNeedsSemaphore
  <2>2. Waiters = {} /\ Posters = {} /\ Sleepers = {}
    BY DEF Init, Waiters, Posters, Sleepers, All
  <2> QED
    BY <2>1, <2>2, FS_EmptySet DEF Init, IInv, WaitersPaidFor, NoLostWakeup
<1>2. IInv /\ [Next]_vars => IInv'
  BY TypeStep, LockWordStep, PaidForStep, WakeupStep DEF IInv
<1> QED
  BY <1>1, <1>2, PTL DEF Spec

(* ngx_shmtx_lock() and ngx_shmtx_trylock() admit one process at a time,   *)
(* whatever dies and whatever system call fails.                           *)
THEOREM Exclusion == Spec => []MutualExclusion
<1>1. IInv => MutualExclusion
  <2> SUFFICES ASSUME IInv, NEW p \in Owners
               PROVE  Owners = {lock} /\ Cardinality(Owners) <= 1
    BY FS_EmptySet DEF MutualExclusion
  <2>1. Owners = {lock}
    BY DEF IInv, LockWord, Owners
  <2> QED
    BY <2>1, FS_Singleton
<1> QED
  BY <1>1, InductiveInvariant, PTL

(* ngx_shmtx_wakeup() never misses the last sleeper: a free lock with      *)
(* sleepers always has a wakeup under way.                                 *)
THEOREM WakeupNotLost == Spec => []NoLostWakeup
<1>1. IInv => NoLostWakeup
  BY DEF IInv
<1> QED
  BY <1>1, InductiveInvariant, PTL

(* Every sleeper is paid for by wait, the semaphore or a poster. *)
THEOREM EverySleeperPaidFor == Spec => []WaitersPaidFor
<1>1. IInv => WaitersPaidFor
  BY DEF IInv
<1> QED
  BY <1>1, InductiveInvariant, PTL

(* Every step is a step of the abstract lock or leaves it alone: the       *)
(* mutex of ngx_shmtx.c with ngx_unlock_mutexes() is a lock that survives  *)
(* the death of its owner.                                                 *)
THEOREM Refinement == Spec => ImplementsRobustLock
<1> DEFINE live == {p \in Procs : pc[p] \notin {"dead", "gone"}}
<1>1. Init => Lock!Init
  BY DEF Init, Lock!Init, All
<1>2. IInv /\ [Next]_vars => [Lock!Next]_Lock!vars
  <2> SUFFICES ASSUME IInv, [Next]_vars PROVE [Lock!Next]_Lock!vars
    OBVIOUS
  <2> USE ProcsAssumption
          DEF IInv, TypeOK, LockWord, All, Points, Waking, Goto, CmpSetLock,
              AfterRelease, shared, history
  <2>a. ASSUME NEW p \in Procs, lock = None, lock' = p, live' = live, p \in live
        PROVE  Lock!Next
    BY <2>a DEF Lock!Next, Lock!Acquire
  <2>s. ASSUME lock' = lock, live' = live PROVE UNCHANGED Lock!vars
    BY <2>s DEF Lock!vars
  <2>1. ASSUME NEW p \in Procs, TryLock(p) \/ LockTry(p) \/ LockRetry(p)
        PROVE  [Lock!Next]_Lock!vars
    <3>1. live' = live /\ p \in live
      BY <2>1 DEF TryLock, LockTry, LockRetry
    <3>2. lock' = lock \/ (lock = None /\ lock' = p)
      BY <2>1 DEF TryLock, LockTry, LockRetry
    <3> HIDE DEF live
    <3> QED
      BY <3>1, <3>2, <2>a, <2>s
  <2>2. ASSUME NEW p \in Procs,
               CallLock(p) \/ LockAnnounce(p) \/ LockUndo(p) \/ LockSleep(p)
                 \/ LockSleepError(p)
        PROVE  [Lock!Next]_Lock!vars
    <3>1. live' = live /\ lock' = lock
      BY <2>2 DEF CallLock, LockAnnounce, LockUndo, LockSleep, LockSleepError
    <3> QED
      BY <3>1, <2>s
  <2>3. ASSUME NEW p \in Procs, Unlock(p) PROVE [Lock!Next]_Lock!vars
    <3>1. live' = live /\ p \in live /\ lock = p /\ lock' = None
      BY <2>3, SemaphoreAssumption DEF Unlock
    <3> QED
      BY <3>1 DEF Lock!Next, Lock!Release
  <2>4. ASSUME NEW p \in Procs, Die(p) PROVE [Lock!Next]_Lock!vars
    <3>1. live' = live \ {p} /\ p \in live /\ lock' = lock
      BY <2>4 DEF Die
    <3> QED
      BY <3>1 DEF Lock!Next, Lock!Die
  <2>5. ASSUME NEW p \in Procs, ForceUnlock(p) PROVE [Lock!Next]_Lock!vars
    <3>1. live' = live /\ p \notin live
      BY <2>5, SemaphoreAssumption DEF ForceUnlock
    <3>2. lock' = lock \/ (lock = p /\ lock' = None)
      BY <2>5 DEF ForceUnlock
    <3>3. ASSUME lock = p, lock' = None PROVE Lock!Next
      BY <3>1, <3>3 DEF Lock!Next, Lock!Revoke
    <3> QED
      BY <3>1, <3>2, <3>3, <2>s
  <2>6. ASSUME NEW p \in All, Wakeup(p) PROVE [Lock!Next]_Lock!vars
    <3>1. live' = live /\ lock' = lock
      BY <2>6 DEF Wakeup, WakeRead, WakeCmpSet, WakePost, WakePostError
    <3> QED
      BY <3>1, <2>s
  <2>7. CASE UNCHANGED vars
    BY <2>7, <2>s DEF vars
  <2> QED
    BY <2>1, <2>2, <2>3, <2>4, <2>5, <2>6, <2>7 DEF Next, Worker
<1> QED
  BY <1>1, <1>2, InductiveInvariant, PTL
     DEF Spec, ImplementsRobustLock, Lock!Spec
=============================================================================
