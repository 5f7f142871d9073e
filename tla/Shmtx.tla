------------------------------- MODULE Shmtx -------------------------------
(***************************************************************************)
(* The shared-memory mutex of nginx (core/ngx_shmtx.c, the build with      *)
(* atomic operations): a lock word that holds the owner's pid, a counter   *)
(* of the processes that are about to sleep, and a POSIX semaphore they    *)
(* sleep on.  Worker processes lock, unlock and may die anywhere; the      *)
(* master process reaps a dead worker and forcibly releases what it held   *)
(* (ngx_unlock_mutexes in os/unix/ngx_process.c).                          *)
(*                                                                         *)
(* One step of the model is one access to shared memory or one system call.*)
(* "*lock == 0 && cmp_set(lock, 0, pid)" is one step: the plain read can   *)
(* only make the attempt fail early.  The busy-wait loops repeat that same *)
(* attempt, so a process that spins simply stays where it is.              *)
(***************************************************************************)
EXTENDS Integers, FiniteSets

CONSTANTS
    Procs,          \* pids of the worker processes, respawned ones included
    Master,         \* the master process
    None,           \* the lock word 0
    Semaphore,      \* mtx->semaphore: sem_init() succeeded
    MaxSemErrors    \* bound on failing sem_wait() and sem_post() calls

ASSUME ProcsAssumption ==
    /\ IsFiniteSet(Procs)
    /\ Master \notin Procs
    /\ None \notin Procs
ASSUME SemaphoreAssumption == Semaphore \in BOOLEAN
ASSUME MaxSemErrorsAssumption == MaxSemErrors \in Nat

VARIABLES
    lock,       \* *mtx->lock, the pid of the owner or None
    wait,       \* *mtx->wait read as ngx_atomic_int_t: it may be negative
    sem,        \* value of the POSIX semaphore
    pc,         \* control point of every process
    seen,       \* the local variable "wait" of ngx_shmtx_wakeup()
    semErrors,  \* semaphore calls that failed so far
    lostPosts,  \* history: decrements of wait whose sem_post() never happened
    cutWakeups  \* history: processes that died before passing a wakeup on

shared == <<lock, wait, sem>>
history == <<semErrors, lostPosts, cutWakeups>>
vars == <<lock, wait, sem, pc, seen, semErrors, lostPosts, cutWakeups>>

All == Procs \cup {Master}

(***************************************************************************)
(* Control points.  "idle": outside the mutex; "try": the attempts before  *)
(* and inside the spin loop; "announce": about to increment wait; "retry": *)
(* the attempt after the increment; "undo": got the lock, about to         *)
(* decrement wait; "sleep": in sem_wait(); "owner": between lock and       *)
(* unlock; "wread", "wcas", "wpost": the three steps of ngx_shmtx_wakeup;  *)
(* "dead": exited, not yet reaped; "gone": reaped.                         *)
(***************************************************************************)
Waking == {"wread", "wcas", "wpost"}
Carrying == {"try", "announce", "retry"} \cup Waking
Points == {"idle", "try", "announce", "retry", "undo", "sleep", "owner",
           "dead", "gone"} \cup Waking

Waiters == {p \in Procs : pc[p] \in {"retry", "undo", "sleep"}}
Sleepers == {p \in Procs : pc[p] = "sleep"}
Posters == {p \in All : pc[p] = "wpost"}
Owners == {p \in Procs : pc[p] \in {"undo", "owner"}}

Init ==
    /\ lock = None
    /\ wait = 0
    /\ sem = 0
    /\ pc = [p \in All |-> "idle"]
    /\ seen = [p \in All |-> 0]
    /\ semErrors = 0
    /\ lostPosts = 0
    /\ cutWakeups = 0

Goto(p, point) == pc' = [pc EXCEPT ![p] = point]

(***************************************************************************)
(* cmp_set(lock, 0, pid): p takes the free lock and continues at point.    *)
(***************************************************************************)
CmpSetLock(p, point) ==
    /\ lock = None
    /\ lock' = p
    /\ Goto(p, point)

-----------------------------------------------------------------------------
(* ngx_shmtx_trylock() and ngx_shmtx_lock() *)

(* Variant: the pid is stored without comparing. *)
TryLockStores(p) ==
    /\ pc[p] = "idle"
    /\ lock' = p
    /\ Goto(p, "owner")
    /\ UNCHANGED <<wait, sem, seen, history>>

TryLock(p) ==
    /\ pc[p] = "idle"
    /\ CmpSetLock(p, "owner")
    /\ UNCHANGED <<wait, sem, seen, history>>

CallLock(p) ==
    /\ pc[p] = "idle"
    /\ Goto(p, "try")
    /\ UNCHANGED <<shared, seen, history>>

LockTry(p) ==
    /\ pc[p] = "try"
    /\ \/ CmpSetLock(p, "owner")
       \/ /\ lock # None
          /\ Semaphore
          /\ Goto(p, "announce")
          /\ UNCHANGED lock
    /\ UNCHANGED <<wait, sem, seen, history>>

LockAnnounce(p) ==
    /\ pc[p] = "announce"
    /\ wait' = wait + 1
    /\ Goto(p, "retry")
    /\ UNCHANGED <<lock, sem, seen, history>>

(* Variant: no second attempt between the increment and sem_wait(). *)
LockNoRetry(p) ==
    /\ pc[p] = "retry"
    /\ Goto(p, "sleep")
    /\ UNCHANGED <<shared, seen, history>>

LockRetry(p) ==
    /\ pc[p] = "retry"
    /\ \/ CmpSetLock(p, "undo")
       \/ /\ lock # None
          /\ Goto(p, "sleep")
          /\ UNCHANGED lock
    /\ UNCHANGED <<wait, sem, seen, history>>

LockUndo(p) ==
    /\ pc[p] = "undo"
    /\ wait' = wait - 1
    /\ Goto(p, "owner")
    /\ UNCHANGED <<lock, sem, seen, history>>

LockSleep(p) ==
    /\ pc[p] = "sleep"
    /\ sem > 0
    /\ sem' = sem - 1
    /\ Goto(p, "try")
    /\ UNCHANGED <<lock, wait, seen, history>>

(* sem_wait() fails with an error other than EINTR: logged, then retried. *)
LockSleepError(p) ==
    /\ pc[p] = "sleep"
    /\ semErrors < MaxSemErrors
    /\ semErrors' = semErrors + 1
    /\ Goto(p, "try")
    /\ UNCHANGED <<shared, seen, lostPosts, cutWakeups>>

-----------------------------------------------------------------------------
(* ngx_shmtx_unlock(), ngx_shmtx_force_unlock() and ngx_shmtx_wakeup() *)

AfterRelease == IF Semaphore THEN "wread" ELSE "idle"

Unlock(p) ==
    /\ pc[p] = "owner"
    /\ lock' = IF lock = p THEN None ELSE lock
    /\ Goto(p, IF lock = p THEN AfterRelease ELSE "idle")
    /\ UNCHANGED <<wait, sem, seen, history>>

(* Variant: off by one, the last announced waiter is not woken. *)
WakeReadOffByOne(p) ==
    /\ pc[p] = "wread"
    /\ IF wait <= 1
       THEN /\ Goto(p, "idle")
            /\ UNCHANGED seen
       ELSE /\ Goto(p, "wcas")
            /\ seen' = [seen EXCEPT ![p] = wait]
    /\ UNCHANGED <<shared, history>>

WakeRead(p) ==
    /\ pc[p] = "wread"
    /\ IF wait <= 0
       THEN /\ Goto(p, "idle")
            /\ UNCHANGED seen
       ELSE /\ Goto(p, "wcas")
            /\ seen' = [seen EXCEPT ![p] = wait]
    /\ UNCHANGED <<shared, history>>

(* Variant: a plain store of the value read earlier. *)
WakeStoreStale(p) ==
    /\ pc[p] = "wcas"
    /\ wait' = seen[p] - 1
    /\ Goto(p, "wpost")
    /\ seen' = [seen EXCEPT ![p] = 0]
    /\ UNCHANGED <<lock, sem, history>>

WakeCmpSet(p) ==
    /\ pc[p] = "wcas"
    /\ IF wait = seen[p]
       THEN /\ wait' = wait - 1
            /\ Goto(p, "wpost")
       ELSE /\ Goto(p, "wread")
            /\ UNCHANGED wait
    /\ seen' = [seen EXCEPT ![p] = 0]
    /\ UNCHANGED <<lock, sem, history>>

WakePost(p) ==
    /\ pc[p] = "wpost"
    /\ sem' = sem + 1
    /\ Goto(p, "idle")
    /\ UNCHANGED <<lock, wait, seen, history>>

(* sem_post() fails: the error is only logged. *)
WakePostError(p) ==
    /\ pc[p] = "wpost"
    /\ semErrors < MaxSemErrors
    /\ semErrors' = semErrors + 1
    /\ lostPosts' = lostPosts + 1
    /\ Goto(p, "idle")
    /\ UNCHANGED <<shared, seen, cutWakeups>>

-----------------------------------------------------------------------------
(* Death of a worker, and the master that cleans up after it *)

Die(p) ==
    /\ pc[p] \notin {"dead", "gone"}
    /\ Goto(p, "dead")
    /\ seen' = [seen EXCEPT ![p] = 0]
    /\ lostPosts' = IF pc[p] = "wpost" THEN lostPosts + 1 ELSE lostPosts
    /\ cutWakeups' = IF pc[p] \in Carrying THEN cutWakeups + 1 ELSE cutWakeups
    /\ UNCHANGED <<shared, semErrors>>

(* Variant: the lock is cleared whoever owns it. *)
ForceUnlockAny(p) ==
    /\ pc[p] = "dead"
    /\ pc[Master] = "idle"
    /\ lock' = None
    /\ pc' = [pc EXCEPT ![p] = "gone", ![Master] = AfterRelease]
    /\ UNCHANGED <<wait, sem, seen, history>>

(* waitpid() returned p: ngx_unlock_mutexes(p) runs in the SIGCHLD handler. *)
ForceUnlock(p) ==
    /\ pc[p] = "dead"
    /\ pc[Master] = "idle"
    /\ lock' = IF lock = p THEN None ELSE lock
    /\ pc' = [pc EXCEPT ![p] = "gone",
                        ![Master] = IF lock = p THEN AfterRelease ELSE "idle"]
    /\ UNCHANGED <<wait, sem, seen, history>>

-----------------------------------------------------------------------------
Worker(p) ==
    \/ TryLock(p) \/ CallLock(p)
    \/ LockTry(p) \/ LockAnnounce(p) \/ LockRetry(p) \/ LockUndo(p)
    \/ LockSleep(p) \/ LockSleepError(p)
    \/ Unlock(p)
    \/ Die(p) \/ ForceUnlock(p)

Wakeup(p) == WakeRead(p) \/ WakeCmpSet(p) \/ WakePost(p) \/ WakePostError(p)

Next == (\E p \in Procs : Worker(p)) \/ (\E p \in All : Wakeup(p))

Spec == Init /\ [][Next]_vars

(***************************************************************************)
(* Fairness.  A process that is inside one of these functions keeps        *)
(* running, a critical section ends (none of them blocks), and the master  *)
(* handles SIGCHLD.  Nothing forces a process to call ngx_shmtx_lock(),    *)
(* to die, or a system call to fail.                                       *)
(***************************************************************************)
InsideLock(p) ==
    \/ LockTry(p) \/ LockAnnounce(p) \/ LockRetry(p) \/ LockUndo(p)
    \/ LockSleep(p)

Fairness ==
    /\ \A p \in Procs : WF_vars(InsideLock(p)) /\ WF_vars(Unlock(p))
    /\ \A p \in Procs : WF_vars(ForceUnlock(p))
    /\ \A p \in All : WF_vars(WakeRead(p) \/ WakeCmpSet(p) \/ WakePost(p))

FairSpec == Spec /\ Fairness

-----------------------------------------------------------------------------
(* Properties *)

(* The range of every variable of ngx_shmtx_sh_t, ngx_shmtx_t and of the   *)
(* locals of its functions.                                                *)
TypeOK ==
    /\ lock \in Procs \cup {None}
    /\ wait \in Int
    /\ sem \in Nat
    /\ pc \in [All -> Points]
    /\ pc[Master] \in {"idle"} \cup Waking
    /\ seen \in [All -> Int]
    /\ semErrors \in Nat
    /\ lostPosts \in Nat
    /\ cutWakeups \in Nat

(* ngx_shmtx_lock() and ngx_shmtx_trylock() admit one process at a time,   *)
(* even while the master is taking the lock away from a dead owner.        *)
MutualExclusion ==
    /\ Cardinality(Owners) <= 1
    /\ Owners # {} => Owners = {lock}

(* Every process that announced itself in *wait and is asleep, or about to *)
(* be, is paid for: by the counter, by a semaphore token, by a process     *)
(* about to call sem_post(), or by a post that a death or an error lost.   *)
(* The counter itself may be negative, as the cast in ngx_shmtx_wakeup()   *)
(* expects.                                                                *)
WaitersPaidFor ==
    Cardinality(Waiters) <= wait + sem + Cardinality(Posters) + lostPosts

(* No lost wakeup: when the lock is free and somebody sleeps, a token, a   *)
(* wakeup in progress or a process that will take the lock is on its way.  *)
(* The exception is a death at the wrong moment (after its unlock and      *)
(* before sem_post(), or after being woken and before taking the lock) or  *)
(* a failed sem_post(): nothing in the code repairs those by itself.       *)
Stirring == \E p \in All : pc[p] \in Carrying
NoLostWakeup ==
    (lock = None /\ Sleepers # {} /\ cutWakeups + lostPosts = 0)
        => (sem > 0 \/ Stirring)

(* Deadlock freedom of ngx_shmtx_lock(): with a free lock and a sleeping   *)
(* process, somebody gets the lock, unless every sleeper dies or a wakeup  *)
(* was cut short by a death or an error.                                   *)
FreeLockIsTaken ==
    (lock = None /\ Sleepers # {})
        ~> (lock # None \/ Sleepers = {} \/ cutWakeups + lostPosts > 0)

(* The mutex implements the lock that survives its owner's death.          *)
Lock == INSTANCE RobustLock WITH
            owner <- lock,
            alive <- {p \in Procs : pc[p] \notin {"dead", "gone"}}
ImplementsRobustLock == Lock!Spec
=============================================================================
