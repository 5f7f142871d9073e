----------------------------- MODULE ThreadPool -----------------------------
(***************************************************************************)
(* A thread pool of a worker process (core/ngx_thread_pool.c).  The event  *)
(* loop posts tasks; pool threads take them from a bounded queue guarded   *)
(* by a mutex and a condition variable, run them, append them to the list  *)
(* of finished tasks and notify the event loop through an eventfd          *)
(* (event/modules/ngx_epoll_module.c), which runs their completion         *)
(* handlers.  A completion handler may post its own task again.            *)
(*                                                                         *)
(* One step is one critical section of tp->mtx or of the spinlock          *)
(* ngx_thread_pool_done_lock, or one call outside of them.  Waiting on the *)
(* condition variable splits its section in two.                           *)
(***************************************************************************)
EXTENDS Integers, Sequences, FiniteSets

CONSTANTS
    Threads,        \* the threads the pool is configured with
    Tasks,          \* the tasks the event loop posts
    Exit,           \* the task on the stack of ngx_thread_pool_destroy()
    None,           \* a thread that has no task
    MaxQueue,       \* tp->max_queue
    MaxErrors       \* bound on failing pthread_cond_signal() and _wait() calls

ASSUME ThreadsAssumption == IsFiniteSet(Threads) /\ Threads # {}
ASSUME TasksAssumption ==
    /\ IsFiniteSet(Tasks)
    /\ Exit \notin Tasks
    /\ None \notin Tasks \cup {Exit}
ASSUME MaxQueueAssumption == MaxQueue \in Nat \ {0}
ASSUME MaxErrorsAssumption == MaxErrors \in Nat

VARIABLES
    queue,      \* tp->queue
    waiting,    \* tp->waiting, which may be negative
    active,     \* tasks whose event.active is set
    pc,         \* control point of every thread
    current,    \* the task a thread has taken
    done,       \* ngx_thread_pool_done
    notified,   \* the eventfd has an edge the event loop has not seen
    main,       \* control point of the event loop
    batch,      \* finished tasks whose completion handlers are still to run
    exited,     \* n of ngx_thread_pool_destroy()
    spin,       \* lock of ngx_thread_pool_destroy()
    errors,     \* condition-variable calls that failed so far
    refused     \* history: tasks marked active although the post failed

pool == <<queue, waiting>>
loop == <<main, batch, exited>>
vars == <<queue, waiting, active, pc, current, done, notified, main, batch,
          exited, spin, errors, refused>>

AllTasks == Tasks \cup {Exit}

(***************************************************************************)
(* Threads.  "none": not created; "top": before the mutex at the top of    *)
(* the cycle; "wait": in pthread_cond_wait(); "woken": about to leave it;  *)
(* "run": in the task's handler; "append": before the done list; "notify": *)
(* before ngx_notify(); "gone": ended by an exit task; "failed": returned   *)
(* because pthread_cond_wait() failed.                                     *)
(* Event loop.  "init": creating threads; "loop": free to post tasks or to *)
(* exit; "complete": in the loop of ngx_thread_pool_handler(); "handler":  *)
(* in a completion handler it called; "post", "spin": in                   *)
(* ngx_thread_pool_destroy(); "destroyed": the mutex and the condition     *)
(* variable are destroyed; "left": destroy gave up; "fatal": init failed.  *)
(***************************************************************************)
ThreadPoints == {"none", "top", "wait", "woken", "run", "append", "notify",
                 "gone", "failed"}
MainPoints == {"init", "loop", "complete", "handler", "post", "spin",
               "destroyed", "left", "fatal"}

Waiting == {t \in Threads : pc[t] = "wait"}
Woken == {t \in Threads : pc[t] = "woken"}
Failed == {t \in Threads : pc[t] = "failed"}
Idle == Waiting \cup Woken
Goto(t, point) == pc' = [pc EXCEPT ![t] = point]

Init ==
    /\ queue = << >>
    /\ waiting = 0
    /\ active = {}
    /\ pc = [t \in Threads |-> "none"]
    /\ current = [t \in Threads |-> None]
    /\ done = << >>
    /\ notified = FALSE
    /\ main = "init"
    /\ batch = << >>
    /\ exited = 0
    /\ spin = 0
    /\ errors = 0
    /\ refused = {}

-----------------------------------------------------------------------------
(* ngx_thread_pool_init() *)

CreateThread(t) ==
    /\ main = "init"
    /\ pc[t] = "none"
    /\ Goto(t, "top")
    /\ main' = IF \A u \in Threads \ {t} : pc[u] # "none" THEN "loop"
                                                          ELSE "init"
    /\ UNCHANGED <<pool, active, current, done, notified, batch, exited, spin,
                   errors, refused>>

(* pthread_create() fails and the worker process ends. *)
CreateThreadFails ==
    /\ main = "init"
    /\ main' = "fatal"
    /\ UNCHANGED <<pool, active, pc, current, done, notified, batch, exited,
                   spin, errors, refused>>

-----------------------------------------------------------------------------
(* ngx_thread_task_post() *)

(* Variant: only a task posted to an empty queue is signalled. *)
SignalIfEmpty ==
    \/ /\ Waiting = {} \/ queue # << >>
       /\ UNCHANGED pc
    \/ /\ queue = << >>
       /\ \E t \in Waiting : Goto(t, "woken")

(* pthread_cond_signal() wakes one of the threads that wait, if any does. *)
Signal ==
    \/ /\ Waiting = {}
       /\ UNCHANGED pc
    \/ \E t \in Waiting : Goto(t, "woken")

Overflow == waiting >= MaxQueue

(* The task is queued: the calling code goes on to point next. *)
Posted(k, next) ==
    /\ k \notin active
    /\ ~Overflow
    /\ active' = active \cup {k}
    /\ Signal
    /\ queue' = Append(queue, k)
    /\ waiting' = waiting + 1
    /\ main' = next
    /\ UNCHANGED <<errors, refused>>

(***************************************************************************)
(* The post fails: the task is active, the queue is full, or               *)
(* pthread_cond_signal() fails after the task was marked active.           *)
(***************************************************************************)
PostFails(k, next) ==
    /\ \/ /\ k \in active \/ Overflow
          /\ UNCHANGED <<active, errors, refused>>
       \/ /\ k \notin active
          /\ ~Overflow
          /\ errors < MaxErrors
          /\ errors' = errors + 1
          /\ active' = active \cup {k}
          /\ refused' = refused \cup {k}
    /\ main' = next
    /\ UNCHANGED <<pool, pc>>

(***************************************************************************)
(* The event loop posts a task, from a handler of its own or from the      *)
(* completion handler of a task, which may be this one.                    *)
(***************************************************************************)
Post(k) ==
    /\ main \in {"loop", "handler"}
    /\ k \in Tasks
    /\ Posted(k, main) \/ PostFails(k, main)
    /\ UNCHANGED <<current, done, notified, batch, exited, spin>>

-----------------------------------------------------------------------------
(* ngx_thread_pool_cycle() *)

(* The thread takes the first task of the queue q and leaves the mutex. *)
Take(t, q) ==
    /\ queue' = Tail(q)
    /\ current' = [current EXCEPT ![t] = Head(q)]
    /\ Goto(t, "run")

(* Variant: the counter is decremented only when a task is taken. *)
EnterNoCount(t) ==
    /\ pc[t] = "top"
    /\ \/ /\ queue # << >>
          /\ waiting' = waiting - 1
          /\ Take(t, queue)
       \/ /\ queue = << >>
          /\ Goto(t, "wait")
          /\ UNCHANGED <<queue, waiting, current>>
    /\ UNCHANGED <<active, done, notified, loop, spin, errors, refused>>

Enter(t) ==
    /\ pc[t] = "top"
    /\ waiting' = waiting - 1
    /\ \/ /\ queue # << >>
          /\ Take(t, queue)
       \/ /\ queue = << >>
          /\ Goto(t, "wait")
          /\ UNCHANGED <<queue, current>>
    /\ UNCHANGED <<active, done, notified, loop, spin, errors, refused>>

(* pthread_cond_wait() returns with the mutex; the queue is tested again. *)
Wake(t) ==
    /\ pc[t] = "woken"
    /\ \/ /\ queue # << >>
          /\ Take(t, queue)
       \/ /\ queue = << >>
          /\ Goto(t, "wait")
          /\ UNCHANGED <<queue, current>>
    /\ UNCHANGED <<waiting, active, done, notified, loop, spin, errors,
                   refused>>

(* pthread_cond_wait() may return although nobody signalled. *)
SpuriousWakeup(t) ==
    /\ pc[t] = "wait"
    /\ Goto(t, "woken")
    /\ UNCHANGED <<pool, active, current, done, notified, loop, spin, errors,
                   refused>>

(* pthread_cond_wait() fails and the thread returns. *)
WaitFails(t) ==
    /\ pc[t] = "wait"
    /\ errors < MaxErrors
    /\ errors' = errors + 1
    /\ Goto(t, "failed")
    /\ UNCHANGED <<pool, active, current, done, notified, loop, spin, refused>>

(* The handler of an ordinary task returns. *)
RunTask(t) ==
    /\ pc[t] = "run"
    /\ current[t] # Exit
    /\ Goto(t, "append")
    /\ UNCHANGED <<pool, active, current, done, notified, loop, spin, errors,
                   refused>>

(* Variant: pthread_exit() is called before the lock is cleared. *)
RunExitNoReset(t) ==
    /\ pc[t] = "run"
    /\ current[t] = Exit
    /\ current' = [current EXCEPT ![t] = None]
    /\ Goto(t, "gone")
    /\ UNCHANGED <<pool, active, done, notified, loop, spin, errors, refused>>

(* ngx_thread_pool_exit_handler(): the thread never returns from it. *)
RunExit(t) ==
    /\ pc[t] = "run"
    /\ current[t] = Exit
    /\ spin' = 0
    /\ current' = [current EXCEPT ![t] = None]
    /\ Goto(t, "gone")
    /\ UNCHANGED <<pool, active, done, notified, loop, errors, refused>>

(* The finished task is appended under the spinlock. *)
AppendDone(t) ==
    /\ pc[t] = "append"
    /\ done' = Append(done, current[t])
    /\ current' = [current EXCEPT ![t] = None]
    /\ Goto(t, "notify")
    /\ UNCHANGED <<pool, active, notified, loop, spin, errors, refused>>

(* ngx_epoll_notify(): every write to the eventfd is an edge for epoll. *)
Notify(t) ==
    /\ pc[t] = "notify"
    /\ notified' = TRUE
    /\ Goto(t, "top")
    /\ UNCHANGED <<pool, active, current, done, loop, spin, errors, refused>>

-----------------------------------------------------------------------------
(* ngx_thread_pool_handler(), called by ngx_epoll_notify_handler() *)

Collect ==
    /\ main = "loop"
    /\ notified
    /\ notified' = FALSE
    /\ batch' = done
    /\ done' = << >>
    /\ main' = "complete"
    /\ UNCHANGED <<pool, active, pc, current, exited, spin, errors, refused>>

(* Variant: the next task is read after a handler that posts its task again. *)
CompleteReadsNextLate ==
    /\ main = "complete"
    /\ batch # << >>
    /\ batch' = << >>
    /\ active' = active \ {Head(batch)}
    /\ main' = "handler"
    /\ UNCHANGED <<pool, pc, current, done, notified, exited, spin, errors,
                   refused>>

(* One turn of the loop: next is read, the task becomes inactive, and its *)
(* completion handler is called.                                          *)
Complete ==
    /\ main = "complete"
    /\ batch # << >>
    /\ batch' = Tail(batch)
    /\ active' = active \ {Head(batch)}
    /\ main' = "handler"
    /\ UNCHANGED <<pool, pc, current, done, notified, exited, spin, errors,
                   refused>>

HandlerReturns ==
    /\ main = "handler"
    /\ main' = "complete"
    /\ UNCHANGED <<pool, active, pc, current, done, notified, batch, exited,
                   spin, errors, refused>>

Completed ==
    /\ main = "complete"
    /\ batch = << >>
    /\ main' = "loop"
    /\ UNCHANGED <<pool, active, pc, current, done, notified, batch, exited,
                   spin, errors, refused>>

-----------------------------------------------------------------------------
(* ngx_thread_pool_destroy(), called by ngx_thread_pool_exit_worker() *)

(* The worker process leaves its cycle. *)
ExitWorker ==
    /\ main = "loop"
    /\ main' = "post"
    /\ UNCHANGED <<pool, active, pc, current, done, notified, batch, exited,
                   spin, errors, refused>>

(* The exit task for the next thread; destroy returns when it is refused. *)
DestroyPost ==
    /\ main = "post"
    /\ exited < Cardinality(Threads)
    /\ spin' = 1
    /\ Posted(Exit, "spin") \/ PostFails(Exit, "left")
    /\ UNCHANGED <<current, done, notified, batch, exited>>

(* A thread has run the exit task: the loop goes on to the next one. *)
DestroySpin ==
    /\ main = "spin"
    /\ spin = 0
    /\ active' = active \ {Exit}
    /\ exited' = exited + 1
    /\ main' = "post"
    /\ UNCHANGED <<pool, pc, current, done, notified, batch, spin, errors,
                   refused>>

(* Variant: one thread too few is asked to exit. *)
DestroyEndEarly ==
    /\ main = "post"
    /\ exited = Cardinality(Threads) - 1
    /\ main' = "destroyed"
    /\ UNCHANGED <<pool, active, pc, current, done, notified, batch, exited,
                   spin, errors, refused>>

(* The condition variable and the mutex are destroyed. *)
DestroyEnd ==
    /\ main = "post"
    /\ exited = Cardinality(Threads)
    /\ main' = "destroyed"
    /\ UNCHANGED <<pool, active, pc, current, done, notified, batch, exited,
                   spin, errors, refused>>

-----------------------------------------------------------------------------
Cycle(t) ==
    \/ Enter(t)
    \/ Wake(t)
    \/ RunTask(t)
    \/ RunExit(t)
    \/ AppendDone(t)
    \/ Notify(t)

Handler == Collect \/ Complete \/ HandlerReturns \/ Completed
Destroy == DestroyPost \/ DestroySpin \/ DestroyEnd

Next ==
    \/ \E t \in Threads :
          CreateThread(t) \/ Cycle(t) \/ SpuriousWakeup(t) \/ WaitFails(t)
    \/ CreateThreadFails
    \/ \E k \in Tasks : Post(k)
    \/ Handler
    \/ ExitWorker
    \/ Destroy

Spec == Init /\ [][Next]_vars

(***************************************************************************)
(* Every thread is scheduled, a task's handler returns, and the event loop *)
(* goes on: it is woken by the eventfd and its handlers return.            *)
(***************************************************************************)
Fairness ==
    /\ \A t \in Threads : WF_vars(Cycle(t))
    /\ WF_vars(Collect)
    /\ WF_vars(Complete)
    /\ WF_vars(HandlerReturns)
    /\ WF_vars(Completed)
    /\ WF_vars(Destroy)

FairSpec == Spec /\ Fairness

-----------------------------------------------------------------------------
(***************************************************************************)
(* The range of every variable.  The list of finished tasks holds ordinary *)
(* tasks only: a thread never hands on "no task", which it would have if   *)
(* it left pthread_cond_wait() without testing the queue again, nor the    *)
(* exit task, whose handler does not return.                               *)
(***************************************************************************)
TypeOK ==
    /\ queue \in Seq(AllTasks)
    /\ waiting \in Int
    /\ active \in SUBSET AllTasks
    /\ pc \in [Threads -> ThreadPoints]
    /\ current \in [Threads -> AllTasks \cup {None}]
    /\ done \in Seq(Tasks)
    /\ notified \in BOOLEAN
    /\ main \in MainPoints
    /\ batch \in Seq(Tasks)
    /\ exited \in 0 .. Cardinality(Threads)
    /\ spin \in {0, 1}
    /\ errors \in 0 .. MaxErrors
    /\ refused \in SUBSET AllTasks

(***************************************************************************)
(* tp->waiting, which a thread decrements before it has a task and which   *)
(* "may become negative", is at all times the number of queued tasks minus *)
(* the threads that sleep or wake on the condition variable and the ones   *)
(* that a failed wait ended.                                               *)
(***************************************************************************)
WaitingCounts ==
    waiting = Len(queue) - Cardinality(Idle) - Cardinality(Failed)

(***************************************************************************)
(* The limit max_queue holds for the tasks no idle thread is about to      *)
(* take: when all threads are busy, at most max_queue tasks are queued.    *)
(***************************************************************************)
QueueBounded ==
    Idle \cup Failed = {} => Len(queue) <= MaxQueue

(***************************************************************************)
(* ngx_thread_task_post() signals before it queues the task, both under    *)
(* the mutex: while a thread still sleeps on the condition variable, every *)
(* queued task has a thread of its own that is on its way to take it.      *)
(***************************************************************************)
NoSleepingOnWork ==
    Waiting # {} => Len(queue) <= Cardinality(Woken)

(* How often a task occurs in a list. *)
Occurrences(s, k) == Cardinality({i \in DOMAIN s : s[i] = k})

(***************************************************************************)
(* An active task is in exactly one place: the queue, a thread, the list   *)
(* of finished tasks or the batch the event loop works on.  An inactive    *)
(* one, whose memory its owner may free or post again, is in none.         *)
(***************************************************************************)
ActiveOnce ==
    \A k \in Tasks :
        Occurrences(queue, k) + Occurrences(done, k) + Occurrences(batch, k)
            + Cardinality({t \in Threads : current[t] = k})
        = IF k \in active \ refused THEN 1 ELSE 0

(***************************************************************************)
(* When ngx_thread_pool_destroy() destroys the mutex and the condition     *)
(* variable, no thread is left to use them and no task was abandoned in    *)
(* the queue.                                                              *)
(***************************************************************************)
DestroyedIsQuiet ==
    main = "destroyed" => queue = << >> /\ \A t \in Threads : pc[t] = "gone"

Exiting == main \in {"post", "spin", "destroyed", "left"}

(***************************************************************************)
(* A task that ngx_thread_task_post() queued is completed, unless the      *)
(* worker process exits first or threads were lost to failing calls.       *)
(***************************************************************************)
TaskCompletes ==
    \A k \in Tasks :
        k \in active ~> k \notin active \/ Exiting \/ errors > 0

(***************************************************************************)
(* ngx_thread_pool_destroy() does not spin for ever, unless a thread it    *)
(* waits for was lost to a failing pthread_cond_wait().                    *)
(***************************************************************************)
DestroyEnds ==
    main = "post" ~> main \in {"destroyed", "left"} \/ errors > 0
=============================================================================
