-------------------------- MODULE ThreadPoolProofs --------------------------
(***************************************************************************)
(* Proofs about ThreadPool for any number of threads, tasks and any queue  *)
(* limit.                                                                  *)
(*                                                                         *)
(* The argument counts the threads at each control point.  A step moves at *)
(* most one thread, so it changes two of the counts by one.  Every wakeup  *)
(* is paid by a queued task: the invariant NoSleepingOnWork is inductive   *)
(* by itself, and WaitingCounts together with the limit on tp->waiting     *)
(* gives the bound on the queue.                                           *)
(*                                                                         *)
(* The other two results count occurrences: of a task in the queue, the    *)
(* lists of finished tasks and the threads, and of the exit tasks, of      *)
(* which at most one is under way.                                         *)
(***************************************************************************)
EXTENDS ThreadPool, FiniteSetTheorems, TLAPS

(* The number of threads at control point c when f gives all of them. *)
Count(f, c) == Cardinality({t \in Threads : f[t] = c})

(* What the data of the control points is. *)
Control ==
    /\ \A t \in Threads :
          /\ pc[t] = "run" => current[t] \in AllTasks
          /\ pc[t] = "append" => current[t] \in Tasks
    /\ main = "spin" => exited < Cardinality(Threads)

Counts ==
    /\ waiting = Len(queue) - Count(pc, "wait") - Count(pc, "woken")
                            - Count(pc, "failed")
    /\ waiting <= MaxQueue
    /\ Count(pc, "wait") > 0 => Len(queue) <= Count(pc, "woken")

IInv == TypeOK /\ Control /\ Counts

-----------------------------------------------------------------------------
(* Counting threads *)

LEMMA CountIsNatural ==
    ASSUME NEW f, NEW c
    PROVE  Count(f, c) \in Nat
<1>1. IsFiniteSet({t \in Threads : f[t] = c})
    BY ThreadsAssumption, FS_Subset
<1> QED
    BY <1>1, FS_CardinalityType DEF Count

LEMMA CountZero ==
    ASSUME NEW f, NEW c
    PROVE  Count(f, c) = 0 <=> \A t \in Threads : f[t] # c
<1>1. IsFiniteSet({t \in Threads : f[t] = c})
    BY ThreadsAssumption, FS_Subset
<1>2. Count(f, c) = 0 <=> {t \in Threads : f[t] = c} = {}
    BY <1>1, FS_EmptySet DEF Count
<1> QED
    BY <1>2

(* A thread that moves from one point to another changes two counts. *)
LEMMA CountMove ==
    ASSUME NEW f \in [Threads -> ThreadPoints], NEW t \in Threads,
           NEW x \in ThreadPoints, NEW c \in ThreadPoints, f[t] # x
    PROVE  LET g == [f EXCEPT ![t] = x]
           IN  /\ c = x => Count(g, c) = Count(f, c) + 1
               /\ c = f[t] => Count(g, c) = Count(f, c) - 1
               /\ c # x /\ c # f[t] => Count(g, c) = Count(f, c)
<1> DEFINE g == [f EXCEPT ![t] = x]
           F == {u \in Threads : f[u] = c}
           G == {u \in Threads : g[u] = c}
<1>1. IsFiniteSet(F)
    BY ThreadsAssumption, FS_Subset
<1>2. ASSUME c = x
      PROVE  Count(g, c) = Count(f, c) + 1
    <2>1. G = F \cup {t} /\ t \notin F
        BY <1>2
    <2>2. Cardinality(F \cup {t}) = Cardinality(F) + 1
        BY <1>1, <2>1, FS_AddElement
    <2> QED BY <2>1, <2>2 DEF Count
<1>3. ASSUME c = f[t]
      PROVE  Count(g, c) = Count(f, c) - 1
    <2>1. G = F \ {t} /\ t \in F
        BY <1>3
    <2>2. Cardinality(F \ {t}) = Cardinality(F) - 1
        BY <1>1, <2>1, FS_RemoveElement
    <2> QED BY <2>1, <2>2 DEF Count
<1>4. ASSUME c # x, c # f[t]
      PROVE  Count(g, c) = Count(f, c)
    <2>1. G = F
        BY <1>4
    <2> QED BY <2>1 DEF Count
<1> QED
    BY <1>2, <1>3, <1>4

(* The counts are what the sets of idle and failed threads measure. *)
LEMMA CountedSets ==
    /\ Cardinality(Waiting) = Count(pc, "wait")
    /\ Cardinality(Woken) = Count(pc, "woken")
    /\ Cardinality(Failed) = Count(pc, "failed")
    /\ Cardinality(Idle) = Count(pc, "wait") + Count(pc, "woken")
<1>1. /\ Cardinality(Waiting) = Count(pc, "wait")
      /\ Cardinality(Woken) = Count(pc, "woken")
      /\ Cardinality(Failed) = Count(pc, "failed")
    BY DEF Count, Waiting, Woken, Failed
<1>2. IsFiniteSet(Waiting) /\ IsFiniteSet(Woken)
    BY ThreadsAssumption, FS_Subset DEF Waiting, Woken
<1>3. Waiting \cap Woken = {}
    BY DEF Waiting, Woken
<1>4. Cardinality(Waiting \cup Woken)
        = Cardinality(Waiting) + Cardinality(Woken) - Cardinality({})
    BY <1>2, <1>3, FS_Union
<1>5. Cardinality(Idle) = Count(pc, "wait") + Count(pc, "woken")
    BY <1>1, <1>4, FS_EmptySet, CountIsNatural DEF Idle
<1> QED
    BY <1>1, <1>5

-----------------------------------------------------------------------------
(* The steps *)

(* The counts of the next state. *)
LEMMA CountsNext ==
    ASSUME waiting' = Len(queue') - Count(pc', "wait") - Count(pc', "woken")
                                  - Count(pc', "failed"),
           waiting' <= MaxQueue,
           Count(pc', "wait") > 0 => Len(queue') <= Count(pc', "woken")
    PROVE  Counts'
BY DEF Counts, Count

(* A step that moves no thread and leaves the queue alone. *)
LEMMA CountsKept ==
    ASSUME Counts, UNCHANGED <<queue, waiting, pc>>
    PROVE  Counts'
BY DEF Counts, Count

(* A step that moves a thread between points that are not counted. *)
LEMMA CountsUncounted ==
    ASSUME TypeOK, Counts, UNCHANGED <<queue, waiting>>,
           NEW t \in Threads, NEW x \in ThreadPoints, Goto(t, x), pc[t] # x,
           pc[t] \notin {"wait", "woken", "failed"},
           x \notin {"wait", "woken", "failed"}
    PROVE  Counts'
<1> DEFINE counted == {"wait", "woken", "failed"}
<1>0. ASSUME NEW c \in counted
      PROVE  Count(pc', c) = Count(pc, c)
    <2>1. /\ c \in ThreadPoints /\ c # x /\ c # pc[t]
          /\ pc \in [Threads -> ThreadPoints]
        BY DEF TypeOK, ThreadPoints
    <2>2. pc' = [pc EXCEPT ![t] = x]
        BY DEF Goto
    <2> HIDE DEF counted
    <2>3. Count([pc EXCEPT ![t] = x], c) = Count(pc, c)
        BY <2>1, CountMove
    <2> QED BY <2>2, <2>3
<1>1. /\ Count(pc', "wait") = Count(pc, "wait")
      /\ Count(pc', "woken") = Count(pc, "woken")
      /\ Count(pc', "failed") = Count(pc, "failed")
    BY <1>0
<1>2. queue' = queue /\ waiting' = waiting
    OBVIOUS
<1>3. /\ waiting' = Len(queue') - Count(pc', "wait") - Count(pc', "woken")
                                - Count(pc', "failed")
      /\ waiting' <= MaxQueue
      /\ Count(pc', "wait") > 0 => Len(queue') <= Count(pc', "woken")
    BY <1>1, <1>2 DEF Counts
<1> QED
    BY <1>3, CountsNext

LEMMA CountsPosted ==
    ASSUME TypeOK, Counts, NEW k \in AllTasks, NEW next, Posted(k, next)
    PROVE  Counts' /\ pc' \in [Threads -> ThreadPoints]
<1>0. /\ Count(pc, "wait") \in Nat
      /\ Count(pc, "woken") \in Nat
      /\ Count(pc, "failed") \in Nat
    BY CountIsNatural
<1>1. /\ queue' = Append(queue, k)
      /\ waiting' = waiting + 1
      /\ waiting < MaxQueue
    BY MaxQueueAssumption DEF Posted, Overflow, TypeOK
<1>2. Len(queue') = Len(queue) + 1 /\ Len(queue) \in Nat
    BY <1>1 DEF TypeOK
<1>3. waiting' <= MaxQueue
    BY <1>1, MaxQueueAssumption DEF TypeOK
<1>4. CASE Waiting = {} /\ UNCHANGED pc
    <2>1. Count(pc, "wait") = 0
        BY <1>4, CountZero DEF Waiting
    <2> QED
        BY SMTT(40), <1>0, <1>1, <1>2, <1>3, <1>4, <2>1, CountsNext
        DEF Counts, TypeOK
<1>5. CASE \E t \in Waiting : Goto(t, "woken")
    <2>1. PICK t \in Threads : pc[t] = "wait" /\ Goto(t, "woken")
        BY <1>5 DEF Waiting
    <2>2. /\ Count(pc', "wait") = Count(pc, "wait") - 1
          /\ Count(pc', "woken") = Count(pc, "woken") + 1
          /\ Count(pc', "failed") = Count(pc, "failed")
        BY ZenonT(60), <2>1, CountMove DEF TypeOK, Goto, ThreadPoints
    <2>3. pc' \in [Threads -> ThreadPoints]
        BY <2>1 DEF Goto, TypeOK, ThreadPoints
    <2>4. Count(pc, "wait") > 0
        BY <2>1, <1>0, CountZero
    <2> QED
        BY SMTT(40), <1>0, <1>1, <1>2, <1>3, <2>2, <2>3, <2>4, CountsNext
        DEF Counts, TypeOK
<1> QED
    BY <1>4, <1>5 DEF Posted, Signal

(* Taking a task: Head and Tail of a non-empty queue. *)
LEMMA TakeFacts ==
    ASSUME TypeOK, queue # << >>
    PROVE  /\ Tail(queue) \in Seq(AllTasks)
           /\ Head(queue) \in AllTasks
           /\ Len(Tail(queue)) = Len(queue) - 1
           /\ Len(queue) \in Nat \ {0}
BY DEF TypeOK

(* The counts are an inductive invariant, given the types. *)
LEMMA CountsInductive == IInv /\ [Next]_vars => Counts'
<1> SUFFICES ASSUME TypeOK, Control, Counts, [Next]_vars
             PROVE  Counts'
    BY DEF IInv
<1>0. /\ Count(pc, "wait") \in Nat
      /\ Count(pc, "woken") \in Nat
      /\ Count(pc, "failed") \in Nat
      /\ Len(queue) \in Nat
    BY CountIsNatural DEF TypeOK
<1>1. ASSUME NEW t \in Threads, CreateThread(t)
      PROVE  Counts'
    BY <1>1, CountsUncounted DEF CreateThread, pool, Goto, ThreadPoints
<1>2. ASSUME NEW t \in Threads, Enter(t), queue # << >>
      PROVE  Counts'
    <2>1. /\ Goto(t, "run") /\ pc[t] = "top"
          /\ queue' = Tail(queue)
          /\ waiting' = waiting - 1
        BY <1>2 DEF Enter, Take
    <2>2. /\ Count(pc', "wait") = Count(pc, "wait")
          /\ Count(pc', "woken") = Count(pc, "woken")
          /\ Count(pc', "failed") = Count(pc, "failed")
        BY ZenonT(60), <2>1, CountMove DEF TypeOK, Goto, ThreadPoints
    <2>3. Len(queue') = Len(queue) - 1 /\ Len(queue) > 0
        BY <1>2, <2>1, TakeFacts
    <2> QED
        BY SMTT(40), <1>0, <2>1, <2>2, <2>3, CountsNext, MaxQueueAssumption
        DEF Counts, TypeOK
<1>3. ASSUME NEW t \in Threads, Enter(t), queue = << >>
      PROVE  Counts'
    <2>1. /\ Goto(t, "wait") /\ pc[t] = "top"
          /\ queue' = queue
          /\ waiting' = waiting - 1
        BY <1>3 DEF Enter
    <2>2. /\ Count(pc', "wait") = Count(pc, "wait") + 1
          /\ Count(pc', "woken") = Count(pc, "woken")
          /\ Count(pc', "failed") = Count(pc, "failed")
        BY ZenonT(60), <2>1, CountMove DEF TypeOK, Goto, ThreadPoints
    <2>3. Len(queue) = 0
        BY <1>3
    <2> QED
        BY SMTT(40), <1>0, <2>1, <2>2, <2>3, CountsNext, MaxQueueAssumption
        DEF Counts, TypeOK
<1>4. ASSUME NEW t \in Threads, Wake(t), queue # << >>
      PROVE  Counts'
    <2>1. /\ Goto(t, "run") /\ pc[t] = "woken"
          /\ queue' = Tail(queue)
          /\ waiting' = waiting
        BY <1>4 DEF Wake, Take
    <2>2. /\ Count(pc', "wait") = Count(pc, "wait")
          /\ Count(pc', "woken") = Count(pc, "woken") - 1
          /\ Count(pc', "failed") = Count(pc, "failed")
        BY ZenonT(60), <2>1, CountMove DEF TypeOK, Goto, ThreadPoints
    <2>3. Len(queue') = Len(queue) - 1 /\ Len(queue) > 0
        BY <1>4, <2>1, TakeFacts
    <2> QED
        BY SMTT(40), <1>0, <2>1, <2>2, <2>3, CountsNext, MaxQueueAssumption
        DEF Counts, TypeOK
<1>5. ASSUME NEW t \in Threads, Wake(t), queue = << >>
      PROVE  Counts'
    <2>1. /\ Goto(t, "wait") /\ pc[t] = "woken"
          /\ queue' = queue
          /\ waiting' = waiting
        BY <1>5 DEF Wake
    <2>2. /\ Count(pc', "wait") = Count(pc, "wait") + 1
          /\ Count(pc', "woken") = Count(pc, "woken") - 1
          /\ Count(pc', "failed") = Count(pc, "failed")
        BY ZenonT(60), <2>1, CountMove DEF TypeOK, Goto, ThreadPoints
    <2>3. Len(queue) = 0
        BY <1>5
    <2>4. Count(pc, "woken") > 0
        BY <1>0, <2>1, CountZero
    <2> QED
        BY <1>0, <2>1, <2>2, <2>3, <2>4, CountsNext, MaxQueueAssumption
        DEF Counts, TypeOK
<1>6. ASSUME NEW t \in Threads, SpuriousWakeup(t)
      PROVE  Counts'
    <2>1. /\ Goto(t, "woken") /\ pc[t] = "wait"
          /\ queue' = queue
          /\ waiting' = waiting
        BY <1>6 DEF SpuriousWakeup, pool
    <2>2. /\ Count(pc', "wait") = Count(pc, "wait") - 1
          /\ Count(pc', "woken") = Count(pc, "woken") + 1
          /\ Count(pc', "failed") = Count(pc, "failed")
        BY ZenonT(60), <2>1, CountMove DEF TypeOK, Goto, ThreadPoints
    <2>3. Len(queue') = Len(queue) /\ waiting' = waiting
        BY <2>1
    <2>4. /\ waiting' = Len(queue') - Count(pc', "wait") - Count(pc', "woken")
                                    - Count(pc', "failed")
          /\ waiting' <= MaxQueue
          /\ Count(pc', "wait") > 0 => Len(queue') <= Count(pc', "woken")
        BY <1>0, <2>2, <2>3 DEF Counts
    <2> QED
        BY <2>4, CountsNext
<1>7. ASSUME NEW t \in Threads, WaitFails(t)
      PROVE  Counts'
    <2>1. /\ Goto(t, "failed") /\ pc[t] = "wait"
          /\ queue' = queue
          /\ waiting' = waiting
        BY <1>7 DEF WaitFails, pool
    <2>2. /\ Count(pc', "wait") = Count(pc, "wait") - 1
          /\ Count(pc', "woken") = Count(pc, "woken")
          /\ Count(pc', "failed") = Count(pc, "failed") + 1
        BY <2>1, CountMove DEF TypeOK, Goto, ThreadPoints
    <2>3. Len(queue') = Len(queue) /\ waiting' = waiting
        BY <2>1
    <2>4. /\ waiting' = Len(queue') - Count(pc', "wait") - Count(pc', "woken")
                                    - Count(pc', "failed")
          /\ waiting' <= MaxQueue
          /\ Count(pc', "wait") > 0 => Len(queue') <= Count(pc', "woken")
        BY <1>0, <2>2, <2>3 DEF Counts
    <2> QED
        BY <2>4, CountsNext
<1>8. ASSUME NEW t \in Threads,
             RunTask(t) \/ RunExit(t) \/ AppendDone(t) \/ Notify(t)
      PROVE  Counts'
    <2>1. CASE RunTask(t)
        BY <2>1, CountsUncounted DEF RunTask, pool, ThreadPoints
    <2>2. CASE RunExit(t)
        BY <2>2, CountsUncounted DEF RunExit, pool, ThreadPoints
    <2>3. CASE AppendDone(t)
        BY <2>3, CountsUncounted DEF AppendDone, pool, ThreadPoints
    <2>4. CASE Notify(t)
        BY <2>4, CountsUncounted DEF Notify, pool, ThreadPoints
    <2> QED BY <1>8, <2>1, <2>2, <2>3, <2>4
<1>9. ASSUME NEW k \in Tasks, Post(k)
      PROVE  Counts'
    <2>1. CASE Posted(k, main)
        BY <2>1, CountsPosted DEF AllTasks
    <2>2. CASE PostFails(k, main)
        BY <2>2, CountsKept DEF PostFails, pool
    <2> QED BY <1>9, <2>1, <2>2 DEF Post
<1>10. CASE DestroyPost
    <2>1. CASE Posted(Exit, "spin")
        BY <2>1, CountsPosted DEF AllTasks
    <2>2. CASE PostFails(Exit, "left")
        BY <2>2, CountsKept DEF PostFails, pool
    <2> QED BY <1>10, <2>1, <2>2 DEF DestroyPost
<1>11. CASE CreateThreadFails \/ Handler \/ ExitWorker \/ DestroySpin
            \/ DestroyEnd
    BY <1>11, CountsKept
    DEF CreateThreadFails, Handler, Collect, Complete, HandlerReturns,
        Completed, ExitWorker, DestroySpin, DestroyEnd, pool
<1>12. CASE UNCHANGED vars
    BY <1>12, CountsKept DEF vars
<1> QED
    BY <1>1, <1>2, <1>3, <1>4, <1>5, <1>6, <1>7, <1>8, <1>9, <1>10, <1>11,
       <1>12
    DEF Next, Cycle, Destroy

(* The control points fit the data, given the types. *)
LEMMA ControlInductive == IInv /\ [Next]_vars => Control'
<1> SUFFICES ASSUME TypeOK, Control, [Next]_vars
             PROVE  Control'
    BY DEF IInv
<1> USE DEF Control
<1>1. ASSUME NEW t \in Threads,
             \/ CreateThread(t)
             \/ SpuriousWakeup(t)
             \/ WaitFails(t)
             \/ RunTask(t)
             \/ Notify(t)
      PROVE  Control'
    BY <1>1 DEF CreateThread, SpuriousWakeup, WaitFails, RunTask, Notify,
        Goto, TypeOK, AllTasks, loop
<1>2. ASSUME NEW t \in Threads, RunExit(t) \/ AppendDone(t)
      PROVE  Control'
    BY <1>2 DEF RunExit, AppendDone, Goto, TypeOK, loop
<1>3. ASSUME NEW t \in Threads, Enter(t) \/ Wake(t)
      PROVE  Control'
    <2>1. CASE queue # << >>
        BY <1>3, <2>1, TakeFacts DEF Enter, Wake, Take, Goto, TypeOK, loop
    <2>2. CASE queue = << >>
        BY <1>3, <2>2 DEF Enter, Wake, Goto, TypeOK, loop
    <2> QED BY <2>1, <2>2
<1>4. ASSUME Signal \/ UNCHANGED pc, UNCHANGED current
      PROVE  (\A t \in Threads :
                 /\ pc[t] = "run" => current[t] \in AllTasks
                 /\ pc[t] = "append" => current[t] \in Tasks)'
    BY <1>4 DEF Signal, Goto, TypeOK
<1>5. ASSUME NEW k \in Tasks, Post(k)
      PROVE  Control'
    <2>1. /\ main \in {"loop", "handler"}
          /\ UNCHANGED <<current, exited>>
          /\ main' = main
          /\ Signal \/ UNCHANGED pc
        BY <1>5 DEF Post, Posted, PostFails
    <2> QED BY <1>4, <2>1
<1>6. CASE DestroyPost
    <2>1. /\ exited < Cardinality(Threads)
          /\ UNCHANGED <<current, exited>>
          /\ Signal \/ UNCHANGED pc
        BY <1>6 DEF DestroyPost, Posted, PostFails
    <2> QED BY <1>4, <2>1
<1>7. CASE CreateThreadFails \/ Handler \/ ExitWorker \/ DestroySpin
           \/ DestroyEnd
    <2>1. UNCHANGED <<pc, current>> /\ main' # "spin"
        BY <1>7 DEF CreateThreadFails, Handler, Collect, Complete,
            HandlerReturns, Completed, ExitWorker, DestroySpin, DestroyEnd
    <2> QED BY <1>4, <2>1
<1>8. CASE UNCHANGED vars
    BY <1>8 DEF vars
<1> QED
    BY <1>1, <1>2, <1>3, <1>5, <1>6, <1>7, <1>8
    DEF Next, Cycle, Destroy

(* Types are preserved. *)
LEMMA TypeInductive == IInv /\ [Next]_vars => TypeOK'
<1> SUFFICES ASSUME TypeOK, Control, Counts, [Next]_vars
             PROVE  TypeOK'
    BY DEF IInv
<1>0. Cardinality(Threads) \in Nat
    BY ThreadsAssumption, FS_CardinalityType
<1>1. ASSUME NEW t \in Threads, CreateThread(t)
      PROVE  TypeOK'
    BY <1>1 DEF CreateThread, pool, Goto, TypeOK, ThreadPoints, MainPoints
<1>2. ASSUME NEW t \in Threads, Enter(t) \/ Wake(t)
      PROVE  TypeOK'
    <2>1. CASE queue # << >>
        <3>1. /\ queue' = Tail(queue)
              /\ current' = [current EXCEPT ![t] = Head(queue)]
              /\ Goto(t, "run")
              /\ waiting' \in {waiting, waiting - 1}
            BY <1>2, <2>1 DEF Enter, Wake, Take
        <3>2. UNCHANGED <<active, done, notified, loop, spin, errors, refused>>
            BY <1>2 DEF Enter, Wake
        <3>3. /\ queue' \in Seq(AllTasks)
              /\ current' \in [Threads -> AllTasks \cup {None}]
            BY <2>1, <3>1, TakeFacts DEF TypeOK
        <3>4. pc' \in [Threads -> ThreadPoints]
            BY <3>1 DEF Goto, TypeOK, ThreadPoints
        <3> QED
            BY <3>1, <3>2, <3>3, <3>4 DEF TypeOK, loop
    <2>2. CASE queue = << >>
        <3>1. /\ Goto(t, "wait")
              /\ waiting' \in {waiting, waiting - 1}
              /\ UNCHANGED <<queue, current>>
              /\ UNCHANGED <<active, done, notified, loop, spin, errors,
                             refused>>
            BY <1>2, <2>2 DEF Enter, Wake
        <3>2. pc' \in [Threads -> ThreadPoints]
            BY <3>1 DEF Goto, TypeOK, ThreadPoints
        <3> QED
            BY <3>1, <3>2 DEF TypeOK, loop
    <2> QED BY <2>1, <2>2
<1>3. ASSUME NEW t \in Threads, SpuriousWakeup(t) \/ RunTask(t) \/ Notify(t)
      PROVE  TypeOK'
    BY <1>3 DEF SpuriousWakeup, RunTask, Notify, pool, loop, Goto, TypeOK,
        ThreadPoints
<1>4. ASSUME NEW t \in Threads, WaitFails(t)
      PROVE  TypeOK'
    BY <1>4, MaxErrorsAssumption
    DEF WaitFails, pool, loop, Goto, TypeOK, ThreadPoints
<1>5. ASSUME NEW t \in Threads, RunExit(t)
      PROVE  TypeOK'
    BY <1>5 DEF RunExit, pool, loop, Goto, TypeOK, ThreadPoints
<1>6. ASSUME NEW t \in Threads, AppendDone(t)
      PROVE  TypeOK'
    <2>1. current[t] \in Tasks
        BY <1>6 DEF AppendDone, Control
    <2>2. done' \in Seq(Tasks)
        BY <1>6, <2>1 DEF AppendDone, TypeOK
    <2> QED
        BY <1>6, <2>2 DEF AppendDone, pool, loop, Goto, TypeOK, ThreadPoints
<1>7. ASSUME NEW k \in AllTasks, NEW next \in MainPoints,
             Posted(k, next) \/ PostFails(k, next)
      PROVE  /\ queue' \in Seq(AllTasks)
             /\ waiting' \in Int
             /\ active' \in SUBSET AllTasks
             /\ pc' \in [Threads -> ThreadPoints]
             /\ main' \in MainPoints
             /\ errors' \in 0 .. MaxErrors
             /\ refused' \in SUBSET AllTasks
    <2>1. CASE Posted(k, next)
        BY <2>1, CountsPosted DEF Posted, TypeOK
    <2>2. CASE PostFails(k, next)
        BY <2>2, MaxErrorsAssumption DEF PostFails, pool, TypeOK
    <2> QED BY <1>7, <2>1, <2>2
<1>8. ASSUME NEW k \in Tasks, Post(k)
      PROVE  TypeOK'
    <2>1. /\ Posted(k, main) \/ PostFails(k, main)
          /\ UNCHANGED <<current, done, notified, batch, exited, spin>>
        BY <1>8 DEF Post
    <2>2. k \in AllTasks /\ main \in MainPoints
        BY DEF AllTasks, TypeOK
    <2> QED BY <1>7, <2>1, <2>2 DEF TypeOK
<1>9. CASE DestroyPost
    <2>1. CASE Posted(Exit, "spin")
        <3>1. Exit \in AllTasks /\ "spin" \in MainPoints
            BY DEF AllTasks, MainPoints
        <3> QED BY <1>7, <1>9, <2>1, <3>1 DEF DestroyPost, TypeOK
    <2>2. CASE PostFails(Exit, "left")
        <3>1. Exit \in AllTasks /\ "left" \in MainPoints
            BY DEF AllTasks, MainPoints
        <3> QED BY <1>7, <1>9, <2>2, <3>1 DEF DestroyPost, TypeOK
    <2> QED BY <1>9, <2>1, <2>2 DEF DestroyPost
<1>10. CASE Handler
    <2>1. CASE Complete
        <3>1. Tail(batch) \in Seq(Tasks)
            BY <2>1 DEF Complete, TypeOK
        <3> QED
            BY <2>1, <3>1 DEF Complete, pool, TypeOK, MainPoints
    <2>2. CASE Collect \/ HandlerReturns \/ Completed
        <3>1. << >> \in Seq(Tasks)
            OBVIOUS
        <3> QED
            BY <2>2, <3>1
            DEF Collect, HandlerReturns, Completed, pool, TypeOK, MainPoints
    <2> QED BY <1>10, <2>1, <2>2 DEF Handler
<1>11. CASE DestroySpin
    BY <1>0, <1>11 DEF DestroySpin, pool, TypeOK, Control, MainPoints
<1>12. CASE CreateThreadFails \/ ExitWorker \/ DestroyEnd
    BY <1>12
    DEF CreateThreadFails, ExitWorker, DestroyEnd, pool, TypeOK, MainPoints
<1>13. CASE UNCHANGED vars
    BY <1>13 DEF vars, TypeOK
<1> QED
    BY <1>1, <1>2, <1>3, <1>4, <1>5, <1>6, <1>8, <1>9, <1>10, <1>11, <1>12,
       <1>13
    DEF Next, Cycle, Destroy

-----------------------------------------------------------------------------
(* The inductive invariant holds in every reachable state. *)
THEOREM InductiveInvariant == Spec => []IInv
<1>1. Init => IInv
    <2> SUFFICES ASSUME Init PROVE IInv
        OBVIOUS
    <2>1. Cardinality(Threads) \in Nat
        BY ThreadsAssumption, FS_CardinalityType
    <2>2. TypeOK
        <3>1. /\ queue \in Seq(AllTasks)
              /\ done \in Seq(Tasks)
              /\ batch \in Seq(Tasks)
            BY DEF Init
        <3>2. /\ exited \in 0 .. Cardinality(Threads)
              /\ errors \in 0 .. MaxErrors
              /\ waiting \in Int
              /\ spin \in {0, 1}
            BY <2>1, MaxErrorsAssumption DEF Init
        <3>3. /\ pc \in [Threads -> ThreadPoints]
              /\ current \in [Threads -> AllTasks \cup {None}]
              /\ main \in MainPoints
            BY DEF Init, ThreadPoints, MainPoints
        <3>4. /\ notified \in BOOLEAN
              /\ active \in SUBSET AllTasks
              /\ refused \in SUBSET AllTasks
            BY DEF Init
        <3> QED BY <3>1, <3>2, <3>3, <3>4 DEF TypeOK
    <2>3. Control
        BY DEF Init, Control
    <2>4. /\ Count(pc, "wait") = 0
          /\ Count(pc, "woken") = 0
          /\ Count(pc, "failed") = 0
        BY CountZero DEF Init
    <2>5. Counts
        BY <2>4, MaxQueueAssumption DEF Init, Counts
    <2> QED BY <2>2, <2>3, <2>5 DEF IInv
<1>2. IInv /\ [Next]_vars => IInv'
    BY TypeInductive, ControlInductive, CountsInductive DEF IInv
<1> QED
    BY <1>1, <1>2, PTL DEF Spec

(* Type correctness. *)
THEOREM TypeCorrect == Spec => []TypeOK
<1>1. IInv => TypeOK
    BY DEF IInv
<1> QED
    BY <1>1, InductiveInvariant, PTL

(* tp->waiting is the number of tasks no idle thread is about to take. *)
THEOREM WaitingIsExact == Spec => []WaitingCounts
<1>1. IInv => WaitingCounts
    BY CountedSets, CountIsNatural
    DEF IInv, TypeOK, Counts, WaitingCounts
<1> QED
    BY <1>1, InductiveInvariant, PTL

(* While all threads are busy, at most max_queue tasks are queued. *)
THEOREM QueueIsBounded == Spec => []QueueBounded
<1>1. IInv => QueueBounded
    <2> SUFFICES ASSUME IInv, Idle \cup Failed = {}
                 PROVE  Len(queue) <= MaxQueue
        BY DEF QueueBounded
    <2>1. /\ Count(pc, "wait") = 0
          /\ Count(pc, "woken") = 0
          /\ Count(pc, "failed") = 0
        BY CountZero DEF Idle, Failed, Waiting, Woken
    <2> QED
        BY <2>1, MaxQueueAssumption DEF IInv, TypeOK, Counts
<1> QED
    BY <1>1, InductiveInvariant, PTL

(* No thread sleeps while a task is queued that nobody is on the way to take. *)
THEOREM WakeupsSuffice == Spec => []NoSleepingOnWork
<1>1. IInv => NoSleepingOnWork
    <2> SUFFICES ASSUME IInv, Waiting # {}
                 PROVE  Len(queue) <= Cardinality(Woken)
        BY DEF NoSleepingOnWork
    <2>1. Count(pc, "wait") > 0
        BY CountZero, CountIsNatural DEF Waiting
    <2> QED
        BY <2>1, CountedSets DEF IInv, Counts
<1> QED
    BY <1>1, InductiveInvariant, PTL

-----------------------------------------------------------------------------
(***************************************************************************)
(* Where a task is.  A step moves a task from one list or thread to the    *)
(* next: what one of the numbers that ActiveOnce adds up loses, another    *)
(* gains.  One turns a condition into a number.                            *)
(***************************************************************************)
One(b) == IF b THEN 1 ELSE 0

(* 1 when x is y, and 0 otherwise. *)
Is(x, y) == IF x = y THEN 1 ELSE 0

LEMMA OccurrencesNatural ==
    ASSUME NEW T, NEW s \in Seq(T), NEW k
    PROVE  /\ IsFiniteSet({i \in DOMAIN s : s[i] = k})
           /\ Occurrences(s, k) \in Nat
<1>1. PICK n \in Nat : n = Len(s) /\ DOMAIN s = 1 .. n
    OBVIOUS
<1>2. IsFiniteSet(1 .. n)
    BY FS_Interval
<1>3. IsFiniteSet({i \in DOMAIN s : s[i] = k})
    BY <1>1, <1>2, FS_Subset
<1> QED
    BY <1>3, FS_CardinalityType DEF Occurrences

LEMMA OccurrencesEmpty ==
    ASSUME NEW k
    PROVE  Occurrences(<< >>, k) = 0
<1>1. {i \in DOMAIN << >> : << >>[i] = k} = {}
    OBVIOUS
<1> QED
    BY <1>1, FS_EmptySet DEF Occurrences

LEMMA OccurrencesZero ==
    ASSUME NEW T, NEW s \in Seq(T), NEW k, Occurrences(s, k) = 0
    PROVE  \A i \in DOMAIN s : s[i] # k
<1>1. {i \in DOMAIN s : s[i] = k} = {}
    BY OccurrencesNatural, FS_EmptySet DEF Occurrences
<1> QED
    BY <1>1

LEMMA OccurrencesAppend ==
    ASSUME NEW T, NEW s \in Seq(T), NEW e \in T, NEW k
    PROVE  Occurrences(Append(s, e), k) = Occurrences(s, k) + Is(e, k)
<1>1. PICK n \in Nat : n = Len(s) /\ DOMAIN s = 1 .. n
    OBVIOUS
<1>2. PICK t : t = Append(s, e)
    OBVIOUS
<1>3. /\ DOMAIN t = 1 .. n + 1 /\ t[n + 1] = e
      /\ \A i \in 1 .. n : t[i] = s[i]
    BY <1>1, <1>2
<1>4. PICK F : F = {i \in DOMAIN s : s[i] = k}
    OBVIOUS
<1>5. PICK G : G = {i \in DOMAIN t : t[i] = k}
    OBVIOUS
<1>6. IsFiniteSet(F)
    BY <1>4, OccurrencesNatural
<1>7. CASE e = k
    <2>1. G = F \cup {n + 1} /\ n + 1 \notin F
        BY <1>1, <1>3, <1>4, <1>5, <1>7
    <2>2. Cardinality(G) = Cardinality(F) + 1
        BY <1>6, <2>1, FS_AddElement
    <2> QED
        BY <1>2, <1>4, <1>5, <1>7, <2>2 DEF Occurrences, One, Is
<1>8. CASE e # k
    <2>1. G = F
        BY <1>1, <1>3, <1>4, <1>5, <1>8
    <2>2. Cardinality(F) \in Nat
        BY <1>6, FS_CardinalityType
    <2>3. Is(e, k) = 0
        BY <1>8 DEF One, Is
    <2>4. Cardinality(G) = Cardinality(F) + Is(e, k)
        BY <2>1, <2>2, <2>3
    <2> QED
        BY <1>2, <1>4, <1>5, <2>4 DEF Occurrences
<1> QED
    BY <1>7, <1>8

LEMMA OccurrencesTail ==
    ASSUME NEW T, NEW s \in Seq(T), s # << >>, NEW k
    PROVE  Occurrences(Tail(s), k) = Occurrences(s, k) - Is(Head(s), k)
<1>1. PICK n \in Nat \ {0} : n = Len(s) /\ DOMAIN s = 1 .. n
    OBVIOUS
<1>2. PICK t : t = Tail(s)
    OBVIOUS
<1>3. /\ DOMAIN t = 1 .. n - 1 /\ Head(s) = s[1]
      /\ \A i \in 1 .. n - 1 : t[i] = s[i + 1]
    BY <1>1, <1>2
<1>4. PICK F : F = {i \in DOMAIN s : s[i] = k}
    OBVIOUS
<1>5. PICK G : G = {i \in DOMAIN t : t[i] = k}
    OBVIOUS
<1>6. PICK H : H = {i \in 2 .. n : s[i] = k}
    OBVIOUS
<1>7. F \subseteq 1 .. n /\ G \subseteq 1 .. n - 1 /\ H \subseteq 2 .. n
    BY <1>1, <1>3, <1>4, <1>5, <1>6
<1>8. IsFiniteSet(F)
    BY <1>4, OccurrencesNatural
<1>9. Cardinality(G) = Cardinality(H) /\ IsFiniteSet(H)
    <2> DEFINE f == [i \in G |-> i + 1]
    <2>1. \A i \in G : i + 1 \in H
        BY <1>1, <1>3, <1>5, <1>6
    <2>2. ASSUME NEW j \in H PROVE \E i \in G : f[i] = j
        <3>1. j - 1 \in G
            <4>1. j - 1 \in 1 .. n - 1 /\ (j - 1) + 1 = j
                BY <1>1, <1>7
            <4>2. t[j - 1] = s[j]
                BY <1>3, <4>1
            <4> QED
                BY <1>3, <1>5, <1>6, <4>1, <4>2
        <3>2. (j - 1) + 1 = j
            BY <1>7
        <3> QED
            BY <3>1, <3>2
    <2>3. \A a, b \in G : f[a] = f[b] => a = b
        BY <1>7
    <2>4. f \in [G -> H]
        BY <2>1
    <2>5. f \in Bijection(G, H)
        BY <2>2, <2>3, <2>4 DEF Bijection, Injection, Surjection, IsInjective
    <2>6. IsFiniteSet(1 .. n - 1)
        BY FS_Interval
    <2>7. IsFiniteSet(G)
        BY <1>7, <2>6, FS_Subset
    <2>8. ExistsBijection(G, H)
        BY <2>5 DEF ExistsBijection
    <2> QED
        BY <2>7, <2>8, FS_Bijection
<1>10. F \ {1} = H
    BY <1>1, <1>4, <1>6
<1>11. CASE Head(s) = k
    <2>1. 1 \in F
        BY <1>1, <1>3, <1>4, <1>11
    <2>2. Cardinality(H) = Cardinality(F) - 1
        BY <1>8, <1>10, <2>1, FS_RemoveElement
    <2> QED
        BY <1>2, <1>4, <1>5, <1>9, <1>11, <2>2 DEF Occurrences, One, Is
<1>12. CASE Head(s) # k
    <2>1. H = F
        BY <1>1, <1>3, <1>4, <1>10, <1>12
    <2>2. Cardinality(F) \in Nat
        BY <1>8, FS_CardinalityType
    <2>3. Is(Head(s), k) = 0
        BY <1>12 DEF One, Is
    <2>4. Cardinality(G) = Cardinality(F) - Is(Head(s), k)
        BY <1>9, <2>1, <2>2, <2>3
    <2> QED
        BY <1>2, <1>4, <1>5, <2>4 DEF Occurrences
<1> QED
    BY <1>11, <1>12

(* Thread t has x from now on instead of what it had. *)
Change(f, g, t, x, c) == Count(g, c) = Count(f, c) - Is(f[t], c) + Is(x, c)

LEMMA CountChange ==
    ASSUME NEW S, NEW f \in [Threads -> S], NEW g \in [Threads -> S],
           NEW t \in Threads, NEW x, NEW c,
           g[t] = x, \A u \in Threads \ {t} : g[u] = f[u]
    PROVE  Change(f, g, t, x, c)
<1>3. PICK F : F = {u \in Threads : f[u] = c}
    OBVIOUS
<1>4. PICK G : G = {u \in Threads : g[u] = c}
    OBVIOUS
<1>5. IsFiniteSet(F) /\ IsFiniteSet(G)
    BY <1>3, <1>4, ThreadsAssumption, FS_Subset
<1>6. F \ {t} = G \ {t}
    BY <1>3, <1>4
<1>7. /\ Cardinality(F) \in Nat
      /\ Cardinality(F \ {t}) = Cardinality(F) - Is(f[t], c)
    <2>1. CASE f[t] = c
        BY <1>3, <1>5, <2>1, FS_RemoveElement, FS_CardinalityType DEF One, Is
    <2>2. CASE f[t] # c
        <3>1. F \ {t} = F
            BY <1>3, <2>2
        <3>2. Cardinality(F) \in Nat
            BY <1>5, FS_CardinalityType
        <3> QED
            BY <2>2, <3>1, <3>2 DEF One, Is
    <2> QED
        BY <2>1, <2>2
<1>8. /\ Cardinality(G) \in Nat
      /\ Cardinality(G \ {t}) = Cardinality(G) - Is(x, c)
    <2>1. CASE x = c
        <3>1. t \in G /\ Is(x, c) = 1
            BY <1>4, <2>1 DEF One, Is
        <3> QED
            BY <1>5, <3>1, FS_RemoveElement, FS_CardinalityType
    <2>2. CASE x # c
        <3>1. G \ {t} = G
            BY <1>4, <2>2
        <3>2. Cardinality(G) \in Nat
            BY <1>5, FS_CardinalityType
        <3> QED
            BY <2>2, <3>1, <3>2 DEF One, Is
    <2> QED
        BY <2>1, <2>2
<1>9. Is(f[t], c) \in 0 .. 1 /\ Is(x, c) \in 0 .. 1
    BY DEF One, Is
<1>10. PICK a, b, v, w : /\ a = Cardinality(F) /\ b = Cardinality(G)
                         /\ v = Is(f[t], c) /\ w = Is(x, c)
    OBVIOUS
<1>11. a - v = b - w
    BY <1>6, <1>7, <1>8, <1>10
<1>12. b = a - v + w
    BY <1>7, <1>8, <1>9, <1>10, <1>11
<1> QED
    BY <1>3, <1>4, <1>10, <1>12 DEF Count, Change

-----------------------------------------------------------------------------
(***************************************************************************)
(* The invariant of the tasks.  A thread without a task has none to lose;  *)
(* a refused task stays active.                                            *)
(***************************************************************************)
Empty == \A t \in Threads : pc[t] \notin {"run", "append"} => current[t] = None

RefusedActive == refused \cap Tasks \subseteq active

Once == Empty /\ RefusedActive /\ ActiveOnce

(* What ActiveOnce adds up. *)
Places(q, d, b, f, k) ==
    Occurrences(q, k) + Occurrences(d, k) + Occurrences(b, k) + Count(f, k)

LEMMA OnceNext ==
    ASSUME \A k \in Tasks : Places(queue', done', batch', current', k)
                                = One(k \in active' \ refused')
    PROVE  ActiveOnce'
BY DEF ActiveOnce, Places, Count, One, Is

LEMMA OnceNow ==
    ASSUME ActiveOnce, NEW k \in Tasks
    PROVE  Places(queue, done, batch, current, k) = One(k \in active \ refused)
BY DEF ActiveOnce, Places, Count, One, Is

LEMMA PlacesNatural ==
    ASSUME TypeOK, NEW k
    PROVE  /\ Occurrences(queue, k) \in Nat /\ Occurrences(done, k) \in Nat
           /\ Occurrences(batch, k) \in Nat /\ Count(current, k) \in Nat
BY OccurrencesNatural, CountIsNatural DEF TypeOK

(* A step that leaves the tasks where they are. *)
LEMMA OnceKept ==
    ASSUME ActiveOnce, UNCHANGED <<queue, done, batch, current, active, refused>>
    PROVE  ActiveOnce'
BY DEF ActiveOnce

(* A thread takes a task, after it took the mutex or was woken. *)
LEMMA OnceTake ==
    ASSUME TypeOK, Once, NEW t \in Threads, pc[t] \in {"top", "woken"},
           queue # << >>, Take(t, queue),
           UNCHANGED <<active, done, batch, refused>>
    PROVE  Once'
<1>1. current[t] = None
    BY DEF Once, Empty
<1>2. PICK h \in AllTasks : h = Head(queue)
    BY TakeFacts
<1>3. queue' = Tail(queue) /\ current' = [current EXCEPT ![t] = h]
    BY <1>2 DEF Take
<1>4. ASSUME NEW k \in Tasks
      PROVE  Places(queue', done', batch', current', k)
                 = One(k \in active' \ refused')
    <2>1. Occurrences(queue', k) = Occurrences(queue, k) - Is(h, k)
        BY <1>2, <1>3, OccurrencesTail DEF TypeOK
    <2>2. Count(current', k) = Count(current, k) - Is(current[t], k) + Is(h, k)
        <3>1. /\ current \in [Threads -> AllTasks \cup {None}]
              /\ current' \in [Threads -> AllTasks \cup {None}]
            BY <1>3 DEF TypeOK
        <3>2. current'[t] = h /\ \A u \in Threads \ {t} : current'[u] = current[u]
            BY <1>3, <3>1
        <3>3. Change(current, current', t, h, k)
            BY <3>1, <3>2, CountChange
        <3> QED
            BY <1>3, <3>3 DEF Change
    <2>3. Is(current[t], k) = 0
        BY <1>1, TasksAssumption DEF One, Is
    <2>4. Is(h, k) \in 0 .. 1
        BY DEF One, Is
    <2>5. Places(queue', done', batch', current', k)
              = Places(queue, done, batch, current, k)
        BY <2>1, <2>2, <2>3, <2>4, PlacesNatural DEF Places
    <2> QED
        BY <2>5, OnceNow DEF Once
<1>5. ActiveOnce'
    BY <1>4, OnceNext
<1>6. Empty'
    BY <1>3 DEF Once, Empty, Take, Goto, TypeOK
<1>7. RefusedActive'
    BY DEF Once, RefusedActive
<1> QED
    BY <1>5, <1>6, <1>7 DEF Once

LEMMA OnceAppendDone ==
    ASSUME TypeOK, Control, Once, NEW t \in Threads, AppendDone(t)
    PROVE  Once'
<1>1. PICK h \in Tasks : h = current[t]
    BY DEF AppendDone, Control
<1>2. /\ done' = Append(done, h) /\ current' = [current EXCEPT ![t] = None]
      /\ UNCHANGED <<queue, batch, active, refused>>
    BY <1>1 DEF AppendDone, pool, loop
<1>3. ASSUME NEW k \in Tasks
      PROVE  Places(queue', done', batch', current', k)
                 = One(k \in active' \ refused')
    <2>1. Occurrences(done', k) = Occurrences(done, k) + Is(h, k)
        BY <1>2, OccurrencesAppend DEF TypeOK
    <2>2. Count(current', k) = Count(current, k) - Is(h, k) + Is(None, k)
        <3>1. /\ current \in [Threads -> AllTasks \cup {None}]
              /\ current' \in [Threads -> AllTasks \cup {None}]
            BY <1>1, <1>2 DEF TypeOK
        <3>2. current'[t] = None /\ \A u \in Threads \ {t} : current'[u] = current[u]
            BY <1>1, <1>2, <3>1
        <3>3. Change(current, current', t, None, k)
            BY <3>1, <3>2, CountChange
        <3> QED
            BY <1>1, <1>2, <3>3 DEF Change
    <2>3. Is(None, k) = 0
        BY TasksAssumption DEF One, Is
    <2>4. Is(h, k) \in 0 .. 1
        BY DEF One, Is
    <2>5. Places(queue', done', batch', current', k)
              = Places(queue, done, batch, current, k)
        BY <1>2, <2>1, <2>2, <2>3, <2>4, PlacesNatural DEF Places
    <2> QED
        BY <1>2, <2>5, OnceNow DEF Once
<1>4. ActiveOnce'
    BY <1>3, OnceNext
<1>5. Empty'
    BY <1>2 DEF Once, Empty, AppendDone, Goto, TypeOK
<1>6. RefusedActive'
    BY <1>2 DEF Once, RefusedActive
<1> QED
    BY <1>4, <1>5, <1>6 DEF Once

LEMMA OnceRunExit ==
    ASSUME TypeOK, Once, NEW t \in Threads, RunExit(t)
    PROVE  Once'
<1>1. /\ current[t] = Exit /\ current' = [current EXCEPT ![t] = None]
      /\ UNCHANGED <<queue, done, batch, active, refused>>
    BY DEF RunExit, pool, loop
<1>2. ASSUME NEW k \in Tasks
      PROVE  Places(queue', done', batch', current', k)
                 = One(k \in active' \ refused')
    <2>1. Count(current', k) = Count(current, k) - Is(Exit, k) + Is(None, k)
        <3>1. /\ current \in [Threads -> AllTasks \cup {None}]
              /\ current' \in [Threads -> AllTasks \cup {None}]
            BY <1>1 DEF TypeOK
        <3>2. current'[t] = None /\ \A u \in Threads \ {t} : current'[u] = current[u]
            BY <1>1, <3>1
        <3>3. Change(current, current', t, None, k)
            BY <3>1, <3>2, CountChange
        <3> QED
            BY <1>1, <3>3 DEF Change
    <2>2. Is(None, k) = 0 /\ Is(Exit, k) = 0
        BY TasksAssumption DEF One, Is
    <2>3. Places(queue', done', batch', current', k)
              = Places(queue, done, batch, current, k)
        BY <1>1, <2>1, <2>2, PlacesNatural DEF Places
    <2> QED
        BY <1>1, <2>3, OnceNow DEF Once
<1>3. ActiveOnce'
    BY <1>2, OnceNext
<1>4. Empty'
    BY <1>1 DEF Once, Empty, RunExit, Goto, TypeOK
<1>5. RefusedActive'
    BY <1>1 DEF Once, RefusedActive
<1> QED
    BY <1>3, <1>4, <1>5 DEF Once

(* The finished tasks become the batch, which was empty in the event loop. *)
LEMMA OnceCollect ==
    ASSUME TypeOK, Once, main = "loop" => batch = << >>, Collect
    PROVE  Once'
<1>1. /\ batch = << >> /\ batch' = done /\ done' = << >>
      /\ UNCHANGED <<queue, current, active, refused, pc>>
    BY DEF Collect, pool
<1>2. ASSUME NEW k \in Tasks
      PROVE  Places(queue', done', batch', current', k)
                 = One(k \in active' \ refused')
    <2>1. Occurrences(batch, k) = 0 /\ Occurrences(done', k) = 0
        BY <1>1, OccurrencesEmpty
    <2>2. Places(queue', done', batch', current', k)
              = Places(queue, done, batch, current, k)
        BY <1>1, <2>1, PlacesNatural DEF Places
    <2> QED
        BY <1>1, <2>2, OnceNow DEF Once
<1>3. ActiveOnce'
    BY <1>2, OnceNext
<1>4. Empty' /\ RefusedActive'
    BY <1>1 DEF Once, Empty, RefusedActive
<1> QED
    BY <1>3, <1>4 DEF Once

(* A task of the batch is nowhere else and was not refused. *)
LEMMA OnceComplete ==
    ASSUME TypeOK, Once, Complete
    PROVE  Once'
<1>1. /\ batch # << >> /\ batch' = Tail(batch)
      /\ UNCHANGED <<queue, done, current, refused, pc>>
    BY DEF Complete, pool
<1>2. PICK h \in Tasks : h = Head(batch)
    BY <1>1 DEF TypeOK
<1>3. active' = active \ {h}
    BY <1>2 DEF Complete
<1>4. ASSUME NEW k \in Tasks
      PROVE  Places(queue', done', batch', current', k)
                 = Places(queue, done, batch, current, k) - Is(h, k)
    <2>1. Occurrences(batch', k) = Occurrences(batch, k) - Is(h, k)
        BY <1>1, <1>2, OccurrencesTail DEF TypeOK
    <2>2. Is(h, k) \in 0 .. 1
        BY DEF One, Is
    <2> QED
        BY <1>1, <2>1, <2>2, PlacesNatural DEF Places
<1>5. h \in active \ refused
    <2>1. Occurrences(batch', h) = Occurrences(batch, h) - Is(h, h)
        BY <1>1, <1>2, OccurrencesTail DEF TypeOK
    <2>2. Is(h, h) = 1
        BY DEF One, Is
    <2>3. Occurrences(batch', h) \in Nat
        <3>1. batch' \in Seq(Tasks)
            BY <1>1 DEF TypeOK
        <3> QED
            BY <3>1, OccurrencesNatural
    <2>4. Places(queue, done, batch, current, h) > 0
        BY <2>1, <2>2, <2>3, PlacesNatural DEF Places
    <2> QED
        BY <2>4, OnceNow DEF Once, One, Is
<1>6. ASSUME NEW k \in Tasks
      PROVE  Places(queue', done', batch', current', k)
                 = One(k \in active' \ refused')
    <2>1. Places(queue, done, batch, current, k) = One(k \in active \ refused)
        BY OnceNow DEF Once
    <2>2. CASE h = k
        <3>1. Is(h, k) = 1 /\ One(k \in active \ refused) = 1
              /\ One(k \in active' \ refused') = 0
            BY <1>3, <1>5, <2>2 DEF One, Is
        <3> QED
            BY <1>4, <2>1, <3>1
    <2>3. CASE h # k
        <3>1. Is(h, k) = 0
              /\ One(k \in active' \ refused') = One(k \in active \ refused)
            BY <1>1, <1>3, <2>3 DEF One, Is
        <3>2. One(k \in active \ refused) \in 0 .. 1
            BY DEF One, Is
        <3> QED
            BY <1>4, <2>1, <3>1, <3>2
    <2> QED
        BY <2>2, <2>3
<1>7. ActiveOnce'
    BY <1>6, OnceNext
<1>8. Empty'
    BY <1>1 DEF Once, Empty
<1>9. RefusedActive'
    BY <1>1, <1>3, <1>5 DEF Once, RefusedActive
<1> QED
    BY <1>7, <1>8, <1>9 DEF Once

LEMMA EmptyPosted ==
    ASSUME TypeOK, Empty, UNCHANGED current, Signal \/ UNCHANGED pc
    PROVE  Empty'
<1>1. CASE UNCHANGED pc
    BY <1>1 DEF Empty
<1>2. ASSUME NEW t \in Waiting, Goto(t, "woken") PROVE Empty'
    BY <1>2 DEF Empty, Waiting, Goto, TypeOK
<1> QED
    BY <1>1, <1>2 DEF Signal

LEMMA OncePosted ==
    ASSUME TypeOK, Once, NEW e \in AllTasks, NEW next, Posted(e, next),
           UNCHANGED <<current, done, batch>>
    PROVE  Once'
<1>1. /\ e \notin active /\ active' = active \cup {e}
      /\ queue' = Append(queue, e) /\ UNCHANGED refused /\ Signal
    BY DEF Posted
<1>2. ASSUME NEW k \in Tasks
      PROVE  Places(queue', done', batch', current', k)
                 = One(k \in active' \ refused')
    <2>1. Occurrences(queue', k) = Occurrences(queue, k) + Is(e, k)
        BY <1>1, OccurrencesAppend DEF TypeOK
    <2>2. Is(e, k) \in 0 .. 1
        BY DEF One, Is
    <2>3. Places(queue', done', batch', current', k)
              = Places(queue, done, batch, current, k) + Is(e, k)
        BY <2>1, <2>2, PlacesNatural DEF Places
    <2>4. Places(queue, done, batch, current, k) = One(k \in active \ refused)
        BY OnceNow DEF Once
    <2>5. CASE e = k
        <3>1. k \notin refused
            BY <1>1, <2>5 DEF Once, RefusedActive
        <3>2. Is(e, k) = 1 /\ One(k \in active \ refused) = 0
              /\ One(k \in active' \ refused') = 1
            BY <1>1, <2>5, <3>1 DEF One, Is
        <3> QED
            BY <2>3, <2>4, <3>2
    <2>6. CASE e # k
        <3>1. Is(e, k) = 0
              /\ One(k \in active' \ refused') = One(k \in active \ refused)
            BY <1>1, <2>6 DEF One, Is
        <3>2. One(k \in active \ refused) \in 0 .. 1
            BY DEF One, Is
        <3> QED
            BY <2>3, <2>4, <3>1, <3>2
    <2> QED
        BY <2>5, <2>6
<1>3. ActiveOnce'
    BY <1>2, OnceNext
<1>4. Empty'
    BY <1>1, EmptyPosted DEF Once
<1>5. RefusedActive'
    BY <1>1 DEF Once, RefusedActive
<1> QED
    BY <1>3, <1>4, <1>5 DEF Once

LEMMA OncePostFails ==
    ASSUME TypeOK, Once, NEW e \in AllTasks, NEW next, PostFails(e, next),
           UNCHANGED <<current, done, batch>>
    PROVE  Once'
<1>1. /\ UNCHANGED <<queue, pc>>
      /\ \/ UNCHANGED <<active, refused>>
         \/ /\ e \notin active
            /\ active' = active \cup {e} /\ refused' = refused \cup {e}
    BY DEF PostFails, pool
<1>2. ASSUME NEW k \in Tasks
      PROVE  Places(queue', done', batch', current', k)
                 = One(k \in active' \ refused')
    <2>1. k \in active' \ refused' <=> k \in active \ refused
        BY <1>1
    <2>2. One(k \in active' \ refused') = One(k \in active \ refused)
        BY <2>1 DEF One, Is
    <2> QED
        BY <1>1, <2>2, OnceNow DEF Once
<1>3. ActiveOnce'
    BY <1>2, OnceNext
<1>4. Empty' /\ RefusedActive'
    BY <1>1 DEF Once, Empty, RefusedActive
<1> QED
    BY <1>3, <1>4 DEF Once

(* Outside of ngx_thread_pool_handler() the event loop has no batch. *)
BatchDone == main \notin {"complete", "handler"} => batch = << >>

LEMMA BatchInductive ==
    ASSUME TypeOK, BatchDone, [Next]_vars
    PROVE  BatchDone'
<1> USE DEF BatchDone
<1>1. ASSUME NEW t \in Threads,
             CreateThread(t) \/ Cycle(t) \/ SpuriousWakeup(t) \/ WaitFails(t)
      PROVE  BatchDone'
    <2>1. batch' = batch /\ (main' = main \/ main = "init")
        BY <1>1 DEF CreateThread, Cycle, Enter, Wake, RunTask, RunExit,
            AppendDone, Notify, SpuriousWakeup, WaitFails, loop
    <2> QED
        BY <2>1
<1>2. ASSUME NEW k \in Tasks, Post(k)
      PROVE  BatchDone'
    BY <1>2 DEF Post, Posted, PostFails
<1>3. CASE Handler
    BY <1>3 DEF Handler, Collect, Complete, HandlerReturns, Completed
<1>4. CASE CreateThreadFails \/ ExitWorker \/ DestroySpin \/ DestroyEnd
    BY <1>4 DEF CreateThreadFails, ExitWorker, DestroySpin, DestroyEnd
<1>5. CASE DestroyPost
    BY <1>5 DEF DestroyPost, Posted, PostFails
<1>6. CASE UNCHANGED vars
    BY <1>6 DEF vars
<1> QED
    BY <1>1, <1>2, <1>3, <1>4, <1>5, <1>6 DEF Next, Destroy

(* The steps that leave all tasks where they are. *)
LEMMA OnceQuiet ==
    ASSUME Once, Empty',
           UNCHANGED <<queue, done, batch, current, active, refused>>
    PROVE  Once'
<1>1. ActiveOnce'
    BY OnceKept DEF Once
<1>2. RefusedActive'
    BY DEF Once, RefusedActive
<1> QED
    BY <1>1, <1>2 DEF Once

LEMMA OnceQuietThread ==
    ASSUME TypeOK, Once, NEW t \in Threads,
           \/ CreateThread(t) \/ SpuriousWakeup(t) \/ WaitFails(t)
           \/ RunTask(t) \/ Notify(t)
    PROVE  Once'
<1>1. UNCHANGED <<queue, done, batch, current, active, refused>>
    BY DEF CreateThread, SpuriousWakeup, WaitFails, RunTask, Notify, pool, loop
<1>2. PICK p : /\ pc' = [pc EXCEPT ![t] = p]
               /\ p \in {"run", "append"} => pc[t] \in {"run", "append"}
               /\ p \notin {"run", "append"} => pc[t] \notin {"run", "append"}
    BY DEF CreateThread, SpuriousWakeup, WaitFails, RunTask, Notify, Goto
<1>3. Empty'
    BY <1>1, <1>2 DEF Once, Empty, TypeOK
<1> QED
    BY <1>1, <1>3, OnceQuiet

LEMMA OnceEnter ==
    ASSUME TypeOK, Once, NEW t \in Threads, Enter(t) \/ Wake(t)
    PROVE  Once'
<1>1. pc[t] \in {"top", "woken"} /\ UNCHANGED <<active, done, batch, refused>>
    BY DEF Enter, Wake, loop
<1>2. CASE queue # << >>
    <2>1. Take(t, queue)
        BY <1>2 DEF Enter, Wake
    <2> QED
        BY <1>1, <1>2, <2>1, OnceTake
<1>3. CASE queue = << >>
    <2>1. Goto(t, "wait") /\ UNCHANGED <<queue, current>>
        BY <1>3 DEF Enter, Wake
    <2>2. Empty'
        BY <1>1, <2>1 DEF Once, Empty, Goto, TypeOK
    <2> QED
        BY <1>1, <2>1, <2>2, OnceQuiet
<1> QED
    BY <1>2, <1>3

(* ngx_thread_pool_destroy() marks its own task, which ActiveOnce leaves out. *)
LEMMA OnceSpin ==
    ASSUME Once, DestroySpin
    PROVE  Once'
<1>1. /\ UNCHANGED <<queue, done, batch, current, pc, refused>>
      /\ active' = active \ {Exit}
    BY DEF DestroySpin, pool
<1>2. ASSUME NEW k \in Tasks
      PROVE  Places(queue', done', batch', current', k)
                 = One(k \in active' \ refused')
    <2>1. k \in active' \ refused' <=> k \in active \ refused
        BY <1>1, TasksAssumption
    <2>2. One(k \in active' \ refused') = One(k \in active \ refused)
        BY <2>1 DEF One
    <2> QED
        BY <1>1, <2>2, OnceNow DEF Once
<1>3. ActiveOnce'
    BY <1>2, OnceNext
<1>4. Empty' /\ RefusedActive'
    BY <1>1, TasksAssumption DEF Once, Empty, RefusedActive
<1> QED
    BY <1>3, <1>4 DEF Once

LEMMA OnceInductive ==
    ASSUME TypeOK, Control, BatchDone, Once, [Next]_vars
    PROVE  Once'
<1>1. ASSUME NEW t \in Threads,
             CreateThread(t) \/ Cycle(t) \/ SpuriousWakeup(t) \/ WaitFails(t)
      PROVE  Once'
    BY <1>1, OnceQuietThread, OnceEnter, OnceRunExit, OnceAppendDone DEF Cycle
<1>2. ASSUME NEW k \in Tasks, Post(k)
      PROVE  Once'
    <2>1. k \in AllTasks
        BY DEF AllTasks
    <2>2. /\ UNCHANGED <<current, done, batch>>
          /\ Posted(k, main) \/ PostFails(k, main)
        BY <1>2 DEF Post
    <2> QED
        BY <2>1, <2>2, OncePosted, OncePostFails
<1>3. CASE Collect
    BY <1>3, OnceCollect DEF BatchDone
<1>4. CASE Complete
    BY <1>4, OnceComplete
<1>5. CASE HandlerReturns \/ Completed \/ CreateThreadFails \/ ExitWorker
           \/ DestroyEnd
    <2>1. UNCHANGED <<queue, done, batch, current, active, refused, pc>>
        BY <1>5 DEF HandlerReturns, Completed, CreateThreadFails, ExitWorker,
            DestroyEnd, pool
    <2>2. Empty'
        BY <2>1 DEF Once, Empty
    <2> QED
        BY <2>1, <2>2, OnceQuiet
<1>6. CASE DestroyPost
    <2>1. Exit \in AllTasks
        BY DEF AllTasks
    <2>2. /\ UNCHANGED <<current, done, batch>>
          /\ Posted(Exit, "spin") \/ PostFails(Exit, "left")
        BY <1>6 DEF DestroyPost
    <2> QED
        BY <2>1, <2>2, OncePosted, OncePostFails
<1>7. CASE DestroySpin
    BY <1>7, OnceSpin
<1>8. CASE UNCHANGED vars
    <2>1. UNCHANGED <<queue, done, batch, current, active, refused, pc>>
        BY <1>8 DEF vars
    <2>2. Empty'
        BY <2>1 DEF Once, Empty
    <2> QED
        BY <2>1, <2>2, OnceQuiet
<1> QED
    BY <1>1, <1>2, <1>3, <1>4, <1>5, <1>6, <1>7, <1>8
    DEF Next, Handler, Destroy

LEMMA OnceInit == Init => Once /\ BatchDone
<1> SUFFICES ASSUME Init PROVE Once /\ BatchDone
    OBVIOUS
<1>1. Empty /\ RefusedActive /\ BatchDone
    BY DEF Init, Empty, RefusedActive, BatchDone
<1>2. ASSUME NEW k \in Tasks
      PROVE  Occurrences(queue, k) + Occurrences(done, k)
                 + Occurrences(batch, k)
                 + Cardinality({t \in Threads : current[t] = k})
             = IF k \in active \ refused THEN 1 ELSE 0
    <2>1. /\ Occurrences(queue, k) = 0 /\ Occurrences(done, k) = 0
          /\ Occurrences(batch, k) = 0
        BY OccurrencesEmpty DEF Init
    <2>2. Count(current, k) = 0
        BY CountZero, TasksAssumption DEF Init
    <2> QED
        BY <2>1, <2>2 DEF Count, Init
<1> QED
    BY <1>1, <1>2 DEF Once, ActiveOnce

(***************************************************************************)
(* A task is in one place: ngx_thread_task_post() refuses a task that is   *)
(* in the queue, with a thread, finished or in the batch of the event      *)
(* loop, and an inactive task, which its owner may free, is in none of     *)
(* them.                                                                   *)
(***************************************************************************)
THEOREM TasksInOnePlace == Spec => []ActiveOnce
<1>1. Init => Once /\ BatchDone
    BY OnceInit
<1>2. IInv /\ Once /\ BatchDone /\ [Next]_vars => (Once /\ BatchDone)'
    BY OnceInductive, BatchInductive DEF IInv
<1>3. Once => ActiveOnce
    BY DEF Once
<1> QED
    BY <1>1, <1>2, <1>3, InductiveInvariant, PTL DEF Spec

-----------------------------------------------------------------------------
(***************************************************************************)
(* The end of the pool.  ngx_thread_pool_destroy() has at most one exit    *)
(* task under way, queued or with a thread, and it is the one its spin     *)
(* loop waits for; the threads that are gone are the ones it has counted,  *)
(* but for the last.  Nothing is queued behind an exit task: a thread that *)
(* takes one has left nothing but exit tasks behind.                       *)
(***************************************************************************)
Exits == Occurrences(queue, Exit) + Count(current, Exit)

ExitCount ==
    /\ main = "spin" => Exits = spin /\ Count(pc, "gone") = exited + (1 - spin)
    /\ main # "spin" => Exits = 0 /\ Count(pc, "gone") = exited
    /\ ~Exiting => exited = 0
    /\ main = "destroyed" => exited = Cardinality(Threads)

ExitTaken == \E t \in Threads : current[t] = Exit \/ pc[t] = "gone"

ExitLast ==
    /\ \A i \in DOMAIN queue : queue[i] = Exit => i = Len(queue)
    /\ ExitTaken => \A i \in DOMAIN queue : queue[i] = Exit

(* The types the counts have, each by itself. *)
LEMMA ExitTypes ==
    ASSUME TypeOK
    PROVE  /\ exited \in Nat /\ spin \in {0, 1}
           /\ Occurrences(queue, Exit) \in Nat /\ Count(current, Exit) \in Nat
           /\ Exits \in Nat /\ Count(pc, "gone") \in Nat
<1>1. Cardinality(Threads) \in Nat
    BY ThreadsAssumption, FS_CardinalityType
<1>2. exited \in 0 .. Cardinality(Threads) /\ spin \in {0, 1}
    BY DEF TypeOK
<1>3. Occurrences(queue, Exit) \in Nat /\ Count(current, Exit) \in Nat
    BY PlacesNatural
<1>4. Count(pc, "gone") \in Nat
    BY CountIsNatural
<1> QED
    BY <1>1, <1>2, <1>3, <1>4 DEF Exits

(* What a change of one thread's task or point does to the two counts. *)
LEMMA CurrentChange ==
    ASSUME TypeOK, NEW t \in Threads, NEW x \in AllTasks \cup {None},
           current' = [current EXCEPT ![t] = x]
    PROVE  Count(current', Exit)
               = Count(current, Exit) - Is(current[t], Exit) + Is(x, Exit)
<1>1. /\ current \in [Threads -> AllTasks \cup {None}]
      /\ current' \in [Threads -> AllTasks \cup {None}]
    BY DEF TypeOK
<1>2. current'[t] = x /\ \A u \in Threads \ {t} : current'[u] = current[u]
    BY <1>1
<1>3. Change(current, current', t, x, Exit)
    BY <1>1, <1>2, CountChange
<1> QED
    BY <1>3 DEF Change

LEMMA GoneChange ==
    ASSUME TypeOK, NEW t \in Threads, NEW p \in ThreadPoints, Goto(t, p)
    PROVE  Count(pc', "gone")
               = Count(pc, "gone") - Is(pc[t], "gone") + Is(p, "gone")
<1>1. pc \in [Threads -> ThreadPoints] /\ pc' \in [Threads -> ThreadPoints]
    BY DEF TypeOK, Goto
<1>2. pc'[t] = p /\ \A u \in Threads \ {t} : pc'[u] = pc[u]
    BY <1>1 DEF Goto
<1>3. Change(pc, pc', t, p, "gone")
    BY <1>1, <1>2, CountChange
<1> QED
    BY <1>3 DEF Change

LEMMA GoneKept ==
    ASSUME TypeOK, NEW t \in Threads, NEW p \in ThreadPoints, Goto(t, p),
           p # "gone", pc[t] # "gone"
    PROVE  Count(pc', "gone") = Count(pc, "gone")
<1>1. Is(p, "gone") = 0 /\ Is(pc[t], "gone") = 0
    BY DEF Is
<1> QED
    BY <1>1, GoneChange, ExitTypes

LEMMA GoneSignal ==
    ASSUME TypeOK, Signal \/ UNCHANGED pc
    PROVE  /\ Count(pc', "gone") = Count(pc, "gone")
           /\ \A t \in Threads : pc'[t] = "gone" => pc[t] = "gone"
<1>1. CASE UNCHANGED pc
    BY <1>1
<1>2. ASSUME NEW t \in Waiting, Goto(t, "woken")
      PROVE  /\ Count(pc', "gone") = Count(pc, "gone")
             /\ \A u \in Threads : pc'[u] = "gone" => pc[u] = "gone"
    <2>1. t \in Threads /\ pc[t] = "wait" /\ "woken" \in ThreadPoints
        BY <1>2 DEF Waiting, ThreadPoints
    <2>2. Count(pc', "gone") = Count(pc, "gone")
        BY <1>2, <2>1, GoneKept
    <2>3. \A u \in Threads : pc'[u] = "gone" => pc[u] = "gone"
        BY <1>2, <2>1 DEF Goto, TypeOK
    <2> QED
        BY <2>2, <2>3
<1> QED
    BY <1>1, <1>2 DEF Signal

(* A step that neither takes part in destroying the pool nor ends a thread. *)
Aside ==
    /\ Exits' = Exits /\ Count(pc', "gone") = Count(pc, "gone")
    /\ UNCHANGED <<exited, spin>>
    /\ \/ main' = main
       \/ /\ main \notin {"spin", "destroyed"} /\ main' \notin {"spin", "destroyed"}
          /\ Exiting => Exiting'

LEMMA CountAside ==
    ASSUME ExitCount, Aside
    PROVE  ExitCount'
<1>1. Exiting' = (main' \in {"post", "spin", "destroyed", "left"})
    BY DEF Exiting
<1> QED
    BY <1>1 DEF ExitCount, Aside, Exiting

LEMMA LastKept ==
    ASSUME ExitLast, UNCHANGED queue, ExitTaken' => ExitTaken
    PROVE  ExitLast'
BY DEF ExitLast

Ending == ExitCount /\ ExitLast

(* The threads. *)
LEMMA EndingQuietThread ==
    ASSUME TypeOK, Ending, NEW t \in Threads,
           \/ CreateThread(t) \/ SpuriousWakeup(t) \/ WaitFails(t)
           \/ RunTask(t) \/ Notify(t)
    PROVE  Ending'
<1>1. /\ UNCHANGED <<queue, current, exited, spin>>
      /\ \/ main' = main
         \/ main = "init" /\ main' \in {"init", "loop"}
    BY DEF CreateThread, SpuriousWakeup, WaitFails, RunTask, Notify, pool, loop
<1>2. PICK p \in ThreadPoints : Goto(t, p) /\ p # "gone" /\ pc[t] # "gone"
    BY DEF CreateThread, SpuriousWakeup, WaitFails, RunTask, Notify,
        ThreadPoints
<1>3. Count(pc', "gone") = Count(pc, "gone")
    BY <1>2, GoneKept
<1>4. Aside
    BY <1>1, <1>3 DEF Aside, Exits, Exiting
<1>5. ExitTaken' => ExitTaken
    BY <1>1, <1>2 DEF ExitTaken, Goto, TypeOK
<1> QED
    BY <1>1, <1>4, <1>5, CountAside, LastKept DEF Ending

LEMMA EndingTake ==
    ASSUME TypeOK, Empty, Ending, NEW t \in Threads,
           pc[t] \in {"top", "woken"}, queue # << >>, Take(t, queue),
           UNCHANGED <<main, exited, spin>>
    PROVE  Ending'
<1>1. current[t] = None
    BY DEF Empty
<1>2. PICK h \in AllTasks : h = Head(queue)
    BY TakeFacts
<1>3. /\ queue' = Tail(queue) /\ current' = [current EXCEPT ![t] = h]
      /\ Goto(t, "run")
    BY <1>2 DEF Take
<1>4. Exits' = Exits
    <2>1. Occurrences(queue', Exit) = Occurrences(queue, Exit) - Is(h, Exit)
        BY <1>2, <1>3, OccurrencesTail DEF TypeOK
    <2>2. Count(current', Exit)
              = Count(current, Exit) - Is(current[t], Exit) + Is(h, Exit)
        BY <1>3, CurrentChange
    <2>3. Is(current[t], Exit) = 0 /\ Is(h, Exit) \in 0 .. 1
        BY <1>1, TasksAssumption DEF Is
    <2> QED
        BY <2>1, <2>2, <2>3, ExitTypes DEF Exits
<1>5. Aside
    <2>1. Count(pc', "gone") = Count(pc, "gone")
        BY <1>3, GoneKept DEF ThreadPoints
    <2> QED
        BY <1>4, <2>1 DEF Aside
<1>6. PICK n \in Nat \ {0} : n = Len(queue) /\ DOMAIN queue = 1 .. n
    BY DEF TypeOK
<1>7. /\ DOMAIN queue' = 1 .. n - 1 /\ Len(queue') = n - 1 /\ h = queue[1]
      /\ \A i \in 1 .. n - 1 : queue'[i] = queue[i + 1]
    BY <1>2, <1>3, <1>6 DEF TypeOK
<1>8. \A i \in DOMAIN queue' : queue'[i] = Exit => i = Len(queue')
    BY <1>6, <1>7 DEF Ending, ExitLast
<1>9. ASSUME ExitTaken'
      PROVE  \A i \in DOMAIN queue' : queue'[i] = Exit
    <2>1. ExitTaken \/ h = Exit
        BY <1>3, <1>9 DEF ExitTaken, Goto, TypeOK
    <2>2. CASE ExitTaken
        BY <1>6, <1>7, <2>2 DEF Ending, ExitLast
    <2>3. CASE h = Exit
        <3>1. 1 \in DOMAIN queue /\ queue[1] = Exit
            BY <1>6, <1>7, <2>3
        <3>2. n = 1
            BY <1>6, <3>1 DEF Ending, ExitLast
        <3> QED
            BY <1>7, <3>2
    <2> QED
        BY <2>1, <2>2, <2>3
<1>10. ExitLast'
    BY <1>8, <1>9 DEF ExitLast
<1> QED
    BY <1>5, <1>10, CountAside DEF Ending

LEMMA EndingEnter ==
    ASSUME TypeOK, Empty, Ending, NEW t \in Threads, Enter(t) \/ Wake(t)
    PROVE  Ending'
<1>1. pc[t] \in {"top", "woken"} /\ UNCHANGED <<main, exited, spin>>
    BY DEF Enter, Wake, loop
<1>2. CASE queue # << >>
    <2>1. Take(t, queue)
        BY <1>2 DEF Enter, Wake
    <2> QED
        BY <1>1, <1>2, <2>1, EndingTake
<1>3. CASE queue = << >>
    <2>1. Goto(t, "wait") /\ UNCHANGED <<queue, current>>
        BY <1>3 DEF Enter, Wake
    <2>2. Count(pc', "gone") = Count(pc, "gone")
        BY <1>1, <2>1, GoneKept DEF ThreadPoints
    <2>3. Aside
        BY <1>1, <2>1, <2>2 DEF Aside, Exits
    <2>4. ExitTaken' => ExitTaken
        BY <1>1, <2>1 DEF ExitTaken, Goto, TypeOK
    <2> QED
        BY <2>1, <2>3, <2>4, CountAside, LastKept DEF Ending
<1> QED
    BY <1>2, <1>3

LEMMA EndingAppendDone ==
    ASSUME TypeOK, Control, Ending, NEW t \in Threads, AppendDone(t)
    PROVE  Ending'
<1>1. /\ current[t] \in Tasks /\ current' = [current EXCEPT ![t] = None]
      /\ Goto(t, "notify") /\ pc[t] = "append"
      /\ UNCHANGED <<queue, main, exited, spin>>
    BY DEF AppendDone, Control, pool, loop
<1>2. Exits' = Exits
    <2>1. Count(current', Exit)
              = Count(current, Exit) - Is(current[t], Exit) + Is(None, Exit)
        BY <1>1, CurrentChange
    <2>2. Is(current[t], Exit) = 0 /\ Is(None, Exit) = 0
        BY <1>1, TasksAssumption DEF Is
    <2> QED
        BY <1>1, <2>1, <2>2, ExitTypes DEF Exits
<1>3. Count(pc', "gone") = Count(pc, "gone")
    BY <1>1, GoneKept DEF ThreadPoints
<1>4. Aside
    BY <1>1, <1>2, <1>3 DEF Aside
<1>5. ExitTaken' => ExitTaken
    BY <1>1, TasksAssumption DEF ExitTaken, Goto, TypeOK
<1> QED
    BY <1>1, <1>4, <1>5, CountAside, LastKept DEF Ending

(* ngx_thread_pool_exit_handler() clears the lock of the spin loop. *)
LEMMA EndingRunExit ==
    ASSUME TypeOK, Ending, NEW t \in Threads, RunExit(t)
    PROVE  Ending'
<1>1. /\ current[t] = Exit /\ current' = [current EXCEPT ![t] = None]
      /\ Goto(t, "gone") /\ pc[t] = "run" /\ spin' = 0
      /\ UNCHANGED <<queue, main, exited>>
    BY DEF RunExit, pool, loop
<1>2. Exits > 0
    <2>1. Count(current, Exit) # 0
        BY <1>1, CountZero
    <2> QED
        BY <2>1, ExitTypes DEF Exits
<1>3. main = "spin" /\ spin = 1 /\ Exits = 1 /\ Count(pc, "gone") = exited
    BY <1>2, ExitTypes DEF Ending, ExitCount
<1>4. Exits' = 0
    <2>1. Count(current', Exit)
              = Count(current, Exit) - Is(current[t], Exit) + Is(None, Exit)
        BY <1>1, CurrentChange
    <2>2. Is(current[t], Exit) = 1 /\ Is(None, Exit) = 0
        BY <1>1, TasksAssumption DEF Is
    <2> QED
        BY <1>1, <1>3, <2>1, <2>2, ExitTypes DEF Exits
<1>5. Count(pc', "gone") = exited + 1
    <2>1. Count(pc', "gone")
              = Count(pc, "gone") - Is(pc[t], "gone") + Is("gone", "gone")
        BY <1>1, GoneChange DEF ThreadPoints
    <2>2. Is(pc[t], "gone") = 0 /\ Is("gone", "gone") = 1
        BY <1>1 DEF Is
    <2> QED
        BY <1>3, <2>1, <2>2, ExitTypes
<1>6. ExitCount'
    BY <1>1, <1>3, <1>4, <1>5 DEF ExitCount, Exiting
<1>7. ExitTaken
    BY <1>1 DEF ExitTaken
<1> QED
    BY <1>1, <1>6, <1>7, LastKept DEF Ending

(* While the pool is not being destroyed there is no exit task at all. *)
LEMMA NoExitYet ==
    ASSUME TypeOK, Ending, Exits = 0
    PROVE  /\ \A i \in DOMAIN queue : queue[i] # Exit
           /\ \A t \in Threads : current[t] # Exit
<1>1. Occurrences(queue, Exit) = 0 /\ Count(current, Exit) = 0
    BY ExitTypes DEF Exits
<1>2. \A i \in DOMAIN queue : queue[i] # Exit
    BY <1>1, OccurrencesZero DEF TypeOK
<1> QED
    BY <1>1, <1>2, CountZero

(* Tasks posted by the event loop. *)
LEMMA EndingPost ==
    ASSUME TypeOK, Ending, NEW k \in Tasks, Post(k)
    PROVE  Ending'
<1>1. /\ main \in {"loop", "handler"} /\ main' = main
      /\ UNCHANGED <<current, exited, spin>> /\ (Signal \/ UNCHANGED pc)
      /\ queue' = queue \/ queue' = Append(queue, k)
    BY DEF Post, Posted, PostFails, pool
<1>2. Exits = 0 /\ exited = 0 /\ Count(pc, "gone") = 0
    BY <1>1 DEF Ending, ExitCount, Exiting
<1>3. ~ExitTaken
    BY <1>2, NoExitYet, CountZero DEF ExitTaken
<1>4. ~ExitTaken'
    BY <1>1, <1>3, GoneSignal DEF ExitTaken
<1>5. CASE queue' = queue
    <2>1. Aside
        BY <1>1, <1>5, GoneSignal DEF Aside, Exits
    <2> QED
        BY <1>4, <1>5, <2>1, CountAside, LastKept DEF Ending
<1>6. CASE queue' = Append(queue, k)
    <2>1. k \in AllTasks /\ Is(k, Exit) = 0
        BY TasksAssumption DEF AllTasks, Is
    <2>2. Occurrences(queue', Exit) = Occurrences(queue, Exit) + Is(k, Exit)
        BY <1>6, <2>1, OccurrencesAppend DEF TypeOK
    <2>3. Exits' = Exits
        BY <1>1, <2>1, <2>2, ExitTypes DEF Exits
    <2>4. Aside
        BY <1>1, <2>3, GoneSignal DEF Aside
    <2>5. \A i \in DOMAIN queue' : queue'[i] # Exit
        <3>1. PICK n \in Nat : n = Len(queue) /\ DOMAIN queue = 1 .. n
            BY DEF TypeOK
        <3>2. /\ DOMAIN queue' = 1 .. n + 1 /\ queue'[n + 1] = k
              /\ \A i \in 1 .. n : queue'[i] = queue[i]
            BY <1>6, <2>1, <3>1 DEF TypeOK
        <3>3. \A i \in 1 .. n : queue[i] # Exit
            BY <1>2, <3>1, NoExitYet
        <3> QED
            BY <3>2, <3>3, TasksAssumption
    <2>6. ExitLast'
        BY <1>4, <2>5 DEF ExitLast
    <2> QED
        BY <2>4, <2>6, CountAside DEF Ending
<1> QED
    BY <1>1, <1>5, <1>6

(* The exit task is queued: everything that was queued is ahead of it. *)
LEMMA EndingDestroyPost ==
    ASSUME TypeOK, Ending, DestroyPost
    PROVE  Ending'
<1>1. main = "post" /\ spin' = 1 /\ UNCHANGED <<current, exited>>
    BY DEF DestroyPost
<1>2. Exits = 0 /\ Count(pc, "gone") = exited
    BY <1>1 DEF Ending, ExitCount
<1>3. CASE Posted(Exit, "spin")
    <2>1. /\ queue' = Append(queue, Exit) /\ Signal /\ main' = "spin"
          /\ Exit \in AllTasks
        BY <1>3 DEF Posted, AllTasks
    <2>2. Occurrences(queue', Exit) = Occurrences(queue, Exit) + Is(Exit, Exit)
        BY <2>1, OccurrencesAppend DEF TypeOK
    <2>3. Is(Exit, Exit) = 1
        BY DEF Is
    <2>4. Exits' = 1
        BY <1>1, <1>2, <2>2, <2>3, ExitTypes DEF Exits
    <2>5. Count(pc', "gone") = exited'
        BY <1>1, <1>2, <2>1, GoneSignal
    <2>6. exited' \in Nat
        BY <1>1, ExitTypes
    <2>7. ExitCount'
        BY <1>1, <2>1, <2>4, <2>5, <2>6 DEF ExitCount, Exiting
    <2>8. PICK n \in Nat : n = Len(queue) /\ DOMAIN queue = 1 .. n
        BY DEF TypeOK
    <2>9. /\ DOMAIN queue' = 1 .. n + 1 /\ queue'[n + 1] = Exit
          /\ Len(queue') = n + 1
          /\ \A i \in 1 .. n : queue'[i] = queue[i]
        BY <2>1, <2>8 DEF TypeOK
    <2>10. \A i \in 1 .. n : queue[i] # Exit
        BY <1>2, <2>8, NoExitYet
    <2>11. \A i \in DOMAIN queue' : queue'[i] = Exit => i = Len(queue')
        BY <2>9, <2>10
    <2>12. ExitTaken' => ExitTaken
        BY <1>1, <2>1, GoneSignal DEF ExitTaken
    <2>13. ExitTaken => \A i \in 1 .. n : queue[i] = Exit
        BY <2>8 DEF Ending, ExitLast
    <2>14. ExitTaken' => \A i \in DOMAIN queue' : queue'[i] = Exit
        BY <2>9, <2>12, <2>13
    <2> QED
        BY <2>7, <2>11, <2>14 DEF Ending, ExitLast
<1>4. CASE PostFails(Exit, "left")
    <2>1. UNCHANGED <<queue, pc>> /\ main' = "left"
        BY <1>4 DEF PostFails, pool
    <2>2. Exits' = 0 /\ Count(pc', "gone") = exited'
        BY <1>1, <1>2, <2>1 DEF Exits
    <2>3. ExitCount'
        BY <2>1, <2>2 DEF ExitCount, Exiting
    <2>4. ExitTaken' => ExitTaken
        BY <1>1, <2>1 DEF ExitTaken
    <2> QED
        BY <2>1, <2>3, <2>4, LastKept DEF Ending
<1> QED
    BY <1>3, <1>4 DEF DestroyPost

(* The rest of ngx_thread_pool_destroy() and of the event loop. *)
LEMMA EndingMain ==
    ASSUME TypeOK, Ending,
           \/ CreateThreadFails \/ Handler \/ ExitWorker \/ DestroySpin
           \/ DestroyEnd
    PROVE  Ending'
<1>1. UNCHANGED <<queue, pc, current, spin>>
    BY DEF CreateThreadFails, Handler, Collect, Complete, HandlerReturns,
        Completed, ExitWorker, DestroySpin, DestroyEnd, pool
<1>2. Exits' = Exits /\ Count(pc', "gone") = Count(pc, "gone")
    BY <1>1 DEF Exits
<1>3. ExitTaken' => ExitTaken
    BY <1>1 DEF ExitTaken
<1>4. ExitLast'
    BY <1>1, <1>3, LastKept DEF Ending
<1>5. CASE CreateThreadFails \/ Handler \/ ExitWorker
    <2>1. /\ main \in {"init", "loop", "complete", "handler"}
          /\ main' \in {"fatal", "loop", "complete", "handler", "post"}
          /\ exited' = exited
        BY <1>5 DEF CreateThreadFails, Handler, Collect, Complete,
            HandlerReturns, Completed, ExitWorker
    <2>2. Aside
        BY <1>1, <1>2, <2>1 DEF Aside, Exiting
    <2> QED
        BY <1>4, <2>2, CountAside DEF Ending
<1>6. CASE DestroySpin
    <2>1. main = "spin" /\ spin = 0 /\ main' = "post" /\ exited' = exited + 1
        BY <1>6 DEF DestroySpin
    <2>2. Exits = 0 /\ Count(pc, "gone") = exited + 1
        BY <2>1, ExitTypes DEF Ending, ExitCount
    <2>3. ExitCount'
        BY <1>2, <2>1, <2>2 DEF ExitCount, Exiting
    <2> QED
        BY <1>4, <2>3 DEF Ending
<1>7. CASE DestroyEnd
    <2>1. /\ main = "post" /\ main' = "destroyed" /\ exited' = exited
          /\ exited = Cardinality(Threads)
        BY <1>7 DEF DestroyEnd
    <2>2. Exits = 0 /\ Count(pc, "gone") = exited
        BY <2>1 DEF Ending, ExitCount
    <2>3. ExitCount'
        BY <1>2, <2>1, <2>2 DEF ExitCount, Exiting
    <2> QED
        BY <1>4, <2>3 DEF Ending
<1> QED
    BY <1>5, <1>6, <1>7

LEMMA EndingInductive ==
    ASSUME TypeOK, Control, Empty, Ending, [Next]_vars
    PROVE  Ending'
<1>1. ASSUME NEW t \in Threads,
             CreateThread(t) \/ Cycle(t) \/ SpuriousWakeup(t) \/ WaitFails(t)
      PROVE  Ending'
    BY <1>1, EndingQuietThread, EndingEnter, EndingRunExit, EndingAppendDone
    DEF Cycle
<1>2. ASSUME NEW k \in Tasks, Post(k)
      PROVE  Ending'
    BY <1>2, EndingPost
<1>3. CASE DestroyPost
    BY <1>3, EndingDestroyPost
<1>4. CASE \/ CreateThreadFails \/ Handler \/ ExitWorker \/ DestroySpin
           \/ DestroyEnd
    BY <1>4, EndingMain
<1>5. CASE UNCHANGED vars
    <2>1. UNCHANGED <<queue, pc, current, spin, main, exited>>
        BY <1>5 DEF vars
    <2>2. Aside
        BY <2>1 DEF Aside, Exits
    <2>3. ExitTaken' => ExitTaken
        BY <2>1 DEF ExitTaken
    <2> QED
        BY <2>1, <2>2, <2>3, CountAside, LastKept DEF Ending
<1> QED
    BY <1>1, <1>2, <1>3, <1>4, <1>5 DEF Next, Destroy

(***************************************************************************)
(* Destroying the pool is safe: when ngx_thread_pool_destroy() has seen    *)
(* one exit task run per thread and destroys the mutex and the condition   *)
(* variable, every thread is gone and nothing is queued.                   *)
(***************************************************************************)
THEOREM DestroyIsSafe == Spec => []DestroyedIsQuiet
<1>1. Init => Once /\ BatchDone /\ Ending
    <2> SUFFICES ASSUME Init PROVE Ending
        BY OnceInit
    <2>1. Occurrences(queue, Exit) = 0
        BY OccurrencesEmpty DEF Init
    <2>2. Count(current, Exit) = 0 /\ Count(pc, "gone") = 0
        BY CountZero, TasksAssumption DEF Init
    <2>3. ExitCount
        BY <2>1, <2>2 DEF ExitCount, Exits, Exiting, Init
    <2>4. ExitLast
        BY DEF ExitLast, Init
    <2> QED
        BY <2>3, <2>4 DEF Ending
<1>2. IInv /\ Once /\ BatchDone /\ Ending /\ [Next]_vars
          => (Once /\ BatchDone /\ Ending)'
    BY OnceInductive, BatchInductive, EndingInductive DEF IInv, Once
<1>3. IInv /\ Ending => DestroyedIsQuiet
    <2> SUFFICES ASSUME TypeOK, Ending, main = "destroyed"
                 PROVE  queue = << >> /\ \A t \in Threads : pc[t] = "gone"
        BY DEF IInv, DestroyedIsQuiet
    <2>1. Exits = 0 /\ Count(pc, "gone") = Cardinality(Threads)
        BY DEF Ending, ExitCount
    <2>2. PICK G : G = {t \in Threads : pc[t] = "gone"}
        OBVIOUS
    <2>3. G \subseteq Threads /\ Cardinality(G) = Cardinality(Threads)
        BY <2>1, <2>2 DEF Count
    <2>4. G = Threads
        BY <2>3, ThreadsAssumption, FS_Subset
    <2>5. \A t \in Threads : pc[t] = "gone"
        BY <2>2, <2>4
    <2>6. ExitTaken
        BY <2>5, ThreadsAssumption DEF ExitTaken
    <2>7. DOMAIN queue = {}
        BY <2>1, <2>6, NoExitYet DEF Ending, ExitLast
    <2>8. queue = << >>
        BY <2>7 DEF TypeOK
    <2> QED
        BY <2>5, <2>8
<1> QED
    BY <1>1, <1>2, <1>3, InductiveInvariant, PTL DEF Spec
=============================================================================
