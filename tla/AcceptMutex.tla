---------------------------- MODULE AcceptMutex ----------------------------
(***************************************************************************)
(* How worker processes share the listening sockets when accept_mutex is   *)
(* on (event/ngx_event.c, event/ngx_event_accept.c, the epoll method).     *)
(* Every turn of a worker's event loop tries the accept mutex, a           *)
(* shared-memory mutex (module Shmtx); the worker that has it polls the    *)
(* shared sockets, the others stop polling them and try again after        *)
(* accept_mutex_delay.  The flag ngx_accept_mutex_held outlives the        *)
(* release of the mutex, and a worker that is short of connections skips   *)
(* the attempt altogether.                                                 *)
(*                                                                         *)
(* One step contains at most one access to shared state: the lock word or  *)
(* the backlog of a socket.  A socket with the "reuseport" option belongs  *)
(* to one worker and is named after it.                                    *)
(***************************************************************************)
EXTENDS Integers, FiniteSets

CONSTANTS
    Workers,
    Shared,         \* listening sockets all workers inherit
    ReusePort,      \* every worker also has a reuseport socket of its own
    MultiAccept,    \* the directive multi_accept
    ConnectionN,    \* cycle->connection_n
    None,           \* the lock word 0
    MaxFree,        \* bound on the free connections of a worker
    MaxBacklog,     \* bound on the connections that wait on a socket
    MaxAcceptErrors,\* bound on accept() calls that fail for want of resources
    MaxEventErrors  \* bound on failing ngx_add_event() and ngx_del_event()

ASSUME WorkersAssumption == None \notin Workers /\ Workers \cap Shared = {}
ASSUME OptionsAssumption == ReusePort \in BOOLEAN /\ MultiAccept \in BOOLEAN
ASSUME BoundsAssumption ==
    /\ ConnectionN \in Nat \ {0}
    /\ MaxFree \in Nat
    /\ MaxBacklog \in Nat
    /\ MaxAcceptErrors \in Nat
    /\ MaxEventErrors \in Nat

VARIABLES
    owner,      \* lock word of ngx_accept_mutex
    backlog,    \* connections the kernel holds for each listening socket
    pc,         \* control point of every worker
    held,       \* workers whose ngx_accept_mutex_held is 1
    disabled,   \* ngx_accept_disabled of every worker
    active,     \* listening sockets a worker has registered with epoll
    posting,    \* workers that poll with NGX_POST_EVENTS
    bounded,    \* workers that poll for accept_mutex_delay at most
    posted,     \* ready listening sockets a worker has not handled yet
    free,       \* cycle->free_connection_n of every worker
    acceptErrors,\* accept() calls that failed for want of resources
    eventErrors,\* calls of ngx_add_event() and ngx_del_event() that failed
    half        \* history: workers whose sockets were only partly registered

local == <<disabled, posting, bounded, posted, free>>
history == <<acceptErrors, eventErrors, half>>
vars == <<owner, backlog, pc, held, disabled, active, posting, bounded,
          posted, free, acceptErrors, eventErrors, half>>

Own(w) == IF ReusePort THEN {w} ELSE {}
Sockets(w) == Shared \cup Own(w)
AllSockets == Shared \cup (IF ReusePort THEN Workers ELSE {})

(***************************************************************************)
(* Control points.  "top": at the start of ngx_process_events_and_timers();*)
(* "error": ngx_trylock_accept_mutex() has to give the mutex back;         *)
(* "wait": in epoll_wait(); "skipped": the same, without having tried the  *)
(* mutex; "accept": handling the ready sockets; "dead": exited, not yet    *)
(* reaped; "gone": reaped.                                                 *)
(***************************************************************************)
Points == {"top", "error", "wait", "skipped", "accept", "dead", "gone"}
Waiting(w) == pc[w] \in {"wait", "skipped"}
Alive == {w \in Workers : pc[w] \notin {"dead", "gone"}}

Goto(w, point) == pc' = [pc EXCEPT ![w] = point]

(* The state after ngx_event_process_init(). *)
Init ==
    /\ owner = None
    /\ backlog = [s \in AllSockets |-> 0]
    /\ pc = [w \in Workers |-> "top"]
    /\ held = {}
    /\ disabled = [w \in Workers |-> 0]
    /\ active = [w \in Workers |-> Own(w)]
    /\ posting = {}
    /\ bounded = {}
    /\ posted = [w \in Workers |-> {}]
    /\ free = [w \in Workers |-> MaxFree]
    /\ acceptErrors = 0
    /\ eventErrors = 0
    /\ half = {}

(* Variant: the lock word is cleared whoever owns it. *)
ReleasedByAnyone(w) == None

(* ngx_shmtx_unlock(): only the owner's pid is replaced. *)
ReleasedBy(w) == IF owner = w THEN None ELSE owner

-----------------------------------------------------------------------------
(* ngx_enable_accept_events() and ngx_disable_accept_events() *)

Registers(w, sockets) == active' = [active EXCEPT ![w] = sockets]

(* A call fails after some of the sockets: a is what is registered then. *)
EnableFails(w) ==
    /\ eventErrors < MaxEventErrors
    /\ eventErrors' = eventErrors + 1
    /\ \E a \in SUBSET Sockets(w) :
          /\ active[w] \subseteq a
          /\ a # Sockets(w)
          /\ Registers(w, a)
    /\ half' = half \cup {w}

DisableFails(w, kept) ==
    /\ eventErrors < MaxEventErrors
    /\ eventErrors' = eventErrors + 1
    /\ \E a \in SUBSET active[w] :
          /\ active[w] \cap kept \subseteq a
          /\ a \ kept # {}
          /\ Registers(w, a)
    /\ UNCHANGED half

(* ngx_process_events_and_timers(), up to epoll_wait() *)

Polls(w, withMutex, withDelay) ==
    /\ posting' = IF withMutex THEN posting \cup {w} ELSE posting \ {w}
    /\ bounded' = IF withDelay THEN bounded \cup {w} ELSE bounded \ {w}
    /\ Goto(w, "wait")

(* The worker is short of connections and leaves the mutex alone. *)
SkipMutex(w) ==
    /\ pc[w] = "top"
    /\ disabled[w] > 0
    /\ disabled' = [disabled EXCEPT ![w] = @ - 1]
    /\ posting' = posting \ {w}
    /\ bounded' = bounded \ {w}
    /\ Goto(w, "skipped")
    /\ UNCHANGED <<owner, backlog, held, active, posted, free, history>>

(* ngx_trylock_accept_mutex() gets the mutex. *)
TryLockSucceeds(w) ==
    /\ pc[w] = "top"
    /\ disabled[w] <= 0
    /\ owner = None
    /\ owner' = w
    /\ \/ /\ w \in held
          /\ Polls(w, TRUE, FALSE)
          /\ UNCHANGED <<held, active, history>>
       \/ /\ w \notin held
          /\ Registers(w, Sockets(w))
          /\ held' = held \cup {w}
          /\ half' = half \ {w}
          /\ Polls(w, TRUE, FALSE)
          /\ UNCHANGED <<acceptErrors, eventErrors>>
       \/ /\ w \notin held
          /\ EnableFails(w)
          /\ Goto(w, "error")
          /\ UNCHANGED <<held, posting, bounded, acceptErrors>>
    /\ UNCHANGED <<backlog, disabled, posted, free>>

(* Registering failed: the mutex is released and the turn ends. *)
TryLockError(w) ==
    /\ pc[w] = "error"
    /\ owner' = ReleasedBy(w)
    /\ Goto(w, "top")
    /\ UNCHANGED <<backlog, held, active, local, history>>

(* Variant: a worker that lost the mutex goes on polling. *)
TryLockFailsKeeps(w) ==
    /\ pc[w] = "top"
    /\ disabled[w] <= 0
    /\ owner # None
    /\ held' = held \ {w}
    /\ Polls(w, FALSE, TRUE)
    /\ UNCHANGED <<owner, backlog, active, disabled, posted, free, history>>

(* Variant: a worker without the mutex polls without a time limit. *)
TryLockFailsNoDelay(w) ==
    /\ pc[w] = "top"
    /\ disabled[w] <= 0
    /\ owner # None
    /\ Registers(w, active[w] \cap Own(w))
    /\ held' = held \ {w}
    /\ Polls(w, FALSE, FALSE)
    /\ UNCHANGED <<owner, backlog, disabled, posted, free, history>>

(* Another worker has the mutex: the shared sockets are left to it. *)
TryLockFails(w) ==
    /\ pc[w] = "top"
    /\ disabled[w] <= 0
    /\ owner # None
    /\ \/ /\ w \notin held
          /\ Polls(w, FALSE, TRUE)
          /\ UNCHANGED <<held, active, history>>
       \/ /\ w \in held
          /\ Registers(w, active[w] \cap Own(w))
          /\ held' = held \ {w}
          /\ Polls(w, FALSE, TRUE)
          /\ UNCHANGED history
       \/ /\ w \in held
          /\ DisableFails(w, Own(w))
          /\ UNCHANGED <<held, posting, bounded, pc, acceptErrors>>
    /\ UNCHANGED <<owner, backlog, disabled, posted, free>>

-----------------------------------------------------------------------------
(* ngx_epoll_process_events() *)

Ready(w) == {s \in active[w] : backlog[s] > 0}

(* epoll_wait() returns all sockets that are ready. *)
PollReady(w) ==
    /\ Waiting(w)
    /\ Ready(w) # {}
    /\ posted' = [posted EXCEPT ![w] = Ready(w)]
    /\ Goto(w, "accept")
    /\ UNCHANGED <<owner, backlog, held, active, disabled, posting, bounded,
                   free, history>>

(* None is ready and it returns for a time limit, a signal or other events. *)
PollOther(w) ==
    /\ Waiting(w)
    /\ Ready(w) = {}
    /\ Goto(w, "accept")
    /\ UNCHANGED <<owner, backlog, held, active, local, history>>

(* The time limit accept_mutex_delay has passed. *)
PollDelay(w) == w \in bounded /\ PollOther(w)

-----------------------------------------------------------------------------
(* ngx_event_accept() *)

Handles(w, s) == pc[w] = "accept" /\ s \in posted[w]
Handled(w, s) == posted' = [posted EXCEPT ![w] = @ \ {s}]

(* The next turn of the loop "while (ev->available)". *)
HandledUnlessMulti(w, s) ==
    IF MultiAccept THEN UNCHANGED posted ELSE Handled(w, s)

(* accept() fails with EAGAIN: another worker was faster. *)
AcceptAgain(w, s) ==
    /\ Handles(w, s)
    /\ backlog[s] = 0
    /\ Handled(w, s)
    /\ UNCHANGED <<owner, backlog, pc, held, active, disabled, posting,
                   bounded, free, history>>

(***************************************************************************)
(* An event that was not posted is dropped if its socket is no longer      *)
(* registered when its turn comes.                                         *)
(***************************************************************************)
AcceptInactive(w, s) ==
    /\ Handles(w, s)
    /\ w \notin posting
    /\ s \notin active[w]
    /\ Handled(w, s)
    /\ UNCHANGED <<owner, backlog, pc, held, active, disabled, posting,
                   bounded, free, history>>

MayHandle(w, s) ==
    /\ Handles(w, s)
    /\ w \in posting \/ s \in active[w]
    /\ backlog[s] > 0

(***************************************************************************)
(* A connection is accepted.  ngx_get_connection() takes a free slot, one  *)
(* that ngx_drain_connections() has just freed, or none at all, and then   *)
(* the connection is closed, as it is when an allocation or a call after   *)
(* ngx_get_connection() fails: the slot is free again.                     *)
(***************************************************************************)
AcceptConnection(w, s) ==
    /\ MayHandle(w, s)
    /\ backlog' = [backlog EXCEPT ![s] = @ - 1]
    /\ disabled' = [disabled EXCEPT ![w] = ConnectionN \div 8 - free[w]]
    /\ \/ /\ free[w] > 0
          /\ free' = [free EXCEPT ![w] = @ - 1]
          /\ HandledUnlessMulti(w, s)
       \/ /\ free[w] <= ConnectionN \div 16
          /\ HandledUnlessMulti(w, s)
          /\ UNCHANGED free
       \/ /\ Handled(w, s)
          /\ UNCHANGED free
    /\ UNCHANGED <<owner, pc, held, active, posting, bounded, history>>

(* accept() fails with ECONNABORTED: the client has gone. *)
AcceptAborted(w, s) ==
    /\ MayHandle(w, s)
    /\ backlog' = [backlog EXCEPT ![s] = @ - 1]
    /\ HandledUnlessMulti(w, s)
    /\ UNCHANGED <<owner, pc, held, active, disabled, posting, bounded, free,
                   history>>

(***************************************************************************)
(* accept() fails for another reason, such as a lack of memory in the      *)
(* kernel: the connection stays in the backlog.                            *)
(***************************************************************************)
AcceptFails(w, s) ==
    /\ MayHandle(w, s)
    /\ acceptErrors < MaxAcceptErrors
    /\ acceptErrors' = acceptErrors + 1
    /\ Handled(w, s)
    /\ UNCHANGED <<owner, backlog, pc, held, active, disabled, posting,
                   bounded, free, eventErrors, half>>

(* Variant: the mutex is kept when the sockets are disabled. *)
AcceptEmfileKeepsMutex(w, s) ==
    /\ MayHandle(w, s)
    /\ acceptErrors < MaxAcceptErrors
    /\ acceptErrors' = acceptErrors + 1
    /\ Registers(w, {})
    /\ held' = held \ {w}
    /\ disabled' = [disabled EXCEPT ![w] = 1]
    /\ Handled(w, s)
    /\ UNCHANGED <<owner, backlog, pc, posting, bounded, free, eventErrors,
                   half>>

(***************************************************************************)
(* accept() fails with EMFILE or ENFILE: the worker stops polling all of   *)
(* its sockets, its reuseport socket too, and gives the mutex up.          *)
(***************************************************************************)
AcceptEmfile(w, s) ==
    /\ MayHandle(w, s)
    /\ acceptErrors < MaxAcceptErrors
    /\ acceptErrors' = acceptErrors + 1
    /\ \/ /\ Registers(w, {})
          /\ owner' = IF w \in held THEN ReleasedBy(w) ELSE owner
          /\ held' = held \ {w}
          /\ disabled' = [disabled EXCEPT ![w] = 1]
          /\ UNCHANGED <<eventErrors, half>>
       \/ /\ DisableFails(w, {})
          /\ UNCHANGED <<owner, held, disabled>>
    /\ Handled(w, s)
    /\ UNCHANGED <<backlog, pc, posting, bounded, free>>

Accept(w) ==
    \E s \in Sockets(w) :
        \/ AcceptAgain(w, s)
        \/ AcceptInactive(w, s)
        \/ AcceptConnection(w, s)
        \/ AcceptAborted(w, s)
        \/ AcceptFails(w, s)
        \/ AcceptEmfile(w, s)

(***************************************************************************)
(* The end of the turn: the mutex is released if the flag is set, then     *)
(* timers and the other events run, which close and open connections.      *)
(***************************************************************************)
EndTurn(w) ==
    /\ pc[w] = "accept"
    /\ posted[w] = {}
    /\ owner' = IF w \in held THEN ReleasedBy(w) ELSE owner
    /\ \E n \in 0 .. MaxFree : free' = [free EXCEPT ![w] = n]
    /\ Goto(w, "top")
    /\ UNCHANGED <<backlog, held, active, disabled, posting, bounded, posted,
                   history>>

-----------------------------------------------------------------------------
(* The clients, and workers that die and are reaped by the master. *)

Arrive(s) ==
    /\ backlog[s] < MaxBacklog
    /\ backlog' = [backlog EXCEPT ![s] = @ + 1]
    /\ UNCHANGED <<owner, pc, held, active, local, history>>

Die(w) ==
    /\ w \in Alive
    /\ Goto(w, "dead")
    /\ UNCHANGED <<owner, backlog, held, active, local, history>>

(* ngx_unlock_mutexes() when the master reaps the worker. *)
Reap(w) ==
    /\ pc[w] = "dead"
    /\ owner' = ReleasedBy(w)
    /\ Goto(w, "gone")
    /\ UNCHANGED <<backlog, held, active, local, history>>

Turn(w) ==
    \/ SkipMutex(w)
    \/ TryLockSucceeds(w)
    \/ TryLockError(w)
    \/ TryLockFails(w)
    \/ PollReady(w)
    \/ Accept(w)
    \/ EndTurn(w)

Next ==
    \/ \E w \in Workers : Turn(w) \/ PollOther(w) \/ Die(w) \/ Reap(w)
    \/ \E s \in AllSockets : Arrive(s)

Spec == Init /\ [][Next]_vars

(***************************************************************************)
(* Every live worker is scheduled, epoll_wait() reports a ready socket or  *)
(* returns after accept_mutex_delay, and the master reaps dead workers.    *)
(* Nothing is assumed of a wait without a time limit: a timer of an open   *)
(* connection may end it, but there need not be any.                       *)
(***************************************************************************)
Fairness ==
    \A w \in Workers :
        /\ WF_vars(Turn(w) \/ PollDelay(w))
        /\ WF_vars(Reap(w))

FairSpec == Spec /\ Fairness

-----------------------------------------------------------------------------
(***************************************************************************)
(* The range of every variable: a worker polls and accepts on sockets of   *)
(* its own or shared ones only, never takes more connections than it has,  *)
(* and ngx_accept_disabled, which ngx_event_accept() computes before the   *)
(* connection takes its slot, stays between -MaxFree and ConnectionN.      *)
(***************************************************************************)
TypeOK ==
    /\ owner \in Workers \cup {None}
    /\ backlog \in [AllSockets -> 0 .. MaxBacklog]
    /\ pc \in [Workers -> Points]
    /\ held \subseteq Workers
    /\ disabled \in [Workers -> -MaxFree .. ConnectionN]
    /\ active \in [Workers -> SUBSET AllSockets]
    /\ \A w \in Workers : active[w] \subseteq Sockets(w)
    /\ posting \subseteq Workers
    /\ bounded \subseteq Workers
    /\ posted \in [Workers -> SUBSET AllSockets]
    /\ \A w \in Workers : posted[w] \subseteq Sockets(w)
    /\ free \in [Workers -> 0 .. MaxFree]
    /\ acceptErrors \in 0 .. MaxAcceptErrors
    /\ eventErrors \in 0 .. MaxEventErrors
    /\ half \subseteq Workers

(***************************************************************************)
(* A worker that polls and accepts in the belief that it has the mutex,    *)
(* with NGX_POST_EVENTS and its flag set, is the owner: no release by a    *)
(* worker whose flag is merely stale takes the mutex away from it.         *)
(***************************************************************************)
HolderOwns ==
    \A w \in Alive :
        pc[w] \in {"wait", "accept"} /\ w \in posting /\ w \in held
            => owner = w

(***************************************************************************)
(* The mutex is never left locked by a live worker between two turns of    *)
(* its event loop, whatever failed in the turn.                            *)
(***************************************************************************)
ReleasedBetweenTurns ==
    \A w \in Alive : pc[w] = "top" => owner # w

(***************************************************************************)
(* A worker whose flag is not set has left the shared sockets to the       *)
(* others, unless registering them failed half way.                        *)
(***************************************************************************)
OnlyHoldersPoll ==
    \A w \in Workers \ (held \cup half) : active[w] \cap Shared = {}

(***************************************************************************)
(* All live workers skip the mutex and poll without a limit, none of them  *)
(* with s registered: what an accept() that failed with EMFILE leaves      *)
(* behind, and the end of the last worker.  Nobody looks at s until an     *)
(* event of another kind wakes one of them.                                *)
(***************************************************************************)
Unwatched(s) == \A w \in Alive : pc[w] = "skipped" /\ s \notin active[w]

(***************************************************************************)
(* The listening sockets are not forgotten: a shared socket is again and   *)
(* again without waiting connections, unless workers take connections for  *)
(* ever, from it or from the sockets of their own, or a call of            *)
(* ngx_add_event() or ngx_del_event() has failed, or the socket is left    *)
(* unwatched for good.  The delay of the workers that lost the mutex is    *)
(* what lets one of them follow when the holder dies or gives it up.       *)
(***************************************************************************)
ConnectionsTaken ==
    \A s \in Shared :
        \/ []<>(backlog[s] = 0 \/ eventErrors > 0)
        \/ []<><<\E t \in AllSockets : backlog'[t] < backlog[t]>>_backlog
        \/ <>[]Unwatched(s)
=============================================================================
