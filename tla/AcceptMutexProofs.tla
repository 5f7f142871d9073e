------------------------- MODULE AcceptMutexProofs -------------------------
(***************************************************************************)
(* Proofs about AcceptMutex, for any set of workers and sockets, with and  *)
(* without reuseport and multi_accept.                                     *)
(***************************************************************************)
EXTENDS AcceptMutex, TLAPS

(***************************************************************************)
(* The control points at which a worker may be the owner: while it polls   *)
(* or accepts as the holder, while it gives the mutex back after an error, *)
(* and, dead, until it is reaped.                                          *)
(***************************************************************************)
Polling(w) == pc[w] \in {"wait", "accept"} /\ w \in posting /\ w \in held

OwnerIsPlaced ==
    \A w \in Workers :
        owner = w => Polling(w) \/ pc[w] \in {"error", "dead"}

(* A worker that skipped the mutex has not asked epoll to post its events. *)
SkipperPollsPlainly ==
    \A w \in Workers : pc[w] = "skipped" => w \notin posting

IInv ==
    /\ TypeOK
    /\ SkipperPollsPlainly
    /\ OwnerIsPlaced
    /\ HolderOwns
    /\ OnlyHoldersPoll

-----------------------------------------------------------------------------
(* A socket of a worker's own is none of the shared ones. *)
LEMMA OwnNotShared ==
    ASSUME NEW w \in Workers
    PROVE  /\ Own(w) \cap Shared = {}
           /\ Sockets(w) \subseteq AllSockets
  BY WorkersAssumption DEF Own, Sockets, AllSockets

(* The value ngx_event_accept() gives ngx_accept_disabled is in its range. *)
LEMMA DisabledRange ==
    ASSUME NEW n \in 0 .. MaxFree
    PROVE  /\ ConnectionN \div 8 - n \in -MaxFree .. ConnectionN
           /\ 0 \in -MaxFree .. ConnectionN
           /\ 1 \in -MaxFree .. ConnectionN
  <1>1. ConnectionN \div 8 \in 0 .. ConnectionN
    BY BoundsAssumption
  <1>2. QED
    BY <1>1, BoundsAssumption

LEMMA InitIsTyped == Init => TypeOK
  <1> SUFFICES ASSUME Init PROVE TypeOK
    OBVIOUS
  <1>1. \A w \in Workers : Own(w) \subseteq Sockets(w) /\ Sockets(w) \subseteq AllSockets
    BY OwnNotShared DEF Sockets
  <1>2. 0 \in -MaxFree .. ConnectionN
    BY DisabledRange, BoundsAssumption
  <1>3. QED
    BY <1>1, <1>2, BoundsAssumption DEF Init, TypeOK, Points

-----------------------------------------------------------------------------
(* The types of the variables that a step changes. *)

LEMMA TurnIsTyped ==
    ASSUME TypeOK, NEW w \in Workers, Turn(w)
    PROVE  TypeOK'
  <1> USE DEF history, local, Goto, Points
  <1>1. CASE SkipMutex(w)
    <2>1. disabled[w] - 1 \in -MaxFree .. ConnectionN
      BY <1>1, BoundsAssumption DEF SkipMutex, TypeOK
    <2>2. QED
      BY <1>1, <2>1 DEF SkipMutex, TypeOK
  <1>2. CASE TryLockSucceeds(w)
    <2>1. eventErrors + 1 \in 0 .. MaxEventErrors \/ ~(eventErrors < MaxEventErrors)
      BY BoundsAssumption DEF TypeOK
    <2>2. QED
      BY <1>2, <2>1, OwnNotShared
      DEF TryLockSucceeds, EnableFails, Registers, Polls, TypeOK
  <1>3. CASE TryLockError(w)
    BY <1>3 DEF TryLockError, ReleasedBy, TypeOK
  <1>4. CASE TryLockFails(w)
    <2>1. eventErrors + 1 \in 0 .. MaxEventErrors \/ ~(eventErrors < MaxEventErrors)
      BY BoundsAssumption DEF TypeOK
    <2>2. QED
      BY <1>4, <2>1
      DEF TryLockFails, DisableFails, Registers, Polls, TypeOK
  <1>5. CASE PollReady(w)
    <2>1. Ready(w) \subseteq active[w]
      BY DEF Ready
    <2>2. QED
      BY <1>5, <2>1 DEF PollReady, TypeOK
  <1>6. CASE Accept(w)
    <2> PICK s \in Sockets(w) :
          \/ AcceptAgain(w, s)
          \/ AcceptInactive(w, s)
          \/ AcceptConnection(w, s)
          \/ AcceptAborted(w, s)
          \/ AcceptFails(w, s)
          \/ AcceptEmfile(w, s)
      BY <1>6 DEF Accept
    <2> USE DEF Handled, HandledUnlessMulti
    <2>1. CASE AcceptAgain(w, s)
      BY <2>1 DEF AcceptAgain, TypeOK
    <2>2. CASE AcceptInactive(w, s)
      BY <2>2 DEF AcceptInactive, TypeOK
    <2>3. CASE AcceptConnection(w, s)
      <3>1. backlog[s] \in 0 .. MaxBacklog /\ s \in AllSockets
        BY OwnNotShared DEF TypeOK
      <3>2. backlog[s] - 1 \in 0 .. MaxBacklog
        BY <2>3, <3>1, BoundsAssumption DEF AcceptConnection, MayHandle
      <3>3. free[w] \in 0 .. MaxFree
        BY DEF TypeOK
      <3>4. free[w] > 0 => free[w] - 1 \in 0 .. MaxFree
        BY <3>3, BoundsAssumption
      <3>5. ConnectionN \div 8 - free[w] \in -MaxFree .. ConnectionN
        BY <3>3, DisabledRange
      <3>6. backlog' \in [AllSockets -> 0 .. MaxBacklog]
        BY <2>3, <3>2 DEF AcceptConnection, TypeOK
      <3>7. disabled' \in [Workers -> -MaxFree .. ConnectionN]
        BY <2>3, <3>5 DEF AcceptConnection, TypeOK
      <3>8. free' \in [Workers -> 0 .. MaxFree]
        BY <2>3, <3>4 DEF AcceptConnection, TypeOK
      <3>9. /\ posted' \in [Workers -> SUBSET AllSockets]
            /\ \A v \in Workers : posted'[v] \subseteq Sockets(v)
        BY <2>3 DEF AcceptConnection, TypeOK
      <3>10. QED
        BY <2>3, <3>6, <3>7, <3>8, <3>9 DEF AcceptConnection, TypeOK
    <2>4. CASE AcceptAborted(w, s)
      <3>1. backlog[s] \in 0 .. MaxBacklog /\ s \in AllSockets
        BY OwnNotShared DEF TypeOK
      <3>2. backlog[s] - 1 \in 0 .. MaxBacklog
        BY <2>4, <3>1, BoundsAssumption DEF AcceptAborted, MayHandle
      <3>3. QED
        BY ZenonT(60), <2>4, <3>2 DEF AcceptAborted, TypeOK
    <2>5. CASE AcceptEmfile(w, s)
      <3>1. acceptErrors' \in 0 .. MaxAcceptErrors
        BY <2>5, BoundsAssumption DEF AcceptEmfile, TypeOK
      <3>2. eventErrors' \in 0 .. MaxEventErrors
        BY <2>5, BoundsAssumption DEF AcceptEmfile, DisableFails, TypeOK
      <3>3. disabled' \in [Workers -> -MaxFree .. ConnectionN]
        BY <2>5, DisabledRange, BoundsAssumption DEF AcceptEmfile, TypeOK
      <3>4. QED
        BY ZenonT(60), <2>5, <3>1, <3>2, <3>3
        DEF AcceptEmfile, DisableFails, Registers, ReleasedBy, TypeOK
    <2>6. CASE AcceptFails(w, s)
      <3>1. acceptErrors' \in 0 .. MaxAcceptErrors
        BY <2>6, BoundsAssumption DEF AcceptFails, TypeOK
      <3>2. QED
        BY <2>6, <3>1 DEF AcceptFails, TypeOK
    <2>7. QED
      BY <2>1, <2>2, <2>3, <2>4, <2>5, <2>6
  <1>7. CASE EndTurn(w)
    BY <1>7 DEF EndTurn, ReleasedBy, TypeOK
  <1>8. QED
    BY <1>1, <1>2, <1>3, <1>4, <1>5, <1>6, <1>7 DEF Turn

LEMMA NextIsTyped == TypeOK /\ [Next]_vars => TypeOK'
  <1> SUFFICES ASSUME TypeOK, [Next]_vars PROVE TypeOK'
    OBVIOUS
  <1> USE DEF history, local, Goto, Points
  <1>1. ASSUME NEW w \in Workers, Turn(w) PROVE TypeOK'
    BY <1>1, TurnIsTyped
  <1>2. ASSUME NEW w \in Workers, PollOther(w) PROVE TypeOK'
    BY <1>2 DEF PollOther, TypeOK
  <1>3. ASSUME NEW w \in Workers, Die(w) PROVE TypeOK'
    BY <1>3 DEF Die, TypeOK
  <1>4. ASSUME NEW w \in Workers, Reap(w) PROVE TypeOK'
    BY <1>4 DEF Reap, ReleasedBy, TypeOK
  <1>5. ASSUME NEW s \in AllSockets, Arrive(s) PROVE TypeOK'
    <2>1. backlog[s] + 1 \in 0 .. MaxBacklog
      BY <1>5, BoundsAssumption DEF Arrive, TypeOK
    <2>2. QED
      BY <1>5, <2>1 DEF Arrive, TypeOK
  <1>6. CASE UNCHANGED vars
    BY <1>6 DEF vars, TypeOK
  <1>7. QED
    BY <1>1, <1>2, <1>3, <1>4, <1>5, <1>6 DEF Next

-----------------------------------------------------------------------------
(***************************************************************************)
(* Ownership.  A step of worker w moves the lock word only between None    *)
(* and w, so that what the others know about it stays true.                *)
(***************************************************************************)
OthersKept(w) ==
    \A v \in Workers \ {w} :
        /\ pc'[v] = pc[v]
        /\ v \in posting' <=> v \in posting
        /\ v \in held' <=> v \in held
        /\ owner' = v <=> owner = v

LEMMA OwnershipOfOthers ==
    ASSUME TypeOK, OwnerIsPlaced, HolderOwns,
           NEW w \in Workers, OthersKept(w),
           (owner' = w => Polling(w)' \/ pc'[w] \in {"error", "dead"}),
           (Polling(w)' => owner' = w)
    PROVE  OwnerIsPlaced' /\ HolderOwns'
  BY DEF OthersKept, OwnerIsPlaced, HolderOwns, Polling, Alive

LEMMA NextKeepsPolling ==
    TypeOK /\ SkipperPollsPlainly /\ [Next]_vars => SkipperPollsPlainly'
  <1> SUFFICES ASSUME TypeOK, SkipperPollsPlainly, [Next]_vars
               PROVE  SkipperPollsPlainly'
    OBVIOUS
  <1> USE DEF history, local, Goto, Polls
  <1>1. ASSUME NEW w \in Workers, Turn(w) PROVE SkipperPollsPlainly'
    BY <1>1 DEF Turn, SkipMutex, TryLockSucceeds, TryLockError, TryLockFails,
       PollReady, Accept, AcceptAgain, AcceptInactive, AcceptConnection,
       AcceptAborted, AcceptFails, AcceptEmfile, EndTurn, TypeOK, SkipperPollsPlainly
  <1>2. QED
    BY <1>1 DEF Next, PollOther, Die, Reap, Arrive, vars, TypeOK,
       SkipperPollsPlainly

LEMMA TurnKeepsOwnership ==
    ASSUME TypeOK, SkipperPollsPlainly, OwnerIsPlaced, HolderOwns, NEW w \in Workers, Turn(w)
    PROVE  OwnerIsPlaced' /\ HolderOwns'
  <1> USE DEF history, local, Goto, OthersKept, Polling, ReleasedBy
  <1>0. w # None /\ None \notin Workers
    BY WorkersAssumption
  <1>1. CASE SkipMutex(w)
    BY <1>0, <1>1, OwnershipOfOthers DEF SkipMutex, TypeOK, OwnerIsPlaced
  <1>2. CASE TryLockSucceeds(w)
    BY <1>0, <1>2, OwnershipOfOthers DEF TryLockSucceeds, Polls, TypeOK
  <1>3. CASE TryLockError(w)
    BY <1>0, <1>3, OwnershipOfOthers DEF TryLockError, TypeOK
  <1>4. CASE TryLockFails(w)
    BY <1>0, <1>4, OwnershipOfOthers DEF TryLockFails, Polls, TypeOK, OwnerIsPlaced
  <1>5. CASE PollReady(w)
    BY <1>0, <1>5, OwnershipOfOthers
    DEF PollReady, Waiting, TypeOK, SkipperPollsPlainly, OwnerIsPlaced, HolderOwns,
        Alive
  <1>6. CASE Accept(w)
    <2> PICK s \in Sockets(w) :
          \/ AcceptAgain(w, s)
          \/ AcceptInactive(w, s)
          \/ AcceptConnection(w, s)
          \/ AcceptAborted(w, s)
          \/ AcceptFails(w, s)
          \/ AcceptEmfile(w, s)
      BY <1>6 DEF Accept
    <2>1. CASE AcceptEmfile(w, s)
      <3>1. pc[w] = "accept"
        BY <2>1 DEF AcceptEmfile, MayHandle, Handles
      <3>2. owner = w <=> w \in posting /\ w \in held
        BY <3>1 DEF OwnerIsPlaced, HolderOwns, Alive
      <3>3. QED
        BY <1>0, <2>1, <3>1, <3>2, OwnershipOfOthers DEF AcceptEmfile, TypeOK
    <2>2. CASE ~AcceptEmfile(w, s)
      <3>1. UNCHANGED <<owner, pc, held, posting>>
        BY <2>2 DEF AcceptAgain, AcceptInactive, AcceptConnection,
           AcceptAborted, AcceptFails
      <3>2. QED
        BY <3>1 DEF OwnerIsPlaced, HolderOwns, Alive
    <2>3. QED
      BY <2>1, <2>2
  <1>7. CASE EndTurn(w)
    BY <1>0, <1>7, OwnershipOfOthers DEF EndTurn, TypeOK, OwnerIsPlaced
  <1>8. QED
    BY <1>1, <1>2, <1>3, <1>4, <1>5, <1>6, <1>7 DEF Turn

LEMMA NextKeepsOwnership ==
    TypeOK /\ SkipperPollsPlainly /\ OwnerIsPlaced /\ HolderOwns /\ [Next]_vars
        => OwnerIsPlaced' /\ HolderOwns'
  <1> SUFFICES ASSUME TypeOK, SkipperPollsPlainly, OwnerIsPlaced, HolderOwns,
                      [Next]_vars
               PROVE  OwnerIsPlaced' /\ HolderOwns'
    OBVIOUS
  <1> USE DEF history, local, Goto, OthersKept, Polling, ReleasedBy
  <1>0. None \notin Workers
    BY WorkersAssumption
  <1>1. ASSUME NEW w \in Workers, Turn(w) PROVE OwnerIsPlaced' /\ HolderOwns'
    BY <1>1, TurnKeepsOwnership
  <1>2. ASSUME NEW w \in Workers, PollOther(w) PROVE OwnerIsPlaced' /\ HolderOwns'
    BY <1>0, <1>2, OwnershipOfOthers
    DEF PollOther, Waiting, TypeOK, SkipperPollsPlainly, OwnerIsPlaced, HolderOwns,
        Alive
  <1>3. ASSUME NEW w \in Workers, Die(w) PROVE OwnerIsPlaced' /\ HolderOwns'
    BY <1>0, <1>3, OwnershipOfOthers DEF Die, TypeOK
  <1>4. ASSUME NEW w \in Workers, Reap(w) PROVE OwnerIsPlaced' /\ HolderOwns'
    BY <1>0, <1>4, OwnershipOfOthers DEF Reap, TypeOK
  <1>5. ASSUME NEW s \in AllSockets, Arrive(s) PROVE OwnerIsPlaced' /\ HolderOwns'
    BY <1>5 DEF Arrive, OwnerIsPlaced, HolderOwns, Alive
  <1>6. CASE UNCHANGED vars
    BY <1>6 DEF vars, OwnerIsPlaced, HolderOwns, Alive
  <1>7. QED
    BY <1>1, <1>2, <1>3, <1>4, <1>5, <1>6 DEF Next

-----------------------------------------------------------------------------
(* What a worker polls. *)

LEMMA NextKeepsSharedSockets ==
    TypeOK /\ OnlyHoldersPoll /\ [Next]_vars => OnlyHoldersPoll'
  <1> SUFFICES ASSUME TypeOK, OnlyHoldersPoll, [Next]_vars
               PROVE  OnlyHoldersPoll'
    OBVIOUS
  <1> USE DEF history, local
  <1>1. CASE UNCHANGED <<held, half, active>>
    BY <1>1 DEF OnlyHoldersPoll
  <1>2. ASSUME NEW w \in Workers, TryLockSucceeds(w) PROVE OnlyHoldersPoll'
    BY <1>2 DEF TryLockSucceeds, EnableFails, Registers, OnlyHoldersPoll, TypeOK
  <1>3. ASSUME NEW w \in Workers, TryLockFails(w) PROVE OnlyHoldersPoll'
    <2>1. Own(w) \cap Shared = {}
      BY OwnNotShared
    <2>2. QED
      BY <1>3, <2>1
      DEF TryLockFails, DisableFails, Registers, OnlyHoldersPoll, TypeOK
  <1>4. ASSUME NEW w \in Workers, NEW s \in Sockets(w), AcceptEmfile(w, s)
        PROVE  OnlyHoldersPoll'
    BY <1>4 DEF AcceptEmfile, DisableFails, Registers, OnlyHoldersPoll, TypeOK
  <1>5. ASSUME NEW w \in Workers, Accept(w) PROVE OnlyHoldersPoll'
    BY <1>1, <1>4, <1>5 DEF Accept, AcceptAgain, AcceptInactive,
       AcceptConnection, AcceptAborted, AcceptFails
  <1>6. ASSUME NEW w \in Workers, Turn(w) PROVE OnlyHoldersPoll'
    BY <1>1, <1>2, <1>3, <1>5, <1>6
    DEF Turn, SkipMutex, TryLockError, PollReady, EndTurn
  <1>7. QED
    BY <1>1, <1>6 DEF Next, PollOther, Die, Reap, Arrive, vars

-----------------------------------------------------------------------------
(* All of the inductive invariant, from which the properties follow. *)
LEMMA AlwaysIInv == Spec => []IInv
  <1>1. Init => IInv
    <2>1. Init => SkipperPollsPlainly /\ OwnerIsPlaced /\ HolderOwns
      BY WorkersAssumption
      DEF Init, SkipperPollsPlainly, OwnerIsPlaced, HolderOwns, Polling, Alive
    <2>2. Init => OnlyHoldersPoll
      BY OwnNotShared DEF Init, OnlyHoldersPoll
    <2>3. QED
      BY <2>1, <2>2, InitIsTyped DEF IInv
  <1>2. IInv /\ [Next]_vars => IInv'
    BY NextIsTyped, NextKeepsPolling, NextKeepsOwnership, NextKeepsSharedSockets
    DEF IInv
  <1>3. QED
    BY <1>1, <1>2, PTL DEF Spec

(***************************************************************************)
(* Every variable of the event loops of all workers stays in its range: no *)
(* worker polls or handles a socket that is neither shared nor its own.    *)
(***************************************************************************)
THEOREM TypeCorrect == Spec => []TypeOK
  BY AlwaysIInv, PTL DEF IInv

(***************************************************************************)
(* ngx_accept_mutex_held may be stale, but a worker that polls with        *)
(* NGX_POST_EVENTS and has the flag set owns the mutex, whatever the other *)
(* workers and the master release.                                         *)
(***************************************************************************)
THEOREM HoldersOwn == Spec => []HolderOwns
  BY AlwaysIInv, PTL DEF IInv

(***************************************************************************)
(* ngx_process_events_and_timers() never begins a turn as the owner: each  *)
(* turn releases what it has locked, on the paths of ngx_add_event() and   *)
(* accept() errors too.                                                    *)
(***************************************************************************)
THEOREM TurnsRelease == Spec => []ReleasedBetweenTurns
  <1>1. IInv => ReleasedBetweenTurns
    BY DEF IInv, OwnerIsPlaced, ReleasedBetweenTurns, Polling, Alive
  <1>2. QED
    BY <1>1, AlwaysIInv, PTL

(***************************************************************************)
(* ngx_disable_accept_events() runs before the flag is cleared, so that    *)
(* only workers with the flag have shared sockets in epoll, or workers     *)
(* whose ngx_enable_accept_events() failed half way.                       *)
(***************************************************************************)
THEOREM HoldersPoll == Spec => []OnlyHoldersPoll
  BY AlwaysIInv, PTL DEF IInv
=============================================================================
