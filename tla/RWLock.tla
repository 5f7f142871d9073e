------------------------------- MODULE RWLock -------------------------------
(***************************************************************************)
(* The read-write lock of nginx (core/ngx_rwlock.c), with which worker     *)
(* processes share the peers of an upstream zone.  The lock word counts    *)
(* the readers; all ones mark a writer.                                    *)
(*                                                                         *)
(* One step is one access to the lock word.  In ngx_rwlock_wlock() the     *)
(* plain read before the compare-and-set can only make the attempt fail    *)
(* early, so the two are one step; everywhere else the value read decides  *)
(* what is written and the read is a step of its own.  A process that      *)
(* spins or yields stays where it is.                                      *)
(***************************************************************************)
EXTENDS Integers, FiniteSets

CONSTANT Procs      \* worker processes that attached the zone

ASSUME ProcsAssumption == IsFiniteSet(Procs)

VARIABLES
    lock,       \* the lock word; -1 is NGX_RWLOCK_WLOCK
    pc,         \* control point of every process
    seen,       \* the value a process read last
    mode        \* what the caller of a process may do: history

vars == <<lock, pc, seen, mode>>

WLOCK == -1

(***************************************************************************)
(* Control points.  "idle": outside the lock functions; "wlock", "rread",  *)
(* "rcas": in ngx_rwlock_wlock() and ngx_rwlock_rlock(); "unlock", "ucas", *)
(* "uadd": in ngx_rwlock_unlock(); "down", "dstore": in                    *)
(* ngx_rwlock_downgrade().                                                 *)
(***************************************************************************)
Points == {"idle", "wlock", "rread", "rcas", "unlock", "ucas", "uadd",
           "down", "dstore"}

Readers == {p \in Procs : mode[p] = "read"}
Writers == {p \in Procs : mode[p] = "write"}

Goto(p, point) == pc' = [pc EXCEPT ![p] = point]
Grant(p, m) == mode' = [mode EXCEPT ![p] = m]

Init ==
    /\ lock = 0
    /\ pc = [p \in Procs |-> "idle"]
    /\ seen = [p \in Procs |-> 0]
    /\ mode = [p \in Procs |-> "none"]

-----------------------------------------------------------------------------
(***************************************************************************)
(* The callers: a process that holds nothing asks for either kind of lock, *)
(* one that holds the lock gives it up, and a writer may become a reader.  *)
(***************************************************************************)
Call(p) ==
    /\ pc[p] = "idle"
    /\ \/ mode[p] = "none" /\ Goto(p, "wlock")
       \/ mode[p] = "none" /\ Goto(p, "rread")
       \/ mode[p] # "none" /\ Goto(p, "unlock")
       \/ mode[p] = "write" /\ Goto(p, "down")
    /\ UNCHANGED <<lock, seen, mode>>

WLockCmpSet(p) ==
    /\ pc[p] = "wlock"
    /\ lock = 0
    /\ lock' = WLOCK
    /\ Grant(p, "write")
    /\ Goto(p, "idle")
    /\ UNCHANGED seen

RLockRead(p) ==
    /\ pc[p] = "rread"
    /\ lock # WLOCK
    /\ seen' = [seen EXCEPT ![p] = lock]
    /\ Goto(p, "rcas")
    /\ UNCHANGED <<lock, mode>>

(* Variant: the count is stored although it may have changed. *)
RLockStore(p) ==
    /\ pc[p] = "rcas"
    /\ lock' = seen[p] + 1
    /\ Grant(p, "read")
    /\ Goto(p, "idle")
    /\ UNCHANGED seen

RLockCmpSet(p) ==
    /\ pc[p] = "rcas"
    /\ \/ /\ lock = seen[p]
          /\ lock' = seen[p] + 1
          /\ Grant(p, "read")
          /\ Goto(p, "idle")
       \/ /\ lock # seen[p]
          /\ Goto(p, "rread")
          /\ UNCHANGED <<lock, mode>>
    /\ UNCHANGED seen

UnlockRead(p) ==
    /\ pc[p] = "unlock"
    /\ Goto(p, IF lock = WLOCK THEN "ucas" ELSE "uadd")
    /\ UNCHANGED <<lock, seen, mode>>

(* The result of the compare-and-set is not looked at. *)
UnlockCmpSet(p) ==
    /\ pc[p] = "ucas"
    /\ lock' = IF lock = WLOCK THEN 0 ELSE lock
    /\ Grant(p, "none")
    /\ Goto(p, "idle")
    /\ UNCHANGED seen

(* Variant: the last reader out resets the lock, the others leave it. *)
UnlockAddLast(p) ==
    /\ pc[p] = "uadd"
    /\ lock' = 0
    /\ Grant(p, "none")
    /\ Goto(p, "idle")
    /\ UNCHANGED seen

UnlockAdd(p) ==
    /\ pc[p] = "uadd"
    /\ lock' = lock - 1
    /\ Grant(p, "none")
    /\ Goto(p, "idle")
    /\ UNCHANGED seen

(* A process that is not the writer leaves the lock as it is. *)
DowngradeRead(p) ==
    /\ pc[p] = "down"
    /\ Goto(p, IF lock = WLOCK THEN "dstore" ELSE "idle")
    /\ UNCHANGED <<lock, seen, mode>>

DowngradeStore(p) ==
    /\ pc[p] = "dstore"
    /\ lock' = 1
    /\ Grant(p, "read")
    /\ Goto(p, "idle")
    /\ UNCHANGED seen

Step(p) ==
    \/ WLockCmpSet(p)
    \/ RLockRead(p)
    \/ RLockCmpSet(p)
    \/ UnlockRead(p)
    \/ UnlockCmpSet(p)
    \/ UnlockAdd(p)
    \/ DowngradeRead(p)
    \/ DowngradeStore(p)

Next == \E p \in Procs : Call(p) \/ Step(p)

Spec == Init /\ [][Next]_vars

-----------------------------------------------------------------------------
(***************************************************************************)
(* The range of every variable.  A value that ngx_rwlock_rlock() is about  *)
(* to increment is a number of readers, never the mark of a writer, whose  *)
(* increment would wrap around to a free lock.                             *)
(***************************************************************************)
TypeOK ==
    /\ lock \in -1 .. Cardinality(Procs)
    /\ pc \in [Procs -> Points]
    /\ seen \in [Procs -> Nat]
    /\ mode \in [Procs -> {"none", "read", "write"}]

(* Which lock a process holds at each control point. *)
PointsAndModes ==
    \A p \in Procs :
        /\ pc[p] \in {"wlock", "rread", "rcas"} => mode[p] = "none"
        /\ pc[p] = "unlock" => mode[p] # "none"
        /\ pc[p] \in {"ucas", "down", "dstore"} => mode[p] = "write"
        /\ pc[p] = "uadd" => mode[p] = "read"

(***************************************************************************)
(* The lock word tells the truth: all ones exactly while one process holds *)
(* the write lock, otherwise the number of readers.  ngx_rwlock_unlock()   *)
(* relies on it: it learns from the word which kind of lock its caller     *)
(* holds, and acts on it in a later step.                                  *)
(***************************************************************************)
LockCounts ==
    \/ lock = WLOCK /\ Readers = {} /\ \E p \in Procs : Writers = {p}
    \/ lock = Cardinality(Readers) /\ Writers = {}

(* A writer excludes every other holder of the lock. *)
Exclusion ==
    \A p, q \in Procs :
        p # q /\ mode[p] = "write" => mode[q] = "none"

(***************************************************************************)
(* The lock implements a lock for many readers or one writer: no release,  *)
(* downgrade or failed compare-and-set frees or takes what another process *)
(* holds.                                                                  *)
(***************************************************************************)
RW == INSTANCE ReadersWriters WITH readers <- Readers, writers <- Writers
ImplementsReadersWriters == RW!Spec
=============================================================================
