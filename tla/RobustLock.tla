----------------------------- MODULE RobustLock -----------------------------
(***************************************************************************)
(* What a lock that survives the death of its owner promises: at most one  *)
(* owner, which only a live process can become; only the owner itself      *)
(* gives the lock up, unless it died, and then it is taken away from it.   *)
(***************************************************************************)
CONSTANTS Procs, None

VARIABLES owner, alive
vars == <<owner, alive>>

Init ==
    /\ owner = None
    /\ alive = Procs

Acquire(p) ==
    /\ p \in alive
    /\ owner = None
    /\ owner' = p
    /\ UNCHANGED alive

Release(p) ==
    /\ p \in alive
    /\ owner = p
    /\ owner' = None
    /\ UNCHANGED alive

Die(p) ==
    /\ p \in alive
    /\ alive' = alive \ {p}
    /\ UNCHANGED owner

Revoke(p) ==
    /\ p \notin alive
    /\ owner = p
    /\ owner' = None
    /\ UNCHANGED alive

Next == \E p \in Procs : Acquire(p) \/ Release(p) \/ Die(p) \/ Revoke(p)

Spec == Init /\ [][Next]_vars
=============================================================================
