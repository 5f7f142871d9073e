------------------------- MODULE MasterCycleProofs -------------------------
(***************************************************************************)
(* Proofs about MasterCycle for any number of workers, slots and process   *)
(* ids and any bounds on what may go wrong.                                *)
(*                                                                         *)
(* The process table and the processes are related by SlotsRight, whatever *)
(* commands come.  The other theorems are about a master that is not asked *)
(* to start a new binary: with one, NoOrphans does not hold (the run       *)
(* master_orphans), and the workers of both masters serve.  Their argument *)
(* counts workers: what the start functions have still to spawn, the slots *)
(* that are to stay and the children that serve.                           *)
(***************************************************************************)
EXTENDS MasterCycle, FiniteSetTheorems, WellFoundedInduction, TLAPS

Points == {"start", "top", "suspend", "reap", "reaping", "dispatch",
           "reconfigure", "shutdown_old", "restart", "reopen",
           "change_binary", "noaccept", "exited"}

(* A slot that ngx_processes[] has in use. *)
Used(s) == s < last /\ slots[s].pid # Invalid

(***************************************************************************)
(* The process table is right: a slot in use has the pid of a process that *)
(* was started and is marked exited when waitpid() has reported it; no two *)
(* slots have the same process; every child has one.                       *)
(***************************************************************************)
SlotsRight ==
    /\ \A s \in Slots : Used(s) =>
          /\ slots[s].pid \in Pids
          /\ child[slots[s].pid].st # "unused"
          /\ slots[s].exited <=> child[slots[s].pid].st = "gone"
    /\ \A s, t \in Slots :
          Used(s) /\ Used(t) /\ slots[s].pid = slots[t].pid => s = t
    /\ \A p \in Children : \E s \in Slots : Used(s) /\ slots[s].pid = p

TableType ==
    /\ slots \in [Slots -> Slot]
    /\ last \in 0 .. MaxProcesses
    /\ child \in [Pids -> Child]

-----------------------------------------------------------------------------
(* The smallest pid, slot or section that the code looks for exists. *)

LEMMA SmallestExists ==
    ASSUME NEW S \in SUBSET Nat, S # {}
    PROVE  \E x \in S : \A y \in S : x <= y
<1>1. PICK x \in S : \A y \in S : ~(<<y, x>> \in OpToRel(<, Nat))
    BY NatLessThanWellFounded, WFMin, Zenon
<1>2. \A y \in S : ~(y < x)
    BY <1>1 DEF OpToRel
<1> QED
    BY <1>2

LEMMA SlotsFacts == Slots \subseteq Nat /\ MaxProcesses \in Nat /\ Invalid \notin Pids
                    /\ Pids \subseteq Nat
BY SizesAssumption DEF Slots, Pids, Invalid

LEMMA NewPidFacts ==
    ASSUME Unused # {}
    PROVE  NewPid \in Pids /\ child[NewPid].st = "unused"
<1>1. Unused \in SUBSET Nat
    BY SlotsFacts DEF Unused
<1>2. \E p \in Unused : \A q \in Unused : p <= q
    BY <1>1, SmallestExists
<1>3. NewPid \in Unused
    BY <1>2 DEF NewPid
<1> QED
    BY <1>3 DEF Unused

LEMMA FreeSlotFacts ==
    ASSUME last \in 0 .. MaxProcesses
    PROVE  \/ FreeSlot = last
           \/ FreeSlot \in 0 .. last - 1 /\ slots[FreeSlot].pid = Invalid
<1> DEFINE free == {s \in 0 .. last - 1 : slots[s].pid = Invalid}
<1>1. free \in SUBSET Nat
    BY SlotsFacts
<1>2. CASE free = {}
    BY <1>2 DEF FreeSlot
<1>3. CASE free # {}
    <2>1. \E s \in free : \A t \in free : s <= t
        BY <1>1, <1>3, SmallestExists
    <2>2. FreeSlot = CHOOSE s \in free : \A t \in free : s <= t
        BY <1>3 DEF FreeSlot
    <2>3. FreeSlot \in free
        BY <2>1, <2>2
    <2> QED
        BY <2>3
<1> QED
    BY <1>2, <1>3

LEMMA NextSectionFacts ==
    ASSUME NEW n \in 1 .. 5, NEW fl
    PROVE  \/ NextSection(n, fl) = "top"
           \/ \E k \in n .. 5 : NextSection(n, fl) = Sections[k] /\ Sections[k] \in fl
<1> DEFINE due == {k \in n .. Len(Sections) : Sections[k] \in fl}
<1>1. Len(Sections) = 5
    BY DEF Sections
<1>2. CASE due = {}
    BY <1>2 DEF NextSection
<1>3. CASE due # {}
    <2>1. due \in SUBSET Nat
        BY <1>1
    <2>2. \E k \in due : \A l \in due : k <= l
        BY <1>3, <2>1, SmallestExists
    <2>3. PICK k : k = CHOOSE x \in due : \A l \in due : x <= l
        OBVIOUS
    <2>4. k \in due
        BY <2>2, <2>3
    <2>5. NextSection(n, fl) = Sections[k]
        BY <1>3, <2>3 DEF NextSection
    <2> QED
        BY <1>1, <2>4, <2>5
<1> QED
    BY <1>2, <1>3

LEMMA NextSectionPoint ==
    ASSUME NEW n \in 1 .. 5, NEW fl
    PROVE  NextSection(n, fl) \in {"top", "reconfigure", "restart", "reopen",
                                   "change_binary", "noaccept"}
BY NextSectionFacts DEF Sections

-----------------------------------------------------------------------------
(***************************************************************************)
(* What the steps do to the table and to the processes, slot by slot and   *)
(* process by process.                                                     *)
(***************************************************************************)

(* Everything of a slot but its channel. *)
SameSlot(r, q) ==
    /\ r.pid = q.pid /\ r.kind = q.kind /\ r.respawn = q.respawn
    /\ r.just_spawn = q.just_spawn /\ r.detached = q.detached
    /\ r.exiting = q.exiting /\ r.exited = q.exited

(* fork() made process p. *)
Forked(p, kind) ==
    /\ p \in Pids /\ child[p].st = "unused"
    /\ child' \in [Pids -> Child]
    /\ child'[p].st = "running" /\ child'[p].kind = kind
    /\ child'[p].asked = {}
    /\ \A q \in Pids \ {p} : child'[q] = child[q]

LEMMA ForkEffect ==
    ASSUME child \in [Pids -> Child], gen \in Nat, NEW kind \in Kinds, Fork(kind)
    PROVE  Forked(NewPid, kind)
<1>1. PICK p \in Pids : p = NewPid /\ child[p].st = "unused"
    BY NewPidFacts DEF Fork
<1>2. PICK r : r = [st |-> "running", kind |-> kind, gen |-> gen,
                    asked |-> {}, fatal |-> FALSE]
    OBVIOUS
<1>3. child' = [child EXCEPT ![p] = r]
    BY <1>1, <1>2 DEF Fork
<1>4. r \in Child
    <2>1. "running" \in {"unused", "zombie", "gone"} \cup Alive
        BY DEF Alive
    <2> QED
        BY <1>2, <2>1 DEF Child
<1>5. child' \in [Pids -> Child]
    BY <1>3, <1>4
<1>6. child'[p] = r /\ \A q \in Pids \ {p} : child'[q] = child[q]
    BY <1>3
<1>7. r.st = "running" /\ r.kind = kind /\ r.asked = {}
    BY <1>2
<1> QED
    BY <1>1, <1>5, <1>6, <1>7 DEF Forked

(* A failed attempt to spawn a process touches a channel at most. *)
Refused ==
    /\ slots' \in [Slots -> Slot]
    /\ \A s \in Slots : SameSlot(slots'[s], slots[s])
    /\ UNCHANGED <<last, child>>
    /\ failures' = failures + 1

LEMMA ChannelEffect ==
    ASSUME slots \in [Slots -> Slot], NEW s, NEW c \in {"none", "open", "stale"},
           slots' = [slots EXCEPT ![s].channel = c]
    PROVE  /\ slots' \in [Slots -> Slot]
           /\ \A t \in Slots : SameSlot(slots'[t], slots[t])
<1>1. ASSUME NEW t \in Slots
      PROVE  slots'[t] \in Slot /\ SameSlot(slots'[t], slots[t])
    <2>1. PICK r \in Slot : r = slots[t]
        OBVIOUS
    <2>2. slots'[t] = r \/ slots'[t] = [r EXCEPT !.channel = c]
        BY <2>1
    <2>3. [r EXCEPT !.channel = c] \in Slot
        BY DEF Slot
    <2>4. SameSlot(r, r) /\ SameSlot([r EXCEPT !.channel = c], r)
        BY DEF SameSlot, Slot
    <2> QED
        BY <2>1, <2>2, <2>3, <2>4
<1>2. slots' \in [Slots -> Slot]
    BY <1>1
<1> QED
    BY <1>1, <1>2

(* A process in a slot that was free. *)
Spawned(s, p, kind, type) ==
    /\ Forked(p, kind)
    /\ s \in Slots
    /\ \/ s < last /\ slots[s].pid = Invalid /\ last' = last
       \/ s = last /\ last' = last + 1
    /\ slots' \in [Slots -> Slot]
    /\ slots'[s].pid = p /\ slots'[s].kind = kind
    /\ slots'[s].just_spawn <=> type \in {"JUST_SPAWN", "JUST_RESPAWN"}
    /\ slots'[s].detached <=> type = "DETACHED"
    /\ slots'[s].exiting = FALSE /\ slots'[s].exited = FALSE
    /\ \A t \in Slots \ {s} : slots'[t] = slots[t]
    /\ failures' = failures

LEMMA NewSlotType ==
    ASSUME NEW p \in Pids, NEW kind \in Kinds, NEW b1 \in BOOLEAN,
           NEW b2 \in BOOLEAN, NEW b3 \in BOOLEAN,
           NEW c \in {"none", "open", "stale"}
    PROVE  [pid |-> p, kind |-> kind, respawn |-> b1, just_spawn |-> b2,
            detached |-> b3, exiting |-> FALSE, exited |-> FALSE,
            channel |-> c] \in Slot
BY DEF Slot

LEMMA SpawnEffect ==
    ASSUME TableType, gen \in Nat, NEW kind \in Kinds, NEW type,
           SpawnNew(kind, type)
    PROVE  \/ Refused
           \/ child' # child /\ \E s \in Slots : Spawned(s, NewPid, kind, type)
<1>1. slots \in [Slots -> Slot] /\ last \in 0 .. MaxProcesses /\ child \in [Pids -> Child]
    BY DEF TableType
<1>2. PICK s : s = FreeSlot
    OBVIOUS
<1>3. \/ s = last
      \/ s \in 0 .. last - 1 /\ slots[s].pid = Invalid
    BY <1>1, <1>2, FreeSlotFacts
<1>4. CASE UNCHANGED <<slots, last, child>> /\ failures' = failures + 1
    BY <1>1, <1>4 DEF Refused, SameSlot
<1>5. ASSUME ~TableFull(s), SpawnFails, UNCHANGED last,
             NEW c \in FailedChannel(s, type = "DETACHED"),
             slots' = [slots EXCEPT ![s].channel = c]
      PROVE  Refused
    <2>1. s \in Slots
        BY <1>1, <1>3, <1>5, SlotsFacts DEF TableFull, Slots
    <2>2. slots[s].channel \in {"none", "open", "stale"}
        BY <1>1, <2>1 DEF Slot
    <2>3. c \in {"none", "open", "stale"}
        BY <1>5, <2>2 DEF FailedChannel
    <2>4. /\ slots' \in [Slots -> Slot]
          /\ \A t \in Slots : SameSlot(slots'[t], slots[t])
        BY <1>1, <1>5, <2>3, ChannelEffect
    <2> QED
        BY <1>5, <2>4 DEF Refused, SpawnFails
<1>6. ASSUME ~TableFull(s), Fork(kind), UNCHANGED failures,
             slots' = [slots EXCEPT ![s] =
                [pid |-> NewPid, kind |-> kind,
                 respawn |-> type \in {"RESPAWN", "JUST_RESPAWN"},
                 just_spawn |-> type \in {"JUST_SPAWN", "JUST_RESPAWN"},
                 detached |-> type = "DETACHED",
                 exiting |-> FALSE, exited |-> FALSE,
                 channel |-> IF type = "DETACHED" THEN "none" ELSE "open"]],
             last' = IF s = last THEN last + 1 ELSE last
      PROVE  child' # child /\ \E x \in Slots : Spawned(x, NewPid, kind, type)
    <2>1. s \in Slots /\ s \in Nat
        BY <1>1, <1>3, <1>6, SlotsFacts DEF TableFull, Slots
    <2>2. PICK p : p = NewPid /\ Forked(p, kind)
        BY <1>1, <1>6, ForkEffect
    <2>3. p \in Pids /\ child' # child
        BY <2>2 DEF Forked
    <2>4. PICK b1 \in BOOLEAN : b1 <=> type \in {"RESPAWN", "JUST_RESPAWN"}
        OBVIOUS
    <2>5. PICK b2 \in BOOLEAN : b2 <=> type \in {"JUST_SPAWN", "JUST_RESPAWN"}
        OBVIOUS
    <2>6. PICK b3 \in BOOLEAN : b3 <=> type = "DETACHED"
        OBVIOUS
    <2>7. PICK c \in {"none", "open", "stale"} :
                c = IF type = "DETACHED" THEN "none" ELSE "open"
        OBVIOUS
    <2>8. PICK r : r = [pid |-> p, kind |-> kind, respawn |-> b1,
                        just_spawn |-> b2, detached |-> b3, exiting |-> FALSE,
                        exited |-> FALSE, channel |-> c]
        OBVIOUS
    <2>9. r \in Slot
        BY <2>3, <2>8, NewSlotType
    <2>10. slots' = [slots EXCEPT ![s] = r]
        BY <1>6, <2>2, <2>4, <2>5, <2>6, <2>7, <2>8
    <2>11. /\ slots' \in [Slots -> Slot] /\ slots'[s] = r
           /\ \A t \in Slots \ {s} : slots'[t] = slots[t]
        BY <1>1, <2>1, <2>9, <2>10
    <2>12. /\ r.pid = p /\ r.kind = kind /\ r.just_spawn = b2 /\ r.detached = b3
           /\ r.exiting = FALSE /\ r.exited = FALSE
        BY <2>8
    <2>13. \/ s < last /\ slots[s].pid = Invalid /\ last' = last
           \/ s = last /\ last' = last + 1
        BY <1>1, <1>3, <1>6, <2>1
    <2>14. slots'[s].just_spawn <=> type \in {"JUST_SPAWN", "JUST_RESPAWN"}
        BY <2>5, <2>11, <2>12
    <2>15. slots'[s].detached <=> type = "DETACHED"
        BY <2>6, <2>11, <2>12
    <2>16. Spawned(s, p, kind, type)
        BY <1>6, <2>1, <2>2, <2>11, <2>12, <2>13, <2>14, <2>15 DEF Spawned
    <2> QED
        BY <2>1, <2>2, <2>3, <2>16
<1> QED
    BY <1>2, <1>4, <1>5, <1>6 DEF SpawnNew

(* ngx_signal_worker_processes() *)
Signalled(order) ==
    /\ slots' \in [Slots -> Slot] /\ child' \in [Pids -> Child]
    /\ \A s \in Slots :
          /\ slots'[s].pid = slots[s].pid /\ slots'[s].kind = slots[s].kind
          /\ slots'[s].detached = slots[s].detached
          /\ slots'[s].exited <=>
                slots[s].exited \/ (Reached(s, order) /\ NoSuchProcess(s))
          /\ slots'[s].just_spawn <=>
                /\ slots[s].just_spawn
                /\ ~Used(s) \/ slots[s].detached
          /\ slots'[s].exiting <=>
                IF Reached(s, order)
                THEN ~NoSuchProcess(s) /\ (slots[s].exiting \/ order # "reopen")
                ELSE slots[s].exiting
    /\ \A p \in Pids :
          /\ child'[p].st = child[p].st /\ child'[p].kind = child[p].kind
          /\ child'[p].asked =
                IF /\ child[p].st \in Alive
                   /\ \E s \in Slots : Reached(s, order) /\ slots[s].pid = p
                THEN child[p].asked \cup {order} ELSE child[p].asked

LEMMA SlotExceptType ==
    ASSUME NEW r \in Slot, NEW b \in BOOLEAN, NEW d \in BOOLEAN
    PROVE  /\ [r EXCEPT !.just_spawn = b] \in Slot
           /\ [r EXCEPT !.exited = b, !.exiting = d] \in Slot
           /\ [r EXCEPT !.exiting = b] \in Slot
           /\ [r EXCEPT !.exited = b, !.respawn = d] \in Slot
BY DEF Slot

LEMMA SignalSlotEffect ==
    ASSUME slots \in [Slots -> Slot], NEW order, NEW s \in Slots,
           NEW q, q = SlotAfterSignal(s, order)
    PROVE  /\ q \in Slot
           /\ q.pid = slots[s].pid /\ q.kind = slots[s].kind
           /\ q.detached = slots[s].detached
           /\ q.exited <=> slots[s].exited \/ (Reached(s, order) /\ NoSuchProcess(s))
           /\ q.just_spawn <=> slots[s].just_spawn /\ (~Used(s) \/ slots[s].detached)
           /\ q.exiting <=>
                IF Reached(s, order)
                THEN ~NoSuchProcess(s) /\ (slots[s].exiting \/ order # "reopen")
                ELSE slots[s].exiting
<1>1. PICK r \in Slot : r = slots[s]
    OBVIOUS
<1>2. /\ r.exited \in BOOLEAN /\ r.exiting \in BOOLEAN /\ r.just_spawn \in BOOLEAN
      /\ r.detached \in BOOLEAN
    BY DEF Slot
<1>3. CASE Used(s) /\ ~r.detached /\ r.just_spawn
    <2>1. ~Reached(s, order)
        BY <1>1, <1>3 DEF Reached
    <2>2. q = [r EXCEPT !.just_spawn = FALSE]
        BY <1>1, <1>3 DEF SlotAfterSignal, Used
    <2>3. q \in Slot
        BY <2>2, SlotExceptType
    <2>4. /\ q.pid = r.pid /\ q.kind = r.kind /\ q.detached = r.detached
          /\ q.exited = r.exited /\ q.just_spawn = FALSE /\ q.exiting = r.exiting
        BY <2>2 DEF Slot
    <2> QED
        BY <1>1, <1>2, <1>3, <2>1, <2>3, <2>4
<1>4. CASE ~(Used(s) /\ ~r.detached /\ r.just_spawn) /\ ~Reached(s, order)
    <2>1. q = r
        BY <1>1, <1>4 DEF SlotAfterSignal, Used
    <2> QED
        BY <1>1, <1>2, <1>4, <2>1
<1>5. CASE Reached(s, order)
    <2>1. Used(s) /\ ~r.detached /\ ~r.just_spawn
        BY <1>1, <1>5 DEF Reached, Used
    <2>2. CASE NoSuchProcess(s)
        <3>1. q = [r EXCEPT !.exited = TRUE, !.exiting = FALSE]
            BY <1>1, <1>5, <2>1, <2>2 DEF SlotAfterSignal
        <3>2. q \in Slot
            BY <3>1, SlotExceptType
        <3>3. /\ q.pid = r.pid /\ q.kind = r.kind /\ q.detached = r.detached
              /\ q.exited = TRUE /\ q.just_spawn = r.just_spawn
              /\ q.exiting = FALSE
            BY <3>1 DEF Slot
        <3> QED
            BY <1>1, <1>2, <1>5, <2>1, <2>2, <3>2, <3>3
    <2>3. CASE ~NoSuchProcess(s)
        <3>1. PICK b \in BOOLEAN : b <=> r.exiting \/ order # "reopen"
            OBVIOUS
        <3>2. q = [r EXCEPT !.exiting = b]
            BY <1>1, <1>2, <1>5, <2>1, <2>3, <3>1 DEF SlotAfterSignal
        <3>3. q \in Slot
            BY <3>2, SlotExceptType
        <3>4. /\ q.pid = r.pid /\ q.kind = r.kind /\ q.detached = r.detached
              /\ q.exited = r.exited /\ q.just_spawn = r.just_spawn
              /\ q.exiting = b
            BY <3>2 DEF Slot
        <3> QED
            BY <1>1, <1>2, <1>5, <2>1, <2>3, <3>1, <3>3, <3>4
    <2> QED
        BY <2>2, <2>3
<1> QED
    BY <1>3, <1>4, <1>5

LEMMA SignalEffect ==
    ASSUME TableType, NEW order \in Orders, NEW base, SignalWorkers(order, base)
    PROVE  /\ Signalled(order)
           /\ flags' = base \/ flags' = base \cup {"reap"}
           /\ (\E s \in Slots : Reached(s, order) /\ NoSuchProcess(s))
                 => flags' = base \cup {"reap"}
<1>1. slots \in [Slots -> Slot] /\ child \in [Pids -> Child]
    BY DEF TableType
<1>2. slots' = [s \in Slots |-> SlotAfterSignal(s, order)]
    BY DEF SignalWorkers
<1>3. \A s \in Slots : slots'[s] = SlotAfterSignal(s, order)
    BY <1>2
<1>4. \A s \in Slots :
          /\ slots'[s] \in Slot
          /\ slots'[s].pid = slots[s].pid /\ slots'[s].kind = slots[s].kind
          /\ slots'[s].detached = slots[s].detached
          /\ slots'[s].exited <=>
                slots[s].exited \/ (Reached(s, order) /\ NoSuchProcess(s))
          /\ slots'[s].just_spawn <=>
                slots[s].just_spawn /\ (~Used(s) \/ slots[s].detached)
          /\ slots'[s].exiting <=>
                IF Reached(s, order)
                THEN ~NoSuchProcess(s) /\ (slots[s].exiting \/ order # "reopen")
                ELSE slots[s].exiting
    <2> TAKE s \in Slots
    <2>1. PICK q : q = SlotAfterSignal(s, order)
        OBVIOUS
    <2>2. slots'[s] = q
        BY <1>3, <2>1
    <2> QED
        BY <1>1, <2>1, <2>2, SignalSlotEffect
<1>5. slots' \in [Slots -> Slot]
    BY <1>2, <1>4
<1>6. ASSUME NEW p \in Pids
      PROVE  /\ child'[p] \in Child
             /\ child'[p].st = child[p].st /\ child'[p].kind = child[p].kind
             /\ child'[p].asked =
                   IF /\ child[p].st \in Alive
                      /\ \E s \in Slots : Reached(s, order) /\ slots[s].pid = p
                   THEN child[p].asked \cup {order} ELSE child[p].asked
    <2>1. PICK b \in BOOLEAN :
              b <=> /\ child[p].st \in Alive
                    /\ \E s \in Slots : Reached(s, order) /\ slots[s].pid = p
        OBVIOUS
    <2>2. PICK r \in Child : r = child[p]
        BY <1>1
    <2>3. child'[p] = IF b THEN [r EXCEPT !.asked = r.asked \cup {order}] ELSE r
        BY <2>1, <2>2 DEF SignalWorkers
    <2>4. PICK a \in SUBSET Orders : a = r.asked \cup {order}
        BY DEF Child
    <2>5. [r EXCEPT !.asked = a] \in Child
        BY DEF Child
    <2>6. /\ [r EXCEPT !.asked = a].st = r.st
          /\ [r EXCEPT !.asked = a].kind = r.kind
          /\ [r EXCEPT !.asked = a].asked = a
        BY DEF Child
    <2>7. CASE b
        <3>1. child'[p] = [r EXCEPT !.asked = a]
            BY <2>3, <2>4, <2>7
        <3> QED
            BY <2>1, <2>2, <2>4, <2>5, <2>6, <2>7, <3>1
    <2>8. CASE ~b
        BY <2>1, <2>2, <2>3, <2>8
    <2> QED
        BY <2>7, <2>8
<1>7. child' \in [Pids -> Child]
    BY <1>6 DEF SignalWorkers
<1>8. Signalled(order)
    BY <1>4, <1>5, <1>6, <1>7 DEF Signalled
<1>9. /\ flags' = base \/ flags' = base \cup {"reap"}
      /\ (\E s \in Slots : Reached(s, order) /\ NoSuchProcess(s))
            => flags' = base \cup {"reap"}
    BY DEF SignalWorkers
<1> QED
    BY <1>8, <1>9

(* ngx_process_get_status() reports the processes of Z. *)
Reported(Z) ==
    /\ slots' \in [Slots -> Slot] /\ child' \in [Pids -> Child]
    /\ \A s \in Slots :
          /\ slots'[s].pid = slots[s].pid /\ slots'[s].kind = slots[s].kind
          /\ slots'[s].just_spawn = slots[s].just_spawn
          /\ slots'[s].detached = slots[s].detached
          /\ slots'[s].exiting = slots[s].exiting
          /\ slots'[s].exited <=>
                slots[s].exited \/ (s < last /\ slots[s].pid \in Z)
    /\ \A p \in Pids :
          /\ p \in Z => child'[p].st = "gone"
          /\ p \notin Z => child'[p] = child[p]

LEMMA ReportEffect ==
    ASSUME TableType, NEW Z, GetStatus(Z)
    PROVE  Reported(Z)
<1>1. slots \in [Slots -> Slot] /\ child \in [Pids -> Child]
    BY DEF TableType
<1>2. ASSUME NEW s \in Slots
      PROVE  /\ slots'[s] \in Slot
             /\ slots'[s].pid = slots[s].pid /\ slots'[s].kind = slots[s].kind
             /\ slots'[s].just_spawn = slots[s].just_spawn
             /\ slots'[s].detached = slots[s].detached
             /\ slots'[s].exiting = slots[s].exiting
             /\ slots'[s].exited <=>
                   slots[s].exited \/ (s < last /\ slots[s].pid \in Z)
    <2>1. PICK r \in Slot : r = slots[s]
        BY <1>1
    <2>2. PICK b \in BOOLEAN : b <=> r.respawn /\ ~child[r.pid].fatal
        OBVIOUS
    <2>3. r.respawn \in BOOLEAN /\ r.exited \in BOOLEAN
        BY DEF Slot
    <2>4. CASE s < last /\ r.pid \in Z
        <3>1. slots'[s] = [r EXCEPT !.exited = TRUE, !.respawn = b]
            BY <2>1, <2>2, <2>3, <2>4 DEF GetStatus
        <3>2. PICK q : q = [r EXCEPT !.exited = TRUE, !.respawn = b]
            OBVIOUS
        <3>3. q \in Slot
            BY <3>2, SlotExceptType
        <3>4. /\ q.pid = r.pid /\ q.kind = r.kind /\ q.detached = r.detached
              /\ q.exited = TRUE /\ q.just_spawn = r.just_spawn
              /\ q.exiting = r.exiting
            BY <3>2 DEF Slot
        <3> QED
            BY <2>1, <2>4, <3>1, <3>2, <3>3, <3>4
    <2>5. CASE ~(s < last /\ r.pid \in Z)
        <3>1. slots'[s] = r
            BY <2>1, <2>5 DEF GetStatus
        <3> QED
            BY <2>1, <2>3, <2>5, <3>1
    <2> QED
        BY <2>4, <2>5
<1>3. slots' \in [Slots -> Slot]
    BY <1>2 DEF GetStatus
<1>4. ASSUME NEW p \in Pids
      PROVE  /\ child'[p] \in Child
             /\ p \in Z => child'[p].st = "gone"
             /\ p \notin Z => child'[p] = child[p]
    <2>1. PICK r \in Child : r = child[p]
        BY <1>1
    <2>2. CASE p \in Z
        <3>1. PICK q : q = [r EXCEPT !.st = "gone", !.asked = {}]
            OBVIOUS
        <3>2. child'[p] = q
            BY <2>1, <2>2, <3>1 DEF GetStatus
        <3>3. q \in Child /\ q.st = "gone"
            BY <3>1 DEF Child
        <3> QED
            BY <2>2, <3>2, <3>3
    <2>3. CASE p \notin Z
        BY <2>1, <2>3 DEF GetStatus
    <2> QED
        BY <2>2, <2>3
<1>5. child' \in [Pids -> Child]
    BY <1>4 DEF GetStatus
<1> QED
    BY <1>2, <1>3, <1>4, <1>5 DEF Reported

(* ngx_reap_children() starts process p in slot s again. *)
Respawned(s, p) ==
    /\ Forked(p, slots[s].kind)
    /\ slots' \in [Slots -> Slot]
    /\ slots'[s].pid = p /\ slots'[s].exited = FALSE
    /\ slots'[s].kind = slots[s].kind
    /\ slots'[s].just_spawn = slots[s].just_spawn
    /\ slots'[s].detached = slots[s].detached
    /\ slots'[s].exiting = slots[s].exiting
    /\ \A t \in Slots \ {s} : slots'[t] = slots[t]
    /\ last' = last /\ failures' = failures

LEMMA ReapSlot ==
    ASSUME TableType, i \in Nat, i < last
    PROVE  i \in Slots
BY SlotsFacts DEF TableType, Slots

LEMMA RespawnEffect ==
    ASSUME TableType, i \in Nat, gen \in Nat, ReapRespawn
    PROVE  \/ Refused /\ live' = live
           \/ Respawned(i, NewPid) /\ live' = TRUE
<1>1. slots \in [Slots -> Slot] /\ child \in [Pids -> Child]
    BY DEF TableType
<1>2. i \in Slots
    BY ReapSlot DEF ReapRespawn
<1>3. PICK r \in Slot : r = slots[i]
    BY <1>1, <1>2
<1>4. ASSUME Fork(slots[i].kind), live' = TRUE, UNCHANGED failures,
             slots' = [slots EXCEPT ![i].pid = NewPid, ![i].exited = FALSE,
                                    ![i].channel = "open"]
      PROVE  Respawned(i, NewPid)
    <2>1. r.kind \in Kinds
        BY DEF Slot
    <2>2. Forked(NewPid, r.kind)
        BY <1>1, <1>3, <1>4, <2>1, ForkEffect
    <2>3. PICK p \in Pids : p = NewPid
        BY <2>2 DEF Forked
    <2>4. PICK q : q = [r EXCEPT !.pid = p, !.exited = FALSE, !.channel = "open"]
        OBVIOUS
    <2>5. q \in Slot
        BY <2>4 DEF Slot
    <2>6. /\ q.pid = p /\ q.exited = FALSE /\ q.kind = r.kind
          /\ q.just_spawn = r.just_spawn /\ q.detached = r.detached
          /\ q.exiting = r.exiting
        BY <2>4 DEF Slot
    <2>7. slots' = [slots EXCEPT ![i] = q]
        BY <1>1, <1>2, <1>3, <1>4, <2>3, <2>4
    <2>8. /\ slots' \in [Slots -> Slot] /\ slots'[i] = q
          /\ \A t \in Slots \ {i} : slots'[t] = slots[t]
        BY <1>1, <1>2, <2>5, <2>7
    <2>9. last' = last
        BY DEF ReapRespawn
    <2> QED
        BY <1>3, <1>4, <2>2, <2>3, <2>6, <2>8, <2>9 DEF Respawned
<1>5. ASSUME SpawnFails, UNCHANGED live, NEW c \in {"none", "stale"},
             slots' = [slots EXCEPT ![i].channel = c]
      PROVE  Refused
    <2>1. /\ slots' \in [Slots -> Slot]
          /\ \A t \in Slots : SameSlot(slots'[t], slots[t])
        BY <1>1, <1>5, ChannelEffect
    <2> QED
        BY <1>5, <2>1 DEF Refused, SpawnFails, ReapRespawn
<1> QED
    BY <1>4, <1>5 DEF ReapRespawn

(* ngx_reap_children() frees slot s. *)
Freed(s) ==
    /\ slots' \in [Slots -> Slot]
    /\ \/ slots'[s].pid = Invalid /\ last' = last
       \/ s = last - 1 /\ last' = last - 1
    /\ \A t \in Slots \ {s} : slots'[t] = slots[t]
    /\ child' = child /\ failures' = failures

LEMMA FreeEffect ==
    ASSUME TableType, i \in Nat, ReapFree
    PROVE  Freed(i)
<1>1. slots \in [Slots -> Slot] /\ last \in 0 .. MaxProcesses
    BY DEF TableType
<1>2. i \in Slots /\ i < last
    BY ReapSlot DEF ReapFree
<1>3. PICK r \in Slot : r = slots[i]
    BY <1>1, <1>2
<1>4. PICK c \in {"none", "open", "stale"} :
          c = IF r.detached THEN r.channel ELSE "none"
    BY DEF Slot
<1>5. PICK x \in Pids \cup {0, Invalid} : x = IF i = last - 1 THEN r.pid ELSE Invalid
    BY DEF Slot
<1>6. PICK q : q = [r EXCEPT !.channel = c, !.pid = x]
    OBVIOUS
<1>7. q \in Slot /\ q.pid = x
    BY <1>6 DEF Slot
<1>8. slots' = [slots EXCEPT ![i] = q]
    BY <1>1, <1>2, <1>3, <1>4, <1>5, <1>6 DEF ReapFree
<1>9. /\ slots' \in [Slots -> Slot] /\ slots'[i] = q
      /\ \A t \in Slots \ {i} : slots'[t] = slots[t]
    BY <1>1, <1>2, <1>7, <1>8
<1>10. /\ last' = (IF i = last - 1 THEN last - 1 ELSE last)
       /\ child' = child /\ failures' = failures
    BY DEF ReapFree, counts
<1> QED
    BY <1>5, <1>7, <1>9, <1>10 DEF Freed

(* A process goes on, by itself or as it was asked to. *)
Moved(p) ==
    /\ child' \in [Pids -> Child]
    /\ child[p].st \in Alive /\ child'[p].st \in Alive \cup {"zombie"}
    /\ child'[p].kind = child[p].kind
    /\ \A q \in Pids \ {p} : child'[q] = child[q]

LEMMA LeaveEffect ==
    ASSUME child \in [Pids -> Child], NEW p \in Pids, NEW fatal \in BOOLEAN,
           child[p].st \in Alive, Leave(p, fatal)
    PROVE  Moved(p) /\ child'[p].st = "zombie" /\ pend' = pend \cup {"chld"}
<1>1. PICK r \in Child : r = child[p]
    OBVIOUS
<1>2. PICK q : q = [r EXCEPT !.st = "zombie", !.fatal = fatal]
    OBVIOUS
<1>3. q \in Child /\ q.st = "zombie" /\ q.kind = r.kind
    BY <1>2 DEF Child
<1>4. child' = [child EXCEPT ![p] = q]
    BY <1>1, <1>2 DEF Leave
<1>5. /\ child' \in [Pids -> Child] /\ child'[p] = q
      /\ \A x \in Pids \ {p} : child'[x] = child[x]
    BY <1>3, <1>4
<1> QED
    BY <1>1, <1>3, <1>5 DEF Moved, Leave

(* A child takes an order off its list. *)
LEMMA ObeyEffect ==
    ASSUME child \in [Pids -> Child], NEW p \in Pids, child[p].st \in Alive,
           NEW st \in Alive, NEW a \in SUBSET Orders,
           child' = [child EXCEPT ![p] = [@ EXCEPT !.st = st, !.asked = a]]
    PROVE  Moved(p) /\ child'[p].st = st /\ child'[p].asked = a
<1>1. PICK r \in Child : r = child[p]
    OBVIOUS
<1>2. PICK q : q = [r EXCEPT !.st = st, !.asked = a]
    OBVIOUS
<1>3. q \in Child /\ q.st = st /\ q.kind = r.kind /\ q.asked = a
    BY <1>2 DEF Child
<1>4. child' = [child EXCEPT ![p] = q]
    BY <1>1, <1>2
<1>5. /\ child' \in [Pids -> Child] /\ child'[p] = q
      /\ \A x \in Pids \ {p} : child'[x] = child[x]
    BY <1>3, <1>4
<1> QED
    BY <1>1, <1>3, <1>5 DEF Moved

(***************************************************************************)
(* The steps of a child change nothing of the master's, and only a crash   *)
(* takes away a worker that serves.                                        *)
(***************************************************************************)
ChildStep(p) ==
    Obedient(p) \/ LoaderDone(p) \/ ChildKilled(p) \/ Crash(p) \/ BinaryExit(p)

ChildDoes(p) ==
    /\ Moved(p)
    /\ pend' = pend \/ pend' = pend \cup {"chld"}
    /\ UNCHANGED <<commands, failures>>
    /\ \/ crashes' = crashes /\ (p \in Serving => p \in Serving')
       \/ crashes' = crashes + 1

LEMMA ChildEffect ==
    ASSUME TableType, NEW p \in Pids, ChildStep(p)
    PROVE  ChildDoes(p) /\ UNCHANGED masterVars
<1>0. child \in [Pids -> Child]
    BY DEF TableType
<1>1. PICK r \in Child : r = child[p]
    BY <1>0
<1>2. r.asked \in SUBSET Orders /\ r.st \in {"unused", "zombie", "gone"} \cup Alive
    BY DEF Child
<1>3. ASSUME Leave(p, FALSE), child[p].st \in Alive, p \notin Serving,
             UNCHANGED counts
      PROVE  ChildDoes(p)
    BY <1>0, <1>3, LeaveEffect DEF ChildDoes, counts
<1>4. CASE ChildQuit(p)
    <2>1. UNCHANGED <<masterVars, counts>> /\ child[p].st \in Alive
          /\ "quit" \in child[p].asked
        BY <1>4 DEF ChildQuit
    <2>2. p \notin Serving
        BY <2>1 DEF Serving
    <2>3. CASE child[p].kind = "worker"
        <3>1. PICK a \in SUBSET Orders : a = r.asked \ {"quit"}
            BY <1>2
        <3>2. child' = [child EXCEPT ![p] = [@ EXCEPT !.st = "exiting", !.asked = a]]
              /\ pend' = pend
            BY <1>0, <1>1, <1>4, <2>3, <3>1 DEF ChildQuit
        <3>3. "exiting" \in Alive
            BY DEF Alive
        <3>4. Moved(p)
            BY <1>0, <2>1, <3>2, <3>3, ObeyEffect
        <3> QED
            BY <2>1, <2>2, <3>2, <3>4 DEF ChildDoes, counts
    <2>4. CASE child[p].kind # "worker"
        <3>1. Leave(p, FALSE)
            BY <1>4, <2>4 DEF ChildQuit
        <3> QED
            BY <1>3, <2>1, <2>2, <3>1
    <2> QED
        BY <2>3, <2>4
<1>5. CASE ChildTerminate(p) \/ ChildKilled(p)
    <2>1. /\ UNCHANGED <<masterVars, counts>> /\ child[p].st \in Alive
          /\ child[p].asked \cap {"terminate", "kill"} # {} /\ Leave(p, FALSE)
        BY <1>5 DEF ChildTerminate, ChildKilled
    <2>2. p \notin Serving
        BY <2>1 DEF Serving
    <2> QED
        BY <1>3, <2>1, <2>2
<1>6. CASE ChildReopen(p)
    <2>1. UNCHANGED <<masterVars, pend, counts>> /\ child[p].st \in Alive
        BY <1>6 DEF ChildReopen
    <2>2. PICK a \in SUBSET Orders : a = r.asked \ {"reopen"}
        BY <1>2
    <2>3. PICK q : q = [r EXCEPT !.asked = a]
        OBVIOUS
    <2>4. q \in Child /\ q.st = r.st /\ q.kind = r.kind /\ q.asked = a
        BY <2>3 DEF Child
    <2>5. child' = [child EXCEPT ![p] = q]
        BY <1>0, <1>1, <1>6, <2>2, <2>3 DEF ChildReopen
    <2>6. /\ child' \in [Pids -> Child] /\ child'[p] = q
          /\ \A x \in Pids \ {p} : child'[x] = child[x]
        BY <1>0, <2>4, <2>5
    <2>7. Moved(p)
        BY <1>1, <2>1, <2>4, <2>6 DEF Moved
    <2>8. p \in Serving => p \in Serving'
        <3>1. a \cap {"quit", "terminate", "kill"}
                  \subseteq r.asked \cap {"quit", "terminate", "kill"}
            BY <2>2
        <3> QED
            BY <1>1, <2>4, <2>6, <3>1 DEF Serving
    <2> QED
        BY <2>1, <2>7, <2>8 DEF ChildDoes, counts
<1>7. CASE ChildDrained(p) \/ LoaderDone(p) \/ BinaryExit(p)
    <2>1. /\ UNCHANGED <<masterVars, counts>> /\ Leave(p, FALSE)
          /\ child[p].st = "exiting" \/ child[p].st \in Alive
          /\ child[p].st = "exiting" \/ child[p].kind \in {"loader", "binary"}
        BY <1>7 DEF ChildDrained, LoaderDone, BinaryExit
    <2>2. p \notin Serving /\ child[p].st \in Alive
        BY <2>1 DEF Serving, Alive
    <2> QED
        BY <1>3, <2>1, <2>2
<1>8. CASE Crash(p)
    <2>1. /\ UNCHANGED <<masterVars, commands, failures>> /\ child[p].st \in Alive
          /\ crashes' = crashes + 1
        BY <1>8 DEF Crash
    <2>2. PICK fatal \in BOOLEAN : Leave(p, fatal)
        BY <1>8 DEF Crash
    <2>3. Moved(p) /\ pend' = pend \cup {"chld"}
        BY <1>0, <2>1, <2>2, LeaveEffect
    <2> QED
        BY <2>1, <2>3 DEF ChildDoes
<1> QED
    BY <1>4, <1>5, <1>6, <1>7, <1>8 DEF ChildStep, Obedient

-----------------------------------------------------------------------------
(***************************************************************************)
(* What the start functions have to spawn.                                 *)
(***************************************************************************)
Workers(q) == Cardinality({k \in DOMAIN q : q[k].kind = "worker"})

LEMMA ConcatFacts ==
    ASSUME NEW T, NEW s \in Seq(T), NEW t \in Seq(T), NEW n \in Nat, NEW m \in Nat,
           n = Len(s), m = Len(t)
    PROVE  /\ s \o t \in Seq(T) /\ Len(s \o t) = n + m
           /\ \A k \in 1 .. n : (s \o t)[k] = s[k]
           /\ \A k \in 1 .. m : (s \o t)[n + k] = t[k]
<1>1. s \o t \in Seq(T) /\ Len(s \o t) = n + m
    OBVIOUS
<1>2. \A k \in 1 .. n : (s \o t)[k] = s[k]
    OBVIOUS
<1>3. ASSUME NEW k \in 1 .. m
      PROVE  (s \o t)[n + k] = t[k]
    <2>1. n + k \in 1 .. n + m /\ n + k > n /\ (n + k) - n = k
        OBVIOUS
    <2> QED
        BY <2>1
<1> QED
    BY <1>1, <1>2, <1>3

(* A list of one process, or of none. *)
LEMMA OneOrNone ==
    ASSUME NEW T, NEW x \in T, NEW B, NEW b, b = IF B THEN <<x>> ELSE <<>>
    PROVE  b \in Seq(T) /\ \A k \in DOMAIN b : b[k] = x
<1>1. CASE B
    <2>1. b = <<x>>
        BY <1>1
    <2> QED
        BY <2>1
<1>2. CASE ~B
    <2>1. b = <<>>
        BY <1>2
    <2> QED
        BY <2>1
<1> QED
    BY <1>1, <1>2

LEMMA StartListFacts ==
    ASSUME NEW w, NEW m, NEW l
    PROVE  /\ StartList(w, m, l)
                 \in Seq([kind : {"worker", "manager", "loader"}, type : {w, m, l}])
           /\ Workers(StartList(w, m, l)) = WorkerProcesses
<1> DEFINE E == [kind : {"worker", "manager", "loader"}, type : {w, m, l}]
<1>1. PICK n \in Nat : n = WorkerProcesses
    BY SizesAssumption
<1>2. PICK a : a = Repeat(n, [kind |-> "worker", type |-> w])
    OBVIOUS
<1>3. PICK b : b = IF "manager" \in CachePaths
                   THEN <<[kind |-> "manager", type |-> m]>> ELSE <<>>
    OBVIOUS
<1>4. PICK c : c = IF CachePaths = {"manager", "loader"}
                   THEN <<[kind |-> "loader", type |-> l]>> ELSE <<>>
    OBVIOUS
<1>5. StartList(w, m, l) = a \o b \o c
    BY <1>1, <1>2, <1>3, <1>4 DEF StartList
<1>6. PICK x \in E : x = [kind |-> "worker", type |-> w]
    OBVIOUS
<1>7. PICK y \in E : y = [kind |-> "manager", type |-> m]
    OBVIOUS
<1>8. PICK z \in E : z = [kind |-> "loader", type |-> l]
    OBVIOUS
<1>9. a \in Seq(E) /\ Len(a) = n /\ \A k \in 1 .. n : a[k] = x
    BY <1>1, <1>2, <1>6 DEF Repeat
<1> HIDE DEF E
<1>10. b \in Seq(E) /\ \A k \in DOMAIN b : b[k].kind # "worker"
    <2>1. b \in Seq(E) /\ \A k \in DOMAIN b : b[k] = y
        BY <1>3, <1>7, OneOrNone
    <2> QED
        BY <1>7, <2>1
<1>11. c \in Seq(E) /\ \A k \in DOMAIN c : c[k].kind # "worker"
    <2>1. c \in Seq(E) /\ \A k \in DOMAIN c : c[k] = z
        BY <1>4, <1>8, OneOrNone
    <2> QED
        BY <1>8, <2>1
<1>12. PICK d : d = a \o b
    OBVIOUS
<1>13. PICK m1 \in Nat : m1 = Len(b)
    BY <1>10
<1>14. PICK m2 \in Nat : m2 = Len(c)
    BY <1>11
<1>15. /\ d \in Seq(E) /\ Len(d) = n + m1
       /\ \A k \in 1 .. n : d[k] = x
       /\ \A k \in 1 .. m1 : d[n + k] = b[k]
    BY SMTT(40), <1>9, <1>10, <1>12, <1>13, ConcatFacts
<1>16. \A k \in 1 .. n + m1 : k > n => d[k].kind # "worker"
    <2> SUFFICES ASSUME NEW k \in 1 .. n + m1, k > n PROVE d[k].kind # "worker"
        OBVIOUS
    <2>1. k - n \in 1 .. m1 /\ n + (k - n) = k
        BY <1>1, <1>13
    <2>2. d[k] = b[k - n]
        BY <1>15, <2>1
    <2> QED
        BY <1>10, <1>13, <2>1, <2>2
<1>17. PICK e : e = d \o c
    OBVIOUS
<1>18. /\ e \in Seq(E) /\ Len(e) = n + m1 + m2
       /\ \A k \in 1 .. n + m1 : e[k] = d[k]
       /\ \A k \in 1 .. m2 : e[n + m1 + k] = c[k]
    <2>1. PICK v \in Nat : v = n + m1
        BY <1>1, <1>13
    <2>2. d \in Seq(E) /\ v = Len(d)
        BY <1>15, <2>1
    <2>3. /\ e \in Seq(E) /\ Len(e) = v + m2
          /\ \A k \in 1 .. v : e[k] = d[k]
          /\ \A k \in 1 .. m2 : e[v + k] = c[k]
        BY <1>11, <1>14, <1>17, <2>2, ConcatFacts
    <2> QED
        BY <2>1, <2>3
<1>19. \A k \in 1 .. n + m1 + m2 : k > n => e[k].kind # "worker"
    <2> SUFFICES ASSUME NEW k \in 1 .. n + m1 + m2, k > n
                 PROVE  e[k].kind # "worker"
        OBVIOUS
    <2>1. CASE k <= n + m1
        BY <1>1, <1>13, <1>16, <1>18, <2>1
    <2>2. CASE k > n + m1
        <3>1. k - (n + m1) \in 1 .. m2 /\ n + m1 + (k - (n + m1)) = k
            BY <1>1, <1>13, <1>14, <2>2
        <3>2. e[k] = c[k - (n + m1)]
            BY <1>18, <3>1
        <3> QED
            BY <1>11, <1>14, <3>1, <3>2
    <2> QED
        BY <1>1, <1>13, <2>1, <2>2
<1>20. {k \in DOMAIN e : e[k].kind = "worker"} = 1 .. n
    <2>1. DOMAIN e = 1 .. n + m1 + m2
        BY <1>18
    <2>2. \A k \in 1 .. n : k \in 1 .. n + m1 /\ k \in 1 .. n + m1 + m2
        BY <1>1, <1>13, <1>14
    <2>3. \A k \in 1 .. n : e[k].kind = "worker"
        BY <1>6, <1>15, <1>18, <2>2
    <2>4. \A k \in 1 .. n + m1 + m2 : k > n \/ k \in 1 .. n
        BY <1>1, <1>13, <1>14
    <2> QED
        BY <1>19, <2>1, <2>2, <2>3, <2>4, <1>1
<1>21. Cardinality(1 .. n) = n
    BY <1>1, FS_Interval
<1>22. Workers(e) = n
    BY <1>20, <1>21 DEF Workers
<1>23. StartList(w, m, l) = e
    BY <1>5, <1>12, <1>17
<1> QED
    BY <1>1, <1>18, <1>22, <1>23 DEF E

LEMMA StartListTypes ==
    /\ StartFresh \in Seq([kind : {"worker", "manager", "loader"},
                           type : {"RESPAWN", "NORESPAWN"}])
    /\ StartJust \in Seq([kind : {"worker", "manager", "loader"},
                          type : {"JUST_RESPAWN", "JUST_SPAWN"}])
    /\ StartFresh \in Seq(Spawn) /\ StartJust \in Seq(Spawn)
<1>1. StartFresh \in Seq([kind : {"worker", "manager", "loader"},
                          type : {"RESPAWN", "RESPAWN", "NORESPAWN"}])
    BY StartListFacts DEF StartFresh
<1>2. {"RESPAWN", "RESPAWN", "NORESPAWN"} = {"RESPAWN", "NORESPAWN"}
    OBVIOUS
<1>3. StartJust \in Seq([kind : {"worker", "manager", "loader"},
                         type : {"JUST_RESPAWN", "JUST_RESPAWN", "JUST_SPAWN"}])
    BY StartListFacts DEF StartJust
<1>4. {"JUST_RESPAWN", "JUST_RESPAWN", "JUST_SPAWN"} = {"JUST_RESPAWN", "JUST_SPAWN"}
    OBVIOUS
<1>5. /\ [kind : {"worker", "manager", "loader"}, type : {"RESPAWN", "NORESPAWN"}]
            \subseteq Spawn
      /\ [kind : {"worker", "manager", "loader"},
          type : {"JUST_RESPAWN", "JUST_SPAWN"}] \subseteq Spawn
    BY DEF Spawn, Kinds, Types
<1>6. \A S, T : \A q \in Seq(S) : S \subseteq T => q \in Seq(T)
    OBVIOUS
<1> QED
    BY <1>1, <1>2, <1>3, <1>4, <1>5, <1>6

-----------------------------------------------------------------------------
(***************************************************************************)
(* Types.                                                                  *)
(***************************************************************************)
FlagsType == flags \subseteq Flags
LocalsType == live \in BOOLEAN /\ delay \in Nat /\ sigio \in Nat
BinaryType ==
    /\ new_binary \in Pids \cup {0, Invalid}
    /\ pidfile \in {"pid", "oldbin", "none"} /\ listening \in BOOLEAN
PointsType ==
    /\ mpc \in Points /\ after \in Points \cup {"boot"}
    /\ i \in Nat /\ todo \in Seq(Spawn)
SignalsType == timer \in BOOLEAN /\ pend \subseteq AllCommands \cup {"chld", "alrm"}
CountsType ==
    gen \in Nat /\ commands \in Nat /\ crashes \in Nat /\ failures \in Nat

WellTyped ==
    /\ TableType /\ FlagsType /\ LocalsType /\ BinaryType /\ PointsType
    /\ SignalsType /\ CountsType

LEMMA WellTypedIsTypeOK == WellTyped <=> TypeOK /\ after \in Points \cup {"boot"}
BY DEF WellTyped, TypeOK, TableType, FlagsType, LocalsType, BinaryType, PointsType,
       SignalsType, CountsType, Points

(* The commands that the master gives, and what it notes of a signal. *)
LEMMA HandlerFlagsType ==
    ASSUME NEW signal \in AllCommands \cup {"chld", "alrm"}
    PROVE  /\ HandlerFlags(signal) \subseteq Flags
           /\ HandlerFlags(signal) \subseteq {"reap", "sigalrm", signal}
           /\ signal = "chld" => "reap" \in HandlerFlags(signal)
BY DEF HandlerFlags, AllCommands, Flags

LEMMA TableKept ==
    ASSUME TableType, UNCHANGED <<slots, last, child>>
    PROVE  TableType'
BY DEF TableType

(* The table after each step. *)
LEMMA TableSignal ==
    ASSUME TableType, NEW order \in Orders, NEW base, SignalWorkers(order, base),
           base \subseteq Flags, UNCHANGED last
    PROVE  TableType' /\ FlagsType'
<1>1. /\ Signalled(order)
      /\ flags' = base \/ flags' = base \cup {"reap"}
    BY SignalEffect
<1>2. TableType'
    BY <1>1 DEF Signalled, TableType
<1>3. FlagsType'
    BY <1>1 DEF FlagsType, Flags
<1> QED
    BY <1>2, <1>3

LEMMA TableSpawn ==
    ASSUME TableType, CountsType, NEW kind \in Kinds, NEW type,
           SpawnNew(kind, type)
    PROVE  /\ TableType' /\ failures' \in Nat
           /\ child' # child => NewPid \in Pids
<1>1. CASE Refused
    BY <1>1 DEF Refused, TableType, CountsType
<1>2. ASSUME NEW s \in Slots, Spawned(s, NewPid, kind, type)
      PROVE  TableType' /\ failures' \in Nat /\ NewPid \in Pids
    <2>1. last' \in 0 .. MaxProcesses
        BY <1>2, SlotsFacts DEF Spawned, TableType, Slots
    <2>2. /\ slots' \in [Slots -> Slot] /\ failures' = failures
          /\ Forked(NewPid, kind)
        BY <1>2 DEF Spawned
    <2>3. child' \in [Pids -> Child] /\ NewPid \in Pids
        BY <2>2 DEF Forked
    <2> QED
        BY <2>1, <2>2, <2>3 DEF TableType, CountsType
<1>3. gen \in Nat
    BY DEF CountsType
<1>4. \/ Refused
      \/ child' # child /\ \E s \in Slots : Spawned(s, NewPid, kind, type)
    BY <1>3, SpawnEffect
<1>5. CASE Refused
    <2>1. child' = child
        BY <1>5 DEF Refused
    <2> QED
        BY <1>1, <1>5, <2>1
<1> QED
    BY <1>2, <1>4, <1>5

LEMMA WellTypedMaster ==
    ASSUME WellTyped, Master
    PROVE  WellTyped'
<1>0. /\ TableType /\ FlagsType /\ LocalsType /\ BinaryType /\ PointsType
      /\ SignalsType /\ CountsType
    BY DEF WellTyped
<1>1. CASE StartNext
    <2>1. PICK e \in Spawn : e = Head(todo)
        BY <1>0, <1>1 DEF StartNext, PointsType
    <2>2. e.kind \in Kinds
        BY DEF Spawn
    <2>3. SpawnNew(e.kind, e.type)
        BY <1>1, <2>1 DEF StartNext
    <2>4. TableType' /\ failures' \in Nat
        BY <1>0, <2>2, <2>3, TableSpawn
    <2>5. todo' \in Seq(Spawn)
        BY <1>0, <1>1 DEF StartNext, PointsType
    <2>6. UNCHANGED <<flags, live, delay, sigio, new_binary, pidfile, listening,
                      gen, mpc, i, after, timer, pend, commands, crashes>>
        BY <1>1 DEF StartNext, locals, files
    <2>7. FlagsType' /\ LocalsType' /\ BinaryType' /\ SignalsType'
        BY <1>0, <2>6 DEF FlagsType, LocalsType, BinaryType, SignalsType
    <2>8. PointsType' /\ CountsType'
        BY <1>0, <2>4, <2>5, <2>6 DEF PointsType, CountsType
    <2> QED
        BY <2>4, <2>7, <2>8 DEF WellTyped
<1>2. CASE StartDone
    <2>1. UNCHANGED <<slots, last, child, flags, live, delay, sigio, new_binary,
                      pidfile, listening, gen, i, todo, timer, pend, commands,
                      crashes, failures>>
        BY <1>2 DEF StartDone, table, locals, files, counts
    <2>2. mpc' \in Points /\ after' \in Points
        BY <1>0, <1>2 DEF StartDone, PointsType, Points
    <2>3. TableType'
        BY <1>0, <2>1, TableKept
    <2>4. /\ FlagsType' /\ LocalsType' /\ BinaryType' /\ SignalsType'
        BY <1>0, <2>1 DEF FlagsType, LocalsType, BinaryType, SignalsType
    <2>5. PointsType' /\ CountsType'
        BY <1>0, <2>1, <2>2 DEF PointsType, CountsType
    <2> QED
        BY <2>3, <2>4, <2>5 DEF WellTyped
<1>3. CASE CycleTop
    <2>1. UNCHANGED <<slots, last, child, live, new_binary, pidfile, listening,
                      gen, i, todo, after, pend, commands, crashes, failures>>
        BY <1>3 DEF CycleTop, table, files, counts, loops
    <2>2. mpc' \in Points
        BY <1>3 DEF CycleTop, Points
    <2>3. LocalsType'
        BY <1>0, <1>3, <2>1 DEF CycleTop, LocalsType
    <2>4. FlagsType'
        BY <1>0, <1>3 DEF CycleTop, FlagsType
    <2>5. timer' \in BOOLEAN
        BY <1>3 DEF CycleTop
    <2>6. TableType'
        BY <1>0, <2>1, TableKept
    <2>7. BinaryType' /\ SignalsType' /\ PointsType' /\ CountsType'
        BY <1>0, <2>1, <2>2, <2>5 DEF BinaryType, SignalsType, PointsType, CountsType
    <2> QED
        BY <2>3, <2>4, <2>6, <2>7 DEF WellTyped
<1>4. CASE Suspend
    <2>1. UNCHANGED <<last, live, delay, sigio, new_binary, pidfile, listening,
                      gen, i, todo, after, timer, commands, crashes, failures>>
        BY <1>4 DEF Suspend, locals, files, counts, loops
    <2>2. mpc' \in Points /\ pend' = {}
        BY <1>4 DEF Suspend, Points
    <2>3. PICK Z : GetStatus(Z)
        BY <1>4 DEF Suspend
    <2>4. TableType'
        BY <1>0, <2>1, <2>3, ReportEffect DEF Reported, TableType
    <2>5. FlagsType'
        <3>1. \A signal \in pend : HandlerFlags(signal) \subseteq Flags
            BY <1>0, HandlerFlagsType DEF SignalsType
        <3>2. UNION {HandlerFlags(signal) : signal \in pend} \subseteq Flags
            BY <3>1
        <3> QED
            BY <1>0, <1>4, <3>2 DEF Suspend, FlagsType
    <2>6. LocalsType' /\ BinaryType'
        BY <1>0, <2>1 DEF LocalsType, BinaryType
    <2>7. SignalsType' /\ PointsType' /\ CountsType'
        BY <1>0, <2>1, <2>2 DEF SignalsType, PointsType, CountsType
    <2> QED
        BY <2>4, <2>5, <2>6, <2>7 DEF WellTyped
<1>5. CASE ReapStart \/ ReapKeep \/ ReapDone
    <2>1. UNCHANGED <<slots, last, child, delay, sigio, new_binary, pidfile,
                      listening, gen, todo, after, timer, pend, commands,
                      crashes, failures>>
        BY <1>5 DEF ReapStart, ReapKeep, ReapDone, table, files, counts, locals, loops
    <2>2. mpc' \in Points /\ i' \in Nat
        <3>1. mpc \in Points /\ i \in Nat
            BY <1>0 DEF PointsType
        <3>2. mpc' \in Points
            BY <1>5, <3>1 DEF ReapStart, ReapKeep, ReapDone, Points
        <3>3. i' \in {0, i, i + 1}
            BY <1>5 DEF ReapStart, ReapKeep, ReapDone, loops
        <3> QED
            BY <3>1, <3>2, <3>3
    <2>3. live' \in BOOLEAN
        BY <1>0, <1>5 DEF ReapStart, ReapKeep, ReapDone, LocalsType, locals
    <2>4. FlagsType'
        BY <1>0, <1>5 DEF ReapStart, ReapKeep, ReapDone, FlagsType
    <2>5. TableType'
        BY <1>0, <2>1, TableKept
    <2>6. LocalsType' /\ BinaryType' /\ SignalsType'
        BY <1>0, <2>1, <2>3 DEF LocalsType, BinaryType, SignalsType
    <2>7. PointsType' /\ CountsType'
        BY <1>0, <2>1, <2>2 DEF PointsType, CountsType
    <2> QED
        BY <2>4, <2>5, <2>6, <2>7 DEF WellTyped
<1>6. CASE ReapRespawn
    <2>1. UNCHANGED <<last, flags, delay, sigio, new_binary, pidfile, listening,
                      gen, mpc, todo, after, timer, pend, commands, crashes>>
        BY <1>6 DEF ReapRespawn, files
    <2>2. i \in Nat /\ gen \in Nat
        BY <1>0 DEF PointsType, CountsType
    <2>3. i' = i + 1
        BY <1>6 DEF ReapRespawn
    <2>4. \/ Refused /\ live' = live
          \/ Respawned(i, NewPid) /\ live' = TRUE
        BY <1>0, <1>6, <2>2, RespawnEffect
    <2>5. slots' \in [Slots -> Slot] /\ child' \in [Pids -> Child]
        BY <1>0, <2>4 DEF Refused, Respawned, Forked, TableType
    <2>6. failures' \in Nat /\ live' \in BOOLEAN
        <3>1. live \in BOOLEAN /\ failures \in Nat
            BY <1>0 DEF CountsType, LocalsType
        <3>2. live' \in BOOLEAN
            BY <2>4, <3>1
        <3>3. failures' = failures \/ failures' = failures + 1
            BY <2>4 DEF Refused, Respawned
        <3> QED
            BY <3>1, <3>2, <3>3
    <2>7. TableType'
        BY <1>0, <2>1, <2>5 DEF TableType
    <2>8. FlagsType' /\ LocalsType' /\ BinaryType' /\ SignalsType'
        BY <1>0, <2>1, <2>6 DEF FlagsType, LocalsType, BinaryType, SignalsType
    <2>9. PointsType' /\ CountsType'
        BY <1>0, <2>1, <2>2, <2>3, <2>6 DEF PointsType, CountsType
    <2> QED
        BY <2>7, <2>8, <2>9 DEF WellTyped
<1>7. CASE ReapFree
    <2>1. UNCHANGED <<live, delay, sigio, listening, gen, mpc, todo, after, timer,
                      pend, commands, crashes, failures>>
        BY <1>7 DEF ReapFree, locals, counts
    <2>2. i \in Nat /\ i < last
        BY <1>0, <1>7 DEF PointsType, ReapFree
    <2>3. i' = i + 1
        BY <1>7 DEF ReapFree
    <2>4. Freed(i)
        BY <1>0, <1>7, <2>2, FreeEffect
    <2>5. TableType'
        <3>1. last' \in 0 .. MaxProcesses
            <4>1. last \in 0 .. MaxProcesses /\ MaxProcesses \in Nat
                BY <1>0, SlotsFacts DEF TableType
            <4>2. last' = last \/ last' = last - 1
                BY <2>4 DEF Freed
            <4> QED
                BY <2>2, <4>1, <4>2
        <3> QED
            BY <1>0, <2>4, <3>1 DEF Freed, TableType
    <2>6. BinaryType'
        BY <1>0, <1>7, <2>1 DEF ReapFree, BinaryType
    <2>7. FlagsType'
        BY <1>0, <1>7 DEF ReapFree, FlagsType, Flags
    <2>8. LocalsType' /\ SignalsType'
        BY <1>0, <2>1 DEF LocalsType, SignalsType
    <2>9. PointsType' /\ CountsType'
        BY <1>0, <2>1, <2>2, <2>3 DEF PointsType, CountsType
    <2> QED
        BY <2>5, <2>6, <2>7, <2>8, <2>9 DEF WellTyped
<1>8. CASE MasterExit
    <2>1. UNCHANGED <<slots, last, child, flags, live, delay, sigio, new_binary,
                      gen, i, todo, after, timer, pend, commands, crashes, failures>>
        BY <1>8 DEF MasterExit, table, locals, counts, loops
    <2>2. mpc' \in Points
        BY <1>8 DEF MasterExit, Points
    <2>3. BinaryType'
        BY <1>0, <1>8, <2>1 DEF MasterExit, BinaryType
    <2>4. TableType'
        BY <1>0, <2>1, TableKept
    <2>5. FlagsType' /\ LocalsType' /\ SignalsType' /\ CountsType'
        BY <1>0, <2>1 DEF FlagsType, LocalsType, SignalsType, CountsType
    <2>6. PointsType'
        BY <1>0, <2>1, <2>2 DEF PointsType
    <2> QED
        BY <2>3, <2>4, <2>5, <2>6 DEF WellTyped
<1>9. CASE Terminate
    <2>1. UNCHANGED <<last, live, new_binary, pidfile, listening, gen, i, todo,
                      after, timer, pend, commands, crashes, failures>>
        BY <1>9 DEF Terminate, files, counts, loops
    <2>2. mpc' \in Points
        BY <1>9 DEF Terminate, Points
    <2>3. delay' \in Nat /\ sigio' \in Nat
        BY <1>0, <1>9, SizesAssumption DEF Terminate, LocalsType
    <2>4. TableType' /\ FlagsType'
        <3>1. CASE UNCHANGED <<slots, child, flags>>
            BY <1>0, <2>1, <3>1 DEF TableType, FlagsType
        <3>2. ASSUME NEW order \in {"kill", "terminate"}, SignalWorkers(order, flags)
              PROVE  TableType' /\ FlagsType'
            <4>1. order \in Orders /\ flags \subseteq Flags
                BY <1>0 DEF Orders, FlagsType
            <4> QED
                BY <1>0, <2>1, <3>2, <4>1, TableSignal
        <3> QED
            BY <1>9, <3>1, <3>2 DEF Terminate
    <2>5. LocalsType' /\ BinaryType' /\ SignalsType'
        BY <1>0, <2>1, <2>3 DEF LocalsType, BinaryType, SignalsType
    <2>6. PointsType' /\ CountsType'
        BY <1>0, <2>1, <2>2 DEF PointsType, CountsType
    <2> QED
        BY <2>4, <2>5, <2>6 DEF WellTyped
<1>10. CASE Quit \/ ShutdownOld \/ Reopen \/ NoAccept
    <2>1. UNCHANGED <<last, delay, sigio, new_binary, pidfile, gen, i, todo,
                      after, timer, pend, commands, crashes, failures>>
        BY <1>10 DEF Quit, ShutdownOld, Reopen, NoAccept, files, locals, counts, loops
    <2>2. mpc' \in Points
        BY <1>10, NextSectionPoint DEF Quit, ShutdownOld, Reopen, NoAccept, Points
    <2>3. live' \in BOOLEAN /\ listening' \in BOOLEAN
        BY <1>0, <1>10 DEF Quit, ShutdownOld, Reopen, NoAccept, files, locals,
            LocalsType, BinaryType
    <2>4. PICK order \in Orders, base \in SUBSET Flags : SignalWorkers(order, base)
        <3>1. /\ flags \in SUBSET Flags /\ flags \ {"reopen"} \in SUBSET Flags
              /\ (flags \ {"noaccept"}) \cup {"noaccepting"} \in SUBSET Flags
              /\ "quit" \in Orders /\ "reopen" \in Orders
            BY <1>0 DEF FlagsType, Flags, Orders
        <3> QED
            BY <1>10, <3>1 DEF Quit, ShutdownOld, Reopen, NoAccept
    <2>5. TableType' /\ FlagsType'
        BY <1>0, <2>1, <2>4, TableSignal
    <2>6. LocalsType' /\ BinaryType' /\ SignalsType'
        BY <1>0, <2>1, <2>3 DEF LocalsType, BinaryType, SignalsType
    <2>7. PointsType' /\ CountsType'
        BY <1>0, <2>1, <2>2 DEF PointsType, CountsType
    <2> QED
        BY <2>5, <2>6, <2>7 DEF WellTyped
<1>11. CASE Proceed \/ ReconfigureNewBinary \/ ReconfigureFails \/ Reconfigure
            \/ Restart
    <2>1. UNCHANGED <<slots, last, child, delay, sigio, new_binary, pidfile,
                      listening, i, timer, pend, commands, crashes>>
        BY <1>11 DEF Proceed, ReconfigureNewBinary, ReconfigureFails, Reconfigure,
            Restart, table, files, locals, counts, loops
    <2>2. mpc' \in Points
        BY <1>11, NextSectionPoint DEF Proceed, ReconfigureNewBinary,
            ReconfigureFails, Reconfigure, Restart, Points
    <2>3. after' \in Points \cup {"boot"}
        BY <1>0, <1>11, NextSectionPoint DEF Proceed, ReconfigureNewBinary,
            ReconfigureFails, Reconfigure, Restart, Points, PointsType, loops
    <2>4. todo' \in Seq(Spawn)
        BY <1>0, <1>11, StartListTypes DEF Proceed, ReconfigureNewBinary,
            ReconfigureFails, Reconfigure, Restart, PointsType, loops
    <2>5. live' \in BOOLEAN
        BY <1>0, <1>11 DEF Proceed, ReconfigureNewBinary,
            ReconfigureFails, Reconfigure, Restart, LocalsType, locals
    <2>6. FlagsType'
        BY <1>0, <1>11 DEF Proceed, ReconfigureNewBinary,
            ReconfigureFails, Reconfigure, Restart, FlagsType
    <2>7. gen' \in Nat /\ failures' \in Nat
        BY <1>0, <1>11 DEF Proceed, ReconfigureNewBinary,
            ReconfigureFails, Reconfigure, Restart, CountsType, counts
    <2>8. TableType'
        BY <1>0, <2>1, TableKept
    <2>9. LocalsType' /\ BinaryType' /\ SignalsType'
        BY <1>0, <2>1, <2>5 DEF LocalsType, BinaryType, SignalsType
    <2>10. PointsType' /\ CountsType'
        BY <1>0, <2>1, <2>2, <2>3, <2>4, <2>7 DEF PointsType, CountsType
    <2> QED
        BY <2>6, <2>8, <2>9, <2>10 DEF WellTyped
<1>12. CASE ChangeBinary
    <2>1. UNCHANGED <<live, delay, sigio, listening, gen, i, todo, after, timer,
                      pend, commands, crashes>>
        BY <1>12 DEF ChangeBinary, locals, loops
    <2>2. mpc' \in Points
        BY <1>12, NextSectionPoint DEF ChangeBinary, Points
    <2>3. "binary" \in Kinds
        BY DEF Kinds
    <2>4. TableType' /\ failures' \in Nat /\ (child' # child => NewPid \in Pids)
        BY <1>0, <1>12, <2>3, TableSpawn DEF ChangeBinary
    <2>5. BinaryType'
        BY <1>0, <1>12, <2>1, <2>4 DEF ChangeBinary, BinaryType
    <2>6. FlagsType'
        BY <1>0, <1>12 DEF ChangeBinary, FlagsType
    <2>7. LocalsType' /\ SignalsType'
        BY <1>0, <2>1 DEF LocalsType, SignalsType
    <2>8. PointsType' /\ CountsType'
        BY <1>0, <2>1, <2>2, <2>4 DEF PointsType, CountsType
    <2> QED
        BY <2>4, <2>5, <2>6, <2>7, <2>8 DEF WellTyped
<1> QED
    BY <1>1, <1>2, <1>3, <1>4, <1>5, <1>6, <1>7, <1>8, <1>9, <1>10, <1>11, <1>12
    DEF Master

LEMMA WellTypedInductive ==
    ASSUME WellTyped, [Next]_vars
    PROVE  WellTyped'
<1>0. /\ TableType /\ FlagsType /\ LocalsType /\ BinaryType /\ PointsType
      /\ SignalsType /\ CountsType
    BY DEF WellTyped
<1>1. CASE Master
    BY <1>1, WellTypedMaster
<1>2. ASSUME NEW p \in Pids, ChildStep(p)
      PROVE  WellTyped'
    <2>1. ChildDoes(p) /\ UNCHANGED masterVars
        BY <1>0, <1>2, ChildEffect
    <2>2. UNCHANGED <<slots, last, flags, live, delay, sigio, new_binary, pidfile,
                      listening, gen, mpc, i, todo, after, timer>>
        BY <2>1 DEF masterVars
    <2>3. TableType'
        BY <1>0, <2>1, <2>2 DEF ChildDoes, Moved, TableType
    <2>4. pend' \subseteq AllCommands \cup {"chld", "alrm"}
        BY <1>0, <2>1 DEF ChildDoes, SignalsType
    <2>5. commands' \in Nat /\ failures' \in Nat /\ crashes' \in Nat
        BY <1>0, <2>1 DEF ChildDoes, CountsType
    <2>6. FlagsType' /\ LocalsType' /\ BinaryType' /\ PointsType'
        BY <1>0, <2>2 DEF FlagsType, LocalsType, BinaryType, PointsType
    <2>7. SignalsType' /\ CountsType'
        BY <1>0, <2>2, <2>4, <2>5 DEF SignalsType, CountsType
    <2> QED
        BY <2>3, <2>6, <2>7 DEF WellTyped
<1>3. ASSUME NEW signal \in Commands, Command(signal)
      PROVE  WellTyped'
    <2>1. UNCHANGED <<slots, last, child, flags, live, delay, sigio, new_binary,
                      pidfile, listening, gen, mpc, i, todo, after, timer,
                      crashes, failures>>
        BY <1>3 DEF Command, masterVars
    <2>2. pend' = pend \cup {signal} /\ commands' = commands + 1
        BY <1>3 DEF Command
    <2>3. signal \in AllCommands
        BY <1>3, SetsAssumption
    <2>4. TableType'
        BY <1>0, <2>1, TableKept
    <2>5. FlagsType' /\ LocalsType' /\ BinaryType' /\ PointsType'
        BY <1>0, <2>1 DEF FlagsType, LocalsType, BinaryType, PointsType
    <2>6. SignalsType' /\ CountsType'
        BY <1>0, <2>1, <2>2, <2>3 DEF SignalsType, CountsType
    <2> QED
        BY <2>4, <2>5, <2>6 DEF WellTyped
<1>4. CASE Alarm
    <2>1. UNCHANGED <<slots, last, child, flags, live, delay, sigio, new_binary,
                      pidfile, listening, gen, mpc, i, todo, after, commands,
                      crashes, failures>>
        BY <1>4 DEF Alarm, table, locals, files, loops, counts
    <2>2. pend' = pend \cup {"alrm"} /\ timer' = FALSE
        BY <1>4 DEF Alarm
    <2>3. TableType'
        BY <1>0, <2>1, TableKept
    <2>4. FlagsType' /\ LocalsType' /\ BinaryType' /\ PointsType'
        BY <1>0, <2>1 DEF FlagsType, LocalsType, BinaryType, PointsType
    <2>5. SignalsType' /\ CountsType'
        BY <1>0, <2>1, <2>2 DEF SignalsType, CountsType
    <2> QED
        BY <2>3, <2>4, <2>5 DEF WellTyped
<1>5. CASE UNCHANGED vars
    <2>1. UNCHANGED <<slots, last, child, flags, live, delay, sigio, new_binary,
                      pidfile, listening, gen, mpc, i, todo, after, timer, pend,
                      commands, crashes, failures>>
        BY <1>5 DEF vars
    <2>2. TableType'
        BY <1>0, <2>1, TableKept
    <2>3. FlagsType' /\ LocalsType' /\ BinaryType' /\ PointsType'
        BY <1>0, <2>1 DEF FlagsType, LocalsType, BinaryType, PointsType
    <2>4. SignalsType' /\ CountsType'
        BY <1>0, <2>1 DEF SignalsType, CountsType
    <2> QED
        BY <2>2, <2>3, <2>4 DEF WellTyped
<1> QED
    BY <1>1, <1>2, <1>3, <1>4, <1>5 DEF Next, ChildStep

-----------------------------------------------------------------------------
(***************************************************************************)
(* The process table.                                                      *)
(***************************************************************************)

(* The parts of SlotsRight. *)
SlotRight(s) ==
    Used(s) => /\ slots[s].pid \in Pids
               /\ child[slots[s].pid].st # "unused"
               /\ slots[s].exited <=> child[slots[s].pid].st = "gone"
Distinct ==
    \A s, t \in Slots : Used(s) /\ Used(t) /\ slots[s].pid = slots[t].pid => s = t
Owned == \A p \in Children : \E s \in Slots : Used(s) /\ slots[s].pid = p

LEMMA SlotsRightParts ==
    SlotsRight <=> (\A s \in Slots : SlotRight(s)) /\ Distinct /\ Owned
BY DEF SlotsRight, SlotRight, Distinct, Owned

LEMMA SlotsRightPartsNext ==
    ASSUME \A s \in Slots : SlotRight(s)', Distinct', Owned'
    PROVE  SlotsRight'
BY DEF SlotsRight, SlotRight, Distinct, Owned

(* Pids and exit marks as they were. *)
LEMMA RightKept ==
    ASSUME SlotsRight, UNCHANGED <<last, child>>,
           \A s \in Slots : /\ slots'[s].pid = slots[s].pid
                            /\ slots'[s].exited = slots[s].exited
    PROVE  SlotsRight'
<1>1. \A s \in Slots : Used(s)' <=> Used(s)
    BY DEF Used
<1>2. Children' = Children
    BY DEF Children
<1>3. \A s \in Slots : SlotRight(s)'
    BY <1>1, SlotsRightParts DEF SlotRight
<1>4. Distinct'
    BY <1>1, SlotsRightParts DEF Distinct
<1>5. Owned'
    BY <1>1, <1>2, SlotsRightParts DEF Owned
<1> QED
    BY <1>3, <1>4, <1>5, SlotsRightPartsNext

LEMMA RightRefused ==
    ASSUME SlotsRight, Refused
    PROVE  SlotsRight'
BY RightKept DEF Refused, SameSlot

LEMMA ForkedChildren ==
    ASSUME NEW p, NEW kind, Forked(p, kind)
    PROVE  /\ Children' = Children \cup {p}
           /\ p \notin Children
BY DEF Forked, Children, Alive

LEMMA RightSpawned ==
    ASSUME TableType, SlotsRight, NEW s \in Slots, NEW p, NEW kind, NEW type,
           Spawned(s, p, kind, type)
    PROVE  SlotsRight'
<1>1. Forked(p, kind) /\ p \in Pids /\ child[p].st = "unused"
    BY DEF Spawned, Forked
<1>2. /\ ~Used(s) /\ Used(s)'
      /\ \A t \in Slots \ {s} : (Used(t)' <=> Used(t)) /\ slots'[t] = slots[t]
    BY <1>1, SlotsFacts DEF Spawned, Used, TableType
<1>3. slots'[s].pid = p /\ slots'[s].exited = FALSE
    BY DEF Spawned
<1>4. \A t \in Slots : Used(t) => slots[t].pid \in Pids \ {p}
    BY <1>1, SlotsRightParts DEF SlotRight
<1>5. /\ child'[p].st = "running"
      /\ \A q \in Pids \ {p} : child'[q] = child[q]
    BY <1>1 DEF Forked
<1>6. SlotRight(s)'
    BY <1>1, <1>3, <1>5 DEF SlotRight
<1>7. ASSUME NEW t \in Slots \ {s}
      PROVE  SlotRight(t)'
    <2>1. SlotRight(t)
        BY SlotsRightParts
    <2>2. Used(t) => child'[slots[t].pid] = child[slots[t].pid]
        BY <1>4, <1>5
    <2> QED
        BY <1>2, <2>1, <2>2 DEF SlotRight
<1>8. Distinct'
    BY <1>2, <1>3, <1>4, SlotsRightParts DEF Distinct
<1>9. Owned'
    <2>1. Children' = Children \cup {p}
        BY <1>1, ForkedChildren
    <2>2. ASSUME NEW q \in Children
          PROVE  \E t \in Slots : Used(t)' /\ slots'[t].pid = q
        <3>1. PICK t \in Slots : Used(t) /\ slots[t].pid = q
            BY SlotsRightParts DEF Owned
        <3> QED
            BY <1>2, <3>1
    <2> QED
        BY <1>2, <1>3, <2>1, <2>2 DEF Owned
<1> QED
    BY <1>6, <1>7, <1>8, <1>9, SlotsRightPartsNext

LEMMA RightRespawned ==
    ASSUME TableType, SlotsRight, NEW s \in Slots, NEW p, Respawned(s, p),
           Used(s), slots[s].exited
    PROVE  SlotsRight'
<1>1. Forked(p, slots[s].kind) /\ p \in Pids /\ child[p].st = "unused"
    BY DEF Respawned, Forked
<1>2. /\ Used(s)' /\ slots'[s].pid = p /\ slots'[s].exited = FALSE
      /\ \A t \in Slots \ {s} : (Used(t)' <=> Used(t)) /\ slots'[t] = slots[t]
    BY <1>1, SlotsFacts DEF Respawned, Used
<1>3. \A t \in Slots : Used(t) => slots[t].pid \in Pids \ {p}
    BY <1>1, SlotsRightParts DEF SlotRight
<1>4. /\ child'[p].st = "running"
      /\ \A q \in Pids \ {p} : child'[q] = child[q]
    BY <1>1 DEF Forked
<1>5. child[slots[s].pid].st = "gone"
    BY SlotsRightParts DEF SlotRight
<1>6. SlotRight(s)'
    BY <1>1, <1>2, <1>4 DEF SlotRight
<1>7. ASSUME NEW t \in Slots \ {s}
      PROVE  SlotRight(t)'
    <2>1. SlotRight(t)
        BY SlotsRightParts
    <2>2. Used(t) => child'[slots[t].pid] = child[slots[t].pid]
        BY <1>3, <1>4
    <2> QED
        BY <1>2, <2>1, <2>2 DEF SlotRight
<1>8. Distinct'
    BY <1>2, <1>3, SlotsRightParts DEF Distinct
<1>9. Owned'
    <2>1. Children' = Children \cup {p}
        BY <1>1, ForkedChildren
    <2>2. ASSUME NEW q \in Children
          PROVE  \E t \in Slots : Used(t)' /\ slots'[t].pid = q
        <3>1. PICK t \in Slots : Used(t) /\ slots[t].pid = q
            BY SlotsRightParts DEF Owned
        <3>2. child[q].st # "gone"
            BY DEF Children, Alive
        <3>3. t # s
            BY <1>5, <3>1, <3>2
        <3> QED
            BY <1>2, <3>1, <3>3
    <2> QED
        BY <1>2, <2>1, <2>2 DEF Owned
<1> QED
    BY <1>6, <1>7, <1>8, <1>9, SlotsRightPartsNext

LEMMA RightFreed ==
    ASSUME TableType, SlotsRight, NEW s \in Slots, Freed(s), Used(s),
           slots[s].exited
    PROVE  SlotsRight'
<1>1. ~Used(s)'
    BY SlotsFacts DEF Freed, Used, TableType
<1>2. \A t \in Slots \ {s} : (Used(t)' <=> Used(t)) /\ slots'[t] = slots[t]
    BY SlotsFacts DEF Freed, Used, TableType
<1>3. child' = child /\ Children' = Children
    BY DEF Freed, Children
<1>4. \A t \in Slots : SlotRight(t)'
    BY <1>1, <1>2, <1>3, SlotsRightParts DEF SlotRight
<1>5. Distinct'
    BY <1>1, <1>2, SlotsRightParts DEF Distinct
<1>6. child[slots[s].pid].st = "gone"
    BY SlotsRightParts DEF SlotRight
<1>7. ASSUME NEW q \in Children
      PROVE  \E t \in Slots : Used(t)' /\ slots'[t].pid = q
    <2>1. PICK t \in Slots : Used(t) /\ slots[t].pid = q
        BY SlotsRightParts DEF Owned
    <2>2. child[q].st # "gone"
        BY DEF Children, Alive
    <2>3. t # s
        BY <1>6, <2>1, <2>2
    <2> QED
        BY <1>2, <2>1, <2>3
<1>8. Owned'
    BY <1>3, <1>7 DEF Owned
<1> QED
    BY <1>4, <1>5, <1>8, SlotsRightPartsNext

LEMMA RightSignalled ==
    ASSUME SlotsRight, NEW order, Signalled(order), UNCHANGED last
    PROVE  SlotsRight'
<1>1. \A s \in Slots : (Used(s)' <=> Used(s)) /\ slots'[s].pid = slots[s].pid
    BY DEF Signalled, Used
<1>2. Children' = Children
    BY DEF Signalled, Children
<1>3. ASSUME NEW s \in Slots, Used(s)
      PROVE  SlotRight(s)'
    <2>1. SlotRight(s)
        BY SlotsRightParts
    <2>2. PICK p \in Pids : p = slots[s].pid
        BY <1>3, <2>1 DEF SlotRight
    <2>3. child'[p].st = child[p].st
        BY DEF Signalled
    <2>4. NoSuchProcess(s) <=> child[p].st = "gone"
        BY <2>2 DEF NoSuchProcess
    <2>5. slots'[s].exited <=> slots[s].exited
        BY <1>3, <2>1, <2>2, <2>4 DEF Signalled, SlotRight
    <2> QED
        BY <1>1, <1>3, <2>1, <2>2, <2>3, <2>5 DEF SlotRight
<1>4. \A s \in Slots : SlotRight(s)'
    BY <1>1, <1>3 DEF SlotRight
<1>5. Distinct'
    BY <1>1, SlotsRightParts DEF Distinct
<1>6. Owned'
    BY <1>1, <1>2, SlotsRightParts DEF Owned
<1> QED
    BY <1>4, <1>5, <1>6, SlotsRightPartsNext

LEMMA RightReported ==
    ASSUME SlotsRight, NEW Z \in SUBSET Zombies, Reported(Z), UNCHANGED last
    PROVE  SlotsRight'
<1>1. \A s \in Slots : (Used(s)' <=> Used(s)) /\ slots'[s].pid = slots[s].pid
    BY DEF Reported, Used
<1>2. Children' \subseteq Children
    BY DEF Reported, Children, Alive
<1>3. ASSUME NEW s \in Slots, Used(s)
      PROVE  SlotRight(s)'
    <2>1. SlotRight(s)
        BY SlotsRightParts
    <2>2. PICK p \in Pids : p = slots[s].pid
        BY <1>3, <2>1 DEF SlotRight
    <2>3. s < last
        BY <1>3 DEF Used
    <2>4. CASE p \in Z
        <3>1. child'[p].st = "gone" /\ slots'[s].exited
            BY <2>2, <2>3, <2>4 DEF Reported
        <3> QED
            BY <1>1, <2>2, <3>1 DEF SlotRight
    <2>5. CASE p \notin Z
        <3>1. child'[p] = child[p] /\ (slots'[s].exited <=> slots[s].exited)
            BY <2>2, <2>5 DEF Reported
        <3> QED
            BY <1>1, <1>3, <2>1, <2>2, <3>1 DEF SlotRight
    <2> QED
        BY <2>4, <2>5
<1>4. \A s \in Slots : SlotRight(s)'
    BY <1>1, <1>3 DEF SlotRight
<1>5. Distinct'
    BY <1>1, SlotsRightParts DEF Distinct
<1>6. Owned'
    BY <1>1, <1>2, SlotsRightParts DEF Owned
<1> QED
    BY <1>4, <1>5, <1>6, SlotsRightPartsNext

LEMMA RightMoved ==
    ASSUME SlotsRight, NEW p \in Pids, Moved(p), UNCHANGED <<slots, last>>
    PROVE  SlotsRight'
<1>1. \A s \in Slots : (Used(s)' <=> Used(s)) /\ slots'[s].pid = slots[s].pid
    BY DEF Used
<1>2. Children' \subseteq Children
    BY DEF Moved, Children
<1>3. \A q \in Pids : /\ child'[q].st = "gone" <=> child[q].st = "gone"
                      /\ child'[q].st = "unused" <=> child[q].st = "unused"
    BY DEF Moved, Alive
<1>4. \A s \in Slots : SlotRight(s)'
    BY <1>1, <1>3, SlotsRightParts DEF SlotRight
<1>5. Distinct'
    BY <1>1, SlotsRightParts DEF Distinct
<1>6. Owned'
    BY <1>1, <1>2, SlotsRightParts DEF Owned
<1> QED
    BY <1>4, <1>5, <1>6, SlotsRightPartsNext

(***************************************************************************)
(* The steps of the master, by what they do to the table: nothing, a new   *)
(* process, orders to the children, the reports of waitpid(), and the two  *)
(* cases of ngx_reap_children() that change a slot.                        *)
(***************************************************************************)
QuietMaster ==
    \/ StartDone \/ CycleTop \/ ReapStart \/ ReapKeep \/ ReapDone \/ MasterExit
    \/ Proceed \/ ReconfigureNewBinary \/ ReconfigureFails \/ Reconfigure \/ Restart

LEMMA QuietEffect ==
    ASSUME QuietMaster
    PROVE  UNCHANGED <<slots, last, child>>
BY DEF QuietMaster, StartDone, CycleTop, ReapStart, ReapKeep, ReapDone, MasterExit,
       Proceed, ReconfigureNewBinary, ReconfigureFails, Reconfigure, Restart, table

(* The order that each step gives, and the flags it starts from. *)
LEMMA OrderEffect ==
    ASSUME TableType, Terminate \/ Quit \/ ShutdownOld \/ Reopen \/ NoAccept
    PROVE  /\ UNCHANGED last
           /\ \/ UNCHANGED <<slots, child>>
              \/ \E order \in Orders : Signalled(order)
<1>1. UNCHANGED last
    BY DEF Terminate, Quit, ShutdownOld, Reopen, NoAccept
<1>2. \/ UNCHANGED <<slots, child>>
      \/ \E order \in Orders : \E base : SignalWorkers(order, base)
    BY DEF Terminate, Quit, ShutdownOld, Reopen, NoAccept, Orders
<1> QED
    BY <1>1, <1>2, SignalEffect

LEMMA RightMaster ==
    ASSUME WellTyped, SlotsRight, Master
    PROVE  SlotsRight'
<1>0. TableType /\ gen \in Nat /\ i \in Nat /\ todo \in Seq(Spawn)
    BY DEF WellTyped, PointsType, CountsType
<1>1. CASE QuietMaster
    BY <1>1, QuietEffect, RightKept
<1>2. CASE Terminate \/ Quit \/ ShutdownOld \/ Reopen \/ NoAccept
    <2>1. /\ UNCHANGED last
          /\ \/ UNCHANGED <<slots, child>>
             \/ \E order \in Orders : Signalled(order)
        BY <1>0, <1>2, OrderEffect
    <2> QED
        BY <2>1, RightKept, RightSignalled
<1>3. CASE Suspend
    <2>1. PICK Z \in SUBSET Zombies : GetStatus(Z)
        BY <1>3 DEF Suspend
    <2>2. UNCHANGED last
        BY <1>3 DEF Suspend
    <2> QED
        BY <1>0, <2>1, <2>2, ReportEffect, RightReported
<1>4. ASSUME NEW kind \in Kinds, NEW type, SpawnNew(kind, type)
      PROVE  SlotsRight'
    BY <1>0, <1>4, SpawnEffect, RightRefused, RightSpawned
<1>5. CASE StartNext
    <2>1. PICK e \in Spawn : e = Head(todo)
        BY <1>0, <1>5 DEF StartNext
    <2>2. e.kind \in Kinds
        BY DEF Spawn
    <2>3. SpawnNew(e.kind, e.type)
        BY <1>5, <2>1 DEF StartNext
    <2> QED
        BY <1>4, <2>2, <2>3
<1>6. CASE ChangeBinary
    BY <1>4, <1>6 DEF ChangeBinary, Kinds
<1>7. CASE ReapRespawn
    <2>1. i \in Slots /\ Used(i) /\ slots[i].exited
        BY <1>0, <1>7, ReapSlot DEF ReapRespawn, Used
    <2>2. Refused \/ Respawned(i, NewPid)
        BY <1>0, <1>7, RespawnEffect
    <2> QED
        BY <1>0, <2>1, <2>2, RightRefused, RightRespawned
<1>8. CASE ReapFree
    <2>1. i \in Slots /\ Used(i) /\ slots[i].exited
        BY <1>0, <1>8, ReapSlot DEF ReapFree, Used
    <2>2. Freed(i)
        BY <1>0, <1>8, FreeEffect
    <2> QED
        BY <1>0, <2>1, <2>2, RightFreed
<1> QED
    BY <1>1, <1>2, <1>3, <1>5, <1>6, <1>7, <1>8 DEF Master, QuietMaster

LEMMA RightInductive ==
    ASSUME WellTyped, SlotsRight, [Next]_vars
    PROVE  SlotsRight'
<1>0. TableType
    BY DEF WellTyped
<1>1. CASE Master
    BY <1>1, RightMaster
<1>2. ASSUME NEW p \in Pids, ChildStep(p)
      PROVE  SlotsRight'
    <2>1. Moved(p) /\ UNCHANGED <<slots, last>>
        BY <1>0, <1>2, ChildEffect DEF ChildDoes, masterVars
    <2> QED
        BY <2>1, RightMoved
<1>3. CASE Alarm \/ (\E signal \in Commands : Command(signal)) \/ UNCHANGED vars
    <2>1. UNCHANGED <<slots, last, child>>
        BY <1>3 DEF Alarm, Command, vars, table, masterVars
    <2> QED
        BY <2>1, RightKept
<1> QED
    BY <1>1, <1>2, <1>3 DEF Next, ChildStep

LEMMA InitRight ==
    ASSUME Init
    PROVE  WellTyped /\ SlotsRight
<1>1. PICK r : r = [pid |-> 0, kind |-> "worker", respawn |-> FALSE,
                    just_spawn |-> FALSE, detached |-> FALSE, exiting |-> FALSE,
                    exited |-> FALSE, channel |-> "none"]
    OBVIOUS
<1>2. r \in Slot
    <2>1. 0 \in Pids \cup {0, Invalid} /\ "worker" \in Kinds
        BY DEF Kinds
    <2> QED
        BY <1>1, <2>1 DEF Slot
<1>3. slots = [s \in Slots |-> r]
    BY <1>1 DEF Init
<1>4. PICK c : c = [st |-> "unused", kind |-> "worker", gen |-> 0, asked |-> {},
                    fatal |-> FALSE]
    OBVIOUS
<1>5. c \in Child
    BY <1>4 DEF Child, Kinds
<1>6. child = [p \in Pids |-> c]
    BY <1>4 DEF Init
<1>7. last = 0 /\ last \in 0 .. MaxProcesses
    BY SlotsFacts DEF Init
<1>8. TableType
    BY <1>2, <1>3, <1>5, <1>6, <1>7 DEF TableType
<1>9. FlagsType /\ LocalsType /\ BinaryType /\ SignalsType /\ CountsType
    BY DEF Init, FlagsType, LocalsType, BinaryType, SignalsType, CountsType
<1>10. PointsType
    BY StartListTypes DEF Init, PointsType, Points
<1>11. \A s \in Slots : ~Used(s)
    BY <1>7, SlotsFacts DEF Used
<1>12. Children = {}
    BY <1>4, <1>6 DEF Children, Alive
<1>13. SlotsRight
    BY <1>11, <1>12, SlotsRightParts DEF SlotRight, Distinct, Owned
<1> QED
    BY <1>8, <1>9, <1>10, <1>13 DEF WellTyped

(* The process table is right in every state. *)
THEOREM TableInvariant == Spec => [](WellTyped /\ SlotsRight)
<1>1. Init => WellTyped /\ SlotsRight
    BY InitRight
<1>2. WellTyped /\ SlotsRight /\ [Next]_vars => (WellTyped /\ SlotsRight)'
    BY WellTypedInductive, RightInductive
<1> QED
    BY <1>1, <1>2, PTL DEF Spec

(* Type correctness of the master's globals, its locals and the processes. *)
THEOREM TypeCorrect == Spec => []TypeOK
<1>1. WellTyped /\ SlotsRight => TypeOK
    BY WellTypedIsTypeOK
<1> QED
    BY <1>1, TableInvariant, PTL

(***************************************************************************)
(* ngx_process_get_status() finds the slot of every child it is told of,   *)
(* and only one: no step of the master, be it a reload, an upgrade, a      *)
(* failed fork() or the reuse of a slot, loses a child.                    *)
(***************************************************************************)
THEOREM ChildrenInTable == Spec => []EveryChildHasSlot
<1>1. WellTyped /\ SlotsRight => EveryChildHasSlot
    <2> SUFFICES ASSUME SlotsRight, NEW p \in Children
                 PROVE  Cardinality({s \in Slots : /\ s < last /\ slots[s].pid = p
                                                   /\ ~slots[s].exited}) = 1
        BY DEF EveryChildHasSlot
    <2>1. PICK s \in Slots : Used(s) /\ slots[s].pid = p
        BY SlotsRightParts DEF Owned
    <2>2. p \in Pids /\ child[p].st # "gone"
        BY DEF Children, Alive
    <2>3. ~slots[s].exited /\ s < last
        BY <2>1, <2>2, SlotsRightParts DEF SlotRight, Used
    <2>4. ASSUME NEW t \in Slots, t < last, slots[t].pid = p
          PROVE  t = s
        <3>1. Used(t)
            BY <2>2, <2>4, SlotsFacts DEF Used
        <3> QED
            BY <2>1, <2>4, <3>1, SlotsRightParts DEF Distinct
    <2>5. {t \in Slots : t < last /\ slots[t].pid = p /\ ~slots[t].exited} = {s}
        BY <2>1, <2>3, <2>4
    <2> QED
        BY <2>5, FS_Singleton
<1> QED
    BY <1>1, TableInvariant, PTL

-----------------------------------------------------------------------------
(***************************************************************************)
(* A master that is never asked to start a new binary.  It passes through  *)
(* the start functions at boot and during a reload only, and its table has *)
(* no detached process.                                                    *)
(***************************************************************************)
NoUpgrade == "change_binary" \notin Commands

FlagsPlain ==
    /\ flags \cap {"change_binary", "restart"} = {}
    /\ pend \cap {"change_binary", "restart"} = {}
    /\ new_binary = 0
PointPlain ==
    /\ mpc \notin {"change_binary", "restart"}
    /\ after \in {"boot", "top", "shutdown_old"}
    /\ mpc = "start" <=> after # "top"
    /\ mpc # "start" => todo = <<>>
TodoPlain ==
    \A k \in DOMAIN todo :
        /\ todo[k].type # "DETACHED"
        /\ todo[k].type \in {"JUST_SPAWN", "JUST_RESPAWN"} <=> after = "shutdown_old"

Plain == FlagsPlain /\ PointPlain /\ TodoPlain

LEMMA NextPlain ==
    ASSUME NEW n \in 1 .. 5, NEW fl, fl \cap {"change_binary", "restart"} = {}
    PROVE  NextSection(n, fl) \in {"top", "reconfigure", "reopen", "noaccept"}
BY NextSectionFacts DEF Sections

LEMMA ListTypes ==
    /\ \A k \in DOMAIN StartFresh : StartFresh[k].type \in {"RESPAWN", "NORESPAWN"}
    /\ \A k \in DOMAIN StartJust :
          StartJust[k].type \in {"JUST_RESPAWN", "JUST_SPAWN"}
<1>1. ASSUME NEW K, NEW T, NEW q \in Seq([kind : K, type : T]), NEW k \in DOMAIN q
      PROVE  q[k].type \in T
    <2>1. \A E : q \in Seq(E) => q[k] \in E
        OBVIOUS
    <2>2. q[k] \in [kind : K, type : T]
        BY <2>1
    <2> QED
        BY <2>2
<1> QED
    BY <1>1, StartListTypes

LEMMA TodoFresh ==
    ASSUME after' # "shutdown_old", todo' = StartFresh
    PROVE  TodoPlain'
<1>1. \A k \in DOMAIN todo' : todo'[k].type \in {"RESPAWN", "NORESPAWN"}
    BY ListTypes
<1> QED
    BY <1>1 DEF TodoPlain

LEMMA TodoJust ==
    ASSUME after' = "shutdown_old", todo' = StartJust
    PROVE  TodoPlain'
<1>1. \A k \in DOMAIN todo' : todo'[k].type \in {"JUST_RESPAWN", "JUST_SPAWN"}
    BY ListTypes
<1> QED
    BY <1>1 DEF TodoPlain

LEMMA TailPlain ==
    ASSUME todo \in Seq(Spawn), todo # <<>>, TodoPlain, todo' = Tail(todo),
           after' = after
    PROVE  TodoPlain'
<1>1. \A k \in DOMAIN todo' : k + 1 \in DOMAIN todo /\ todo'[k] = todo[k + 1]
    OBVIOUS
<1> QED
    BY <1>1 DEF TodoPlain

(* Only sigsuspend() gives the master flags, and only those of signals     *)
(* that were sent.                                                         *)
FlagsFew ==
    /\ flags' \subseteq flags \cup {"reap", "noaccepting"}
    /\ pend' = pend /\ new_binary' = new_binary

LEMMA FewPlain ==
    ASSUME FlagsPlain, FlagsFew
    PROVE  FlagsPlain'
BY DEF FlagsPlain, FlagsFew

LEMMA SignalFew ==
    ASSUME TableType, NEW order \in Orders, NEW base, SignalWorkers(order, base),
           base \subseteq flags \cup {"noaccepting"}, UNCHANGED <<pend, new_binary>>
    PROVE  FlagsFew
BY SignalEffect DEF FlagsFew

LEMMA FlagsPlainMaster ==
    ASSUME WellTyped, SlotsRight, FlagsPlain, PointPlain, Master
    PROVE  FlagsPlain'
<1>0. TableType /\ i \in Nat /\ SignalsType
    BY DEF WellTyped, PointsType
<1>1. CASE StartNext \/ StartDone \/ ReapKeep \/ ReapRespawn \/ ReapDone \/ MasterExit
             \/ Proceed
    <2>1. UNCHANGED <<flags, pend, new_binary>>
        BY <1>1 DEF StartNext, StartDone, ReapKeep, ReapRespawn, ReapDone, MasterExit,
                    Proceed
    <2> QED
        BY <2>1, FewPlain DEF FlagsFew
<1>2. CASE CycleTop \/ ReapStart \/ ReconfigureFails \/ Reconfigure
    <2>1. flags' \subseteq flags /\ UNCHANGED <<pend, new_binary>>
        BY <1>2 DEF CycleTop, ReapStart, ReconfigureFails, Reconfigure
    <2> QED
        BY <2>1, FewPlain DEF FlagsFew
<1>3. CASE Terminate \/ Quit \/ ShutdownOld \/ Reopen \/ NoAccept
    <2>1. UNCHANGED <<pend, new_binary>>
        BY <1>3 DEF Terminate, Quit, ShutdownOld, Reopen, NoAccept
    <2>2. \/ flags' = flags
          \/ \E order \in Orders : SignalWorkers(order, flags)
          \/ \E order \in Orders : SignalWorkers(order, flags \ {"reopen"})
          \/ \E order \in Orders :
                SignalWorkers(order, (flags \ {"noaccept"}) \cup {"noaccepting"})
        BY <1>3 DEF Terminate, Quit, ShutdownOld, Reopen, NoAccept, Orders
    <2>3. FlagsFew
        <3>1. CASE flags' = flags
            BY <2>1, <3>1 DEF FlagsFew
        <3>2. ASSUME NEW order \in Orders, SignalWorkers(order, flags)
              PROVE  FlagsFew
            BY <1>0, <2>1, <3>2, SignalFew
        <3>3. ASSUME NEW order \in Orders, SignalWorkers(order, flags \ {"reopen"})
              PROVE  FlagsFew
            BY <1>0, <2>1, <3>3, SignalFew
        <3>4. ASSUME NEW order \in Orders,
                     SignalWorkers(order, (flags \ {"noaccept"}) \cup {"noaccepting"})
              PROVE  FlagsFew
            BY <1>0, <2>1, <3>4, SignalFew
        <3> QED
            BY <2>2, <3>1, <3>2, <3>3, <3>4
    <2> QED
        BY <2>3, FewPlain
<1>4. CASE Suspend
    <2>1. pend' = {} /\ new_binary' = new_binary
        BY <1>4 DEF Suspend
    <2>2. ASSUME NEW f \in flags', f \notin flags
          PROVE  f \notin {"change_binary", "restart"}
        <3>1. PICK signal \in pend : f \in HandlerFlags(signal)
            BY <1>4, <2>2 DEF Suspend
        <3>2. signal \notin {"change_binary", "restart"}
            BY DEF FlagsPlain
        <3>3. HandlerFlags(signal) \subseteq {"reap", "sigalrm", signal}
            BY <1>0, HandlerFlagsType DEF SignalsType
        <3> QED
            BY <3>1, <3>2, <3>3
    <2> QED
        BY <2>1, <2>2 DEF FlagsPlain
<1>5. CASE ReapFree
    <2>1. i \in Slots /\ Used(i)
        BY <1>0, <1>5, ReapSlot DEF ReapFree, Used
    <2>2. slots[i].pid \in Pids
        BY <2>1 DEF SlotsRight
    <2>3. slots[i].pid # new_binary
        BY <2>2 DEF FlagsPlain, Pids
    <2>4. UNCHANGED <<flags, pend, new_binary>>
        BY <1>5, <2>3 DEF ReapFree
    <2> QED
        BY <2>4, FewPlain DEF FlagsFew
<1>6. CASE ReconfigureNewBinary \/ Restart \/ ChangeBinary
    BY <1>6 DEF ReconfigureNewBinary, Restart, ChangeBinary, FlagsPlain, PointPlain
<1> QED
    BY <1>1, <1>2, <1>3, <1>4, <1>5, <1>6 DEF Master

LEMMA PointPlainMaster ==
    ASSUME WellTyped, FlagsPlain, PointPlain, TodoPlain, Master
    PROVE  PointPlain' /\ TodoPlain'
<1>0. todo \in Seq(Spawn)
    BY DEF WellTyped, PointsType
<1>1. CASE StartNext
    <2>1. UNCHANGED <<mpc, after>> /\ mpc = "start" /\ todo # <<>> /\ todo' = Tail(todo)
        BY <1>1 DEF StartNext
    <2>2. TodoPlain'
        BY <1>0, <2>1, TailPlain
    <2> QED
        BY <2>1, <2>2 DEF PointPlain
<1>2. CASE StartDone
    <2>1. todo' = <<>> /\ after' = "top" /\ mpc' \in {"top", "shutdown_old"}
        BY <1>2 DEF StartDone, PointPlain
    <2> QED
        BY <2>1 DEF PointPlain, TodoPlain
<1>3. CASE Reconfigure
    <2>1. mpc' = "start" /\ todo' = StartJust /\ after' = "shutdown_old"
        BY <1>3 DEF Reconfigure
    <2> QED
        BY <2>1, TodoJust DEF PointPlain
<1>4. CASE CycleTop \/ Suspend \/ ReapStart \/ ReapKeep \/ ReapRespawn \/ ReapFree
             \/ ReapDone \/ MasterExit \/ Terminate \/ Quit \/ ReconfigureFails
             \/ NoAccept
    <2>1. UNCHANGED <<todo, after>> /\ mpc # "start"
        BY <1>4 DEF CycleTop, Suspend, ReapStart, ReapKeep, ReapRespawn, ReapFree,
                    ReapDone, MasterExit, Terminate, Quit, ReconfigureFails,
                    NoAccept, loops
    <2>2. mpc' \notin {"start", "change_binary", "restart"}
        BY <1>4 DEF CycleTop, Suspend, ReapStart, ReapKeep, ReapRespawn, ReapFree,
                    ReapDone, MasterExit, Terminate, Quit, ReconfigureFails,
                    NoAccept
    <2> QED
        BY <2>1, <2>2 DEF PointPlain, TodoPlain
<1>5. CASE Proceed \/ ShutdownOld \/ Reopen
    <2>1. UNCHANGED <<todo, after>> /\ mpc # "start"
        BY <1>5 DEF Proceed, ShutdownOld, Reopen, loops
    <2>2. \E n \in 1 .. 5 : mpc' = NextSection(n, flags)
        BY <1>5 DEF Proceed, ShutdownOld, Reopen
    <2>3. mpc' \in {"top", "reconfigure", "reopen", "noaccept"}
        BY <2>2, NextPlain DEF FlagsPlain
    <2> QED
        BY <2>1, <2>3 DEF PointPlain, TodoPlain
<1>6. CASE ReconfigureNewBinary \/ Restart \/ ChangeBinary
    BY <1>6 DEF ReconfigureNewBinary, Restart, ChangeBinary, FlagsPlain, PointPlain
<1> QED
    BY <1>1, <1>2, <1>3, <1>4, <1>5, <1>6 DEF Master

LEMMA PlainInductive ==
    ASSUME NoUpgrade, WellTyped, SlotsRight, Plain, [Next]_vars
    PROVE  Plain'
<1>0. TableType
    BY DEF WellTyped
<1>1. CASE Master
    BY <1>1, FlagsPlainMaster, PointPlainMaster DEF Plain
<1>2. ASSUME UNCHANGED <<flags, new_binary, mpc, after, todo>>,
             pend' \cap {"change_binary", "restart"} = {}
      PROVE  Plain'
    BY <1>2 DEF Plain, FlagsPlain, PointPlain, TodoPlain
<1>3. ASSUME NEW p \in Pids, ChildStep(p)
      PROVE  Plain'
    BY <1>0, <1>2, <1>3, ChildEffect DEF ChildDoes, masterVars, Plain, FlagsPlain
<1>4. ASSUME NEW signal \in Commands, Command(signal)
      PROVE  Plain'
    <2>1. signal \notin {"change_binary", "restart"}
        BY SetsAssumption DEF NoUpgrade, AllCommands
    <2> QED
        BY <1>2, <1>4, <2>1 DEF Command, masterVars, Plain, FlagsPlain
<1>5. CASE Alarm
    BY <1>2, <1>5 DEF Alarm, loops, Plain, FlagsPlain
<1>6. CASE UNCHANGED vars
    BY <1>2, <1>6 DEF vars, Plain, FlagsPlain
<1> QED
    BY <1>1, <1>3, <1>4, <1>5, <1>6 DEF Next, ChildStep

LEMMA InitPlain ==
    ASSUME Init
    PROVE  Plain
<1>1. \A k \in DOMAIN todo : todo[k].type \in {"RESPAWN", "NORESPAWN"}
    BY ListTypes DEF Init
<1> QED
    BY <1>1 DEF Init, Plain, FlagsPlain, PointPlain, TodoPlain

-----------------------------------------------------------------------------
(***************************************************************************)
(* "live" and the processes.                                               *)
(***************************************************************************)

(* A reload is between ngx_start_worker_processes() and the order to quit. *)
Reloading == after = "shutdown_old" \/ mpc = "shutdown_old"

(* Only a reload has slots that were just spawned. *)
Undetached == \A s \in Slots : Used(s) => ~slots[s].detached
NoneJust == \A s \in Slots : Used(s) /\ slots[s].just_spawn => Reloading

(* All processes in slots below n have exited. *)
Dead(n) == \A s \in Slots : Used(s) /\ s < n => slots[s].exited
LiveRight ==
    \/ live
    \/ Reloading
    \/ mpc = "reaping" /\ Dead(i)
    \/ mpc \notin {"reaping", "start"} /\ Dead(last)
DownRight == mpc = "exited" => ~live

(* The entry of the list that StartNext takes. *)
LEMMA StartEffect ==
    ASSUME WellTyped, TodoPlain, StartNext
    PROVE  \E e \in Spawn :
              /\ e = Head(todo) /\ e.type # "DETACHED"
              /\ e.type \in {"JUST_SPAWN", "JUST_RESPAWN"} <=> after = "shutdown_old"
              /\ \/ Refused
                 \/ \E s \in Slots : Spawned(s, NewPid, e.kind, e.type)
<1>0. TableType /\ gen \in Nat /\ todo \in Seq(Spawn)
    BY DEF WellTyped, PointsType, CountsType
<1>1. todo # <<>> /\ SpawnNew(Head(todo).kind, Head(todo).type)
    BY DEF StartNext
<1>2. PICK e \in Spawn : e = Head(todo)
    BY <1>0, <1>1
<1>3. 1 \in DOMAIN todo /\ todo[1] = e
    BY <1>0, <1>1, <1>2
<1>4. /\ e.type # "DETACHED"
      /\ e.type \in {"JUST_SPAWN", "JUST_RESPAWN"} <=> after = "shutdown_old"
    BY <1>3 DEF TodoPlain
<1>5. e.kind \in Kinds /\ SpawnNew(e.kind, e.type)
    BY <1>1, <1>2 DEF Spawn
<1>6. Refused \/ \E s \in Slots : Spawned(s, NewPid, e.kind, e.type)
    BY <1>0, <1>5, SpawnEffect
<1> QED
    BY <1>2, <1>4, <1>6

(* The steps that leave the processes in their slots. *)
Settled ==
    /\ last' = last
    /\ \A s \in Slots :
          /\ slots'[s].pid = slots[s].pid /\ slots'[s].kind = slots[s].kind
          /\ slots'[s].detached = slots[s].detached
          /\ slots'[s].just_spawn => slots[s].just_spawn
          /\ slots[s].exited => slots'[s].exited

Orderly == Terminate \/ Quit \/ ShutdownOld \/ Reopen \/ NoAccept

LEMMA SettledSteps ==
    ASSUME TableType, QuietMaster \/ Orderly \/ Suspend
    PROVE  Settled
<1>1. CASE QuietMaster
    BY <1>1, QuietEffect DEF Settled
<1>2. CASE Orderly
    <2>1. UNCHANGED last
        BY <1>2, OrderEffect DEF Orderly
    <2>2. CASE UNCHANGED <<slots, child>>
        BY <2>1, <2>2 DEF Settled
    <2>3. ASSUME NEW order \in Orders, Signalled(order)
          PROVE  Settled
        BY <2>1, <2>3 DEF Settled, Signalled
    <2> QED
        BY <1>2, <2>2, <2>3, OrderEffect DEF Orderly
<1>3. CASE Suspend
    <2>1. PICK Z : GetStatus(Z)
        BY <1>3 DEF Suspend
    <2>2. Reported(Z) /\ last' = last
        BY <1>3, <2>1, ReportEffect DEF Suspend
    <2> QED
        BY <2>2 DEF Settled, Reported
<1> QED
    BY <1>1, <1>2, <1>3

LEMMA SettledUsed ==
    ASSUME Settled
    PROVE  \A s \in Slots : Used(s)' <=> Used(s)
BY DEF Settled, Used

LEMMA SettledDead ==
    ASSUME Settled, NEW n, Dead(n)
    PROVE  \A s \in Slots : Used(s)' /\ s < n => slots'[s].exited
BY SettledUsed DEF Settled, Dead

LEMMA SpawnedUsed ==
    ASSUME TableType, NEW s \in Slots, NEW p, NEW kind, NEW type,
           Spawned(s, p, kind, type)
    PROVE  ~Used(s) /\ Used(s)' /\ \A t \in Slots \ {s} : Used(t)' <=> Used(t)
<1>1. last \in Nat /\ Slots \subseteq Nat
    BY SlotsFacts DEF TableType
<1>2. p # Invalid
    BY SlotsFacts DEF Spawned, Forked
<1> QED
    BY <1>1, <1>2 DEF Spawned, Used

LEMMA RespawnedUsed ==
    ASSUME TableType, NEW s \in Slots, Used(s), NEW p, Respawned(s, p)
    PROVE  \A t \in Slots : Used(t)' <=> Used(t)
BY SlotsFacts DEF Respawned, Used, Forked

LEMMA RefusedUsed ==
    ASSUME Refused
    PROVE  \A t \in Slots : Used(t)' <=> Used(t)
BY DEF Refused, Used, SameSlot

LEMMA FreedUsed ==
    ASSUME TableType, NEW s \in Slots, Used(s), Freed(s)
    PROVE  ~Used(s)' /\ \A t \in Slots \ {s} : Used(t)' <=> Used(t)
<1>1. last \in Nat /\ Slots \subseteq Nat
    BY SlotsFacts DEF TableType
<1> QED
    BY <1>1 DEF Freed, Used

LEMMA UndetachedMaster ==
    ASSUME WellTyped, SlotsRight, Plain, Undetached, Master
    PROVE  Undetached'
<1>0. TableType /\ gen \in Nat /\ i \in Nat
    BY DEF WellTyped, PointsType, CountsType
<1>1. CASE QuietMaster \/ Orderly \/ Suspend
    BY <1>0, <1>1, SettledSteps, SettledUsed DEF Settled, Undetached
<1>2. CASE Refused
    BY <1>2, RefusedUsed DEF Undetached, Refused, SameSlot
<1>3. CASE StartNext
    <2>1. PICK e \in Spawn :
              /\ e.type # "DETACHED"
              /\ Refused \/ \E s \in Slots : Spawned(s, NewPid, e.kind, e.type)
        BY <1>3, StartEffect DEF Plain
    <2>2. ASSUME NEW s \in Slots, Spawned(s, NewPid, e.kind, e.type)
          PROVE  Undetached'
        BY <1>0, <2>1, <2>2, SpawnedUsed DEF Undetached, Spawned
    <2> QED
        BY <1>2, <2>1, <2>2
<1>4. CASE ReapRespawn
    <2>1. i \in Slots /\ Used(i)
        BY <1>0, <1>4, ReapSlot DEF ReapRespawn, Used
    <2>2. ASSUME Respawned(i, NewPid)
          PROVE  Undetached'
        BY <1>0, <2>1, <2>2, RespawnedUsed DEF Undetached, Respawned
    <2> QED
        BY <1>0, <1>2, <1>4, <2>2, RespawnEffect
<1>5. CASE ReapFree
    <2>1. i \in Slots /\ Used(i)
        BY <1>0, <1>5, ReapSlot DEF ReapFree, Used
    <2>2. Freed(i)
        BY <1>0, <1>5, FreeEffect
    <2> QED
        BY <1>0, <2>1, <2>2, FreedUsed DEF Undetached, Freed
<1>6. CASE ChangeBinary
    BY <1>6 DEF ChangeBinary, Plain, PointPlain
<1> QED
    BY <1>1, <1>3, <1>4, <1>5, <1>6 DEF Master, QuietMaster, Orderly

(* Where a reload begins and ends. *)
LEMMA ReloadingSteps ==
    ASSUME Plain, Master, Reloading
    PROVE  StartNext \/ StartDone \/ ShutdownOld
<1>1. mpc \in {"start", "shutdown_old"}
    BY DEF Reloading, Plain, PointPlain
<1> QED
    BY <1>1 DEF Master, StartNext, StartDone, CycleTop, Suspend, ReapStart, ReapKeep,
                ReapRespawn, ReapFree, ReapDone, MasterExit, Terminate, Quit, Proceed,
                ReconfigureNewBinary, ReconfigureFails, Reconfigure, ShutdownOld,
                Restart, Reopen, ChangeBinary, NoAccept

LEMMA NoneJustMaster ==
    ASSUME WellTyped, SlotsRight, Plain, Undetached, NoneJust, Master
    PROVE  NoneJust'
<1>0. TableType /\ gen \in Nat /\ i \in Nat
    BY DEF WellTyped, PointsType, CountsType
<1>1. CASE StartNext
    <2>1. PICK e \in Spawn :
              /\ e.type \in {"JUST_SPAWN", "JUST_RESPAWN"} <=> after = "shutdown_old"
              /\ Refused \/ \E s \in Slots : Spawned(s, NewPid, e.kind, e.type)
        BY <1>1, StartEffect DEF Plain
    <2>2. Reloading' <=> Reloading
        BY <1>1 DEF StartNext, Reloading
    <2>3. CASE Refused
        BY <2>2, <2>3, RefusedUsed DEF NoneJust, Refused, SameSlot
    <2>4. ASSUME NEW s \in Slots, Spawned(s, NewPid, e.kind, e.type)
          PROVE  NoneJust'
        <3>1. slots'[s].just_spawn => Reloading
            BY <2>1, <2>4 DEF Spawned, Reloading
        <3>2. \A t \in Slots \ {s} : Used(t)' /\ slots'[t].just_spawn => Reloading
            BY <1>0, <2>4, SpawnedUsed DEF NoneJust, Spawned
        <3> QED
            BY <2>2, <3>1, <3>2 DEF NoneJust
    <2> QED
        BY <2>1, <2>3, <2>4
<1>2. CASE StartDone
    <2>1. Reloading => Reloading'
        BY <1>2 DEF StartDone, Reloading, Plain, PointPlain
    <2>2. Settled
        BY <1>0, <1>2, SettledSteps DEF QuietMaster
    <2> QED
        BY <2>1, <2>2, SettledUsed DEF NoneJust, Settled
<1>3. CASE ShutdownOld
    <2>1. SignalWorkers("quit", flags) /\ UNCHANGED last
        BY <1>3 DEF ShutdownOld
    <2>2. Signalled("quit")
        BY <1>0, <2>1, SignalEffect DEF Orders
    <2>3. Settled
        BY <1>0, <1>3, SettledSteps DEF Orderly
    <2>4. \A s \in Slots : Used(s)' => ~slots'[s].just_spawn
        BY <2>2, <2>3, SettledUsed DEF Signalled, Undetached
    <2> QED
        BY <2>4 DEF NoneJust
<1>4. CASE ~Reloading
    <2>1. \A s \in Slots : Used(s) => ~slots[s].just_spawn
        BY <1>4 DEF NoneJust
    <2>2. CASE QuietMaster \/ Orderly \/ Suspend
        BY <1>0, <2>1, <2>2, SettledSteps, SettledUsed DEF Settled, NoneJust
    <2>3. CASE Refused
        BY <2>1, <2>3, RefusedUsed DEF NoneJust, Refused, SameSlot
    <2>4. CASE ReapRespawn
        <3>1. i \in Slots /\ Used(i)
            BY <1>0, <2>4, ReapSlot DEF ReapRespawn, Used
        <3>2. ASSUME Respawned(i, NewPid)
              PROVE  NoneJust'
            BY <1>0, <2>1, <3>1, <3>2, RespawnedUsed DEF NoneJust, Respawned
        <3> QED
            BY <1>0, <2>3, <2>4, <3>2, RespawnEffect
    <2>5. CASE ReapFree
        <3>1. i \in Slots /\ Used(i)
            BY <1>0, <2>5, ReapSlot DEF ReapFree, Used
        <3>2. Freed(i)
            BY <1>0, <2>5, FreeEffect
        <3> QED
            BY <1>0, <2>1, <3>1, <3>2, FreedUsed DEF NoneJust, Freed
    <2>6. CASE ChangeBinary
        BY <2>6 DEF ChangeBinary, Plain, PointPlain
    <2> QED
        BY <1>1, <2>2, <2>4, <2>5, <2>6 DEF Master, QuietMaster, Orderly
<1> QED
    BY <1>1, <1>2, <1>3, <1>4, ReloadingSteps

(***************************************************************************)
(* ngx_reap_children() returns "live" only if it met a process that has    *)
(* not exited, and nothing but a reload starts processes when it did not.  *)
(***************************************************************************)
LEMMA LiveMaster ==
    ASSUME WellTyped, SlotsRight, Plain, Undetached, LiveRight, Master
    PROVE  LiveRight'
<1>0. TableType /\ gen \in Nat /\ i \in Nat /\ last \in Nat /\ Slots \subseteq Nat
    BY SlotsFacts DEF WellTyped, PointsType, CountsType, TableType
<1>1. CASE StartNext \/ StartDone
    <2>1. live' = live /\ mpc = "start"
        BY <1>1 DEF StartNext, StartDone, locals
    <2>2. Reloading => Reloading'
        BY <1>1 DEF StartNext, StartDone, Reloading, Plain, PointPlain
    <2> QED
        BY <2>1, <2>2 DEF LiveRight
<1>2. CASE ShutdownOld \/ Reconfigure
    BY <1>2 DEF ShutdownOld, Reconfigure, LiveRight, Reloading
<1>3. CASE ReapStart
    <2>1. CASE "reap" \in flags
        <3>1. mpc' = "reaping" /\ i' = 0
            BY <1>3, <2>1 DEF ReapStart
        <3>2. Dead(i)'
            BY <1>0, <3>1 DEF Dead
        <3> QED
            BY <3>1, <3>2 DEF LiveRight
    <2>2. CASE "reap" \notin flags
        <3>1. mpc = "reap" /\ mpc' = "dispatch" /\ live' = live /\ UNCHANGED <<slots, last>>
            BY <1>3, <2>2 DEF ReapStart, table
        <3>2. live \/ Dead(last)
            BY <3>1 DEF LiveRight, Reloading, Plain, PointPlain
        <3>3. Dead(last) => Dead(last)'
            BY <3>1 DEF Dead, Used
        <3> QED
            BY <3>1, <3>2, <3>3 DEF LiveRight
    <2> QED
        BY <2>1, <2>2
<1>4. CASE ReapKeep \/ ReapRespawn \/ ReapFree
    <2>1. mpc = "reaping" /\ mpc' = "reaping" /\ i' = i + 1 /\ i < last
        BY <1>4 DEF ReapKeep, ReapRespawn, ReapFree
    <2>2. i \in Slots
        BY <1>0, <2>1, ReapSlot
    <2>3. live => live'
        BY <1>4 DEF ReapKeep, ReapRespawn, ReapFree, locals
    <2>4. live \/ Dead(i)
        BY <2>1 DEF LiveRight, Reloading, Plain, PointPlain
    <2>5. ASSUME Dead(i), ~live'
          PROVE  Dead(i)'
        <3>0. PICK k \in Slots : k = i
            BY <2>2
        <3>1. ASSUME \A s \in Slots \ {k} :
                        /\ Used(s)' => Used(s)
                        /\ slots'[s].exited = slots[s].exited,
                     Used(k)' => slots'[k].exited
              PROVE  Dead(i)'
            <4>1. ASSUME NEW s \in Slots, Used(s)', s < k + 1
                  PROVE  slots'[s].exited
                <5>1. s = k \/ s < k
                    BY <1>0, <3>0, <4>1
                <5>2. CASE s < k
                    BY <1>0, <2>5, <3>0, <3>1, <4>1, <5>2 DEF Dead
                <5> QED
                    BY <3>1, <4>1, <5>1, <5>2
            <4> QED
                BY <2>1, <3>0, <4>1 DEF Dead
        <3>2. CASE ReapKeep
            <4>1. UNCHANGED <<slots, last>>
                BY <3>2 DEF ReapKeep, table
            <4>2. ~Used(k)
                BY <2>5, <3>0, <3>2 DEF ReapKeep, Undetached, Used
            <4>3. \A s \in Slots : Used(s)' <=> Used(s)
                BY <4>1 DEF Used
            <4> QED
                BY <3>1, <4>1, <4>2, <4>3
        <3>3. CASE ReapRespawn
            <4>1. Refused
                BY <1>0, <2>5, <3>3, RespawnEffect
            <4>2. \A s \in Slots : slots'[s].exited = slots[s].exited
                BY <4>1 DEF Refused, SameSlot
            <4>3. slots[k].exited
                BY <3>0, <3>3 DEF ReapRespawn
            <4> QED
                BY <3>1, <4>1, <4>2, <4>3, RefusedUsed
        <3>4. CASE ReapFree
            <4>1. Used(k)
                BY <3>0, <3>4 DEF ReapFree, Used
            <4>2. Freed(k)
                BY <1>0, <3>0, <3>4, FreeEffect
            <4>3. ~Used(k)' /\ \A t \in Slots \ {k} : Used(t)' <=> Used(t)
                BY <1>0, <4>1, <4>2, FreedUsed
            <4>4. \A s \in Slots \ {k} : slots'[s].exited = slots[s].exited
                BY <4>2 DEF Freed
            <4> QED
                BY <3>1, <4>3, <4>4
        <3> QED
            BY <1>4, <3>2, <3>3, <3>4
    <2>6. CASE live'
        BY <2>6 DEF LiveRight
    <2>7. CASE ~live'
        BY <2>1, <2>3, <2>4, <2>5, <2>7 DEF LiveRight
    <2> QED
        BY <2>6, <2>7
<1>5. CASE ReapDone
    <2>1. mpc = "reaping" /\ i >= last /\ mpc' = "dispatch" /\ live' = live
              /\ UNCHANGED <<slots, last>>
        BY <1>5 DEF ReapDone, table, locals
    <2>2. live \/ Dead(i)
        BY <2>1 DEF LiveRight, Reloading, Plain, PointPlain
    <2>3. Dead(i) => Dead(last)'
        <3>1. \A s \in Slots : s < last => s < i
            BY <1>0, <2>1
        <3> QED
            BY <2>1, <3>1 DEF Dead, Used
    <2> QED
        BY <2>1, <2>2, <2>3 DEF LiveRight
<1>6. CASE CycleTop \/ Suspend \/ MasterExit \/ Terminate \/ Quit \/ Proceed
             \/ ReconfigureFails \/ Reopen \/ NoAccept
    <2>1. live' = live /\ mpc \notin {"start", "reaping"} /\ mpc # "shutdown_old"
        BY <1>6 DEF CycleTop, Suspend, MasterExit, Terminate, Quit, Proceed,
                    ReconfigureFails, Reopen, NoAccept, locals
    <2>2. mpc' \notin {"start", "reaping"}
        <3>1. CASE Proceed \/ Reopen
            <4>1. \E n \in 1 .. 5 : mpc' = NextSection(n, flags)
                BY <3>1 DEF Proceed, Reopen
            <4> QED
                BY <4>1, NextSectionPoint
        <3>2. CASE CycleTop \/ Suspend \/ MasterExit \/ Terminate \/ Quit
                     \/ ReconfigureFails \/ NoAccept
            BY <3>2 DEF CycleTop, Suspend, MasterExit, Terminate, Quit,
                        ReconfigureFails, NoAccept
        <3> QED
            BY <1>6, <3>1, <3>2
    <2>3. Settled
        BY <1>0, <1>6, SettledSteps DEF QuietMaster, Orderly
    <2>4. live \/ Dead(last)
        BY <2>1 DEF LiveRight, Reloading, Plain, PointPlain
    <2>5. Dead(last) => Dead(last)'
        BY <2>3, SettledDead DEF Settled, Dead
    <2> QED
        BY <2>1, <2>2, <2>4, <2>5 DEF LiveRight
<1>7. CASE ReconfigureNewBinary \/ Restart \/ ChangeBinary
    BY <1>7 DEF ReconfigureNewBinary, Restart, ChangeBinary, Plain, FlagsPlain,
                PointPlain
<1> QED
    BY <1>1, <1>2, <1>3, <1>4, <1>5, <1>6, <1>7 DEF Master

LEMMA DownMaster ==
    ASSUME Plain, DownRight, Master
    PROVE  DownRight' /\ mpc # "exited"
<1>1. mpc # "exited"
    BY DEF Master, StartNext, StartDone, CycleTop, Suspend, ReapStart, ReapKeep,
           ReapRespawn, ReapFree, ReapDone, MasterExit, Terminate, Quit, Proceed,
           ReconfigureNewBinary, ReconfigureFails, Reconfigure, ShutdownOld,
           Restart, Reopen, ChangeBinary, NoAccept
<1>2. CASE MasterExit
    BY <1>1, <1>2 DEF MasterExit, DownRight, locals
<1>3. CASE Proceed \/ ShutdownOld \/ Reopen \/ ChangeBinary
    <2>1. \E n \in 1 .. 5 : mpc' = NextSection(n, flags)
        BY <1>3 DEF Proceed, ShutdownOld, Reopen, ChangeBinary
    <2> QED
        BY <1>1, <2>1, NextSectionPoint DEF DownRight
<1>4. CASE StartDone
    BY <1>1, <1>4 DEF StartDone, DownRight, Plain, PointPlain
<1>5. CASE StartNext \/ CycleTop \/ Suspend \/ ReapStart \/ ReapKeep \/ ReapRespawn
             \/ ReapFree \/ ReapDone \/ Terminate \/ Quit \/ ReconfigureNewBinary
             \/ ReconfigureFails \/ Reconfigure \/ Restart \/ NoAccept
    BY <1>1, <1>5 DEF StartNext, CycleTop, Suspend, ReapStart, ReapKeep, ReapRespawn,
                      ReapFree, ReapDone, Terminate, Quit, ReconfigureNewBinary,
                      ReconfigureFails, Reconfigure, Restart, NoAccept, DownRight
<1> QED
    BY <1>1, <1>2, <1>3, <1>4, <1>5 DEF Master

(* The invariant so far, of a master that is not asked to upgrade. *)
Cycle ==
    /\ WellTyped /\ SlotsRight /\ Plain /\ Undetached /\ NoneJust /\ LiveRight
    /\ DownRight

LEMMA CycleInductive ==
    ASSUME NoUpgrade, Cycle, [Next]_vars
    PROVE  Cycle'
<1>0. /\ WellTyped /\ SlotsRight /\ Plain /\ Undetached /\ NoneJust /\ LiveRight
      /\ DownRight /\ TableType
    BY DEF Cycle, WellTyped
<1>1. WellTyped' /\ SlotsRight' /\ Plain'
    BY <1>0, WellTypedInductive, RightInductive, PlainInductive
<1>2. CASE Master
    BY <1>0, <1>1, <1>2, UndetachedMaster, NoneJustMaster, LiveMaster, DownMaster
       DEF Cycle
<1>3. ASSUME UNCHANGED <<slots, last, live, mpc, i, after>>
      PROVE  Cycle'
    <2>1. \A s \in Slots : Used(s)' <=> Used(s)
        BY <1>3 DEF Used
    <2>2. Reloading' <=> Reloading
        BY <1>3 DEF Reloading
    <2>3. Undetached' /\ NoneJust' /\ DownRight'
        BY <1>0, <1>3, <2>1, <2>2 DEF Undetached, NoneJust, DownRight
    <2>4. LiveRight'
        BY <1>0, <1>3, <2>1, <2>2 DEF LiveRight, Dead
    <2> QED
        BY <1>1, <2>3, <2>4 DEF Cycle
<1>4. ASSUME NEW p \in Pids, ChildStep(p)
      PROVE  Cycle'
    BY <1>0, <1>3, <1>4, ChildEffect DEF masterVars
<1>5. CASE Alarm \/ (\E signal \in Commands : Command(signal)) \/ UNCHANGED vars
    BY <1>3, <1>5 DEF Alarm, Command, vars, table, masterVars, locals, loops
<1> QED
    BY <1>2, <1>4, <1>5 DEF Next, ChildStep

LEMMA InitCycle ==
    ASSUME Init
    PROVE  Cycle
<1>1. WellTyped /\ SlotsRight /\ Plain
    BY InitRight, InitPlain
<1>2. \A s \in Slots : ~Used(s)
    BY SlotsFacts DEF Init, Used
<1>3. live = TRUE /\ mpc = "start"
    BY DEF Init
<1> QED
    BY <1>1, <1>2, <1>3 DEF Cycle, Undetached, NoneJust, LiveRight, DownRight

(* A master that is not asked to upgrade keeps this invariant. *)
THEOREM CycleInvariant ==
    ASSUME NoUpgrade
    PROVE  Spec => []Cycle
<1>1. Init => Cycle
    BY InitCycle
<1>2. Cycle /\ [Next]_vars => Cycle'
    BY CycleInductive
<1> QED
    BY <1>1, <1>2, PTL DEF Spec

(***************************************************************************)
(* ngx_master_process_exit() is called when no child is left: the "live"   *)
(* that ngx_reap_children() returned still holds good then, in spite of    *)
(* the reloads, the orders and the failed fork() calls in between.         *)
(***************************************************************************)
THEOREM NobodyOrphaned ==
    ASSUME NoUpgrade
    PROVE  Spec => []NoOrphans
<1>1. Cycle => NoOrphans
    <2> SUFFICES ASSUME Cycle, mpc = "exited"
                 PROVE  Children = {}
        BY DEF NoOrphans
    <2>1. Dead(last)
        BY DEF Cycle, LiveRight, DownRight, Reloading, Plain, PointPlain
    <2>2. \A s \in Slots : Used(s) => child[slots[s].pid].st = "gone"
        BY <2>1 DEF Dead, Used, Cycle, SlotsRight
    <2> QED
        BY <2>2 DEF Cycle, SlotsRight, Children, Alive
<1> QED
    BY <1>1, CycleInvariant, PTL

-----------------------------------------------------------------------------
(***************************************************************************)
(* Counting workers: those that the start functions have still to spawn.   *)
(***************************************************************************)
LEMMA WorkersEmpty == Workers(<<>>) = 0
<1>1. {k \in DOMAIN <<>> : <<>>[k].kind = "worker"} = {}
    OBVIOUS
<1> QED
    BY <1>1, FS_EmptySet DEF Workers

LEMMA WorkersType ==
    ASSUME NEW q \in Seq(Spawn)
    PROVE  Workers(q) \in Nat
<1>1. IsFiniteSet(DOMAIN q)
    BY FS_Interval
<1>2. IsFiniteSet({k \in DOMAIN q : q[k].kind = "worker"})
    BY <1>1, FS_Subset
<1> QED
    BY <1>2, FS_CardinalityType DEF Workers

LEMMA WorkersTail ==
    ASSUME NEW q \in Seq(Spawn), q # <<>>
    PROVE  /\ Head(q).kind = "worker" => Workers(q) = Workers(Tail(q)) + 1
           /\ Head(q).kind # "worker" => Workers(q) = Workers(Tail(q))
<1>1. PICK t \in Seq(Spawn) : t = Tail(q)
    <2>1. \A E : q \in Seq(E) => Tail(q) \in Seq(E)
        OBVIOUS
    <2> QED
        BY <2>1
<1>2. PICK n \in Nat : n = Len(t) /\ Len(q) = n + 1
    BY <1>1
<1>3. \A k \in 1 .. n : k + 1 \in 1 .. n + 1 /\ t[k] = q[k + 1]
    BY <1>1, <1>2
<1>4. DOMAIN t = 1 .. n /\ DOMAIN q = 1 .. n + 1 /\ Head(q) = q[1] /\ 1 \in 1 .. n + 1
    BY <1>2
<1> DEFINE A == {k \in DOMAIN q : q[k].kind = "worker"}
           B == {k \in DOMAIN t : t[k].kind = "worker"}
           f == [k \in B |-> k + 1]
<1>5. \A k \in B : k \in 1 .. n /\ k \in Nat /\ q[k + 1].kind = "worker"
    BY <1>3, <1>4
<1>6. \A k \in B : k + 1 \in A \ {1}
    BY <1>3, <1>4, <1>5
<1>7. f \in [B -> A \ {1}]
    BY <1>6
<1>8. \A k \in A \ {1} : k \in 2 .. n + 1 /\ k - 1 \in B /\ (k - 1) + 1 = k
    <2> SUFFICES ASSUME NEW k \in A, k # 1
                 PROVE  k \in 2 .. n + 1 /\ k - 1 \in B /\ (k - 1) + 1 = k
        OBVIOUS
    <2>1. k \in 1 .. n + 1 /\ q[k].kind = "worker"
        BY <1>4
    <2>2. k \in 2 .. n + 1 /\ k - 1 \in 1 .. n /\ (k - 1) + 1 = k
        BY <2>1
    <2>3. t[k - 1] = q[k]
        BY <1>3, <2>2
    <2> QED
        BY <1>4, <2>1, <2>2, <2>3
<1>9. \A k \in A \ {1} : \E l \in B : f[l] = k
    BY <1>8
<1>10. \A k, l \in B : f[k] = f[l] => k = l
    BY <1>5
<1> HIDE DEF f
<1>11. DOMAIN f = B
    BY DEF f
<1>12. f \in Bijection(B, A \ {1})
    BY <1>7, <1>9, <1>10, <1>11 DEF Bijection, Injection, Surjection, IsInjective
<1>13. ExistsBijection(B, A \ {1})
    BY <1>12 DEF ExistsBijection
<1>14. IsFiniteSet(A) /\ IsFiniteSet(B)
    <2>1. IsFiniteSet(1 .. n) /\ IsFiniteSet(1 .. n + 1)
        BY FS_Interval
    <2>2. A \in SUBSET (1 .. n + 1) /\ B \in SUBSET (1 .. n)
        BY <1>4
    <2> QED
        BY <2>1, <2>2, FS_Subset
<1>15. Cardinality(A \ {1}) = Cardinality(B)
    BY <1>13, <1>14, FS_Bijection
<1>16. /\ Cardinality(A) \in Nat
       /\ Cardinality(A \ {1}) = IF 1 \in A THEN Cardinality(A) - 1 ELSE Cardinality(A)
    BY <1>14, FS_RemoveElement, FS_CardinalityType
<1>17. Workers(q) = Cardinality(A) /\ Workers(Tail(q)) = Cardinality(B)
    BY <1>1 DEF Workers
<1>18. 1 \in A <=> Head(q).kind = "worker"
    BY <1>4
<1> HIDE DEF A, B
<1>19. CASE Head(q).kind = "worker"
    BY <1>15, <1>16, <1>17, <1>18, <1>19
<1>20. CASE Head(q).kind # "worker"
    BY <1>15, <1>16, <1>17, <1>18, <1>20
<1> QED
    BY <1>19, <1>20

(***************************************************************************)
(* A process that has exited is started again or leaves the table before   *)
(* the master does anything else, unless fork() fails.                     *)
(***************************************************************************)
Reaping(s) ==
    \/ mpc = "reap" /\ "reap" \in flags
    \/ mpc = "reaping" /\ i <= s
Reaped == failures = 0 => \A s \in Slots : Used(s) /\ slots[s].exited => Reaping(s)

LEMMA NotGone ==
    ASSUME SlotsRight, Reaped, failures = 0, mpc \notin {"reap", "reaping"}
    PROVE  /\ \A s \in Slots : Used(s) => ~slots[s].exited
           /\ \A s \in Slots : \A order : Reached(s, order) => ~NoSuchProcess(s)
<1>1. \A s \in Slots : Used(s) => ~slots[s].exited
    BY DEF Reaped, Reaping
<1>2. ASSUME NEW s \in Slots, NEW order, Reached(s, order)
      PROVE  ~NoSuchProcess(s)
    <2>1. Used(s)
        BY <1>2 DEF Reached, Used
    <2> QED
        BY <1>1, <2>1 DEF SlotsRight, NoSuchProcess
<1> QED
    BY <1>1, <1>2

LEMMA RefusedFails ==
    ASSUME WellTyped, Refused
    PROVE  failures' # 0
BY DEF Refused, WellTyped, CountsType

LEMMA FailuresGrow ==
    ASSUME WellTyped, Master
    PROVE  failures' = failures \/ failures' = failures + 1
<1>0. TableType /\ gen \in Nat /\ i \in Nat
    BY DEF WellTyped, PointsType, CountsType
<1>1. CASE StartNext
    BY <1>1 DEF StartNext, SpawnNew, SpawnFails
<1>2. CASE ChangeBinary
    BY <1>2 DEF ChangeBinary, SpawnNew, SpawnFails
<1>3. CASE ReapRespawn
    BY <1>3 DEF ReapRespawn, SpawnFails
<1>4. CASE QuietMaster \/ Orderly \/ Suspend \/ ReapFree
    BY <1>4 DEF QuietMaster, Orderly, StartDone, CycleTop, Suspend, ReapStart,
                ReapKeep, ReapFree, ReapDone, MasterExit, Terminate, Quit, Proceed,
                ReconfigureNewBinary, ReconfigureFails, Reconfigure, ShutdownOld,
                Restart, Reopen, NoAccept, counts
<1> QED
    BY <1>1, <1>2, <1>3, <1>4 DEF Master, QuietMaster, Orderly

LEMMA ReapedMaster ==
    ASSUME Cycle, Reaped, Master
    PROVE  Reaped'
<1>0. /\ WellTyped /\ SlotsRight /\ Plain
      /\ TableType /\ gen \in Nat /\ i \in Nat /\ last \in Nat /\ Slots \subseteq Nat
      /\ failures \in Nat
    BY SlotsFacts DEF Cycle, WellTyped, PointsType, CountsType, TableType
<1> SUFFICES ASSUME failures' = 0
             PROVE  \A s \in Slots : Used(s)' /\ slots'[s].exited => Reaping(s)'
    BY DEF Reaped
<1>1. failures = 0 /\ ~Refused
    BY <1>0, FailuresGrow, RefusedFails
<1>2. CASE StartNext
    <2>1. PICK e \in Spawn : \E s \in Slots : Spawned(s, NewPid, e.kind, e.type)
        BY <1>0, <1>1, <1>2, StartEffect DEF Plain
    <2>2. PICK s \in Slots : Spawned(s, NewPid, e.kind, e.type)
        BY <2>1
    <2>3. \A t \in Slots : Used(t) => ~slots[t].exited
        BY <1>0, <1>1, <1>2, NotGone DEF StartNext
    <2>4. \A t \in Slots : Used(t)' => ~slots'[t].exited
        BY <1>0, <2>2, <2>3, SpawnedUsed DEF Spawned
    <2> QED
        BY <2>4
<1>3. CASE Orderly
    <2>1. mpc \notin {"reap", "reaping"}
        BY <1>3 DEF Orderly, Terminate, Quit, ShutdownOld, Reopen, NoAccept
    <2>2. /\ \A s \in Slots : Used(s) => ~slots[s].exited
          /\ \A s \in Slots : \A order : Reached(s, order) => ~NoSuchProcess(s)
        BY <1>0, <1>1, <2>1, NotGone
    <2>3. \A s \in Slots : Used(s)' <=> Used(s)
        BY <1>0, <1>3, SettledSteps, SettledUsed
    <2>4. \A s \in Slots : slots'[s].exited => slots[s].exited
        BY <1>0, <1>3, <2>2, OrderEffect DEF Orderly, Signalled
    <2> QED
        BY <2>2, <2>3, <2>4
<1>4. CASE Suspend
    <2>1. mpc = "suspend" /\ mpc' = "reap"
        BY <1>4 DEF Suspend
    <2>2. \A s \in Slots : Used(s) => ~slots[s].exited
        BY <1>0, <1>1, <2>1, NotGone
    <2>3. \A s \in Slots : Used(s)' <=> Used(s)
        BY <1>0, <1>4, SettledSteps, SettledUsed
    <2>4. CASE "chld" \in pend
        <3>1. "reap" \in HandlerFlags("chld")
            BY DEF HandlerFlags
        <3>2. "reap" \in flags'
            BY <1>4, <2>4, <3>1 DEF Suspend
        <3> QED
            BY <2>1, <3>2 DEF Reaping
    <2>5. CASE "chld" \notin pend
        <3>1. GetStatus({})
            BY <1>4, <2>5 DEF Suspend
        <3>2. Reported({})
            BY <1>0, <3>1, ReportEffect
        <3>3. \A s \in Slots : slots'[s].exited => slots[s].exited
            BY <3>2 DEF Reported
        <3> QED
            BY <2>2, <2>3, <3>3
    <2> QED
        BY <2>4, <2>5
<1>5. CASE ReapStart
    <2>1. mpc = "reap" /\ i' = 0 /\ UNCHANGED <<slots, last>>
        BY <1>5 DEF ReapStart, table
    <2>2. CASE "reap" \in flags
        <3>1. mpc' = "reaping"
            BY <1>5, <2>2 DEF ReapStart
        <3> QED
            BY <1>0, <2>1, <3>1 DEF Reaping
    <2>3. CASE "reap" \notin flags
        BY <1>1, <2>1, <2>3 DEF Reaped, Reaping, Used
    <2> QED
        BY <2>2, <2>3
<1>6. CASE ReapKeep \/ ReapRespawn \/ ReapFree
    <2>1. mpc = "reaping" /\ mpc' = "reaping" /\ i' = i + 1 /\ i < last
        BY <1>6 DEF ReapKeep, ReapRespawn, ReapFree
    <2>2. PICK k \in Slots : k = i
        BY <1>0, <2>1, ReapSlot
    <2>3. ~(Used(k)' /\ slots'[k].exited)
        <3>1. CASE ReapKeep
            BY <2>2, <3>1 DEF ReapKeep, Used, table
        <3>2. CASE ReapRespawn
            BY <1>0, <1>1, <2>2, <3>2, RespawnEffect DEF Respawned
        <3>3. CASE ReapFree
            BY <1>0, <2>2, <3>3, FreeEffect, FreedUsed DEF ReapFree, Used
        <3> QED
            BY <1>6, <3>1, <3>2, <3>3
    <2>4. \A s \in Slots \ {k} :
              (Used(s)' /\ slots'[s].exited) => (Used(s) /\ slots[s].exited)
        <3>1. CASE ReapKeep
            BY <3>1 DEF ReapKeep, Used, table
        <3>2. CASE ReapRespawn
            BY <1>0, <1>1, <2>2, <3>2, RespawnEffect DEF Respawned, Used
        <3>3. CASE ReapFree
            BY <1>0, <2>2, <3>3, FreeEffect, FreedUsed DEF ReapFree, Used, Freed
        <3> QED
            BY <1>6, <3>1, <3>2, <3>3
    <2>5. ASSUME NEW s \in Slots, Used(s)', slots'[s].exited
          PROVE  i + 1 <= s
        <3>1. s # k /\ Used(s) /\ slots[s].exited
            BY <2>3, <2>4, <2>5
        <3>2. i <= s
            BY <1>1, <2>1, <3>1 DEF Reaped, Reaping
        <3> QED
            BY <1>0, <2>2, <3>1, <3>2
    <2> QED
        BY <2>1, <2>5 DEF Reaping
<1>7. CASE ReapDone
    <2>1. mpc = "reaping" /\ i >= last /\ UNCHANGED <<slots, last>>
        BY <1>7 DEF ReapDone, table
    <2> QED
        BY <1>0, <1>1, <2>1 DEF Reaped, Reaping, Used
<1>8. CASE QuietMaster /\ ~ReapStart /\ ~ReapKeep /\ ~ReapDone
    <2>1. mpc \notin {"reap", "reaping"}
        BY <1>8 DEF QuietMaster, StartDone, CycleTop, MasterExit, Proceed,
                    ReconfigureNewBinary, ReconfigureFails, Reconfigure, Restart
    <2>2. \A s \in Slots : Used(s) => ~slots[s].exited
        BY <1>0, <1>1, <2>1, NotGone
    <2> QED
        BY <1>8, <2>2, QuietEffect DEF Used
<1>9. CASE ChangeBinary
    BY <1>0, <1>9 DEF ChangeBinary, Plain, PointPlain
<1> QED
    BY <1>2, <1>3, <1>4, <1>5, <1>6, <1>7, <1>8, <1>9 DEF Master, QuietMaster, Orderly

-----------------------------------------------------------------------------
(***************************************************************************)
(* The workers that are to stay: while a reload starts its workers, only   *)
(* these, as the others are about to be told to quit.                      *)
(***************************************************************************)
Stay ==
    {s \in Slots : /\ Used(s) /\ slots[s].kind = "worker" /\ ~slots[s].exiting
                   /\ Reloading => slots[s].just_spawn}
StayCount == failures = 0 => Cardinality(Stay) + Workers(todo) <= WorkerProcesses

LEMMA SlotsFinite == IsFiniteSet(Slots)
BY SizesAssumption, FS_Interval DEF Slots

LEMMA StayFinite == IsFiniteSet(Stay) /\ Cardinality(Stay) \in Nat
<1>1. Stay \in SUBSET Slots
    BY DEF Stay
<1> QED
    BY <1>1, SlotsFinite, FS_Subset, FS_CardinalityType

LEMMA StayFiniteNext == IsFiniteSet(Stay') /\ Cardinality(Stay') \in Nat
<1>1. Stay' \in SUBSET Slots
    BY DEF Stay
<1> QED
    BY <1>1, SlotsFinite, FS_Subset, FS_CardinalityType

LEMMA StayShrinks ==
    ASSUME WellTyped, StayCount, failures = 0, Stay' \subseteq Stay, todo' = todo
    PROVE  StayCount'
<1>1. Cardinality(Stay') <= Cardinality(Stay)
    BY StayFinite, FS_Subset
<1>2. Workers(todo) \in Nat
    BY WorkersType DEF WellTyped, PointsType
<1>3. WorkerProcesses \in Nat
    BY SizesAssumption
<1>4. Cardinality(Stay) + Workers(todo) <= WorkerProcesses
    BY DEF StayCount
<1>5. Cardinality(Stay') + Workers(todo) <= WorkerProcesses
    BY <1>1, <1>2, <1>3, <1>4, StayFinite, StayFiniteNext
<1> QED
    BY <1>5 DEF StayCount

(* A process is taken off the list and put into slot s. *)
LEMMA StayGrows ==
    ASSUME WellTyped, StayCount, failures = 0, NEW e, e = Head(todo), todo # <<>>,
           todo' = Tail(todo), NEW s,
           Stay' \subseteq IF e.kind = "worker" THEN Stay \cup {s} ELSE Stay
    PROVE  StayCount'
<1>0. todo \in Seq(Spawn)
    BY DEF WellTyped, PointsType
<1>1. PICK a \in Nat : a = Cardinality(Stay)
    BY StayFinite
<1>2. PICK b \in Nat : b = Cardinality(Stay')
    BY StayFiniteNext
<1>3. todo' \in Seq(Spawn)
    <2>1. \A E : todo \in Seq(E) => Tail(todo) \in Seq(E)
        OBVIOUS
    <2> QED
        BY <1>0, <2>1
<1>4. PICK m \in Nat : m = Workers(todo)
    BY <1>0, WorkersType
<1>5. PICK n \in Nat : n = Workers(todo')
    BY <1>3, WorkersType
<1>6. PICK w \in Nat : w = WorkerProcesses
    BY SizesAssumption
<1>7. a + m <= w
    BY <1>1, <1>4, <1>6 DEF StayCount
<1>8. CASE e.kind = "worker"
    <2>1. m = n + 1
        BY <1>0, <1>4, <1>5, <1>8, WorkersTail
    <2>2. /\ IsFiniteSet(Stay \cup {s})
          /\ Cardinality(Stay \cup {s}) =
                IF s \in Stay THEN Cardinality(Stay) ELSE Cardinality(Stay) + 1
        BY StayFinite, FS_AddElement
    <2>3. Cardinality(Stay \cup {s}) = a \/ Cardinality(Stay \cup {s}) = a + 1
        BY <1>1, <2>2
    <2>4. Cardinality(Stay') <= Cardinality(Stay \cup {s})
        BY <1>8, <2>2, FS_Subset
    <2>5. b <= a + 1
        BY <1>2, <2>3, <2>4
    <2> QED
        BY <1>2, <1>5, <1>6, <1>7, <2>1, <2>5 DEF StayCount
<1>9. CASE e.kind # "worker"
    <2>1. m = n
        BY <1>0, <1>4, <1>5, <1>9, WorkersTail
    <2>2. Cardinality(Stay') <= Cardinality(Stay)
        BY <1>9, StayFinite, FS_Subset
    <2>3. b <= a
        BY <1>1, <1>2, <2>2
    <2> QED
        BY <1>2, <1>5, <1>6, <1>7, <2>1, <2>3 DEF StayCount
<1> QED
    BY <1>8, <1>9

LEMMA StayMaster ==
    ASSUME Cycle, Reaped, StayCount, Master
    PROVE  StayCount'
<1>0. /\ WellTyped /\ SlotsRight /\ Plain /\ Undetached /\ NoneJust
      /\ TableType /\ gen \in Nat /\ i \in Nat /\ last \in Nat /\ Slots \subseteq Nat
      /\ failures \in Nat
    BY SlotsFacts DEF Cycle, WellTyped, PointsType, CountsType, TableType
<1> SUFFICES ASSUME failures' = 0
             PROVE  StayCount'
    BY DEF StayCount
<1>1. failures = 0 /\ ~Refused
    BY <1>0, FailuresGrow, RefusedFails
<1>2. CASE StartNext
    <2>1. PICK e \in Spawn :
              /\ e = Head(todo)
              /\ \E s \in Slots : Spawned(s, NewPid, e.kind, e.type)
        BY <1>0, <1>1, <1>2, StartEffect DEF Plain
    <2>2. PICK s \in Slots : Spawned(s, NewPid, e.kind, e.type)
        BY <2>1
    <2>3. todo # <<>> /\ todo' = Tail(todo) /\ (Reloading' <=> Reloading)
        BY <1>2 DEF StartNext, Reloading
    <2>4. \A t \in Slots \ {s} : t \in Stay' => t \in Stay
        BY <1>0, <2>2, <2>3, SpawnedUsed DEF Stay, Spawned
    <2>5. s \in Stay' => e.kind = "worker"
        BY <2>2 DEF Stay, Spawned
    <2>6. Stay' \subseteq Slots
        BY DEF Stay
    <2>7. Stay' \subseteq IF e.kind = "worker" THEN Stay \cup {s} ELSE Stay
        BY <2>4, <2>5, <2>6
    <2> QED
        BY <1>0, <1>1, <2>1, <2>3, <2>7, StayGrows
<1>3. CASE Reconfigure
    <2>1. mpc = "reconfigure" /\ after' = "shutdown_old" /\ todo' = StartJust
              /\ UNCHANGED <<slots, last>>
        BY <1>3 DEF Reconfigure, table
    <2>2. ~Reloading
        BY <1>0, <2>1 DEF Reloading, Plain, PointPlain
    <2>3. Stay' = {}
        BY <1>0, <2>1, <2>2 DEF Stay, NoneJust, Used, Reloading
    <2>4. Workers(todo') = WorkerProcesses
        BY <2>1, StartListFacts DEF StartJust
    <2>5. Cardinality(Stay') = 0 /\ WorkerProcesses \in Nat
        BY <2>3, FS_EmptySet, SizesAssumption
    <2> QED
        BY <2>4, <2>5 DEF StayCount
<1>4. CASE ShutdownOld
    <2>1. /\ SignalWorkers("quit", flags) /\ mpc = "shutdown_old"
          /\ UNCHANGED <<last, todo>>
        BY <1>4 DEF ShutdownOld, loops
    <2>2. Signalled("quit")
        BY <1>0, <2>1, SignalEffect DEF Orders
    <2>3. \A s \in Slots : \A order : Reached(s, order) => ~NoSuchProcess(s)
        BY <1>0, <1>1, <2>1, NotGone
    <2>4. Reloading
        BY <2>1 DEF Reloading
    <2>5. \A s \in Slots : Used(s)' <=> Used(s)
        BY <1>0, <1>4, SettledSteps, SettledUsed DEF Orderly
    <2>6. ASSUME NEW s \in Slots, Used(s), ~slots'[s].exiting
          PROVE  ~slots[s].exiting /\ slots[s].just_spawn
        <3>1. ~Reached(s, "quit")
            BY <2>2, <2>3, <2>6 DEF Signalled
        <3>2. ~slots[s].exiting
            BY <2>2, <2>6, <3>1 DEF Signalled
        <3> QED
            BY <1>0, <2>6, <3>1, <3>2 DEF Reached, Used, Undetached
    <2>7. Stay' \subseteq Stay
        BY <2>2, <2>5, <2>6 DEF Stay, Signalled
    <2> QED
        BY <1>0, <1>1, <2>1, <2>7, StayShrinks
<1>5. CASE Terminate \/ Quit \/ Reopen \/ NoAccept
    <2>1. mpc \notin {"reap", "reaping"} /\ todo' = todo /\ after' = after
              /\ mpc # "shutdown_old" /\ mpc # "start"
        BY <1>5 DEF Terminate, Quit, Reopen, NoAccept, loops
    <2>2. ~Reloading
        BY <1>0, <2>1 DEF Reloading, Plain, PointPlain
    <2>3. \A s \in Slots : \A order : Reached(s, order) => ~NoSuchProcess(s)
        BY <1>0, <1>1, <2>1, NotGone
    <2>4. \A s \in Slots : Used(s)' <=> Used(s)
        BY <1>0, <1>5, SettledSteps, SettledUsed DEF Orderly
    <2>5. \/ UNCHANGED <<slots, child>>
          \/ \E order \in Orders : Signalled(order)
        BY <1>0, <1>5, OrderEffect
    <2>6. \A s \in Slots : /\ slots'[s].kind = slots[s].kind
                           /\ ~slots'[s].exiting => ~slots[s].exiting
        BY <2>3, <2>5 DEF Signalled
    <2>7. Stay' \subseteq Stay
        BY <2>2, <2>4, <2>6 DEF Stay
    <2> QED
        BY <1>0, <1>1, <2>1, <2>7, StayShrinks
<1>6. CASE Suspend
    <2>1. PICK Z : GetStatus(Z)
        BY <1>6 DEF Suspend
    <2>2. Reported(Z) /\ todo' = todo /\ mpc = "suspend"
        BY <1>0, <1>6, <2>1, ReportEffect DEF Suspend, loops
    <2>3. \A s \in Slots : Used(s)' <=> Used(s)
        BY <1>0, <1>6, SettledSteps, SettledUsed
    <2>4. ~Reloading
        BY <1>0, <2>2 DEF Reloading, Plain, PointPlain
    <2>5. Stay' \subseteq Stay
        BY <2>2, <2>3, <2>4 DEF Stay, Reported
    <2> QED
        BY <1>0, <1>1, <2>2, <2>5, StayShrinks
<1>7. CASE ReapRespawn \/ ReapFree
    <2>1. mpc = "reaping" /\ i < last /\ todo' = todo
        BY <1>7 DEF ReapRespawn, ReapFree
    <2>2. PICK k \in Slots : k = i
        BY <1>0, <2>1, ReapSlot
    <2>3. ~Reloading
        BY <1>0, <2>1 DEF Reloading, Plain, PointPlain
    <2>4. Used(k)
        BY <1>7, <2>2 DEF ReapRespawn, ReapFree, Used
    <2>5. CASE ReapRespawn
        <3>1. Respawned(k, NewPid)
            BY <1>0, <1>1, <2>2, <2>5, RespawnEffect
        <3>2. Stay' \subseteq Stay
            BY <1>0, <2>3, <2>4, <3>1, RespawnedUsed DEF Stay, Respawned
        <3> QED
            BY <1>0, <1>1, <2>1, <3>2, StayShrinks
    <2>6. CASE ReapFree
        <3>1. Freed(k)
            BY <1>0, <2>2, <2>6, FreeEffect
        <3>2. Stay' \subseteq Stay
            BY <1>0, <2>3, <2>4, <3>1, FreedUsed DEF Stay, Freed
        <3> QED
            BY <1>0, <1>1, <2>1, <3>2, StayShrinks
    <2> QED
        BY <1>7, <2>5, <2>6
<1>8. CASE StartDone
    <2>1. (Reloading => Reloading') /\ todo' = todo
        BY <1>0, <1>8 DEF StartDone, Reloading, Plain, PointPlain
    <2>2. UNCHANGED <<slots, last>>
        BY <1>8 DEF StartDone, table
    <2>3. Stay' \subseteq Stay
        BY <2>1, <2>2 DEF Stay, Used
    <2> QED
        BY <1>0, <1>1, <2>1, <2>3, StayShrinks
<1>9. CASE CycleTop \/ ReapStart \/ ReapKeep \/ ReapDone \/ MasterExit \/ Proceed
             \/ ReconfigureFails
    <2>1. todo' = todo /\ after' = after /\ mpc \notin {"shutdown_old", "start"}
        BY <1>9 DEF CycleTop, ReapStart, ReapKeep, ReapDone, MasterExit, Proceed,
                    ReconfigureFails, loops
    <2>2. ~Reloading
        BY <1>0, <2>1 DEF Reloading, Plain, PointPlain
    <2>3. UNCHANGED <<slots, last>>
        BY <1>9, QuietEffect DEF QuietMaster
    <2>4. Stay' \subseteq Stay
        BY <2>2, <2>3 DEF Stay, Used
    <2> QED
        BY <1>0, <1>1, <2>1, <2>4, StayShrinks
<1>10. CASE ReconfigureNewBinary \/ Restart \/ ChangeBinary
    BY <1>0, <1>10 DEF ReconfigureNewBinary, Restart, ChangeBinary, Plain, FlagsPlain,
                       PointPlain
<1> QED
    BY <1>2, <1>3, <1>4, <1>5, <1>6, <1>7, <1>8, <1>9, <1>10 DEF Master

-----------------------------------------------------------------------------
(***************************************************************************)
(* The workers that serve, and of these the ones that a reload has just    *)
(* started.  Together with the crashes so far and the workers that are     *)
(* still to be started there are always worker_processes of them, unless   *)
(* the master was told to stop them.                                       *)
(***************************************************************************)
JustServing ==
    {p \in Serving : \E s \in Slots : Used(s) /\ slots[s].pid = p /\ slots[s].just_spawn}
StopFlags == {"terminate", "quit", "noaccepting"}
Excused == mpc = "exited" \/ failures > 0 \/ flags \cap StopFlags # {}
BootLeft == IF after = "boot" THEN Workers(todo) ELSE 0
ServesNow == Cardinality(Serving) + crashes + BootLeft >= WorkerProcesses
ServesNext ==
    Reloading => Cardinality(JustServing) + Workers(todo) + crashes >= WorkerProcesses
ServeCount == Excused \/ (ServesNow /\ ServesNext)

LEMMA PidsSubset ==
    ASSUME NEW S \in SUBSET Pids
    PROVE  IsFiniteSet(S) /\ Cardinality(S) \in Nat
<1>1. IsFiniteSet(Pids)
    BY SizesAssumption, FS_Interval DEF Pids
<1> QED
    BY <1>1, FS_Subset, FS_CardinalityType

LEMMA ServingPids ==
    /\ Serving \in SUBSET Pids /\ JustServing \in SUBSET Pids
    /\ Serving' \in SUBSET Pids /\ JustServing' \in SUBSET Pids
    /\ JustServing \subseteq Serving
BY DEF Serving, JustServing

LEMMA MoreServe ==
    ASSUME NEW S \in SUBSET Pids, NEW T \in SUBSET Pids, S \subseteq T
    PROVE  Cardinality(S) <= Cardinality(T)
BY PidsSubset, FS_Subset

(* At most process p is missing. *)
LEMMA OneLess ==
    ASSUME NEW S \in SUBSET Pids, NEW T \in SUBSET Pids, NEW p, S \ {p} \subseteq T
    PROVE  Cardinality(S) <= Cardinality(T) + 1
<1>1. S \ {p} \in SUBSET Pids
    OBVIOUS
<1>2. Cardinality(S \ {p}) <= Cardinality(T)
    BY <1>1, MoreServe
<1>3. Cardinality(S \ {p}) = Cardinality(S) - 1 \/ Cardinality(S \ {p}) = Cardinality(S)
    BY PidsSubset, FS_RemoveElement
<1> QED
    BY <1>2, <1>3, PidsSubset

(* Process p is new. *)
LEMMA OneMore ==
    ASSUME NEW S \in SUBSET Pids, NEW T \in SUBSET Pids, NEW p, p \notin S,
           S \cup {p} \subseteq T
    PROVE  Cardinality(S) + 1 <= Cardinality(T)
<1>1. S \cup {p} \in SUBSET Pids
    OBVIOUS
<1>2. Cardinality(S \cup {p}) <= Cardinality(T)
    BY <1>1, MoreServe
<1>3. Cardinality(S \cup {p}) = Cardinality(S) + 1
    BY PidsSubset, FS_AddElement
<1> QED
    BY <1>2, <1>3, PidsSubset

(* A child's step: only a crash takes away a worker that serves. *)
LEMMA ServeChild ==
    ASSUME WellTyped, ServeCount, NEW p \in Pids, ChildDoes(p), UNCHANGED masterVars
    PROVE  ServeCount'
<1>0. crashes \in Nat /\ failures \in Nat /\ todo \in Seq(Spawn)
    BY DEF WellTyped, CountsType, PointsType
<1>1. /\ UNCHANGED <<slots, last, flags, mpc, todo, after>> /\ failures' = failures
      /\ Moved(p)
    BY DEF masterVars, ChildDoes
<1>2. Excused' <=> Excused
    BY <1>1 DEF Excused
<1>3. BootLeft' = BootLeft /\ (Reloading' <=> Reloading)
    BY <1>1 DEF BootLeft, Reloading
<1>4. \A q \in Pids \ {p} : q \in Serving' <=> q \in Serving
    BY <1>1 DEF Moved, Serving
<1>5. Serving \ {p} \subseteq Serving'
    BY <1>4, ServingPids
<1>6. \A q \in JustServing : q \in Serving' => q \in JustServing'
    BY <1>1 DEF JustServing, Used
<1>7. JustServing \ {p} \subseteq JustServing'
    BY <1>5, <1>6, ServingPids
<1>8. PICK a \in Nat : a = Cardinality(Serving)
    BY ServingPids, PidsSubset
<1>9. PICK a1 \in Nat : a1 = Cardinality(Serving')
    BY ServingPids, PidsSubset
<1>10. PICK b \in Nat : b = Cardinality(JustServing)
    BY ServingPids, PidsSubset
<1>11. PICK b1 \in Nat : b1 = Cardinality(JustServing')
    BY ServingPids, PidsSubset
<1>12. PICK m \in Nat : m = Workers(todo) /\ m = Workers(todo')
    BY <1>0, <1>1, WorkersType
<1>13. PICK x \in Nat : x = BootLeft /\ x = BootLeft'
    BY <1>3, <1>12 DEF BootLeft
<1>14. PICK w \in Nat : w = WorkerProcesses
    BY SizesAssumption
<1>15. crashes' \in Nat /\ a + crashes <= a1 + crashes' /\ b + crashes <= b1 + crashes'
    <2>1. CASE crashes' = crashes + 1
        <3>1. a <= a1 + 1
            BY <1>5, <1>8, <1>9, OneLess, ServingPids
        <3>2. b <= b1 + 1
            BY <1>7, <1>10, <1>11, OneLess, ServingPids
        <3> QED
            BY <1>0, <2>1, <3>1, <3>2
    <2>2. CASE crashes' = crashes /\ (p \in Serving => p \in Serving')
        <3>1. Serving \subseteq Serving'
            BY <1>5, <2>2
        <3>2. JustServing \subseteq JustServing'
            BY <1>6, <3>1, ServingPids
        <3>3. a <= a1
            BY <1>8, <1>9, <3>1, MoreServe, ServingPids
        <3>4. b <= b1
            BY <1>10, <1>11, <3>2, MoreServe, ServingPids
        <3> QED
            BY <1>0, <2>2, <3>3, <3>4
    <2> QED
        BY <2>1, <2>2 DEF ChildDoes
<1>16. ASSUME ServesNow PROVE ServesNow'
    <2>1. a + crashes + x >= w
        BY <1>8, <1>13, <1>14, <1>16 DEF ServesNow
    <2>2. a1 + crashes' + x >= w
        <3>1. PICK c \in Nat, c1 \in Nat : c = crashes /\ c1 = crashes'
            BY <1>0, <1>15
        <3>2. a + c <= a1 + c1 /\ a + c + x >= w
            BY <1>15, <2>1, <3>1
        <3>3. a1 + c1 + x >= w
            BY <3>2
        <3> QED
            BY <3>1, <3>3
    <2> QED
        BY <1>9, <1>13, <1>14, <2>2 DEF ServesNow
<1>17. ASSUME ServesNext PROVE ServesNext'
    <2> SUFFICES ASSUME Reloading'
                 PROVE  Cardinality(JustServing') + Workers(todo') + crashes' >= WorkerProcesses
        BY DEF ServesNext
    <2>1. b + m + crashes >= w
        BY <1>3, <1>10, <1>12, <1>14, <1>17 DEF ServesNext
    <2>2. b1 + m + crashes' >= w
        <3>1. PICK c \in Nat, c1 \in Nat : c = crashes /\ c1 = crashes'
            BY <1>0, <1>15
        <3>2. b + c <= b1 + c1 /\ b + m + c >= w
            BY <1>15, <2>1, <3>1
        <3>3. b1 + m + c1 >= w
            BY <3>2
        <3> QED
            BY <3>1, <3>3
    <2> QED
        BY <1>11, <1>12, <1>14, <2>2
<1> QED
    BY <1>2, <1>16, <1>17 DEF ServeCount

(* Steps that take no worker away. *)
LEMMA ServeKept ==
    ASSUME WellTyped, ServesNow, Serving \subseteq Serving', crashes' = crashes,
           BootLeft' = BootLeft, BootLeft \in Nat
    PROVE  ServesNow'
<1>1. PICK a \in Nat : a = Cardinality(Serving)
    BY ServingPids, PidsSubset
<1>2. PICK a1 \in Nat : a1 = Cardinality(Serving')
    BY ServingPids, PidsSubset
<1>3. a <= a1
    BY <1>1, <1>2, MoreServe, ServingPids
<1>4. PICK w \in Nat : w = WorkerProcesses
    BY SizesAssumption
<1>5. crashes \in Nat
    BY DEF WellTyped, CountsType
<1>6. PICK x \in Nat : x = BootLeft
    OBVIOUS
<1>7. a + crashes + x >= w
    BY <1>1, <1>4, <1>6 DEF ServesNow
<1>8. a1 + crashes + x >= w
    BY <1>3, <1>5, <1>7
<1> QED
    BY <1>2, <1>4, <1>6, <1>8 DEF ServesNow

(* The flags that stop the workers stay. *)
LEMMA ExcusedStays ==
    ASSUME WellTyped, Cycle, Excused, Master
    PROVE  Excused'
<1>0. TableType /\ i \in Nat /\ failures \in Nat /\ DownRight /\ Plain /\ SlotsRight
    BY DEF WellTyped, PointsType, CountsType, Cycle
<1>1. mpc # "exited"
    BY <1>0, DownMaster
<1>2. failures' = failures \/ failures' = failures + 1
    BY FailuresGrow
<1>3. CASE failures > 0
    BY <1>0, <1>2, <1>3 DEF Excused
<1>4. ASSUME NEW f \in StopFlags, f \in flags
      PROVE  f \in flags'
    <2>1. CASE StartNext \/ StartDone \/ CycleTop \/ ReapStart \/ ReapKeep \/ ReapRespawn
                 \/ ReapDone \/ MasterExit \/ Proceed \/ ReconfigureFails
                 \/ Reconfigure \/ Suspend
        BY ZenonT(60), <1>4, <2>1 DEF StartNext, StartDone, CycleTop, ReapStart, ReapKeep, ReapRespawn,
                          ReapDone, MasterExit, Proceed, ReconfigureFails,
                          Reconfigure, Suspend, StopFlags
    <2>2. CASE Terminate \/ Quit \/ ShutdownOld \/ Reopen \/ NoAccept
        BY <1>4, <2>2 DEF Terminate, Quit, ShutdownOld, Reopen, NoAccept, SignalWorkers,
                          StopFlags
    <2>3. CASE ReapFree
        <3>1. i \in Slots /\ Used(i)
            BY <1>0, <2>3, ReapSlot DEF ReapFree, Used
        <3>2. slots[i].pid \in Pids
            BY <1>0, <3>1 DEF SlotsRight
        <3>3. slots[i].pid # new_binary
            BY <1>0, <3>2 DEF Plain, FlagsPlain, Pids
        <3> QED
            BY <1>4, <2>3, <3>3 DEF ReapFree
    <2>4. CASE ReconfigureNewBinary \/ Restart \/ ChangeBinary
        BY <1>0, <2>4 DEF ReconfigureNewBinary, Restart, ChangeBinary, Plain,
                          FlagsPlain, PointPlain
    <2> QED
        BY <2>1, <2>2, <2>3, <2>4 DEF Master
<1> QED
    BY <1>1, <1>3, <1>4 DEF Excused

(* fork() adds a process that serves, if it is a worker. *)
LEMMA ForkServes ==
    ASSUME TableType, NEW p, NEW kind, Forked(p, kind)
    PROVE  /\ p \notin Serving /\ Serving \subseteq Serving'
           /\ kind = "worker" => p \in Serving'
<1>1. p \notin Serving
    BY DEF Forked, Serving
<1>2. Serving \subseteq Serving'
    BY <1>1 DEF Forked, Serving
<1>3. kind = "worker" => p \in Serving'
    BY DEF Forked, Serving
<1> QED
    BY <1>1, <1>2, <1>3

(* One turn of the start functions: a worker less to start, one more that  *)
(* serves.                                                                 *)
LEMMA ServeStart ==
    ASSUME Cycle, ServesNow, ServesNext, StartNext, NEW e \in Spawn, e = Head(todo),
           e.type \in {"JUST_SPAWN", "JUST_RESPAWN"} <=> after = "shutdown_old",
           NEW s \in Slots, NEW p, Spawned(s, p, e.kind, e.type)
    PROVE  ServesNow' /\ ServesNext'
<1>0. /\ WellTyped /\ TableType /\ todo \in Seq(Spawn) /\ crashes \in Nat
      /\ Plain /\ PointPlain
    BY DEF Cycle, WellTyped, PointsType, CountsType, Plain
<1>1. /\ todo # <<>> /\ todo' = Tail(todo) /\ mpc = "start" /\ mpc' = "start"
      /\ after' = after /\ crashes' = crashes
    BY DEF StartNext
<1>2. Forked(p, e.kind)
    BY DEF Spawned
<1>3. /\ p \notin Serving /\ Serving \subseteq Serving'
      /\ e.kind = "worker" => p \in Serving'
    BY <1>0, <1>2, ForkServes
<1>4. JustServing \subseteq JustServing'
    <2> SUFFICES ASSUME NEW q \in JustServing
                 PROVE  q \in JustServing'
        OBVIOUS
    <2>1. PICK t \in Slots : Used(t) /\ slots[t].pid = q /\ slots[t].just_spawn
        BY DEF JustServing
    <2>2. t # s /\ Used(t)' /\ slots'[t] = slots[t]
        BY <1>0, <2>1, SpawnedUsed DEF Spawned
    <2>3. q \in Serving'
        BY <1>3, ServingPids
    <2> QED
        BY <2>1, <2>2, <2>3 DEF JustServing
<1>5. e.kind = "worker" /\ Reloading => p \in JustServing'
    <2> SUFFICES ASSUME e.kind = "worker", Reloading
                 PROVE  p \in JustServing'
        OBVIOUS
    <2>1. after = "shutdown_old"
        BY <1>1 DEF Reloading
    <2>2. Used(s)' /\ slots'[s].pid = p /\ slots'[s].just_spawn
        BY <1>0, <2>1, SpawnedUsed DEF Spawned
    <2> QED
        BY <1>3, <2>2 DEF JustServing
<1>6. p \notin JustServing
    BY <1>3, ServingPids
<1>7. todo' \in Seq(Spawn)
    <2>1. \A E : todo \in Seq(E) => Tail(todo) \in Seq(E)
        BY <1>1
    <2> QED
        BY <1>0, <1>1, <2>1
<1>8. PICK m \in Nat : m = Workers(todo)
    BY <1>0, WorkersType
<1>9. PICK n \in Nat : n = Workers(todo')
    BY <1>7, WorkersType
<1>10. PICK a \in Nat : a = Cardinality(Serving)
    BY ServingPids, PidsSubset
<1>11. PICK a1 \in Nat : a1 = Cardinality(Serving')
    BY ServingPids, PidsSubset
<1>12. PICK b \in Nat : b = Cardinality(JustServing)
    BY ServingPids, PidsSubset
<1>13. PICK b1 \in Nat : b1 = Cardinality(JustServing')
    BY ServingPids, PidsSubset
<1>14. PICK w \in Nat : w = WorkerProcesses
    BY SizesAssumption
<1>15. PICK c \in Nat : c = crashes /\ c = crashes'
    BY <1>0, <1>1
<1>16. Reloading' <=> Reloading
    BY <1>1 DEF Reloading
<1>17. a <= a1 /\ b <= b1
    BY <1>3, <1>4, <1>10, <1>11, <1>12, <1>13, MoreServe, ServingPids
<1>18. CASE e.kind = "worker"
    <2>1. m = n + 1
        BY <1>0, <1>1, <1>8, <1>9, <1>18, WorkersTail
    <2>2. a + 1 <= a1
        <3>1. Serving \cup {p} \subseteq Serving'
            BY <1>3, <1>18
        <3> QED
            BY <1>3, <1>10, <1>11, <3>1, OneMore, ServingPids
    <2>3. ServesNow'
        <3>1. CASE after = "boot"
            <4>1. a + c + m >= w
                BY <1>8, <1>10, <1>14, <1>15, <3>1 DEF ServesNow, BootLeft
            <4>2. a1 + c + n >= w
                BY <2>1, <2>2, <4>1
            <4> QED
                BY <1>1, <1>9, <1>11, <1>14, <1>15, <3>1, <4>2 DEF ServesNow, BootLeft
        <3>2. CASE after # "boot"
            <4>1. a + c + 0 >= w
                BY <1>10, <1>14, <1>15, <3>2 DEF ServesNow, BootLeft
            <4>2. a1 + c + 0 >= w
                BY <1>17, <4>1
            <4> QED
                BY <1>1, <1>11, <1>14, <1>15, <3>2, <4>2 DEF ServesNow, BootLeft
        <3> QED
            BY <3>1, <3>2
    <2>4. ServesNext'
        <3> SUFFICES ASSUME Reloading
                     PROVE  b1 + n + c >= w
            BY <1>9, <1>13, <1>14, <1>15, <1>16 DEF ServesNext
        <3>1. b + m + c >= w
            BY <1>8, <1>12, <1>14, <1>15 DEF ServesNext
        <3>2. JustServing \cup {p} \subseteq JustServing'
            BY <1>4, <1>5, <1>18
        <3>3. b + 1 <= b1
            BY <1>6, <1>12, <1>13, <3>2, OneMore, ServingPids
        <3> QED
            BY <2>1, <3>1, <3>3
    <2> QED
        BY <2>3, <2>4
<1>19. CASE e.kind # "worker"
    <2>1. m = n
        BY <1>0, <1>1, <1>8, <1>9, <1>19, WorkersTail
    <2>2. BootLeft' = BootLeft /\ BootLeft \in Nat
        BY <1>1, <1>8, <1>9, <2>1 DEF BootLeft
    <2>3. ServesNow'
        BY <1>0, <1>1, <1>3, <2>2, ServeKept
    <2>4. ServesNext'
        <3> SUFFICES ASSUME Reloading
                     PROVE  b1 + n + c >= w
            BY <1>9, <1>13, <1>14, <1>15, <1>16 DEF ServesNext
        <3>1. b + m + c >= w
            BY <1>8, <1>12, <1>14, <1>15 DEF ServesNext
        <3> QED
            BY <1>17, <2>1, <3>1
    <2> QED
        BY <2>3, <2>4
<1> QED
    BY <1>18, <1>19

LEMMA ServeMaster ==
    ASSUME Cycle, ServeCount, Master
    PROVE  ServeCount'
<1>0. /\ WellTyped /\ SlotsRight /\ Plain /\ PointPlain /\ Undetached
      /\ TableType /\ gen \in Nat /\ i \in Nat /\ todo \in Seq(Spawn)
      /\ crashes \in Nat /\ failures \in Nat
    BY DEF Cycle, WellTyped, PointsType, CountsType, Plain
<1> SUFFICES ASSUME ~Excused'
             PROVE  ServesNow' /\ ServesNext'
    BY DEF ServeCount
<1>1. ServesNow /\ ServesNext
    BY <1>0, ExcusedStays DEF ServeCount
<1>2. failures = 0 /\ failures' = 0 /\ ~Refused
    <2>1. failures' = failures \/ failures' = failures + 1
        BY <1>0, FailuresGrow
    <2>2. ~(failures' > 0)
        BY DEF Excused
    <2> QED
        BY <1>0, <2>1, <2>2, RefusedFails
<1>3. ASSUME crashes' = crashes, Serving \subseteq Serving', after \notin {"boot"},
             after' \notin {"boot"}, ~Reloading'
      PROVE  ServesNow' /\ ServesNext'
    <2>1. BootLeft' = BootLeft /\ BootLeft \in Nat
        BY <1>3 DEF BootLeft
    <2> QED
        BY <1>0, <1>1, <1>3, <2>1, ServeKept DEF ServesNext
<1>4. CASE StartNext
    <2>1. PICK e \in Spawn :
              /\ e = Head(todo)
              /\ e.type \in {"JUST_SPAWN", "JUST_RESPAWN"} <=> after = "shutdown_old"
              /\ \E s \in Slots : Spawned(s, NewPid, e.kind, e.type)
        BY <1>0, <1>2, <1>4, StartEffect DEF Plain
    <2> QED
        BY <1>1, <1>4, <2>1, ServeStart
<1>5. CASE StartDone
    <2>1. /\ todo = <<>> /\ todo' = todo /\ mpc = "start" /\ UNCHANGED <<slots, last, child>>
          /\ after' = "top" /\ crashes' = crashes
          /\ Reloading' <=> after = "shutdown_old"
        BY <1>0, <1>5 DEF StartDone, table, counts, Reloading, PointPlain
    <2>2. BootLeft' = BootLeft /\ BootLeft \in Nat
        BY <2>1, WorkersEmpty DEF BootLeft
    <2>3. Serving' = Serving /\ JustServing' = JustServing
        BY <2>1 DEF Serving, JustServing, Used
    <2>4. ServesNow'
        BY <1>0, <1>1, <2>1, <2>2, <2>3, ServeKept
    <2>5. ServesNext'
        BY <1>1, <2>1, <2>3 DEF ServesNext, Reloading
    <2> QED
        BY <2>4, <2>5
<1>6. CASE Reconfigure
    <2>1. /\ mpc = "reconfigure" /\ after' = "shutdown_old" /\ todo' = StartJust
          /\ UNCHANGED <<slots, last, child>> /\ crashes' = crashes
        BY <1>6 DEF Reconfigure, table, counts
    <2>2. after = "top"
        BY <1>0, <2>1 DEF PointPlain
    <2>3. BootLeft' = BootLeft /\ BootLeft \in Nat
        BY <2>1, <2>2 DEF BootLeft
    <2>4. Serving' = Serving
        BY <2>1 DEF Serving
    <2>5. ServesNow'
        BY <1>0, <1>1, <2>1, <2>3, <2>4, ServeKept
    <2>6. Workers(todo') = WorkerProcesses
        BY <2>1, StartListFacts DEF StartJust
    <2>7. PICK b1 \in Nat : b1 = Cardinality(JustServing')
        BY ServingPids, PidsSubset
    <2>8. PICK w \in Nat : w = WorkerProcesses
        BY SizesAssumption
    <2>9. b1 + w + crashes >= w
        BY <1>0
    <2>10. ServesNext'
        BY <2>1, <2>6, <2>7, <2>8, <2>9 DEF ServesNext
    <2> QED
        BY <2>5, <2>10
<1>7. CASE ShutdownOld
    <2>1. /\ SignalWorkers("quit", flags) /\ mpc = "shutdown_old"
          /\ UNCHANGED <<last, todo, after, crashes>>
          /\ mpc' = NextSection(2, flags)
        BY <1>7 DEF ShutdownOld, loops, counts
    <2>2. Signalled("quit")
        BY <1>0, <2>1, SignalEffect DEF Orders
    <2>3. after = "top" /\ todo = <<>> /\ Reloading
        BY <1>0, <2>1 DEF PointPlain, Reloading
    <2>4. ~Reloading'
        BY <2>1, <2>3, NextSectionPoint DEF Reloading
    <2>5. JustServing \subseteq Serving'
        <3> SUFFICES ASSUME NEW p \in JustServing
                     PROVE  p \in Serving'
            OBVIOUS
        <3>1. PICK t \in Slots : Used(t) /\ slots[t].pid = p /\ slots[t].just_spawn
            BY DEF JustServing
        <3>2. p \in Serving /\ p \in Pids
            BY ServingPids
        <3>3. ASSUME NEW s \in Slots, Reached(s, "quit"), slots[s].pid = p
              PROVE  FALSE
            <4>1. Used(s) /\ ~slots[s].just_spawn
                BY <3>3 DEF Reached, Used
            <4>2. s = t
                BY <1>0, <3>1, <3>3, <4>1 DEF SlotsRight
            <4> QED
                BY <3>1, <4>1, <4>2
        <3>4. child'[p].asked = child[p].asked
            BY <2>2, <3>2, <3>3 DEF Signalled
        <3>5. child'[p].st = child[p].st /\ child'[p].kind = child[p].kind
            BY <2>2, <3>2 DEF Signalled
        <3> QED
            BY <3>2, <3>4, <3>5 DEF Serving
    <2>6. PICK b \in Nat : b = Cardinality(JustServing)
        BY ServingPids, PidsSubset
    <2>7. PICK a1 \in Nat : a1 = Cardinality(Serving')
        BY ServingPids, PidsSubset
    <2>8. b <= a1
        BY <2>5, <2>6, <2>7, MoreServe, ServingPids
    <2>9. PICK w \in Nat : w = WorkerProcesses
        BY SizesAssumption
    <2>10. b + 0 + crashes >= w
        BY <1>1, <2>3, <2>6, <2>9, WorkersEmpty DEF ServesNext
    <2>11. a1 + crashes + 0 >= w
        BY <1>0, <2>8, <2>10
    <2>12. ServesNow'
        BY <2>1, <2>3, <2>7, <2>9, <2>11 DEF ServesNow, BootLeft
    <2> QED
        BY <2>4, <2>12 DEF ServesNext
<1>8. CASE Reopen
    <2>1. /\ SignalWorkers("reopen", flags \ {"reopen"}) /\ mpc = "reopen"
          /\ UNCHANGED <<after, crashes>> /\ mpc' = NextSection(4, flags)
        BY <1>8 DEF Reopen, loops, counts
    <2>2. Signalled("reopen")
        BY <1>0, <2>1, SignalEffect DEF Orders
    <2>3. after = "top" /\ ~Reloading'
        BY <1>0, <2>1, NextSectionPoint DEF PointPlain, Reloading
    <2>4. Serving \subseteq Serving'
        <3> SUFFICES ASSUME NEW p \in Serving
                     PROVE  p \in Serving'
            OBVIOUS
        <3>1. p \in Pids
            BY ServingPids
        <3>2. /\ child'[p].st = child[p].st /\ child'[p].kind = child[p].kind
              /\ \/ child'[p].asked = child[p].asked
                 \/ child'[p].asked = child[p].asked \cup {"reopen"}
            BY <2>2, <3>1 DEF Signalled
        <3> QED
            BY <3>1, <3>2 DEF Serving
    <2> QED
        BY <1>3, <2>1, <2>3, <2>4
<1>9. CASE Terminate \/ Quit \/ NoAccept \/ MasterExit
    <2>1. \/ mpc' = "exited"
          \/ \E f \in StopFlags : f \in flags'
        BY <1>9 DEF Terminate, Quit, NoAccept, MasterExit, SignalWorkers, StopFlags
    <2> QED
        BY <2>1 DEF Excused
<1>10. CASE Suspend
    <2>1. PICK Z \in SUBSET Zombies : GetStatus(Z)
        BY <1>10 DEF Suspend
    <2>2. Reported(Z) /\ mpc = "suspend" /\ mpc' = "reap" /\ UNCHANGED <<after, crashes>>
        BY <1>0, <1>10, <2>1, ReportEffect DEF Suspend, loops, counts
    <2>3. after = "top" /\ ~Reloading'
        BY <1>0, <2>2 DEF PointPlain, Reloading
    <2>4. \A p \in Serving : p \notin Z
        BY <2>1 DEF Serving, Zombies
    <2>5. Serving \subseteq Serving'
        BY <2>2, <2>4 DEF Reported, Serving
    <2> QED
        BY <1>3, <2>2, <2>3, <2>5
<1>11. CASE ReapRespawn \/ ReapFree
    <2>1. /\ mpc = "reaping" /\ mpc' = "reaping" /\ i < last
          /\ UNCHANGED <<after, crashes>>
        BY <1>11 DEF ReapRespawn, ReapFree, counts
    <2>2. after = "top" /\ ~Reloading'
        BY <1>0, <2>1 DEF PointPlain, Reloading
    <2>3. CASE ReapRespawn
        <3>1. Respawned(i, NewPid)
            BY <1>0, <1>2, <2>3, RespawnEffect
        <3>2. Forked(NewPid, slots[i].kind)
            BY <3>1 DEF Respawned
        <3>3. Serving \subseteq Serving'
            BY <1>0, <3>2, ForkServes
        <3> QED
            BY <1>3, <2>1, <2>2, <3>3
    <2>4. CASE ReapFree
        <3>1. child' = child
            BY <1>0, <2>4, FreeEffect DEF Freed
        <3>2. Serving \subseteq Serving'
            BY <3>1 DEF Serving
        <3> QED
            BY <1>3, <2>1, <2>2, <3>2
    <2> QED
        BY <1>11, <2>3, <2>4
<1>12. CASE CycleTop \/ ReapStart \/ ReapKeep \/ ReapDone \/ Proceed
    <2>1. /\ mpc \notin {"start", "shutdown_old"} /\ UNCHANGED <<after, crashes>>
        BY <1>12 DEF CycleTop, ReapStart, ReapKeep, ReapDone, Proceed, loops, counts
    <2>2. mpc' # "shutdown_old"
        <3>1. CASE Proceed
            BY <3>1, NextSectionPoint DEF Proceed
        <3>2. CASE CycleTop \/ ReapStart \/ ReapKeep \/ ReapDone
            BY <3>2 DEF CycleTop, ReapStart, ReapKeep, ReapDone
        <3> QED
            BY <1>12, <3>1, <3>2
    <2>3. after = "top" /\ ~Reloading'
        BY <1>0, <2>1, <2>2 DEF PointPlain, Reloading
    <2>4. child' = child
        BY <1>12, QuietEffect DEF QuietMaster
    <2>5. Serving \subseteq Serving'
        BY <2>4 DEF Serving
    <2> QED
        BY <1>3, <2>1, <2>3, <2>5
<1>13. CASE ReconfigureFails
    BY <1>0, <1>2, <1>13 DEF ReconfigureFails
<1>14. CASE ReconfigureNewBinary \/ Restart \/ ChangeBinary
    BY <1>0, <1>14 DEF ReconfigureNewBinary, Restart, ChangeBinary, Plain, FlagsPlain,
                       PointPlain
<1> QED
    BY <1>4, <1>5, <1>6, <1>7, <1>8, <1>9, <1>10, <1>11, <1>12, <1>13, <1>14 DEF Master

-----------------------------------------------------------------------------
(***************************************************************************)
(* The whole invariant of a master that is not asked to upgrade.           *)
(***************************************************************************)
Counted == Cycle /\ Reaped /\ StayCount /\ ServeCount

LEMMA CountedInductive ==
    ASSUME NoUpgrade, Counted, [Next]_vars
    PROVE  Counted'
<1>0. Cycle /\ Reaped /\ StayCount /\ ServeCount /\ WellTyped /\ TableType
    BY DEF Counted, Cycle, WellTyped
<1>1. Cycle'
    BY <1>0, CycleInductive
<1>2. CASE Master
    BY <1>0, <1>1, <1>2, ReapedMaster, StayMaster, ServeMaster DEF Counted
<1>3. ASSUME UNCHANGED <<slots, last, flags, mpc, i, todo, after>>, failures' = failures
      PROVE  Reaped' /\ StayCount'
    <2>1. \A s \in Slots : (Used(s)' <=> Used(s)) /\ (Reaping(s)' <=> Reaping(s))
        BY <1>3 DEF Used, Reaping
    <2>2. Stay' = Stay
        BY <1>3 DEF Stay, Used, Reloading
    <2>3. Reaped'
        BY <1>0, <1>3, <2>1 DEF Reaped
    <2>4. StayCount'
        BY <1>0, <1>3, <2>2 DEF StayCount
    <2> QED
        BY <2>3, <2>4
<1>4. ASSUME NEW p \in Pids, ChildStep(p)
      PROVE  Counted'
    <2>1. ChildDoes(p) /\ UNCHANGED masterVars
        BY <1>0, <1>4, ChildEffect
    <2>2. Reaped' /\ StayCount'
        BY <1>3, <2>1 DEF ChildDoes, masterVars
    <2>3. ServeCount'
        BY <1>0, <2>1, ServeChild
    <2> QED
        BY <1>1, <2>2, <2>3 DEF Counted
<1>5. CASE Alarm \/ (\E signal \in Commands : Command(signal)) \/ UNCHANGED vars
    <2>1. UNCHANGED <<slots, last, flags, mpc, i, todo, after, child, crashes, failures>>
        BY <1>5 DEF Alarm, Command, vars, table, masterVars, loops, counts
    <2>2. Reaped' /\ StayCount'
        BY <1>3, <2>1
    <2>3. /\ Serving' = Serving /\ JustServing' = JustServing /\ BootLeft' = BootLeft
          /\ Excused' <=> Excused
        BY <2>1 DEF Serving, JustServing, Used, BootLeft, Excused
    <2>4. ServesNow' <=> ServesNow
        BY <2>1, <2>3 DEF ServesNow
    <2>5. ServesNext' <=> ServesNext
        BY <2>1, <2>3 DEF ServesNext, Reloading
    <2> QED
        BY <1>0, <1>1, <2>2, <2>3, <2>4, <2>5 DEF Counted, ServeCount
<1> QED
    BY <1>2, <1>4, <1>5 DEF Next, ChildStep

LEMMA InitCounted ==
    ASSUME Init
    PROVE  Counted
<1>1. Cycle
    BY InitCycle
<1>2. \A s \in Slots : ~Used(s)
    BY SlotsFacts DEF Init, Used
<1>3. /\ todo = StartFresh /\ after = "boot" /\ mpc = "start" /\ crashes = 0
    BY DEF Init
<1>4. Workers(todo) = WorkerProcesses
    BY <1>3, StartListFacts DEF StartFresh
<1>5. PICK w \in Nat : w = WorkerProcesses
    BY SizesAssumption
<1>6. Stay = {}
    BY <1>2 DEF Stay
<1>7. Cardinality(Stay) = 0
    BY <1>6, FS_EmptySet
<1>8. StayCount
    BY <1>4, <1>5, <1>7 DEF StayCount
<1>9. PICK a \in Nat : a = Cardinality(Serving)
    BY ServingPids, PidsSubset
<1>10. a + 0 + w >= w
    BY <1>5, <1>9
<1>11. ServesNow /\ ServesNext
    BY <1>3, <1>4, <1>5, <1>9, <1>10 DEF ServesNow, ServesNext, BootLeft, Reloading
<1> QED
    BY <1>1, <1>2, <1>8, <1>11 DEF Counted, Reaped, ServeCount

(* A master that is not asked to upgrade keeps the whole invariant. *)
THEOREM CountedInvariant ==
    ASSUME NoUpgrade
    PROVE  Spec => []Counted
<1>1. Init => Counted
    BY InitCounted
<1>2. Counted /\ [Next]_vars => Counted'
    BY CountedInductive
<1> QED
    BY <1>1, <1>2, PTL DEF Spec

(***************************************************************************)
(* However reloads, crashes, respawns and the reuse of slots interleave,   *)
(* a master whose fork() calls succeed never keeps more workers than       *)
(* worker_processes: each reload tells exactly the older ones to quit, and *)
(* no slot that was told to leave is counted in again.                     *)
(***************************************************************************)
THEOREM WorkersLimited ==
    ASSUME NoUpgrade
    PROVE  Spec => []NoExtraWorkers
<1>1. Counted => NoExtraWorkers
    <2> SUFFICES ASSUME Counted, mpc = "suspend", failures = 0
                 PROVE  Cardinality(Staying) <= WorkerProcesses
        BY DEF NoExtraWorkers
    <2>1. ~Reloading
        BY DEF Counted, Cycle, Plain, PointPlain, Reloading
    <2>2. Staying = Stay
        BY <2>1 DEF Staying, Stay, Used
    <2>3. PICK a \in Nat : a = Cardinality(Stay)
        BY StayFinite
    <2>4. PICK m \in Nat : m = Workers(todo)
        BY WorkersType DEF Counted, Cycle, WellTyped, PointsType
    <2>5. PICK w \in Nat : w = WorkerProcesses
        BY SizesAssumption
    <2>6. a + m <= w
        BY <2>3, <2>4, <2>5 DEF Counted, StayCount
    <2>7. a <= w
        BY <2>6
    <2> QED
        BY <2>2, <2>3, <2>5, <2>7
<1> QED
    BY <1>1, CountedInvariant, PTL

(***************************************************************************)
(* A reload hands over without a gap: until the new workers run, the old   *)
(* ones have not been told to quit, and when they are, the order does not  *)
(* reach the new ones.  Only commands to stop, or as many crashes as there *)
(* are workers, leave the service without one.                             *)
(***************************************************************************)
THEOREM ServiceKept ==
    ASSUME NoUpgrade
    PROVE  Spec => []AlwaysServing
<1>1. Counted => AlwaysServing
    <2> SUFFICES ASSUME Counted, Serving = {}, after # "boot", ~Excused
                 PROVE  crashes >= WorkerProcesses
        BY DEF AlwaysServing, Excused, StopFlags
    <2>1. Cardinality(Serving) = 0
        BY FS_EmptySet
    <2>2. ServesNow
        BY DEF Counted, ServeCount
    <2>3. PICK c \in Nat : c = crashes
        BY DEF Counted, Cycle, WellTyped, CountsType
    <2>4. PICK w \in Nat : w = WorkerProcesses
        BY SizesAssumption
    <2>5. 0 + c + 0 >= w
        BY <2>1, <2>2, <2>3, <2>4 DEF ServesNow, BootLeft
    <2> QED
        BY <2>3, <2>4, <2>5
<1> QED
    BY <1>1, CountedInvariant, PTL

(***************************************************************************)
(* Without an upgrade every SIGHUP that is taken up loads a configuration  *)
(* or fails to.  (After an upgrade that failed it need not: the run        *)
(* master_failed_upgrade.)                                                 *)
(***************************************************************************)
THEOREM ReloadsLoad ==
    ASSUME NoUpgrade
    PROVE  Spec => ReloadLoads
<1> DEFINE Taken ==
        ("reconfigure" \in flags /\ "reconfigure" \notin flags'
           /\ failures' = failures /\ \A p \in Children : child[p].kind # "binary")
          => gen' = gen + 1
<1>1. Cycle /\ [Next]_vars => [Taken]_vars
    <2> SUFFICES ASSUME Cycle, Next, "reconfigure" \in flags,
                        "reconfigure" \notin flags', failures' = failures
                 PROVE  gen' = gen + 1
        OBVIOUS
    <2>0. TableType /\ failures \in Nat /\ WellTyped /\ FlagsPlain /\ PointPlain
              /\ SlotsRight /\ i \in Nat
        BY DEF Cycle, WellTyped, CountsType, Plain, PointsType
    <2>1. CASE Reconfigure
        BY <2>1 DEF Reconfigure
    <2>2. CASE ReconfigureFails
        BY <2>0, <2>2 DEF ReconfigureFails
    <2>3. CASE Terminate \/ Quit \/ ShutdownOld \/ Reopen \/ NoAccept
        BY <2>3 DEF Terminate, Quit, ShutdownOld, Reopen, NoAccept, SignalWorkers
    <2>4. CASE StartNext \/ StartDone \/ CycleTop \/ ReapStart \/ ReapKeep \/ ReapRespawn
                 \/ ReapDone \/ MasterExit \/ Proceed \/ Suspend
        BY <2>4 DEF StartNext, StartDone, CycleTop, ReapStart, ReapKeep, ReapRespawn,
                    ReapDone, MasterExit, Proceed, Suspend
    <2>5. CASE ReapFree
        BY <2>5 DEF ReapFree
    <2>6. CASE ReconfigureNewBinary \/ Restart \/ ChangeBinary
        BY <2>0, <2>6 DEF ReconfigureNewBinary, Restart, ChangeBinary, FlagsPlain,
                          PointPlain
    <2>7. ASSUME NEW p \in Pids, ChildStep(p)
          PROVE  FALSE
        BY <2>0, <2>7, ChildEffect DEF masterVars
    <2>8. CASE Alarm \/ \E signal \in Commands : Command(signal)
        BY <2>8 DEF Alarm, Command, masterVars
    <2> QED
        BY <2>1, <2>2, <2>3, <2>4, <2>5, <2>6, <2>7, <2>8 DEF Next, Master, ChildStep
<1> QED
    BY <1>1, CycleInvariant, PTL DEF Spec, ReloadLoads
=============================================================================
