---------------------------- MODULE MasterCycle ----------------------------
(***************************************************************************)
(* The master process of nginx and its children (os/unix/ngx_process.c and *)
(* ngx_process_cycle.c): the process table, the signal handler, the master *)
(* cycle that reaps, respawns, reloads, upgrades and shuts down, and what  *)
(* the children do about the commands they get.                            *)
(*                                                                         *)
(* All signals are blocked in the master except inside sigsuspend(), so    *)
(* its flags change only there.  The loops of the cycle take one step per  *)
(* process-table slot or per fork(); children run in between.              *)
(*                                                                         *)
(* A command reaches a child through its channel or, when that fails, as a *)
(* signal; both set the same flag in the child, so the model keeps the set *)
(* of commands on their way ("asked").  The open-channel and close-channel *)
(* messages, which only update a child's copy of the table, are left out.  *)
(* Process ids are not reused.                                             *)
(***************************************************************************)
EXTENDS Integers, Sequences, FiniteSets

CONSTANTS
    WorkerProcesses,    \* worker_processes
    CachePaths,         \* what the cache paths ask for: "manager", "loader"
    MaxProcesses,       \* NGX_MAX_PROCESSES
    MaxPid,             \* bound on fork(): pids are 1 .. MaxPid
    Commands,           \* signals the operator or the kernel may send
    MaxCommands,        \* bound on them
    MaxCrashes,         \* bound on children that die without being asked
    MaxFailures         \* bound on failed fork(), reload and exec attempts;
                        \* a full table or no pid left fails regardless

AllCommands == {"quit", "terminate", "noaccept", "reconfigure", "reopen",
                "change_binary", "io"}

ASSUME SizesAssumption ==
    /\ WorkerProcesses \in Nat \ {0}
    /\ MaxProcesses \in Nat \ {0}
    /\ MaxPid \in Nat \ {0}
ASSUME BoundsAssumption ==
    /\ MaxCommands \in Nat /\ MaxCrashes \in Nat /\ MaxFailures \in Nat
ASSUME SetsAssumption ==
    /\ CachePaths \subseteq {"manager", "loader"}
    /\ Commands \subseteq AllCommands

Pids == 1 .. MaxPid
Slots == 0 .. MaxProcesses - 1
Invalid == -1           \* NGX_INVALID_PID, and the pid of a free slot

VARIABLES
    slots,      \* ngx_processes[]
    last,       \* ngx_last_process
    flags,      \* the ngx_reap, ngx_quit, ... that are set
    live,       \* local variable of the cycle
    delay,      \* local variable of the cycle, milliseconds
    sigio,      \* local variable of the cycle
    new_binary, \* ngx_new_binary: 0, Invalid or a pid
    pidfile,    \* where the master's pid file is: "pid", "oldbin", "none"
    listening,  \* the master has its listening sockets open
    gen,        \* number of configurations loaded so far
    mpc,        \* control point of the master
    i,          \* index of the loop of ngx_reap_children()
    todo,       \* processes that the start functions have still to spawn
    after,      \* where the master goes when they are spawned
    timer,      \* setitimer() armed
    pend,       \* signals pending for the master
    child,      \* the child processes
    commands, crashes, failures   \* events so far, for the bounds

table == <<slots, last>>
locals == <<live, delay, sigio>>
files == <<pidfile, listening>>
loops == <<i, todo, after>>
counts == <<commands, crashes, failures>>
vars == <<slots, last, flags, live, delay, sigio, new_binary, pidfile,
          listening, gen, mpc, i, todo, after, timer, pend, child, commands,
          crashes, failures>>

Flags == {"reap", "sigalrm", "terminate", "quit", "reconfigure", "restart",
          "reopen", "change_binary", "noaccept", "noaccepting"}
Kinds == {"worker", "manager", "loader", "binary"}
Types == {"NORESPAWN", "JUST_SPAWN", "RESPAWN", "JUST_RESPAWN", "DETACHED"}
Orders == {"quit", "terminate", "reopen", "kill"}
Alive == {"running", "exiting"}

Slot == [pid : Pids \cup {0, Invalid}, kind : Kinds, respawn : BOOLEAN,
         just_spawn : BOOLEAN, detached : BOOLEAN, exiting : BOOLEAN,
         exited : BOOLEAN, channel : {"none", "open", "stale"}]
Child == [st : {"unused", "zombie", "gone"} \cup Alive, kind : Kinds,
          gen : Nat, asked : SUBSET Orders, fatal : BOOLEAN]
Spawn == [kind : Kinds, type : Types]

-----------------------------------------------------------------------------
(* ngx_start_worker_processes() and ngx_start_cache_manager_processes(): a *)
(* manager is started if some path has one, a loader only beside a manager.*)

Repeat(n, x) == [k \in 1 .. n |-> x]
StartList(workers, manager, loader) ==
    Repeat(WorkerProcesses, [kind |-> "worker", type |-> workers])
      \o (IF "manager" \in CachePaths
          THEN <<[kind |-> "manager", type |-> manager]>> ELSE <<>>)
      \o (IF CachePaths = {"manager", "loader"}
          THEN <<[kind |-> "loader", type |-> loader]>> ELSE <<>>)

StartFresh == StartList("RESPAWN", "RESPAWN", "NORESPAWN")
StartJust == StartList("JUST_RESPAWN", "JUST_RESPAWN", "JUST_SPAWN")

Init ==
    /\ slots = [s \in Slots |->
                  [pid |-> 0, kind |-> "worker", respawn |-> FALSE,
                   just_spawn |-> FALSE, detached |-> FALSE, exiting |-> FALSE,
                   exited |-> FALSE, channel |-> "none"]]
    /\ last = 0
    /\ flags = {}
    /\ live = TRUE /\ delay = 0 /\ sigio = 0
    /\ new_binary = 0
    /\ pidfile = "pid" /\ listening = TRUE
    /\ gen = 0
    /\ mpc = "start" /\ i = 0 /\ todo = StartFresh /\ after = "boot"
    /\ timer = FALSE /\ pend = {}
    /\ child = [p \in Pids |-> [st |-> "unused", kind |-> "worker", gen |-> 0,
                                asked |-> {}, fatal |-> FALSE]]
    /\ commands = 0 /\ crashes = 0 /\ failures = 0

-----------------------------------------------------------------------------
(* ngx_spawn_process() *)

Unused == {p \in Pids : child[p].st = "unused"}
NewPid == CHOOSE p \in Unused : \A q \in Unused : p <= q

(* fork() gives a new child running the current configuration. *)
Fork(kind) ==
    /\ Unused # {}
    /\ child' = [child EXCEPT ![NewPid] =
                   [st |-> "running", kind |-> kind, gen |-> gen,
                    asked |-> {}, fatal |-> FALSE]]

(* socketpair(), a call that sets up the channel, or fork() itself fails.  *)
(* Only the first leaves the table alone; the others close the descriptors *)
(* and keep their numbers.                                                 *)
SpawnFails ==
    /\ failures < MaxFailures \/ Unused = {}
    /\ failures' = failures + 1
    /\ UNCHANGED child
FailedChannel(s, detached) ==
    IF detached THEN {"none"} ELSE {slots[s].channel, "stale"}

FreeSlot ==
    LET free == {s \in 0 .. last - 1 : slots[s].pid = Invalid}
    IN  IF free = {} THEN last ELSE CHOOSE s \in free : \A t \in free : s <= t

TableFull(s) == s = MaxProcesses

(* A process of a new slot: the slot below last that is free, or last. *)
SpawnNew(kind, type) ==
    LET s == FreeSlot IN
    \/ /\ TableFull(s)
       /\ failures' = failures + 1
       /\ UNCHANGED <<slots, last, child>>
    \/ /\ ~TableFull(s)
       /\ Fork(kind)
       /\ slots' = [slots EXCEPT ![s] =
            [pid |-> NewPid, kind |-> kind,
             respawn |-> type \in {"RESPAWN", "JUST_RESPAWN"},
             just_spawn |-> type \in {"JUST_SPAWN", "JUST_RESPAWN"},
             detached |-> type = "DETACHED",
             exiting |-> FALSE, exited |-> FALSE,
             channel |-> IF type = "DETACHED" THEN "none" ELSE "open"]]
       /\ last' = IF s = last THEN last + 1 ELSE last
       /\ UNCHANGED failures
    \/ /\ ~TableFull(s)
       /\ SpawnFails
       /\ \E c \in FailedChannel(s, type = "DETACHED") :
             slots' = [slots EXCEPT ![s].channel = c]
       /\ UNCHANGED last

(* One turn of the loops of the start functions; a failure is ignored. *)
StartNext ==
    /\ mpc = "start" /\ todo # <<>>
    /\ SpawnNew(Head(todo).kind, Head(todo).type)
    /\ todo' = Tail(todo)
    /\ UNCHANGED <<flags, locals, new_binary, files, gen, mpc, i, after, timer,
                   pend, commands, crashes>>

StartDone ==
    /\ mpc = "start" /\ todo = <<>>
    /\ mpc' = IF after = "boot" THEN "top" ELSE after
    /\ after' = "top"
    /\ UNCHANGED <<table, flags, locals, new_binary, files, gen, i, todo, timer,
                   pend, child, counts>>

-----------------------------------------------------------------------------
(* ngx_signal_worker_processes(): the flags of slot s afterwards, whether  *)
(* its child gets the order, and whether kill() found no such process.     *)

Reached(s, order) ==
    /\ s < last
    /\ ~slots[s].detached /\ slots[s].pid # Invalid
    /\ ~slots[s].just_spawn
    /\ ~(slots[s].exiting /\ order = "quit")
NoSuchProcess(s) == child[slots[s].pid].st = "gone"

(* Variant: just_spawn is never cleared. *)
KeepsJustSpawn(s, order) ==
    IF ~Reached(s, order) THEN slots[s]
    ELSE IF NoSuchProcess(s)
    THEN [slots[s] EXCEPT !.exited = TRUE, !.exiting = FALSE]
    ELSE [slots[s] EXCEPT !.exiting = @ \/ order # "reopen"]

SlotAfterSignal(s, order) ==
    IF s < last /\ ~slots[s].detached /\ slots[s].pid # Invalid
         /\ slots[s].just_spawn
    THEN [slots[s] EXCEPT !.just_spawn = FALSE]
    ELSE IF ~Reached(s, order) THEN slots[s]
    ELSE IF NoSuchProcess(s)
    THEN [slots[s] EXCEPT !.exited = TRUE, !.exiting = FALSE]
    ELSE [slots[s] EXCEPT !.exiting = @ \/ order # "reopen"]

SignalWorkers(order, base) ==
    /\ slots' = [s \in Slots |-> SlotAfterSignal(s, order)]
    /\ child' = [p \in Pids |->
         IF /\ child[p].st \in Alive
            /\ \E s \in Slots : Reached(s, order) /\ slots[s].pid = p
         THEN [child[p] EXCEPT !.asked = @ \cup {order}]
         ELSE child[p]]
    /\ flags' = IF \E s \in Slots : Reached(s, order) /\ NoSuchProcess(s)
                THEN base \cup {"reap"} ELSE base

-----------------------------------------------------------------------------
(* The top of the cycle, sigsuspend() and ngx_signal_handler() *)

(* Variant: the delay does not grow. *)
CycleTopSameDelay ==
    /\ mpc = "top"
    /\ IF delay > 0 /\ "sigalrm" \in flags
       THEN sigio' = 0 /\ flags' = flags \ {"sigalrm"}
       ELSE UNCHANGED <<sigio, flags>>
    /\ timer' = (timer \/ delay > 0)
    /\ mpc' = "suspend"
    /\ UNCHANGED <<table, live, delay, new_binary, files, gen, loops, pend, child,
                   counts>>

(* Once delay is above 1000 its exact value matters no more. *)
CycleTop ==
    /\ mpc = "top"
    /\ IF delay > 0 /\ "sigalrm" \in flags
       THEN /\ sigio' = 0
            /\ delay' = IF delay > 1000 THEN delay ELSE 2 * delay
            /\ flags' = flags \ {"sigalrm"}
       ELSE UNCHANGED <<sigio, delay, flags>>
    /\ timer' = (timer \/ delay > 0)
    /\ mpc' = "suspend"
    /\ UNCHANGED <<table, live, new_binary, files, gen, loops, pend, child,
                   counts>>

HandlerFlags(signal) ==
    CASE signal = "chld" -> {"reap"}
      [] signal = "alrm" -> {"sigalrm"}
      [] signal = "io" -> {}
      [] signal = "change_binary" -> IF new_binary > 0 THEN {} ELSE {signal}
      [] OTHER -> {signal}

(* ngx_process_get_status(): one SIGCHLD collects every exited child. *)
Zombies == {p \in Pids : child[p].st = "zombie"}
(* Variant: every exit code is taken for a fatal one. *)
GetStatusAllFatal(collected) ==
    /\ slots' = [s \in Slots |->
         IF s < last /\ slots[s].pid \in collected
         THEN [slots[s] EXCEPT !.exited = TRUE, !.respawn = FALSE] ELSE slots[s]]
    /\ child' = [p \in Pids |->
         IF p \in collected THEN [child[p] EXCEPT !.st = "gone", !.asked = {}]
         ELSE child[p]]
GetStatus(collected) ==
    /\ slots' = [s \in Slots |->
         IF s < last /\ slots[s].pid \in collected
         THEN [slots[s] EXCEPT !.exited = TRUE,
                               !.respawn = @ /\ ~child[slots[s].pid].fatal]
         ELSE slots[s]]
    /\ child' = [p \in Pids |->
         IF p \in collected THEN [child[p] EXCEPT !.st = "gone", !.asked = {}]
         ELSE child[p]]

(* sigsuspend() returns when the handlers of all pending signals have run. *)
Suspend ==
    /\ mpc = "suspend"
    /\ pend # {}
    /\ pend' = {}
    /\ flags' = flags \cup UNION {HandlerFlags(signal) : signal \in pend}
    /\ GetStatus(IF "chld" \in pend THEN Zombies ELSE {})
    /\ mpc' = "reap"
    /\ UNCHANGED <<last, locals, new_binary, files, gen, loops, timer, counts>>

-----------------------------------------------------------------------------
(* ngx_reap_children() *)

ReapStart ==
    /\ mpc = "reap"
    /\ IF "reap" \in flags
       THEN /\ flags' = flags \ {"reap"}
            /\ live' = FALSE
            /\ mpc' = "reaping"
       ELSE /\ mpc' = "dispatch"
            /\ UNCHANGED <<flags, live>>
    /\ i' = 0
    /\ UNCHANGED <<table, delay, sigio, new_binary, files, gen, todo, after,
                   timer, pend, child, counts>>

(* Variants: a process that is leaving does not count as live; a free slot *)
(* does.                                                                   *)
ReapKeepNotLeaving ==
    /\ mpc = "reaping" /\ i < last
    /\ slots[i].pid = Invalid \/ ~slots[i].exited
    /\ live' = \/ live
               \/ /\ slots[i].pid # Invalid
                  /\ ~slots[i].exiting /\ ~slots[i].detached
    /\ i' = i + 1
    /\ UNCHANGED <<table, flags, delay, sigio, new_binary, files, gen, mpc, todo,
                   after, timer, pend, child, counts>>
ReapKeepFree ==
    /\ mpc = "reaping" /\ i < last
    /\ slots[i].pid = Invalid \/ ~slots[i].exited
    /\ live' = (live \/ slots[i].exiting \/ ~slots[i].detached)
    /\ i' = i + 1
    /\ UNCHANGED <<table, flags, delay, sigio, new_binary, files, gen, mpc, todo,
                   after, timer, pend, child, counts>>

(* A slot whose process has not exited, or that is free. *)
ReapKeep ==
    /\ mpc = "reaping" /\ i < last
    /\ slots[i].pid = Invalid \/ ~slots[i].exited
    /\ live' = \/ live
               \/ /\ slots[i].pid # Invalid
                  /\ slots[i].exiting \/ ~slots[i].detached
    /\ i' = i + 1
    /\ UNCHANGED <<table, flags, delay, sigio, new_binary, files, gen, mpc, todo,
                   after, timer, pend, child, counts>>

MayRespawn(s) ==
    /\ slots[s].respawn /\ ~slots[s].exiting
    /\ flags \cap {"terminate", "quit"} = {}

(* The exited process is started again in its slot. *)
ReapRespawn ==
    /\ mpc = "reaping" /\ i < last
    /\ slots[i].pid # Invalid /\ slots[i].exited
    /\ MayRespawn(i)
    /\ \/ /\ Fork(slots[i].kind)
          /\ slots' = [slots EXCEPT ![i].pid = NewPid, ![i].exited = FALSE,
                                    ![i].channel = "open"]
          /\ live' = TRUE
          /\ UNCHANGED failures
       \/ /\ SpawnFails
          /\ \E c \in {"none", "stale"} : slots' = [slots EXCEPT ![i].channel = c]
          /\ UNCHANGED live
    /\ i' = i + 1
    /\ UNCHANGED <<last, flags, delay, sigio, new_binary, files, gen, mpc, todo,
                   after, timer, pend, commands, crashes>>

(* Variant: the table shrinks whichever slot is freed. *)
ReapFreeShrinks ==
    /\ mpc = "reaping" /\ i < last
    /\ slots[i].pid # Invalid /\ slots[i].exited
    /\ ~MayRespawn(i)
    /\ slots' = [slots EXCEPT ![i].channel = "none", ![i].pid = Invalid]
    /\ last' = last - 1
    /\ i' = i + 1
    /\ UNCHANGED <<flags, locals, new_binary, files, gen, mpc, todo, after, timer,
                   pend, child, counts>>

(* The exited process leaves the table; if it was the new binary, the pid  *)
(* file is renamed back and stopped workers are to be started again.       *)
ReapFree ==
    /\ mpc = "reaping" /\ i < last
    /\ slots[i].pid # Invalid /\ slots[i].exited
    /\ ~MayRespawn(i)
    /\ IF slots[i].pid = new_binary
       THEN /\ new_binary' = 0
            /\ pidfile' = "pid"
            /\ flags' = IF "noaccepting" \in flags
                        THEN (flags \ {"noaccepting"}) \cup {"restart"}
                        ELSE flags
       ELSE UNCHANGED <<new_binary, pidfile, flags>>
    /\ slots' = [slots EXCEPT
         ![i].channel = IF slots[i].detached THEN @ ELSE "none",
         ![i].pid = IF i = last - 1 THEN @ ELSE Invalid]
    /\ last' = IF i = last - 1 THEN last - 1 ELSE last
    /\ i' = i + 1
    /\ UNCHANGED <<locals, listening, gen, mpc, todo, after, timer, pend, child,
                   counts>>

ReapDone ==
    /\ mpc = "reaping" /\ i >= last
    /\ mpc' = "dispatch"
    /\ UNCHANGED <<table, flags, locals, new_binary, files, gen, loops, timer,
                   pend, child, counts>>

-----------------------------------------------------------------------------
(* The rest of ngx_master_process_cycle() *)

(* The next of the last five sections of the cycle that has work to do. *)
Sections == <<"reconfigure", "restart", "reopen", "change_binary", "noaccept">>
NextSection(n, fl) ==
    LET due == {k \in n .. Len(Sections) : Sections[k] \in fl}
    IN  IF due = {} THEN "top" ELSE Sections[CHOOSE k \in due : \A l \in due : k <= l]

ShuttingDown == flags \cap {"terminate", "quit"} # {}

(* ngx_master_process_exit(); ngx_delete_pidfile() picks the name. *)
MasterExit ==
    /\ mpc = "dispatch"
    /\ ~live /\ ShuttingDown
    /\ pidfile' = IF pidfile = (IF new_binary # 0 THEN "oldbin" ELSE "pid")
                  THEN "none" ELSE pidfile
    /\ listening' = FALSE
    /\ mpc' = "exited"
    /\ UNCHANGED <<table, flags, locals, new_binary, gen, loops, timer, pend,
                   child, counts>>

Terminate ==
    /\ mpc = "dispatch" /\ live
    /\ "terminate" \in flags
    /\ delay' = IF delay = 0 THEN 50 ELSE delay
    /\ IF sigio > 0
       THEN /\ sigio' = sigio - 1
            /\ UNCHANGED <<slots, child, flags>>
       ELSE /\ sigio' = WorkerProcesses + 2
            /\ SignalWorkers(IF delay' > 1000 THEN "kill" ELSE "terminate", flags)
    /\ mpc' = "top"
    /\ UNCHANGED <<last, live, new_binary, files, gen, loops, timer, pend, counts>>

Quit ==
    /\ mpc = "dispatch" /\ live
    /\ "terminate" \notin flags /\ "quit" \in flags
    /\ SignalWorkers("quit", flags)
    /\ listening' = FALSE
    /\ mpc' = "top"
    /\ UNCHANGED <<last, locals, new_binary, pidfile, gen, loops, timer, pend,
                   counts>>

Proceed ==
    /\ mpc = "dispatch"
    /\ ~ShuttingDown
    /\ mpc' = NextSection(1, flags)
    /\ UNCHANGED <<table, flags, locals, new_binary, files, gen, loops, timer,
                   pend, child, counts>>

(* SIGHUP with a new binary, or what is left of a failed attempt to start  *)
(* one, only starts workers.                                               *)
ReconfigureNewBinary ==
    /\ mpc = "reconfigure"
    /\ new_binary # 0
    /\ flags' = flags \ {"reconfigure", "noaccepting"}
    /\ mpc' = "start" /\ todo' = StartFresh /\ after' = "top"
    /\ UNCHANGED <<table, locals, new_binary, files, gen, i, timer, pend, child,
                   counts>>

(* ngx_init_cycle() rejects the configuration: the old one stays. *)
ReconfigureFails ==
    /\ mpc = "reconfigure"
    /\ new_binary = 0
    /\ failures < MaxFailures
    /\ failures' = failures + 1
    /\ flags' = flags \ {"reconfigure"}
    /\ mpc' = "top"
    /\ UNCHANGED <<table, locals, new_binary, files, gen, loops, timer, pend,
                   child, commands, crashes>>

(* Variant: the new workers are not marked as just spawned. *)
ReconfigureFresh ==
    /\ mpc = "reconfigure"
    /\ new_binary = 0
    /\ flags' = flags \ {"reconfigure"}
    /\ gen' = gen + 1
    /\ mpc' = "start" /\ todo' = StartFresh /\ after' = "shutdown_old"
    /\ UNCHANGED <<table, locals, new_binary, files, i, timer, pend, child,
                   counts>>

Reconfigure ==
    /\ mpc = "reconfigure"
    /\ new_binary = 0
    /\ flags' = flags \ {"reconfigure"}
    /\ gen' = gen + 1
    /\ mpc' = "start" /\ todo' = StartJust /\ after' = "shutdown_old"
    /\ UNCHANGED <<table, locals, new_binary, files, i, timer, pend, child,
                   counts>>

(* Variant: the old workers are not told to quit. *)
ShutdownOldForgets ==
    /\ mpc = "shutdown_old"
    /\ live' = TRUE
    /\ mpc' = NextSection(2, flags)
    /\ UNCHANGED <<table, flags, delay, sigio, new_binary, files, gen, loops,
                   timer, pend, child, counts>>

ShutdownOld ==
    /\ mpc = "shutdown_old"
    /\ live' = TRUE
    /\ SignalWorkers("quit", flags)
    /\ mpc' = NextSection(2, flags)
    /\ UNCHANGED <<last, delay, sigio, new_binary, files, gen, loops, timer, pend,
                   counts>>

Restart ==
    /\ mpc = "restart"
    /\ flags' = flags \ {"restart"}
    /\ live' = TRUE
    /\ mpc' = "start" /\ todo' = StartFresh /\ after' = NextSection(3, flags)
    /\ UNCHANGED <<table, delay, sigio, new_binary, files, gen, i, timer, pend,
                   child, counts>>

Reopen ==
    /\ mpc = "reopen"
    /\ SignalWorkers("reopen", flags \ {"reopen"})
    /\ mpc' = NextSection(4, flags)
    /\ UNCHANGED <<last, locals, new_binary, files, gen, loops, timer, pend,
                   counts>>

(* ngx_exec_new_binary(): on failure the pid file has its name back and    *)
(* ngx_new_binary is NGX_INVALID_PID.                                      *)
ChangeBinary ==
    /\ mpc = "change_binary"
    /\ flags' = flags \ {"change_binary"}
    /\ SpawnNew("binary", "DETACHED")
    /\ IF child' # child
       THEN new_binary' = NewPid /\ pidfile' = "oldbin"
       ELSE new_binary' = Invalid /\ UNCHANGED pidfile
    /\ mpc' = NextSection(5, flags)
    /\ UNCHANGED <<locals, listening, gen, loops, timer, pend, commands, crashes>>

NoAccept ==
    /\ mpc = "noaccept"
    /\ SignalWorkers("quit", (flags \ {"noaccept"}) \cup {"noaccepting"})
    /\ mpc' = "top"
    /\ UNCHANGED <<last, locals, new_binary, files, gen, loops, timer, pend,
                   counts>>

-----------------------------------------------------------------------------
(* Children: ngx_worker_process_cycle(), ngx_cache_manager_process_cycle() *)

masterVars == <<slots, last, flags, live, delay, sigio, new_binary, pidfile,
                listening, gen, mpc, i, todo, after, timer>>

Leave(p, fatal) ==
    /\ child' = [child EXCEPT ![p].st = "zombie", ![p].fatal = fatal]
    /\ pend' = pend \cup {"chld"}

(* A worker stops listening and serves what it has; a helper exits. *)
ChildQuit(p) ==
    /\ child[p].st \in Alive /\ "quit" \in child[p].asked
    /\ IF child[p].kind = "worker"
       THEN /\ child' = [child EXCEPT ![p].st = "exiting",
                                      ![p].asked = @ \ {"quit"}]
            /\ UNCHANGED pend
       ELSE Leave(p, FALSE)
    /\ UNCHANGED <<masterVars, counts>>

ChildTerminate(p) ==
    /\ child[p].st \in Alive /\ "terminate" \in child[p].asked
    /\ Leave(p, FALSE)
    /\ UNCHANGED <<masterVars, counts>>

ChildReopen(p) ==
    /\ child[p].st \in Alive /\ "reopen" \in child[p].asked
    /\ child' = [child EXCEPT ![p].asked = @ \ {"reopen"}]
    /\ UNCHANGED <<masterVars, pend, counts>>

(* The last timer of a worker that is shutting down is gone. *)
ChildDrained(p) ==
    /\ child[p].st = "exiting"
    /\ Leave(p, FALSE)
    /\ UNCHANGED <<masterVars, counts>>

(* ngx_cache_loader_process_handler() is done. *)
LoaderDone(p) ==
    /\ child[p].st \in Alive /\ child[p].kind = "loader"
    /\ Leave(p, FALSE)
    /\ UNCHANGED <<masterVars, counts>>

ChildKilled(p) ==
    /\ child[p].st \in Alive /\ "kill" \in child[p].asked
    /\ Leave(p, FALSE)
    /\ UNCHANGED <<masterVars, counts>>

(* A child dies, or exits with code 2 while it initialises. *)
Crash(p) ==
    /\ child[p].st \in Alive /\ child[p].kind # "binary"
    /\ crashes < MaxCrashes
    /\ crashes' = crashes + 1
    /\ \E fatal \in BOOLEAN : Leave(p, fatal)
    /\ UNCHANGED <<masterVars, commands, failures>>

(* The new binary's master exits, in its own time. *)
BinaryExit(p) ==
    /\ child[p].st \in Alive /\ child[p].kind = "binary"
    /\ Leave(p, FALSE)
    /\ UNCHANGED <<masterVars, counts>>

(* Signals from outside, and the timer. *)
Command(signal) ==
    /\ mpc # "exited"
    /\ commands < MaxCommands
    /\ commands' = commands + 1
    /\ pend' = pend \cup {signal}
    /\ UNCHANGED <<masterVars, child, crashes, failures>>

Alarm ==
    /\ mpc # "exited"
    /\ timer
    /\ timer' = FALSE
    /\ pend' = pend \cup {"alrm"}
    /\ UNCHANGED <<table, flags, locals, new_binary, files, gen, mpc, loops, child,
                   counts>>

-----------------------------------------------------------------------------
Master ==
    \/ StartNext \/ StartDone
    \/ CycleTop \/ Suspend
    \/ ReapStart \/ ReapKeep \/ ReapRespawn \/ ReapFree \/ ReapDone
    \/ MasterExit \/ Terminate \/ Quit \/ Proceed
    \/ ReconfigureNewBinary \/ ReconfigureFails \/ Reconfigure \/ ShutdownOld
    \/ Restart \/ Reopen \/ ChangeBinary \/ NoAccept

Obedient(p) ==
    \/ ChildQuit(p) \/ ChildTerminate(p) \/ ChildReopen(p) \/ ChildDrained(p)

Next ==
    \/ Master \/ Alarm
    \/ \E signal \in Commands : Command(signal)
    \/ \E p \in Pids : Obedient(p) \/ LoaderDone(p) \/ ChildKilled(p)
                         \/ Crash(p) \/ BinaryExit(p)

Spec == Init /\ [][Next]_vars

(* The master is scheduled, its timer fires and SIGKILL works. *)
MasterFairness ==
    /\ WF_vars(Master) /\ WF_vars(Alarm)
    /\ \A p \in Pids : WF_vars(ChildKilled(p))
StubbornSpec == Spec /\ MasterFairness

(* Besides, children do what they are asked to. *)
FairSpec == Spec /\ MasterFairness /\ \A p \in Pids : WF_vars(Obedient(p))

-----------------------------------------------------------------------------
(* Properties *)

(* The range of the process table, of the globals and of the locals of the *)
(* master cycle.                                                           *)
TypeOK ==
    /\ slots \in [Slots -> Slot]
    /\ last \in 0 .. MaxProcesses
    /\ flags \subseteq Flags
    /\ live \in BOOLEAN /\ delay \in Nat /\ sigio \in Nat
    /\ new_binary \in Pids \cup {0, Invalid}
    /\ pidfile \in {"pid", "oldbin", "none"} /\ listening \in BOOLEAN
    /\ gen \in Nat
    /\ mpc \in {"start", "top", "suspend", "reap", "reaping", "dispatch",
                "reconfigure", "shutdown_old", "restart", "reopen",
                "change_binary", "noaccept", "exited"}
    /\ i \in Nat /\ todo \in Seq(Spawn)
    /\ timer \in BOOLEAN /\ pend \subseteq AllCommands \cup {"chld", "alrm"}
    /\ child \in [Pids -> Child]
    /\ commands \in Nat /\ crashes \in Nat /\ failures \in Nat

Children == {p \in Pids : child[p].st \in Alive \cup {"zombie"}}

(* Every child that waitpid() can still report has exactly one slot of the *)
(* table, below ngx_last_process and not marked exited: a live slot is     *)
(* never reused or cut off, and ngx_process_get_status() always finds the  *)
(* slot that it goes on to use after its search loop.                      *)
EveryChildHasSlot ==
    \A p \in Children :
        Cardinality({s \in Slots : /\ s < last /\ slots[s].pid = p
                                   /\ ~slots[s].exited}) = 1

(* "!live": the master leaves only when no child of its own is left.       *)
NoOrphans ==
    mpc = "exited" => \A p \in Children : child[p].kind = "binary"

(* Without an upgrade under way and without failed system calls, the       *)
(* workers that are meant to stay never outnumber worker_processes while   *)
(* the master waits.                                                       *)
Staying == {s \in Slots : /\ s < last /\ slots[s].pid # Invalid
                          /\ slots[s].kind = "worker" /\ ~slots[s].exiting}
NoExtraWorkers ==
    (mpc = "suspend" /\ failures = 0) => Cardinality(Staying) <= WorkerProcesses

(* A reload never leaves the service without workers: unless it is told to *)
(* stop, or as many workers crashed as there are, the master always has a  *)
(* running worker that has not been asked to leave.                        *)
Serving == {p \in Pids : /\ child[p].st = "running" /\ child[p].kind = "worker"
                         /\ child[p].asked \cap {"quit", "terminate", "kill"} = {}}
AlwaysServing ==
    Serving # {}
      \/ after = "boot" \/ mpc = "exited"
      \/ flags \cap {"terminate", "quit", "noaccepting"} # {}
      \/ crashes >= WorkerProcesses \/ failures > 0

(* A master that believes to have children and has none but a new binary:  *)
(* its fork() calls have failed.  No SIGCHLD makes it look, and live stays *)
(* 1, until perhaps the new binary exits.                                  *)
Stranded ==
    /\ mpc = "suspend" /\ live /\ "reap" \notin flags /\ failures > 0
    /\ \A p \in Children : child[p].kind = "binary"

(* SIGTERM ends the master even if no child ever reacts: the delay doubles *)
(* until it sends SIGKILL.  Only a stranded master does not leave.         *)
TerminateExits ==
    ("terminate" \in flags) ~> (mpc = "exited" \/ Stranded)

(* SIGQUIT ends the master once the children have done their work, unless  *)
(* it is stranded.                                                         *)
QuitExits == ("quit" \in flags) ~> (mpc = "exited" \/ Stranded)

(* SIGHUP, when no new binary runs, loads the configuration again (or      *)
(* reports that it cannot).                                                *)
ReloadLoads ==
    [][("reconfigure" \in flags /\ "reconfigure" \notin flags'
          /\ failures' = failures /\ \A p \in Children : child[p].kind # "binary")
         => gen' = gen + 1]_vars

(* After a reload the workers of the older configurations go away. *)
ReloadReplaces ==
    \A g \in 0 .. MaxCommands :
        (gen = g) ~> \/ mpc = "exited"
                     \/ \A p \in Children : child[p].gen >= g

(* When the commands and crashes are over, the master is down, is stopped  *)
(* on purpose, or all the worker_processes are serving again, also after a *)
(* new binary exited; a worker that exits with the fatal code 2 is not     *)
(* replaced.                                                               *)
SettlesAtFullStrength ==
    <>[](\/ mpc = "exited" \/ failures > 0 \/ "noaccepting" \in flags
         \/ \E p \in Pids : child[p].fatal
         \/ Cardinality(Serving) >= WorkerProcesses)
=============================================================================
