# A verification project for the nginx 1.23.3 kept in dfuser

The repository `dfuser` holds personal shell, Python and PowerShell tooling and, under
`sysadmin/nginx/nginx-1.23.3`, the complete source of the nginx server that its sites run on.
The program with state, concurrency and failure handling of its own is nginx, and this
project is about nginx; the scripts are straight-line calls of other programs and have
nothing a model checker could tell that reading them does not. Paths below are relative to
`sysadmin/nginx/nginx-1.23.3/src/` unless they say otherwise.

Contents: [1 Inventory](#1-inventory), [2 Plan](#2-plan), [3 Modules and code](#3-modules-and-code),
[4 Runs](#4-runs), [5 Fairness](#5-fairness), [6 Proofs](#6-proofs),
[7 Findings](#7-findings), [8 What is not modelled](#8-what-is-not-modelled),
[9 Running the checks](#9-running-the-checks).

## 1 Inventory

### 1.1 Processes and shared state

nginx runs one *master* process and a number of *workers*, with a *cache manager* and a
*cache loader* beside them when a cache path is configured. The master owns the process
table and the configuration; it reacts to signals of the operator and of the kernel. The
workers are single-threaded event loops, each with its own connections, which share

* the listening sockets they inherit;
* shared-memory zones (mutexes, read-write locks, slab pools and what modules keep there);
* one socket pair ("channel") per process, over which commands and descriptors go.

A worker may have *thread pools* for blocking file operations. The master learns of a child
that died by SIGCHLD and repairs what it left behind: its slot in the table and the mutexes
it owned.

### 1.2 Components

| component | state | operations | what is hard | what makes it correct |
|---|---|---|---|---|
| Shared-memory mutex, `core/ngx_shmtx.c` | lock word (owner's pid), wait counter, semaphore | create, trylock, lock, unlock, force_unlock, wakeup | every access interleaves with other processes; processes die anywhere; semaphore calls fail | one owner; no lost wakeup; a dead owner is evicted and a live one never is |
| Read-write lock, `core/ngx_rwlock.c` | one word: readers, or all ones | wlock, rlock, unlock, downgrade | unlock and downgrade read the word and act later | the word is the truth about the holders; a writer is alone |
| Master and process table, `os/unix/ngx_process.c`, `os/unix/ngx_process_cycle.c` | `ngx_processes[]`, `ngx_last_process`, a dozen flags set by the signal handler, locals of the cycle, pid file | spawn, signal, reap and respawn, reload, restart, reopen, upgrade, noaccept, quit, terminate | signals coalesce and arrive in any combination; children die and forks fail in between; timeouts escalate | every child has one slot; no orphans, no doubled or missing workers; every command takes effect; shutdown ends |
| Thread pool, `core/ngx_thread_pool.c` | queue, counter, condition variable, done list, eventfd | post, thread cycle, completion, destroy | signal before enqueue, a counter that may be negative, completion handlers that post again, destruction with a task on the stack | every posted task is completed once; the queue is bounded; destruction leaves no thread and no dangling pointer |
| Accepting connections, `event/ngx_event_accept.c`, `event/ngx_event.c` | accept mutex, the flag `ngx_accept_mutex_held`, `ngx_accept_disabled`, registrations with epoll | one turn of the event loop: try the mutex, poll, accept, release | the flag outlives the mutex; descriptor shortage in the middle of a batch; half-registered sockets; dying owners | a worker that acts as holder is the owner; the mutex is never kept between turns; waiting connections are taken |
| Cycle, `core/ngx_cycle.c` | configuration, listening sockets, open files, shared zones of the old and new configuration | `ngx_init_cycle()` and its rollback | failure after part of the new cycle was created | a failed reload leaves the old cycle intact |
| Connection pool, `core/ngx_connection.c` | free list, reusable queue, counters | get, free, close, reusable, drain | connections closed from inside other handlers | lists and counters agree; instance bits make stale events recognisable |
| Slab allocator, `core/ngx_slab.c` | page descriptors with tagged bitmaps, free lists | alloc, free, page merge | long sequences of operations on a compressed representation | no overlap, no leak, merging complete |
| Channel messages, `os/unix/ngx_channel.c` | per-process copies of the process table | OPEN_CHANNEL, CLOSE_CHANNEL | messages dropped when a channel is full | copies agree with the master's table |
| Timers, `event/ngx_event_timer.c`, `core/ngx_rbtree.c` | red-black tree with a wrapping clock | add, delete, expire | comparison of wrapping milliseconds | order and balance |
| Upstream proxying, balancing and keepalive, `http/ngx_http_upstream.c`, `http/ngx_http_upstream_round_robin.c`, `http/modules/ngx_http_upstream_keepalive_module.c` | counters and weights of the servers in a shared zone; attempt, connection and tries of every request; idle connections of every worker | choose a server, connect, send, read the header, try the next server, finalize, keep or close a connection | many ways out of an attempt, retries of what may have been done, workers that die with servers counted | servers and connections are given back once; requests that must not be repeated are not; silent servers hold no client up |
| File cache, `http/ngx_http_file_cache.c` | nodes with counts and marks in shared memory, LRU queue, size; files | open, lock and wait, update, free, expire, forced expire, load | the mutex is given up around `unlink()` and when the zone is full; locks change hands by timeouts; two variants per key | no node is freed while used; no mark without an owner; size follows the files; unused entries go |
| Resolver, `core/ngx_resolver.c` | nodes with waiting contexts, resend and expire queues, one timer | resolve, answer, resend, time out, cancel, expire | answers late, truncated, partial or missing; aliases move waiting contexts; allocations fail | lists, queues and timer agree; every lookup ends |
| Limits (`limit_req`, `limit_conn`), open file cache | shared or per-worker tables with counts | account, expire | races under the locks above | counts never lost |
| HTTP request lifecycle, HTTP/2, mail, stream | per-connection state machines | handlers | reference counts, subrequests, flow control | every request is finalised once |
| Configuration parser, strings, buffers, hashes, TLS, other event methods, Windows port, build scripts | — | — | mostly data | — |
| dfuser scripts (`.dfuser_man.sh`, `scripts/`, `sdk/`, `bin/`), site configuration | — | — | — | — |

`PROJECT.json` lists all of them, with a status, and the hazards of the modelled ones line by
line.

### 1.3 How they interact

The master forks workers (fork inherits listening sockets and shared memory), commands them
through channels and signals, and in its SIGCHLD handler calls `ngx_shmtx_force_unlock()` for
every mutex with the dead pid. Workers take the accept mutex (a shared-memory mutex used only
with trylock) once per turn of the event loop; they take zone mutexes and read-write locks
inside request handlers: the zone of an upstream group is under a read-write lock, a cache zone
under the mutex of its slab pool. A request that may be cached asks the file cache before it
chooses a server and gives its node back when the upstream exchange ends; a request to a server
with a name in a variable waits for the resolver first. Pool threads hand finished tasks to the event loop with
`ngx_notify()`, which the epoll method implements with an eventfd.

## 2 Plan

Order: first what every other part relies on (locks, process management, the event loop's
sharing of sockets), then the shared data structures, then protocols on top of them.

1. **Done.** `Shmtx` (with `RobustLock`), `MasterCycle`, `ThreadPool`, `RWLock` (with
   `ReadersWriters`), `AcceptMutex`.
2. **Done.** What workers do with these locks: `Upstream` (critical sections of the zone are
   single steps, which `RWLock` justifies), `FileCache` (critical sections of the slab mutex are
   single steps, which `Shmtx` justifies), `Resolver`.
3. Proofs. **Done** for every safety property and both refinements that a run checks: `Shmtx`,
   `RWLock`, `ThreadPool`, `AcceptMutex`, `Upstream`, `FileCache`, `MasterCycle`, `Resolver`.
4. Candidates for further modules: the connection pool (free list, reusable queue, instance
   bits), OPEN_CHANNEL and CLOSE_CHANNEL messages, `ngx_init_cycle()` and its rollback, the slab
   allocator against an abstract one, request limits, the open file cache, request reference
   counts, HTTP/2 windows.

## 3 Modules and code

Conventions. A variable or action has the name of the C object or function where there is
one; `map` in `PROJECT.json` names the lines of each definition. Where a module contains an
operator commented "Variant", it is a plausible wrong form of the definition that follows it
and no specification uses it: `mutants` in `PROJECT.json` says which property fails when it
takes the definition's place. A variable commented "history" records something for the
properties and no action depends on it. MC modules give values to
constants that are functions, and a symmetry set to the one run without liveness properties that
uses it (`rwlock`).

### 3.1 Shmtx, RobustLock

`core/ngx_shmtx.c` in the build with atomic operations and POSIX semaphores. `lock`, `wait`
and `sem` are the shared words; `pc` is where each process is. One step is one access to
shared memory or one semaphore call: `LockTry` (first attempts and spin loop, :76-96),
`LockAnnounce` (:101), `LockRetry` (:103), `LockUndo` (:104), `LockSleep` and
`LockSleepError` (:111-126), `Unlock` (:143), `WakeRead`, `WakeCmpSet`, `WakePost`
(:176-190). A worker may `Die` anywhere; `ForceUnlock` is the master's
`ngx_unlock_mutexes()` (`os/unix/ngx_process.c:564`), after which the master goes through
the same wakeup steps. The test `*lock == 0` and the compare-and-set after it are one step:
the test can only make the attempt fail early. `wait` is a signed integer, as the cast in
line 178 makes it.

`RobustLock` is the promise: one owner, which only it gives up while it lives and which loses
the lock some time after its death. `ImplementsRobustLock` maps `owner` to the lock word and
`alive` to the control points.

### 3.2 RWLock, ReadersWriters

`core/ngx_rwlock.c`, one step per access to the word. `ngx_rwlock_unlock()` and
`ngx_rwlock_downgrade()` are two steps each, because what they write depends on what they
read. `mode` is history: what the caller was granted. `Call` stands for the callers (the
macros in `http/ngx_http_upstream_round_robin.h`): they unlock what they locked and nothing
else. `ReadersWriters` is the abstract lock with sets of readers and writers.

### 3.3 MasterCycle

`os/unix/ngx_process.c`, `os/unix/ngx_process_cycle.c` and `ngx_exec_new_binary()` of
`core/nginx.c`.

*State.* `slots` is `ngx_processes[]` with the fields pid, respawn, just_spawn, detached,
exiting, exited and what its channel descriptors are (open, closed and marked so, or closed
but still named); `last` is `ngx_last_process`; `flags` is the set of `ngx_*` flags that are
set; `live`, `delay`, `sigio` are the locals of the cycle; `new_binary` keeps the three kinds
of values of `ngx_new_binary` (0, -1, a pid). `child` is the processes themselves, `pend`
the signals pending at the master.

*Steps.* All signals are blocked except in `sigsuspend()`, so `Suspend` is the only action
that runs handlers: it takes every pending signal at once and, for SIGCHLD, collects all
zombies as `ngx_process_get_status()` does. The rest of the cycle follows the text:
`ReapStart`, one `ReapKeep`, `ReapRespawn` or `ReapFree` per slot, `ReapDone`; then
`MasterExit`, `Terminate`, `Quit`, or the sections in their order, each continuing or falling
through as in the code (`NextSection`). Starting processes takes one step per `fork()`
(`StartNext`). Children run between any two steps: they obey (`ChildQuit`, `ChildTerminate`,
`ChildReopen`, `ChildDrained`), finish (`LoaderDone`), crash, possibly with the fatal exit
code 2 (`Crash`), or are killed.

*Abstractions.* A command reaches a child through its channel or, if the channel fails, as a
signal; both set the same flag, so a command is a member of `asked`. The table messages
between children are left out. Pids are not reused. The master is taken to run as a daemon
and not to be itself the child of an older master (otherwise the handler ignores SIGWINCH or
SIGUSR2). A failed `ngx_init_cycle()` changes nothing. `delay` stops growing above 1000, where
its value no longer matters.

### 3.4 ThreadPool

`core/ngx_thread_pool.c` with `ngx_epoll_notify()` of `event/modules/ngx_epoll_module.c`. One
step is one critical section of `tp->mtx` or of the spinlock of the done list, or a call
outside them; `pthread_cond_wait()` splits its section. `Enter` decrements `waiting` and takes
a task or starts to wait; `Wake` tests again; spurious wakeups and failing condition-variable
calls are included. `Collect`, `Complete`, `HandlerReturns`, `Completed` are
`ngx_thread_pool_handler()`; while a completion handler runs (`main = "handler"`) it may post
any task, its own included. `DestroyPost`, `DestroySpin`, `DestroyEnd` are
`ngx_thread_pool_destroy()`, including its early return. The eventfd is an edge: `notified`.

### 3.5 AcceptMutex

One turn of `ngx_process_events_and_timers()` with `ngx_trylock_accept_mutex()`,
`ngx_event_accept()` and the dispatch of `ngx_epoll_process_events()`, for workers that share
sockets and may each have a reuseport socket. `held` is `ngx_accept_mutex_held`, `disabled`
is `ngx_accept_disabled`, `active` what is registered with epoll, `posting` whether this turn
posts events, `bounded` whether it polls for `accept_mutex_delay` at most. `SkipMutex`,
`TryLockSucceeds`, `TryLockError` and `TryLockFails` are the ways into `epoll_wait()`;
`AcceptConnection`, `AcceptAgain`, `AcceptAborted`, `AcceptEmfile`, `AcceptFails` (any other error)
and `AcceptInactive` what can happen to a ready socket; a connection that was accepted is given up
when there is no free one or its set-up fails; `EndTurn` releases the mutex if the flag is set and lets the
other events of the turn change the number of free connections. The mutex is the lock of
`RobustLock` reduced to its word, since the accept mutex is used with trylock only and has no
sleepers. A call that registers or removes sockets may fail after some of them.

### 3.6 Upstream

The attempts of proxied requests. The zone (`fails`, `conns`, `effective`, `current`, and for the
times `checked` and `accessed` the two comparisons the code makes: `recent`, `probed`) is shared
by the workers; everything else belongs to one. A worker that is in the middle of a handler
(`Busy`) runs no other handler.

*Choosing.* `GetFromBackup`, `GetBusy`, `GetCached`, `GetConnect` are
`ngx_http_upstream_connect()` with the balancer and the keepalive cache in front of it;
`ChooseServer` is the critical section of `ngx_http_upstream_get_peer()`, weights included.
*Ending an attempt.* `TryNext` is `ngx_http_upstream_next()` and `Finalize`
`ngx_http_upstream_finalize_request()`; both give the server back (`FreeServer`) and the
connection to the cache or to the kernel (`FreeConnection`). *Handlers.* `SendRequest`, `StopSending`,
`ProcessHeader`, `Timeout`, `ResponseDone`, `ResponseEnds`, `Abort`, `ClientCloses`,
`KeepaliveClose`. `Crash` takes a worker with all its requests; what it counted stays in the
zone (`leaked`).

*A header that comes early.* A server may answer before it has read the request (`early`). The write
timer is still armed then and `ngx_http_upstream_send_request_handler()` looks at it (:2302) before
it looks at `header_sent` (:2316), so that such an attempt may time out and be repeated with
`header_sent` set. In the repeated attempt the rest of the request is not sent (`mute`), no read
timer is armed while the header is awaited (:2157), and a second header ends the request.
`headerSent` is kept for this; `cut` is an early answer whose request is not sent any further.

*Abstractions.* `fails` is counted up to `max_fails`, with which alone it is compared. A death
inside a critical section is left out: it leaves the zone locked (see `RWLock`). Status codes
are 404, which does not blame the server, and 500, which does.

### 3.7 FileCache

The cache zone as `node` (by place in memory, since a key can have two nodes), `queue`, `size`,
`watermark` and `cold`; `file` is what is on the disk; `at` and `req` are the requests with their
`ngx_http_cache_t`; `del` the deletions that are between two critical sections.

*Requests.* `OpenFound`, `OpenNew`, `OpenFull`, `Expel`, `OpenFails` are
`ngx_http_file_cache_exists()` with the unlock in its middle; `OpenFile`, `Reopen`, `Read`,
`Judge`, `Lock`, `WaitTimesOut`, `WaitEnds` the rest of `ngx_http_file_cache_open()`; `FetchEnds`,
`FetchStores`, `FetchBreaks` what the upstream makes of it; `Switch`
`ngx_http_file_cache_update_variant()`; `Rename` and `Store` `ngx_http_file_cache_update()`, whose
file operations come before its critical section; `Free` `ngx_http_file_cache_free()`.
*Manager and loader.* `ManagerExpire`, `ManagerForced` and, for everybody who deletes,
`DeleteBegins`, `DeleteFile`, `DeleteEnds`; `LoaderSees`, `LoaderAdds`, `LoaderDeletes`,
`LoaderEnds`. *Failures.* `Crash` of a request's worker or of the manager.

*Abstractions.* A failing `unlink()` leaves the file. `lock_time` is a generation number and a bit that says whether it has passed;
validity is a free choice; a file is one block. Three events make `sh->size` differ from
the files for good: a deletion that ends with its node in use again, a node that is stored or
learnt from its file while it is being deleted, and a cached error that takes the place of a stored
response. `drifted` records them and from then on the manager may take the cache to be full.

### 3.8 Resolver

`core/ngx_resolver.c`: `node` is the trees, `resend` and `expire` the queues of names and of
addresses, `ctx` the lookups, `timer` the resend timer, `old` the nodes whose time in the expire
queue is over. An event handler is one step, with two exceptions. `ngx_resolve_name_locked()`, which
recurses through aliases, is one step per call (`call`): `ResolveCached`, `ResolveCname`,
`ResolveJoin`, `ResolveQuery`, `ResolveMalformed`, `ResolveFails`. Answers are `NameTruncated`,
`NamePart`, `NameFails`, `NameFound`, `NameUseless`, `NameAlias` (one answer per address family),
`AddrFound`, `AddrFails`. `Done` is the end of `ngx_resolve_name_done()` and
`ngx_resolve_addr_done()`, which expires up to two nodes and may stop the timer.

*Loops over contexts.* The other exception are the loops that hand an answer to the contexts of a
list (`ngx_resolver.c:675-697`, `:2140-2147`, `:2455-2476`, `:2537-2544` and others): `HandOut` takes
the list from the node (`answers`), and each call of a handler is a step (`Answer`), in which the
context ends. A handler may end more than that. `ngx_http_upstream_resolve_handler()` finalizes
its request or runs posted ones, and that may terminate the main request, whose cleanups give up
the lookups of all its subrequests (`http/ngx_http_request.c:2655-2663`,
`http/ngx_http_upstream.c:4485-4487`), contexts included that the loop holds in `next`. This is
`HandlerCancels`; `Main` says which lookups belong to one main request, and `AnswerFreed` is what the
loop does with a context that was freed: the behaviour is undefined, so it gets through or the
process dies and starts anew. Lookups that a handler starts are taken as started after the loop.

*Abstractions.* An answer with a wrong ident, or one that cannot be parsed, changes nothing and
has no step. The servers and the connections to them are not modelled: a query is answered late,
more than once while it is open, or never. `Untimed` are the lookups with `resolver_timeout 0`,
for which `ngx_resolver_set_timeout()` arms no timer (:4075). When `ngx_resolve_addr()` cannot
allocate the timer of a lookup that was to join a list (:1019-1022) it returns without freeing the
context; the model counts the lookup as over, since nothing refers to the context any more.

## 4 Runs

| run | configuration | distinct states | checks |
|---|---|---|---|
| `shmtx` | 3 workers, 1 semaphore error, fair | 110 000 | `MutualExclusion`, `WaitersPaidFor`, `NoLostWakeup`, `ImplementsRobustLock`, `FreeLockIsTaken` |
| `rwlock` | 4 processes, symmetry | 42 000 | `LockCounts`, `ImplementsReadersWriters`, no deadlock |
| `master_reload` | 2 workers, 7 slots, 7 pids, 2 commands, 1 crash | 2 090 000 | `EveryChildHasSlot`, `NoOrphans`, `NoExtraWorkers`, `AlwaysServing` |
| `master_stop` | 1 worker, manager and loader, stubborn children, 3 failures | 894 000 | `TerminateExits` |
| `master_live` | 1 worker, 3 commands, 1 crash, 1 failure, fair children | 317 000 | `QuitExits`, `ReloadReplaces`, `SettlesAtFullStrength` |
| `master_orphans` | 1 worker, USR2, WINCH, HUP, QUIT | violation | `NoOrphans` |
| `master_failed_upgrade` | 1 worker, USR2, HUP, 1 failure | violation | `ReloadLoads` |
| `threadpool` | 3 threads, 3 tasks, queue 2, 1 error, fair | 174 000 | `WaitingCounts`, `NoSleepingOnWork`, `ActiveOnce`, `DestroyedIsQuiet`, `TaskCompletes`, `DestroyEnds` |
| `accept` | 2 workers, 1 shared and 2 reuseport sockets, multi_accept, 1 accept() error, 1 event error, fair | 1 583 000 | `HolderOwns`, `ReleasedBetweenTurns`, `OnlyHoldersPoll`, `ConnectionsTaken` |
| `upstream` | 2 requests on 1 or 2 workers, 2 servers and a backup, 2 connections and 1 idle one per worker, 1 crash, fair | 352 000 | `ConnsBalanced`, `OpenIsOwned`, `SentOnce`, `WeightsBalanced`, `AttemptsBounded`, `RequestAnswered` |
| `filecache` | 2 requests, 2 keys, room for 1 node, 1 crash, fair | 351 000 | `CountIsUsers`, `UpdatingHasOwner`, `SizeIsFiles`, `RequestEnds`, `InactiveRemoved` |
| `resolver` | 2 lookups of one main request, one untimed, 3 names, 1 address, 2 families, 1 failed allocation, fair | 495 000 | `WaitersListed`, `QueuesMatch`, `ResendArmed`, `LookupEnds` |

What the runs show. `shmtx`: the mutex admits one process and its sleepers are never forgotten
by the three-step wakeup, whatever the interleaving; the two ways a wakeup can be lost are a death
and a failed `sem_post()` at the wrong moment, and once one of them has happened the properties claim
nothing more, also where a later wakeup would make up for it.
`rwlock`: unlock and downgrade act on a word that still describes their caller. `master_reload`:
no combination of two commands and a crash makes the table, the children and the flags
disagree. `master_stop`: the escalation to SIGKILL works with children that react to nothing; a
master told to stop stays only if its forks have all failed (`Stranded`, section 7).
`master_live`: reload and quit take effect, with the same exception, coalesced SIGCHLDs lose nobody, and the master comes
back to its number of workers after an upgrade that was given up. `threadpool`: the counter, the
queue and the wakeups agree although the signal precedes the enqueue, re-posting from a completion
handler is safe, and destruction waits for every thread. `accept`: the stale flag never releases
or keeps what it should not, whatever fails in a turn, and the shared sockets are abandoned only
if every worker waits without a time limit and without them (`Unwatched`), which a shortage of
descriptors can bring about. Workers whose registration failed half way are outside
`OnlyHoldersPoll`. `upstream`: whichever way an attempt ends, server and connection are given back exactly once, and
the rule that takes a try for every failure and the one that gives it back for an idle connection
together bound the attempts; a client gets a response header or an error in bounded attempts of
bounded time. How long the response goes on after its header is up to the server, because each read
arms the timer again. `filecache`: the unlocked window of a deletion and the hand-over of
locks by timeout free nothing that is used and leave no mark behind; where `sh->size` can drift
is spelled out by the exemption of `SizeIsFiles`. `resolver`: timeouts, cancellation, aliases and
partial answers never leave a context in a list it does not know of, or a node in two queues, not
even when a handler gives up other lookups in the middle of a loop. What that does to the loop
itself is the exemption in the last part of `WaitersListed`: an answer reaches a freed context only
if another lookup belongs to the same main request.

**Why the bounds are enough.** *Locks:* three processes are an owner, a sleeper and one that
unlocks or dies meanwhile; the races of `ngx_shmtx_wakeup()` need two unlockers and a locker.
The proofs (section 6) remove the bounds for all safety properties. *Master:*
two workers are needed to tell "one worker is missing" from "all are missing" and for two
SIGCHLDs to coalesce; a reload needs twice the workers; two commands with a crash give every
pair of sections of the cycle in both orders and pending at once, three and four (the runs
with one worker) give the sequences of an upgrade; three failures are all the forks of a start. The
full table is not reached with 7 slots and 7 pids; the theorem `ChildrenInTable` covers it. *Thread pool:* three threads are one that sleeps, one that wakes and one that runs;
the queue is shorter than the number of tasks, so that it overflows. *Accepting:* two workers
are the owner and the one with a stale flag; `ConnectionN` is chosen so that
`ngx_accept_disabled` takes positive and non-positive values for the free connections allowed.
*Upstream:* two requests are enough for a server at `max_conns`, for an idle connection taken by
the request of another, and for one request to fail a server that another holds; two servers and a
backup give a retry within a group and one that changes groups. No request is unbuffered in the run
(the theorem covers those). *File cache:* with room for one
node the zone is full as soon as a second key is used, so that evictions meet requests that wait,
update or switch keys; two requests at locations with different `min_uses` are an owner and a
waiter, or an updater and one that is served stale. With room for two nodes (1 560 000 states, five
minutes and more with the liveness properties) the invariants hold as well. *Resolver:* two
lookups share a node, join through an alias, or cross; two names that are aliases of each other
and a recursion limit of 1 reach the limit through the cache and through answers. The two lookups
belong to one main request: every behaviour of unrelated lookups is one of theirs too. That an answer
never reaches a freed context of an unrelated lookup is left to the proof.

Deadlock is not checked where the system may stop: the master exits, workers die, the pool is
destroyed, all requests are over. It is checked in `rwlock`, where nothing ever stops.

## 5 Fairness

* `Shmtx!Fairness`: a process inside lock or wakeup keeps running, a critical section ends
  (none of them blocks), the master handles SIGCHLD. Nobody is forced to lock, to die, or to
  fail.
* `MasterCycle!MasterFairness`: the master is scheduled, an armed timer fires, SIGKILL works.
  `StubbornSpec` assumes nothing else; children may ignore everything. `FairSpec` adds that
  children do what they are asked to: a worker's event loop sees its flags, and a worker that
  is shutting down loses its last connection some time (`worker_shutdown_timeout` or the
  clients see to it).
* `ThreadPool!Fairness`: every thread is scheduled, task handlers and completion handlers
  return, the event loop is woken by the eventfd. Nobody is forced to post or to fail, and the
  two liveness properties exempt threads lost to failing calls, for which the code does nothing.
* `AcceptMutex!Fairness`: a live worker is scheduled, `epoll_wait()` reports a ready socket and
  returns after `accept_mutex_delay` when it was given that limit, the master reaps the dead.
  A poll *without* that limit need not return when nothing is ready: a timer of an open connection
  may end it, but a worker need not have one.
* `Upstream!Fairness`: a handler that runs goes on, and until a response header is passed on the
  timers of the connection fire (connect, send, read timeouts). Nothing is assumed of servers and
  clients, nor of what follows the header.
* `FileCache!Fairness`: requests and deletions go on, the timer of a waiting request fires, the manager is called again and again
  and unused entries grow old, the loader goes on. Nothing makes a lock free or a response fresh.
  That the exchange of a request with its server ends is an assumption about the environment:
  `Upstream` shows it only as far as the header.
* `Resolver!Fairness`: a call and a loop over contexts come to their end; the timer of a lookup
  fires, unless its timeout is 0, strongly fair because timers are looked at between other events
  only. Servers need not answer, the resend timer need not
  fire.

`ConnectionsTaken` is stated so that a socket on which connections keep arriving and being
accepted satisfies it.

## 6 Proofs

The proofs are for any finite sets of processes, threads, tasks, workers, servers, requests and
nodes, any limits and any number of failures and deaths; the constants' assumptions
(`ProcsAssumption`, `UpstreamAssumption`, `SizesAssumption`, ...) say no more than that the sets
are finite, the limits numbers and the special values distinct.

Sums and cardinalities over finite groups need induction, and the provers cannot use an induction
theorem with an operator as its parameter. The proofs argue with a smallest counterexample
instead: the subsets for which a claim fails are a set, a finite set has a well-founded order on
its subsets, and `WFMin` gives a smallest member (`SmallestSubset`, `SmallestExists`,
`LeastExists`).

**`ShmtxProofs`.** The invariant `IInv` joins types, `LockWord` (the process at *owner* or *undo*,
or dead since, is the one in the lock word), `SleepNeedsSemaphore`, the accounting
`WaitersPaidFor`, and the wakeup condition `NoLostWakeup`. The last is not inductive alone: that a
process announced in `wait` can still be woken depends on the counter being positive when the
unlocker reads it, which is what the accounting gives. The counting steps rest on one fact about
moving one process between control points. `Refinement` follows action by action.

**`ThreadPoolProofs`.** `IInv` is types, which thread has a task at which point (`Control`), and
`Counts`: `waiting` equals the length of the queue minus the waiting, woken and failed threads and
is at most `max_queue`; if somebody waits, no more tasks are queued than threads are woken.
`WaitingCounts` is needed for the bound because the code tests the counter, not the queue. The
lemmas `CountMove` and `CountedSets` say how the numbers of threads at each control point change
when one thread moves. `TasksInOnePlace` counts the occurrences of a task in the queue, the done
list, the batch and the threads (`Once`); it needs that a thread between two tasks has none, that
a refused task stays active, and that the event loop has a batch only inside
`ngx_thread_pool_handler()` (`BatchDone`). `DestroyIsSafe` counts exit tasks: the destruction has
at most one under way and has counted the threads that are gone (`ExitCount`), and nothing is
queued behind an exit task (`ExitLast`), so that the first thread to leave already leaves no other
task behind.

**`RWLockProofs`.** `IInv` is types, the mode at each control point and `LockCounts`. The second
makes the two-step unlock safe: a reader at *uadd* is still counted, a writer at *ucas* is still
alone. `Refinement` maps the word's holders to the abstract sets.

**`AcceptMutexProofs`.** `HolderOwns` says what a worker that acts as holder owns; the converse,
where the owner may be (`OwnerIsPlaced`: polling or accepting as holder, giving the mutex back
after an error, or dead), is what makes it inductive and gives `ReleasedBetweenTurns`.
`SkipperPollsPlainly` rules out that a worker that never tried the mutex posts its events.

**`UpstreamProofs`.** `Core` is types, what a request has at each control point (`Placed`: a
server, a connection, neither) and `ConnsBalanced`. `Counted` relates the tries that are left, the
connections made and the servers reached: that is the argument why a try given back for an idle
connection is no extra attempt. `AllOwned` is the form of `OpenIsOwned` that is inductive:
connections of requests and of keepalive entries are pairwise different. `WeightsBalanced` is
inductive by itself; its proof says that a choice adds the weights of the servers that take part
to their own sum and takes the total from the one that is chosen (`SumIsFold` and the lemmas after
it connect the fold of the model to a sum over subsets).

**`FileCacheProofs`.** `IInv` is types, what a request or a deletion has at each control point
(`Placed`), for every node the numbers behind its count and the owner of its mark (`Places`), that
the queue has nodes only, and none twice (`QueueRight`), and `SizeIsFiles`. The proof attempt
found a gap that two requests do not reach: a node whose deletion has begun, renewed by one
request and learnt from its file by another, adds to `sh->size` while the deletion goes on. It is
the same cause of drift as storing into such a node, and `Read` now records it.

**`MasterCycleProofs`.** `ChildrenInTable` holds for all commands: `SlotsRight` relates the
process table and the processes through every spawn, reap, respawn and shift of
`ngx_last_process`. The theorems `NobodyOrphaned`, `WorkersLimited`, `ServiceKept` and
`ReloadsLoad` assume `NoUpgrade`: SIGUSR2 is not among the commands. With it the first and the
last are false (section 7), and what the other two should promise is another question: the old
master may start workers beside those of the new one, or have none. `Cycle` adds to the table what
`live` says about children (`LiveRight`), what is known once the master goes down (`DownRight`),
and that nothing is detached or marked just spawned without a reload. `Counted` adds that the
exited are reaped before anything else happens (`Reaped`) and two inequalities: the slots that are
to stay and the workers that a start function has still to spawn are at most `worker_processes`
(`StayCount`); the children that serve, those still to be spawned and the crashes are at least as
many (`ServeCount`).

**`ResolverProofs`.** The sets of lookups, names and addresses need not even be finite.
`WaitersListed` and `QueuesMatch` are not inductive: they count the places of a context or a node,
and say nothing of a call in progress. `IInv` says the same with sets and adds what the steps rely
on. `QueueRight`: nothing is twice in a queue, the resend queues have the nodes that are not
answered and the expire queues the others, and the nodes whose time is over are the last ones of
their queue (`OldLast`), so that what `ngx_resolver_expire()` deletes is an end of the queue and
belongs to nobody. `NodeRight`: nobody waits for a node that is answered, a name in the cache has
no query open, and it gives addresses or an alias, never both. `ListsRight`: the list of a node
has the contexts that point to it. `CallRight`: the contexts of a call in progress are live and
point to no node, which is why an alias may hand them to another list or a failure drop them.
`LoopRight`: a list that a loop is answering holds nobody twice, its contexts are live, or were freed
by the handler of another lookup of their main request and point to no node; `Seen` is the contexts as
the trees see them, with those of the loop taken out. Between events and in calls there is no loop,
and `QInv`, the invariant without one, is what the lemmas about those steps use. The trees and queues are
parameters of these definitions, because an event first changes them: `HandOutKeeps` is about
taking a list from them, `DoneKeeps` about a context that ends and expires nodes, in a loop
(`AnswerKeeps`, `HandlerCancelsKeeps`) or between events, and `ReplacedTrees` says what moving,
replacing or deleting one node does. The fold of `Resend` is reasoned about like the sums of `Upstream`, over
the subsets of the places that are due (`TakenFacts`).

The type invariants (`TypeOK`) of all these modules but `RWLock` (where `IInv` contains it) are
theorems of their own; they and the bound of the queue (`QueueBounded`) are proved and not checked
by a run of their own.

**Only model-checked.** The liveness properties, since the prover has no fairness and no ENABLED.
They are the last of the properties of `shmtx`, `accept`, `upstream` and `resolver`, two each of
`threadpool` and `filecache`, and all of `master_stop` and `master_live`.

## 7 Findings

* **Orphaned workers** (`master_orphans`). After SIGUSR2 and SIGWINCH, when the old workers
  have gone, SIGHUP starts workers again (`os/unix/ngx_process_cycle.c:214-221`) but, unlike
  the other two places that start workers, does not set `live = 1`. A SIGQUIT or SIGTERM
  before the next SIGCHLD then satisfies the exit test in line 177: the master leaves and the
  workers go on without it. The manual page promises a shutdown (`man/nginx.8:119-125`).
* **Reload after a failed upgrade** (`master_failed_upgrade`). `ngx_exec_new_binary()` returns
  -1 when it fails; the cycle stores it (line 265) and later takes any value but 0 for a
  running new binary (line 214). Every later SIGHUP starts another set of workers with the
  old configuration and loads nothing, against `man/nginx.8:121-123`. At exit
  `ngx_delete_pidfile()` picks the wrong name for the same reason.

Both need SIGUSR2: the theorems `NobodyOrphaned` and `ReloadsLoad` say that without an upgrade no
sequence of commands, crashes and failures leads to either.

A third disagreement has no run of its own; `master_stop` and `master_live` confine it:

* **A master without children cannot be stopped.** The functions that start processes ignore that
  `fork()` failed, and `live` is set to 1 all the same (`os/unix/ngx_process_cycle.c:137`, `:241`,
  `:251`). If all of them fail there is no child to report, and `live` is computed again only after a
  SIGCHLD: SIGTERM and SIGQUIT are taken, their flags are set, and the test in line 177 stays
  false for ever, although the manual page says "Shut down quickly" and "Shut down gracefully"
  (`man/nginx.8:119-125`). `TerminateExits` and `QuitExits` say that a master told to stop leaves
  or is in this state (`Stranded`); without the exception TLC shows the master that stays.

Noted, because nothing in the repository says otherwise: after EMFILE a worker polls
without a time limit and with its listening sockets disabled, and if it has no connection whose timer
or event ends the wait it does not accept again (`Unwatched`); its own reuseport socket stays disabled
until it gets the mutex; a pool
thread that ended because `pthread_cond_wait()` failed makes the destruction spin for ever; a
failed `pthread_cond_signal()` leaves its task active for ever; a failed `fork()` leaves
closed descriptors in the table, which are closed again; a process that dies with a
read-write lock leaves it locked, and readers that overlap keep a writer out; a death between unlock and `sem_post()` loses that wakeup.

A worker that dies with proxied requests leaves their servers' `conns` counted for ever, which
`max_conns` then never gives back. A process that dies during the `unlink()` of a cache entry leaves
`deleting` set, at which both expiry loops stop for ever (`http/ngx_http_file_cache.c:1759`, `:1865`)
although they go on past entries that dead workers left counted; one that dies as the updater of an
entry leaves `updating` set, so that `use_stale updating` serves the old response from then on; a
dead loader leaves `sh->loading`. `sh->size` is wrong after a node was used during its deletion,
and too large after an expired cached error hid a stored response. An answer without any usable
record leaves the waiting lookups to their timeouts, and one without a timeout to its caller.

Two subrequests of one page wait for one name; the first one to be answered terminates the page
(its client has gone): the cleanups free the context of the second, which the loop in
`ngx_resolver.c` still holds and answers. Before that, `ngx_resolve_name_done()` looks for that
context in the list of its node, from which the loop has taken it: if the context is still in the
state NGX_AGAIN and has a node, the alert "could not cancel ... resolving" is logged.

A proxied request whose server answers before it has read the whole request, and whose write timer
then fires, is repeated with `header_sent` set; in the repeated attempt no read timer is armed while the
response is awaited.

## 8 What is not modelled

Of the modelled components: the fcntl() build of the mutex; channel messages other than
commands (those about other workers' channels are dropped when a channel is full,
`os/unix/ngx_process_cycle.c:425`, and the workers' copies of the table then differ from the master's); single-process mode; the life of a worker between two commands; several thread pools
sharing the done list, failing pthread mutex calls, a failing write to the eventfd;
EPOLLEXCLUSIVE, UDP sockets, operation without the accept mutex, kqueue; upstreams of a single
server, other balancers than round robin, `keepalive_requests` and `keepalive_time`, TLS to the
server, everything about the bytes that are proxied; the format of cache files, the times of the
cache as numbers, taking over a zone from an older cycle; SRV lookups (no caller asks for a
service), the resolver's sockets and buffers, its cleanup. Integer widths play no
role in the modelled code: counters are bounded by the numbers of processes, threads,
connections and requests, and the one value that relies on wrap-around (the all-ones writer mark of
the read-write lock) is represented by -1.

nginx is large: the modelled functions are where processes, requests or events meet in shared
state, and they are a small part of its lines. Most of the rest is sequential processing of bytes
(parsers, filters, TLS, protocol modules), where the interesting part is the data.

Candidates for further modules are in the plan; the components that will not be modelled (parsers, content
modules, TLS, Windows port, build scripts, dfuser's own scripts and site configuration) are
listed in `PROJECT.json` with the reason.

## 9 Running the checks

In this directory, with TLC and the community modules on the path:

    tlc -config Shmtx.cfg MCShmtx
    tlapm ShmtxProofs.tla

and likewise for the other configurations (`X.cfg` and every `X_*.cfg` belong to `MCX`) and proof modules.
The two configurations of section 7 end with a counterexample.
