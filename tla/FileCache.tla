----------------------------- MODULE FileCache -----------------------------
(***************************************************************************)
(* The cache of upstream responses (http/ngx_http_file_cache.c and its use *)
(* by ngx_http_upstream_cache() and ngx_http_upstream_finalize_request()). *)
(*                                                                         *)
(* Nodes are in shared memory and are changed under the mutex of the slab  *)
(* pool, whose exclusion Shmtx establishes: a critical section is one      *)
(* step.  Files are opened, renamed and removed outside of it, so these    *)
(* are steps of their own.  Every request runs in a worker of its own; the *)
(* requests of one worker interleave less.                                 *)
(*                                                                         *)
(* A node is a place in memory, and the tree may hold several of the same  *)
(* key: exists() does not look again after it has given up the mutex to    *)
(* make room.  A file is one block: fs_size is 0 or 1.                     *)
(***************************************************************************)
EXTENDS Integers, Sequences, FiniteSets, FiniteSetsExt, SequencesExt, Functions

CONSTANTS
    Keys,           \* keys of cached responses
    Variant,        \* the secondary key used after a Vary mismatch
    Requests,       \* requests, each of which comes once
    KeyOf,          \* main key of every request
    Stored,         \* keys with a file when the zone is created
    MinUses,        \* proxy_cache_min_uses at the location of every request
    UseLock,        \* proxy_cache_lock
    UseStale,       \* proxy_cache_use_stale updating
    MaxNodes,       \* nodes the zone has memory for
    MaxSize,        \* max_size of the cache, in blocks
    Manager,        \* the cache manager
    Mortal,         \* processes that may die: requests, the manager
    MaxCrashes      \* bound: how many of them do

Slots == 1 .. MaxNodes
MostUses == Max(Range(MinUses))
Deleters == Requests \cup {Manager}

ASSUME FileCacheAssumption ==
    /\ IsFiniteSet(Requests) /\ Stored \subseteq Keys
    /\ Variant \in [Keys -> Keys] /\ KeyOf \in [Requests -> Keys]
    /\ MinUses \in [Requests -> Nat \ {0}] /\ MaxNodes \in Nat \ {0}
    /\ UseLock \in BOOLEAN /\ UseStale \in BOOLEAN
    /\ MaxSize \in Nat /\ MaxCrashes \in Nat
    /\ Manager \notin Requests /\ Mortal \subseteq Deleters

None == 0

VARIABLES
    node,           \* the nodes of the tree, by place
    queue,          \* their places, the most recently used first
    size,           \* sh->size
    watermark,      \* sh->watermark
    cold,           \* sh->cold: the loader has not finished
    toLoad,         \* keys the loader has not come to yet
    loading,        \* the file the loader is at
    file,           \* keys with a file on the disk
    at,             \* control point of every request
    req,            \* its ngx_http_cache_t
    del,            \* the deletion every deleter is in
    lost,           \* history: counts that dead processes left, by place
    drifted,        \* history: size may be wrong from now on
    crashes

zone == <<node, queue, size, watermark, cold>>
loader == <<toLoad, loading>>
history == <<lost, drifted, crashes>>
vars == <<zone, loader, file, at, req, del, history>>

(***************************************************************************)
(* lockGen stands for lock_time, and aged says that it has passed.  How    *)
(* long a response or an error is valid, and how long an entry lives       *)
(* without being used, is left to chance.                                  *)
(***************************************************************************)
NodeType ==
    [key : Keys, count : Nat, uses : Nat,
     error : BOOLEAN, exists : BOOLEAN, size : 0 .. 1,
     updating : BOOLEAN, deleting : BOOLEAN, lockGen : Nat, aged : BOOLEAN]

NewNode(k) ==
    [key |-> k, count |-> 0, uses |-> 1, error |-> FALSE, exists |-> FALSE,
     size |-> 0, updating |-> FALSE, deleting |-> FALSE, lockGen |-> 0,
     aged |-> TRUE]

(***************************************************************************)
(* node: as long as it is counted; switched: update_variant; impatient:    *)
(* lock_timeout is 0; scarce: the response will not be stored.             *)
(***************************************************************************)
ReqType ==
    [key : Keys, node : Slots \cup {None}, secondary : BOOLEAN,
     switched : BOOLEAN, error : BOOLEAN, updating : BOOLEAN,
     lockGen : Nat, impatient : BOOLEAN, scarce : BOOLEAN]

NewReq(r) ==
    [key |-> KeyOf[r], node |-> None, secondary |-> FALSE, switched |-> FALSE,
     error |-> FALSE, updating |-> FALSE, lockGen |-> 0, impatient |-> FALSE,
     scarce |-> FALSE]

Points == {"open", "expel", "again", "file", "read", "judge", "lock",
           "waiting", "fetch", "switch", "rename", "store", "unstored", "free",
           "done"}

Nowhere == [node |-> None, stage |-> "none"]
NoFile == [key |-> None, stage |-> "none"]

Present == DOMAIN node

Init ==
    /\ node = [i \in {} |-> NewNode(i)]
    /\ queue = <<>>
    /\ size = 0
    /\ watermark = MaxNodes + 1
    /\ cold = TRUE
    /\ toLoad = Keys
    /\ loading = NoFile
    /\ file = Stored
    /\ at = [r \in Requests |-> "open"]
    /\ req = [r \in Requests |-> NewReq(r)]
    /\ del = [p \in Deleters |-> Nowhere]
    /\ lost = [i \in Slots |-> 0]
    /\ drifted = FALSE
    /\ crashes = 0

Goto(r, point) == at' = [at EXCEPT ![r] = point]

(***************************************************************************)
(* sh->size becomes s.  After an event that makes it drift away from the   *)
(* size of the files it is no longer followed: it may have any value.      *)
(***************************************************************************)
SetSize(s, drift) ==
    /\ drifted' = (drifted \/ drift)
    /\ size' = IF drifted' THEN 0 ELSE s

(* The request is over and its memory freed. *)
Over(r) == Goto(r, "done") /\ req' = [req EXCEPT ![r] = NewReq(r)]

(* ngx_queue_remove() and ngx_queue_insert_head(). *)
ToHead(i) == <<i>> \o RemoveFirst(queue, i)

With(i, n) == [j \in Present \cup {i} |-> IF j = i THEN n ELSE node[j]]

(* The node leaves the tree and the queue and its memory is freed. *)
RemoveNode(i) ==
    /\ node' = Restrict(node, Present \ {i})
    /\ queue' = RemoveFirst(queue, i)

NodesOf(k) == {i \in Present : node[i].key = k}

Full == Present = Slots

(* The watermark of a zone without memory for another node. *)
Watermark == Cardinality(Present) - Cardinality(Present) \div 8

-----------------------------------------------------------------------------
(***************************************************************************)
(* Removing an entry: ngx_http_file_cache_delete() gives up the mutex for  *)
(* the time of the unlink().                                               *)
(***************************************************************************)

(* Up to the unlock, for a node nobody uses; q is the queue. *)
DeleteBegins(p, i, q) ==
    \/ /\ node[i].exists
       /\ SetSize(size - node[i].size, FALSE)
       /\ node' = [node EXCEPT ![i].count = @ + 1, ![i].deleting = TRUE]
       /\ queue' = q
       /\ del' = [del EXCEPT ![p] = [node |-> i, stage |-> "unlink"]]
    \/ /\ ~node[i].exists
       /\ node' = Restrict(node, Present \ {i})
       /\ queue' = RemoveFirst(q, i)
       /\ UNCHANGED <<size, drifted, del>>

(* ngx_delete_file(); that it fails, or finds no such file, is only logged. *)
DeleteFile(p) ==
    /\ del[p].stage = "unlink"
    /\ file' = file \ {node[del[p].node].key} \/ UNCHANGED file
    /\ del' = [del EXCEPT ![p].stage = "relock"]
    /\ UNCHANGED <<zone, loader, at, req, history>>

(* Variant: the node is freed whoever uses it by now. *)
DeleteEndsAlways(p) ==
    /\ del[p].stage = "relock"
    /\ del' = [del EXCEPT ![p] = Nowhere]
    /\ RemoveNode(del[p].node)
    /\ UNCHANGED <<size, watermark, cold, loader, file, at, req, history>>

(***************************************************************************)
(* A node that somebody uses by now stays, with exists and fs_size, which  *)
(* sh->size no longer contains.                                            *)
(***************************************************************************)
DeleteEnds(p) ==
    LET i == del[p].node IN
    /\ del[p].stage = "relock"
    /\ del' = [del EXCEPT ![p] = Nowhere]
    /\ \/ /\ node[i].count = 1
          /\ RemoveNode(i)
          /\ UNCHANGED <<size, drifted>>
       \/ /\ node[i].count > 1
          /\ node' = [node EXCEPT ![i].count = @ - 1, ![i].deleting = FALSE]
          /\ SetSize(size, TRUE)
          /\ UNCHANGED queue
    /\ UNCHANGED <<watermark, cold, loader, file, at, req, lost, crashes>>

(* Places in the queue where a forced expiry stops. *)
Stops == {j \in DOMAIN queue : node[queue[j]].count = 0 \/ node[queue[j]].deleting}

(* The queue after the entries behind place j have moved to its head. *)
Rotated(j) == SubSeq(queue, j + 1, Len(queue)) \o SubSeq(queue, 1, j)

(***************************************************************************)
(* ngx_http_file_cache_forced_expire(): locked entries are moved out of    *)
(* the way until there is one to delete or one that is being deleted.      *)
(* (tries, 20 in the code, exceeds the entries of the model.)              *)
(***************************************************************************)
ForcedExpire(p) ==
    LET j == IF Stops = {} THEN 0 ELSE Max(Stops) IN
    \/ /\ j > 0
       /\ node[queue[j]].count = 0
       /\ DeleteBegins(p, queue[j], Rotated(j))
    \/ /\ j > 0 => node[queue[j]].count > 0
       /\ queue' = Rotated(j)
       /\ UNCHANGED <<node, size, drifted, del>>

(* A round of the manager: the entry at the end of the queue is too old... *)
ManagerExpire ==
    /\ del[Manager] = Nowhere
    /\ queue # <<>>
    /\ LET i == Last(queue) IN
       \/ /\ node[i].count = 0
          /\ DeleteBegins(Manager, i, queue)
       \/ /\ node[i].count > 0 /\ ~node[i].deleting
          /\ queue' = ToHead(i)
          /\ UNCHANGED <<node, size, drifted, del>>
    /\ UNCHANGED <<watermark, cold, loader, file, at, req, lost, crashes>>

(* ...or not, or is being deleted, and there is too much in the cache. *)
ManagerForced ==
    /\ del[Manager] = Nowhere
    /\ queue # <<>>
    /\ drifted \/ size >= MaxSize \/ Cardinality(Present) >= watermark
    /\ ForcedExpire(Manager)
    /\ UNCHANGED <<watermark, cold, loader, file, at, req, lost, crashes>>

-----------------------------------------------------------------------------
(***************************************************************************)
(* The loader walks over the files an earlier nginx has left.              *)
(***************************************************************************)
LoaderSees ==
    /\ loading = NoFile
    /\ \E k \in toLoad :
           /\ toLoad' = toLoad \ {k}
           /\ loading' = IF k \in file THEN [key |-> k, stage |-> "add"] ELSE NoFile
    /\ UNCHANGED <<zone, file, at, req, del, history>>

(* ngx_http_file_cache_add() *)
LoaderAdds ==
    LET k == loading.key IN
    /\ loading.stage = "add"
    /\ \/ \E i \in NodesOf(k) :
              /\ queue' = ToHead(i)
              /\ loading' = NoFile
              /\ UNCHANGED <<node, size, drifted, watermark>>
       \/ /\ NodesOf(k) = {} /\ ~Full
          /\ LET i == Min(Slots \ Present) IN
             /\ node' = With(i, [NewNode(k) EXCEPT !.exists = TRUE, !.size = 1])
             /\ queue' = <<i>> \o queue
          /\ SetSize(size + 1, FALSE)
          /\ loading' = NoFile
          /\ UNCHANGED watermark
       \/ /\ NodesOf(k) = {} /\ Full
          /\ watermark' = Watermark
          /\ loading' = [loading EXCEPT !.stage = "delete"]
          /\ UNCHANGED <<node, queue, size, drifted>>
    /\ UNCHANGED <<cold, toLoad, file, at, req, del, lost, crashes>>

(* The file for which there was no node is removed. *)
LoaderDeletes ==
    /\ loading.stage = "delete"
    /\ file' = file \ {loading.key}
    /\ loading' = NoFile
    /\ UNCHANGED <<zone, toLoad, at, req, del, history>>

LoaderEnds ==
    /\ cold /\ toLoad = {} /\ loading = NoFile
    /\ cold' = FALSE
    /\ UNCHANGED <<node, queue, size, watermark, loader, file, at, req, del,
                   history>>

-----------------------------------------------------------------------------
(***************************************************************************)
(* Opening an entry: ngx_http_file_cache_open().                           *)
(***************************************************************************)
(***************************************************************************)
(* The end of exists(), with n the node that was found or made, counted    *)
(* for this request.  An error that is no longer valid is renewed: the     *)
(* node forgets the file it may have, and its size.  Then open() answers   *)
(* with the cached error, does without the cache as the entry is too rare, *)
(* or looks for the file, if the node says that there is one or the loader *)
(* may not have come to it, or else takes the lock.                        *)
(***************************************************************************)
Entered(r, i, n, renew) ==
    LET error == ~renew /\ n.error
        rare == IF renew THEN MinUses[r] > 1
                ELSE ~n.exists /\ n.uses < MinUses[r]
        test == IF renew THEN cold ELSE n.exists
    IN  /\ node' = With(i, [n EXCEPT !.error = error,
                                     !.exists = @ /\ ~renew,
                                     !.size = IF renew THEN 0 ELSE @])
        /\ queue' = ToHead(i)
        /\ SetSize(size, renew /\ n.size > 0)
        /\ req' = [req EXCEPT ![r].node = i, ![r].error = error,
                              ![r].scarce = rare /\ ~req[r].switched]
        /\ Goto(r, CASE req[r].switched -> "rename"
                     [] ~req[r].switched /\ error -> "free"
                     [] ~req[r].switched /\ ~error /\ test -> "file"
                     [] OTHER -> IF rare THEN "fetch" ELSE "lock")

(* A request that comes back has its node and has been counted.  (Uses are *)
(* counted up to the largest number they are compared with.)               *)
Counted(r, n) ==
    IF req[r].node # None THEN n
    ELSE [n EXCEPT !.count = @ + 1, !.uses = Min({@ + 1, MostUses})]

(* c->node, or a node that the lookup finds. *)
Candidates(r) ==
    IF req[r].node # None THEN {req[r].node} ELSE NodesOf(req[r].key)

OpenFound(r) ==
    /\ at[r] = "open"
    /\ \E i \in Candidates(r), expired \in BOOLEAN :
           /\ expired => node[i].error
           /\ Entered(r, i, Counted(r, node[i]), expired)
    /\ UNCHANGED <<watermark, cold, loader, file, del, lost, crashes>>

(* There was no node, and now there is one more: lookup is not repeated. *)
OpenNew(r) ==
    LET i == Min(Slots \ Present) IN
    /\ \/ at[r] = "open" /\ Candidates(r) = {}
       \/ at[r] = "again" /\ del[r] = Nowhere
    /\ ~Full
    /\ Entered(r, i, [NewNode(req[r].key) EXCEPT !.count = 1], TRUE)
    /\ UNCHANGED <<watermark, cold, loader, file, del, lost, crashes>>

(* No memory for a node. *)
OpenFull(r) ==
    /\ at[r] = "open"
    /\ Candidates(r) = {}
    /\ Full
    /\ watermark' = Watermark
    /\ Goto(r, "expel")
    /\ UNCHANGED <<node, queue, size, cold, loader, file, req, del, history>>

Expel(r) ==
    /\ at[r] = "expel"
    /\ ForcedExpire(r)
    /\ Goto(r, "again")
    /\ UNCHANGED <<watermark, cold, loader, file, req, lost, crashes>>

(* Still none: NGX_ERROR. *)
OpenFails(r) ==
    /\ at[r] = "again" /\ del[r] = Nowhere
    /\ Full
    /\ Over(r)
    /\ UNCHANGED <<zone, loader, file, del, history>>

(***************************************************************************)
(* The file is opened and its header read: it is not there; it is broken   *)
(* and will be fetched without the lock; it is a response to a request     *)
(* with other headers (Reopen); or it is what was asked for.               *)
(***************************************************************************)
OpenFile(r) ==
    /\ at[r] = "file"
    /\ \/ /\ req[r].key \notin file
          /\ Goto(r, IF req[r].scarce THEN "fetch" ELSE "lock")
          /\ UNCHANGED req
       \/ /\ req[r].key \in file
          /\ req' = [req EXCEPT ![r].scarce = FALSE]
          /\ Goto(r, "fetch") \/ Goto(r, "read")
    /\ UNCHANGED <<zone, loader, file, del, history>>

(* Variant: the node of the main key stays counted. *)
ReopenCounted(r) ==
    /\ at[r] = "read" /\ ~req[r].secondary
    /\ req' = [req EXCEPT ![r].key = Variant[@], ![r].secondary = TRUE,
                          ![r].node = None]
    /\ Goto(r, "open")
    /\ UNCHANGED <<zone, loader, file, del, history>>

(* ngx_http_file_cache_reopen(): the headers ask for another variant. *)
Reopen(r) ==
    /\ at[r] = "read" /\ ~req[r].secondary
    /\ node' = [node EXCEPT ![req[r].node].count = @ - 1]
    /\ req' = [req EXCEPT ![r].key = Variant[@], ![r].secondary = TRUE,
                          ![r].node = None]
    /\ Goto(r, "open")
    /\ UNCHANGED <<queue, size, watermark, cold, loader, file, del, history>>

(* The header is fine.  A node of which only the file was known learns it. *)
Read(r) ==
    LET i == req[r].node
        learn == cold /\ ~node[i].exists
    IN  /\ at[r] = "read"
        /\ node' = IF learn
                   THEN [node EXCEPT ![i].uses = 1, ![i].exists = TRUE,
                                     ![i].size = 1]
                   ELSE node
        /\ SetSize(IF learn THEN size + 1 ELSE size, learn /\ node[i].deleting)
        /\ Goto(r, "judge")
        /\ UNCHANGED <<queue, watermark, cold, loader, file, req, del, lost,
                       crashes>>

(***************************************************************************)
(* A fresh response is sent.  Of a stale one the first request becomes the *)
(* updater; the others send it too, if they may, or fetch it as well (also *)
(* the subrequest that updates in the background does).                    *)
(***************************************************************************)
Judge(r) ==
    LET i == req[r].node
        first == ~node[i].updating
    IN  /\ at[r] = "judge"
        /\ \/ /\ Goto(r, "free")
              /\ UNCHANGED <<node, req>>
           \/ /\ node' = [node EXCEPT ![i].updating = TRUE]
              /\ req' = [req EXCEPT ![r].updating = first,
                                    ![r].lockGen = IF first THEN node[i].lockGen
                                                            ELSE @]
              /\ \/ Goto(r, "fetch")
                 \/ UseStale /\ Goto(r, "free")
        /\ UNCHANGED <<queue, size, watermark, cold, loader, file, del, history>>

(* ngx_http_file_cache_lock() *)
Lock(r) ==
    LET i == req[r].node
        mine == ~node[i].updating \/ node[i].aged
    IN  /\ at[r] = "lock"
        /\ \/ /\ ~UseLock
              /\ Goto(r, "fetch")
              /\ UNCHANGED <<node, req>>
           \/ /\ UseLock /\ mine
              /\ node' = [node EXCEPT ![i].updating = TRUE, ![i].aged = FALSE,
                                      ![i].lockGen = @ + 1]
              /\ req' = [req EXCEPT ![r].updating = TRUE,
                                    ![r].lockGen = node[i].lockGen + 1]
              /\ Goto(r, "fetch")
           \/ /\ UseLock /\ ~mine
              /\ req' = [req EXCEPT ![r].scarce = req[r].impatient]
              /\ Goto(r, IF req[r].impatient THEN "fetch" ELSE "waiting")
              /\ UNCHANGED node
        /\ UNCHANGED <<queue, size, watermark, cold, loader, file, del, history>>

(* Variant: the request tries again for as long as before. *)
WaitTimesOutAgain(r) ==
    /\ at[r] = "waiting"
    /\ Goto(r, "open")
    /\ UNCHANGED <<zone, loader, file, req, del, history>>

(* ngx_http_file_cache_lock_wait(): lock_timeout has passed... *)
WaitTimesOut(r) ==
    /\ at[r] = "waiting"
    /\ req' = [req EXCEPT ![r].impatient = TRUE]
    /\ Goto(r, "open")
    /\ UNCHANGED <<zone, loader, file, del, history>>

(* ...or the timer finds the lock free. *)
WaitEnds(r) ==
    LET i == req[r].node IN
    /\ at[r] = "waiting"
    /\ ~node[i].updating \/ node[i].aged
    /\ Goto(r, "open")
    /\ UNCHANGED <<zone, loader, file, req, del, history>>

-----------------------------------------------------------------------------
(***************************************************************************)
(* What the upstream makes of the entry.                                   *)
(***************************************************************************)

(***************************************************************************)
(* Nothing is stored: the response may not be; or it is 304, and only the  *)
(* header of the file is written anew; or fetching it failed, and the old  *)
(* response is sent, or the error, which may be worth caching.             *)
(***************************************************************************)
FetchEnds(r) ==
    /\ at[r] = "fetch"
    /\ \/ UNCHANGED req
       \/ ~req[r].scarce /\ req' = [req EXCEPT ![r].error = TRUE]
    /\ Goto(r, "free")
    /\ UNCHANGED <<zone, loader, file, del, history>>

(* The response will be stored: its variant is the one asked for, or not. *)
FetchStores(r) ==
    /\ at[r] = "fetch" /\ ~req[r].scarce
    /\ \/ Goto(r, "rename")
       \/ req[r].secondary /\ Goto(r, "switch")
    /\ UNCHANGED <<zone, loader, file, req, del, history>>

(* Variant: the node of the variant is left as if it were still updated. *)
SwitchLeaves(r) ==
    /\ at[r] = "switch"
    /\ node' = [node EXCEPT ![req[r].node].count = @ - 1]
    /\ req' = [req EXCEPT ![r].node = None, ![r].key = KeyOf[r],
                          ![r].switched = TRUE]
    /\ Goto(r, "open")
    /\ UNCHANGED <<queue, size, watermark, cold, loader, file, del, history>>

(***************************************************************************)
(* ngx_http_file_cache_update_variant(): back to the main key.             *)
(***************************************************************************)
Switch(r) ==
    /\ at[r] = "switch"
    /\ node' = [node EXCEPT ![req[r].node].count = @ - 1,
                            ![req[r].node].updating = FALSE]
    /\ req' = [req EXCEPT ![r].node = None, ![r].key = KeyOf[r],
                          ![r].switched = TRUE]
    /\ Goto(r, "open")
    /\ UNCHANGED <<queue, size, watermark, cold, loader, file, del, history>>

(* The upstream fails in the middle of a response that was to be stored. *)
FetchBreaks(r) ==
    /\ at[r] = "rename"
    /\ Goto(r, "free")
    /\ UNCHANGED <<zone, loader, file, req, del, history>>

(***************************************************************************)
(* ngx_http_file_cache_update(): the temporary file is renamed before the  *)
(* mutex is taken, or that, or looking at the file afterwards, fails.      *)
(***************************************************************************)
Rename(r) ==
    /\ at[r] = "rename"
    /\ \/ /\ file' = file \cup {req[r].key}
          /\ Goto(r, "store") \/ Goto(r, "unstored")
       \/ Goto(r, "unstored") /\ UNCHANGED file
    /\ UNCHANGED <<zone, loader, req, del, history>>

(* The size of the file after update(). *)
StoredSize(r) == IF at[r] = "store" THEN 1 ELSE 0

(* Variant: what the old file took is forgotten. *)
SizeChangeGross(r) == StoredSize(r)

(* What update() adds to sh->size. *)
SizeChange(r) == StoredSize(r) - node[req[r].node].size

(* Its critical section.  The lock is released, whoever has it. *)
Store(r) ==
    LET i == req[r].node IN
    /\ at[r] \in {"store", "unstored"}
    /\ SetSize(size + SizeChange(r), node[i].deleting)
    /\ node' = [node EXCEPT ![i].count = @ - 1, ![i].error = FALSE,
                            ![i].size = StoredSize(r),
                            ![i].exists = @ \/ at[r] = "store",
                            ![i].updating = FALSE]
    /\ Over(r)
    /\ UNCHANGED <<queue, watermark, cold, loader, file, del, lost, crashes>>

(* An updater releases the lock unless another has taken it over. *)
Releases(r) == req[r].updating /\ node[req[r].node].lockGen = req[r].lockGen

(***************************************************************************)
(* ngx_http_file_cache_free(): an error is remembered in the node, and a   *)
(* node without a file is removed.                                         *)
(***************************************************************************)
Free(r) ==
    LET i == req[r].node
        n == [node[i] EXCEPT !.count = @ - 1,
                             !.updating = @ /\ ~Releases(r)]
    IN  /\ at[r] = "free"
        /\ \/ /\ req[r].error
              /\ node' = [node EXCEPT ![i] = [n EXCEPT !.error = TRUE]]
              /\ UNCHANGED queue
           \/ /\ ~req[r].error
              /\ ~n.exists /\ n.count = 0 /\ MinUses[r] = 1
              /\ RemoveNode(i)
           \/ /\ ~req[r].error
              /\ n.exists \/ n.count > 0 \/ MinUses[r] > 1
              /\ node' = [node EXCEPT ![i] = n]
              /\ UNCHANGED queue
        /\ Over(r)
        /\ UNCHANGED <<size, watermark, cold, loader, file, del, history>>

-----------------------------------------------------------------------------
(***************************************************************************)
(* Time, and deaths of processes.                                          *)
(***************************************************************************)
LockAges(i) ==
    /\ node[i].updating /\ ~node[i].aged
    /\ node' = [node EXCEPT ![i].aged = TRUE]
    /\ UNCHANGED <<queue, size, watermark, cold, loader, file, at, req, del,
                   history>>

(* What process p has counted in place i. *)
Counts(p, i) ==
    (IF p \in Requests /\ req[p].node = i THEN 1 ELSE 0)
        + (IF del[p].node = i THEN 1 ELSE 0)

(* A worker or the manager dies; what it counted and marked stays. *)
Crash(p) ==
    /\ p \in Mortal /\ crashes < MaxCrashes
    /\ \/ p \in Requests /\ at[p] # "done"
       \/ p = Manager /\ del[p] # Nowhere
    /\ crashes' = crashes + 1
    /\ lost' = [i \in Slots |-> lost[i] + Counts(p, i)]
    /\ del' = [del EXCEPT ![p] = Nowhere]
    /\ IF p \in Requests
       THEN Over(p)
       ELSE UNCHANGED <<at, req>>
    /\ UNCHANGED <<zone, loader, file, drifted>>

(* Handlers of a request, in the order in which it may go through them. *)
Step(r) ==
    \/ OpenFound(r)
    \/ OpenNew(r)
    \/ OpenFull(r)
    \/ Expel(r)
    \/ OpenFails(r)
    \/ OpenFile(r)
    \/ Reopen(r)
    \/ Read(r)
    \/ Judge(r)
    \/ Lock(r)
    \/ FetchEnds(r)
    \/ FetchStores(r)
    \/ Switch(r)
    \/ FetchBreaks(r)
    \/ Rename(r)
    \/ Store(r)
    \/ Free(r)

Next ==
    \/ \E r \in Requests :
           \/ Step(r)
           \/ WaitTimesOut(r)
           \/ WaitEnds(r)
    \/ \E p \in Deleters :
           \/ DeleteFile(p)
           \/ DeleteEnds(p)
           \/ Crash(p)
    \/ ManagerExpire
    \/ ManagerForced
    \/ LoaderSees
    \/ LoaderAdds
    \/ LoaderDeletes
    \/ LoaderEnds
    \/ \E i \in Present : LockAges(i)

Spec == Init /\ [][Next]_vars

(***************************************************************************)
(* Processes go on; the manager is called again and again by its timer;    *)
(* time passes for an entry nobody uses; the timer of a waiting request    *)
(* fires.  That an exchange with the upstream ends is an assumption about  *)
(* the servers and the clients: of itself nginx only limits the time until *)
(* the response header comes (RequestAnswered in Upstream).                *)
(***************************************************************************)
Fairness ==
    /\ \A r \in Requests : WF_vars(Step(r)) /\ WF_vars(WaitTimesOut(r))
    /\ \A p \in Deleters : WF_vars(DeleteFile(p)) /\ WF_vars(DeleteEnds(p))
    /\ WF_vars(ManagerExpire)
    /\ WF_vars(LoaderSees \/ LoaderAdds \/ LoaderDeletes \/ LoaderEnds)

FairSpec == Spec /\ Fairness

-----------------------------------------------------------------------------
(* The range of every variable. *)
TypeOK ==
    /\ Present \subseteq Slots
    /\ \A i \in Present : node[i] \in NodeType
    /\ queue \in Seq(Slots) /\ size \in Int /\ watermark \in Nat
    /\ cold \in BOOLEAN /\ toLoad \subseteq Keys
    /\ loading \in [key : Keys, stage : {"add", "delete"}] \cup {NoFile}
    /\ file \subseteq Keys
    /\ at \in [Requests -> Points] /\ req \in [Requests -> ReqType]
    /\ del \in [Deleters -> [node : Slots, stage : {"unlink", "relock"}]
                            \cup {Nowhere}]
    /\ lost \in [Slots -> Nat] /\ drifted \in BOOLEAN
    /\ crashes \in 0 .. MaxCrashes

(***************************************************************************)
(* No node is freed while somebody still has it: the node of every request *)
(* and of every deletion is in the tree, and its count is the number of    *)
(* requests and deletions that have it, and of those that died with it.    *)
(* So whichever process is last finds the count at 0.                      *)
(***************************************************************************)
CountIsUsers ==
    /\ \A r \in Requests :
           req[r].node # None =>
               req[r].node \in Present /\ node[req[r].node].key = req[r].key
    /\ \A p \in Deleters : del[p] # Nowhere => del[p].node \in Present
    /\ \A i \in Present :
           node[i].count = lost[i] + Cardinality({r \in Requests : req[r].node = i})
                                   + Cardinality({p \in Deleters : del[p].node = i})

(***************************************************************************)
(* A node is marked as being updated only while a request that will clear  *)
(* the mark has it, or one died: otherwise the response would never be     *)
(* refreshed, with proxy_cache_use_stale updating, or requests would wait  *)
(* for nothing.                                                            *)
(***************************************************************************)
UpdatingHasOwner ==
    \A i \in Present :
        node[i].updating =>
            \/ lost[i] > 0
            \/ \E r \in Requests :
                   /\ req[r].node = i /\ req[r].updating
                   /\ req[r].lockGen = node[i].lockGen

(***************************************************************************)
(* sh->size, by which the manager keeps the cache below max_size, is the   *)
(* size of the files of all nodes whose deletion has not begun, as long as *)
(* no node was used while it was being deleted and no cached error took    *)
(* the place of a stored response.                                         *)
(***************************************************************************)
SizeIsFiles ==
    drifted \/ size = Cardinality({i \in Present :
                                     node[i].size = 1 /\ ~node[i].deleting})

Quiet == \A r \in Requests : at[r] = "done"

(***************************************************************************)
(* Every request ends if the exchanges with the upstream do: nobody waits  *)
(* for a lock for ever, whoever has it and whatever becomes of its owner.  *)
(***************************************************************************)
RequestEnds == <>Quiet

(***************************************************************************)
(* Entries that are not used any more are removed, unless a process died:  *)
(* no path through the handlers leaves a count behind.                     *)
(***************************************************************************)
InactiveRemoved == (Quiet /\ crashes = 0) ~> (queue = <<>> \/ crashes > 0)

=============================================================================
