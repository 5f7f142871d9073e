------------------------------ MODULE Upstream ------------------------------
(***************************************************************************)
(* Proxying a request to a group of servers: choosing a server by smooth   *)
(* weighted round robin, connecting, sending, reading the answer, trying   *)
(* the next server after a failure, and giving everything back in the end  *)
(* (http/ngx_http_upstream.c, http/ngx_http_upstream_round_robin.c and     *)
(* http/modules/ngx_http_upstream_keepalive_module.c).                     *)
(*                                                                         *)
(* The servers' counters are in a shared zone.  Every access to them is a  *)
(* critical section of the read-write lock, whose exclusion RWLock         *)
(* establishes, so a section is one step here.  Everything else belongs to *)
(* one worker.  A worker is single threaded: while one of its requests is  *)
(* in the middle of a handler (Busy), no other handler of that worker      *)
(* runs, but other workers take their turns in the zone.                   *)
(*                                                                         *)
(* An upstream of one server without backups ("single") skips the          *)
(* accounting of failures and is not modelled; a server marked "down" is   *)
(* left out of the groups.                                                 *)
(***************************************************************************)
EXTENDS Integers, Sequences, FiniteSets, FiniteSetsExt, SequencesExt

CONSTANTS
    Workers,        \* worker processes
    Requests,       \* requests, each of which comes once
    Homes,          \* ways the requests come to the workers
    Primary,        \* servers of the first group: numbers, in list order
    Backup,         \* backup servers: numbers
    Weight,         \* configured weight of every server
    MaxFails,       \* max_fails of every server; 0: never disabled
    MaxConns,       \* max_conns of every server; 0: no limit
    NextTries,      \* proxy_next_upstream_tries; 0: no limit
    NextUpstream,   \* proxy_next_upstream: failures to retry after
    NextTimeout,    \* proxy_next_upstream_timeout is set
    NonIdempotent,  \* requests with the method POST, LOCK or PATCH
    Unbuffered,     \* requests whose body is passed on unbuffered
    Cacheable,      \* requests whose response goes to the cache
    PoolSize,       \* connections a worker has for upstreams
    MaxCached,      \* size of the keepalive cache; 0: no keepalive
    MaxCrashes      \* bound: crashes of workers

Servers == Primary \cup Backup

ASSUME UpstreamAssumption ==
    /\ Homes \subseteq [Requests -> Workers]
    /\ IsFiniteSet(Requests) /\ IsFiniteSet(Servers)
    /\ Servers \subseteq Nat \ {0} /\ Primary \cap Backup = {}
    /\ Primary # {} /\ Cardinality(Servers) > 1
    /\ Weight \in [Servers -> Nat \ {0}]
    /\ MaxFails \in [Servers -> Nat] /\ MaxConns \in [Servers -> Nat]
    /\ {NextTries, PoolSize, MaxCached, MaxCrashes} \subseteq Nat

None == 0

VARIABLES
    home,                   \* the worker of every request
    fails, conns,           \* of every server, in the zone
    effective, current,     \* its weights
    recent,                 \* now - checked <= fail_timeout
    probed,                 \* accessed < checked
    at,                     \* control point of every request
    onBackup, tried,        \* rrp->peers is the backup group; rrp->tried
    holds,                  \* peer.sockaddr: the chosen server, or None
    conn,                   \* peer.connection: a connection, or None
    cached, tries,          \* peer.cached, peer.tries
    sent,                   \* request_sent
    gone,                   \* the client has closed its connection
    reached, fresh,         \* history: attempts that sent something, and
                            \* attempts on a new connection
    cache,                  \* keepalive cache of every worker
    open,                   \* open upstream connections of every worker
    headerSent,             \* header_sent: the client has a response header
    leaked, crashes         \* history: connections counted by dead workers

zone == <<fails, conns, effective, current, recent, probed>>
local == <<onBackup, tried, holds, conn, cached, tries, sent, gone, reached,
           fresh>>
outside == <<home, headerSent, leaked, crashes>>
vars == <<zone, at, local, cache, open, outside>>

(***************************************************************************)
(* Control points.  "get": about to choose a server; "declined", "failed": *)
(* connecting failed at once, with NGX_DECLINED or NGX_ERROR; "send": the  *)
(* connection is there; the others: back in the event loop.  "early": the  *)
(* response comes although the request is not sent completely; "cut": the  *)
(* same, once nginx has stopped sending; "mute": a retry after "early"     *)
(* that waits for a response to what it no longer sends.                   *)
(***************************************************************************)
Running == {"get", "declined", "failed", "send"}
Suspended ==
    {"connecting", "sending", "waiting", "mute", "body", "early", "cut"}

Busy(w) == \E r \in Requests : home[r] = w /\ at[r] \in Running

(* The event loop of r's worker calls a handler of r. *)
Handler(r) == at[r] \in Suspended /\ ~Busy(home[r])

Init ==
    /\ home \in Homes
    /\ fails = [p \in Servers |-> 0]
    /\ conns = [p \in Servers |-> 0]
    /\ effective = Weight
    /\ current = [p \in Servers |-> 0]
    /\ recent = [p \in Servers |-> FALSE]
    /\ probed = [p \in Servers |-> FALSE]
    /\ at = [r \in Requests |-> "idle"]
    /\ onBackup = [r \in Requests |-> FALSE]
    /\ tried = [r \in Requests |-> {}]
    /\ holds = [r \in Requests |-> None]
    /\ conn = [r \in Requests |-> None]
    /\ cached = [r \in Requests |-> FALSE]
    /\ tries = [r \in Requests |-> 0]
    /\ sent = [r \in Requests |-> FALSE]
    /\ gone = [r \in Requests |-> FALSE]
    /\ reached = [r \in Requests |-> 0]
    /\ fresh = [r \in Requests |-> 0]
    /\ cache = [w \in Workers |-> <<>>]
    /\ open = [w \in Workers |-> {}]
    /\ headerSent = [r \in Requests |-> FALSE]
    /\ leaked = [p \in Servers |-> 0]
    /\ crashes = 0

Goto(r, point) == at' = [at EXCEPT ![r] = point]

(* The requests in S are over and their memory is freed. *)
Over(S) ==
    LET Reset(f, v) == [r \in Requests |-> IF r \in S THEN v ELSE f[r]]
    IN  /\ at' = Reset(at, "done")
        /\ onBackup' = Reset(onBackup, FALSE)
        /\ tried' = Reset(tried, {})
        /\ holds' = Reset(holds, None)
        /\ conn' = Reset(conn, None)
        /\ cached' = Reset(cached, FALSE)
        /\ tries' = Reset(tries, 0)
        /\ sent' = Reset(sent, FALSE)
        /\ gone' = Reset(gone, FALSE)
        /\ reached' = Reset(reached, 0)
        /\ fresh' = Reset(fresh, 0)

-----------------------------------------------------------------------------
(***************************************************************************)
(* Round robin.                                                            *)
(***************************************************************************)
Group(r) == IF onBackup[r] THEN Backup ELSE Primary

Disabled(p) == MaxFails[p] > 0 /\ fails[p] >= MaxFails[p]

Full(p) == MaxConns[p] > 0 /\ conns[p] >= MaxConns[p]

Eligible(r) ==
    {p \in Group(r) \ tried[r] : ~(Disabled(p) /\ recent[p]) /\ ~Full(p)}

(* The current weights after every server of S has gained its effective one. *)
Raised(S) ==
    [p \in Servers |-> current[p] + (IF p \in S THEN effective[p] ELSE 0)]

(* The first server with the largest raised weight. *)
Best(S) ==
    CHOOSE p \in S :
        \A q \in S : \/ Raised(S)[q] < Raised(S)[p]
                     \/ Raised(S)[q] = Raised(S)[p] /\ p <= q

(* Variant: the total of the configured weights. *)
TotalConfigured(S) == MapThenSumSet(LAMBDA p : Weight[p], S)

Total(S) == MapThenSumSet(LAMBDA p : effective[p], S)

ChooseServer(r, S) ==
    LET best == Best(S) IN
    /\ current' = [Raised(S) EXCEPT ![best] = @ - Total(S)]
    /\ effective' = [p \in Servers |->
           effective[p] + (IF p \in S /\ effective[p] < Weight[p] THEN 1 ELSE 0)]
    /\ conns' = [conns EXCEPT ![best] = @ + 1]
    /\ recent' = [recent EXCEPT ![best] = TRUE]
    /\ probed' = [probed EXCEPT ![best] = @ \/ ~recent[best]]
    /\ tried' = [tried EXCEPT ![r] = @ \cup {best}]
    /\ holds' = [holds EXCEPT ![r] = best]
    /\ UNCHANGED fails

(* What a failure takes from the effective weight of a server. *)
Weakened(p) ==
    IF MaxFails[p] = 0 THEN effective[p]
    ELSE Max({0, effective[p] - Weight[p] \div MaxFails[p]})

(* Variant: a failed server keeps its connection. *)
FreeServerFailed(p, failed) ==
    /\ conns' = [conns EXCEPT ![p] = IF failed THEN @ ELSE @ - 1]
    /\ fails' = [fails EXCEPT ![p] = IF failed THEN MaxFails[p] ELSE 0]
    /\ UNCHANGED <<recent, probed, effective, current>>

(***************************************************************************)
(* Giving a server back.  fails is counted up to max_fails: the code only  *)
(* compares it with that limit.  A success resets it when the server was   *)
(* probed since its last failure.                                          *)
(***************************************************************************)
FreeServer(p, failed) ==
    /\ conns' = [conns EXCEPT ![p] = @ - 1]
    /\ IF failed
       THEN /\ fails' = [fails EXCEPT ![p] = Min({@ + 1, MaxFails[p]})]
            /\ recent' = [recent EXCEPT ![p] = TRUE]
            /\ probed' = [probed EXCEPT ![p] = FALSE]
            /\ effective' = [effective EXCEPT ![p] = Weakened(p)]
       ELSE /\ fails' = [fails EXCEPT ![p] = IF probed[p] THEN 0 ELSE @]
            /\ UNCHANGED <<recent, probed, effective>>
    /\ UNCHANGED current

(* Seconds pass: fail_timeout is over for a server. *)
Expire(p) ==
    /\ recent[p]
    /\ recent' = [recent EXCEPT ![p] = FALSE]
    /\ UNCHANGED <<fails, conns, effective, current, probed, at, local, cache,
                   open, outside>>

-----------------------------------------------------------------------------
(***************************************************************************)
(* Starting a request, choosing a server and connecting.                   *)
(***************************************************************************)
AllTries == Cardinality(Servers)
InitialTries == IF NextTries = 0 THEN AllTries ELSE Min({NextTries, AllTries})

Start(r) ==
    /\ at[r] = "idle"
    /\ ~Busy(home[r])
    /\ tries' = [tries EXCEPT ![r] = InitialTries]
    /\ Goto(r, "get")
    /\ UNCHANGED <<zone, onBackup, tried, holds, conn, cached, sent, gone,
                   reached, fresh, cache, open, outside>>

(* No server of the first group will do: go on with the backup servers. *)
GetFromBackup(r) ==
    /\ at[r] = "get"
    /\ Eligible(r) = {}
    /\ ~onBackup[r]
    /\ Backup # {}
    /\ onBackup' = [onBackup EXCEPT ![r] = TRUE]
    /\ tried' = [tried EXCEPT ![r] = {}]
    /\ UNCHANGED <<zone, at, holds, conn, cached, tries, sent, gone, reached,
                   fresh, cache, open, outside>>

(* NGX_BUSY, "no live upstreams": never a reason to try the next server. *)
GetBusy(r) ==
    /\ at[r] = "get"
    /\ Eligible(r) = {}
    /\ onBackup[r] \/ Backup = {}
    /\ Over({r})
    /\ UNCHANGED <<zone, cache, open, outside>>

(* Positions in the keepalive cache of connections to server p. *)
CachedTo(w, p) == {i \in DOMAIN cache[w] : cache[w][i].server = p}

(* NGX_DONE: the balancer's choice has an idle connection. *)
GetCached(r) ==
    LET w == home[r]
        S == Eligible(r)
    IN  /\ at[r] = "get"
        /\ S # {}
        /\ CachedTo(w, Best(S)) # {}
        /\ LET i == Min(CachedTo(w, Best(S))) IN
           /\ conn' = [conn EXCEPT ![r] = cache[w][i].conn]
           /\ cache' = [cache EXCEPT ![w] = RemoveAt(@, i)]
        /\ ChooseServer(r, S)
        /\ cached' = [cached EXCEPT ![r] = TRUE]
        /\ sent' = [sent EXCEPT ![r] = FALSE]
        /\ Goto(r, "send")
        /\ UNCHANGED <<onBackup, tries, gone, reached, fresh, open, outside>>

FreeConns(w) == (1 .. PoolSize) \ open[w]

(* ngx_event_connect_peer() on a new connection. *)
GetConnect(r) ==
    LET w == home[r]
        S == Eligible(r)
    IN  /\ at[r] = "get"
        /\ S # {}
        /\ CachedTo(w, Best(S)) = {}
        /\ ChooseServer(r, S)
        /\ cached' = [cached EXCEPT ![r] = FALSE]
        /\ \/ (* no connection, or a call on the socket fails: NGX_ERROR *)
              /\ Goto(r, "failed")
              /\ UNCHANGED <<conn, open, sent, fresh>>
           \/ (* connect() fails: NGX_DECLINED *)
              /\ FreeConns(w) # {}
              /\ fresh' = [fresh EXCEPT ![r] = @ + 1]
              /\ Goto(r, "declined")
              /\ UNCHANGED <<conn, open, sent>>
           \/ /\ FreeConns(w) # {}
              /\ fresh' = [fresh EXCEPT ![r] = @ + 1]
              /\ conn' = [conn EXCEPT ![r] = Min(FreeConns(w))]
              /\ open' = [open EXCEPT ![w] = @ \cup {Min(FreeConns(w))}]
              /\ sent' = [sent EXCEPT ![r] = FALSE]
              /\ \/ Goto(r, "connecting")
                 \/ Goto(r, "send")
        /\ UNCHANGED <<onBackup, tries, gone, reached, cache, outside>>

-----------------------------------------------------------------------------
(***************************************************************************)
(* The two ways out of an attempt.                                         *)
(***************************************************************************)
Closed(w, c) == [open EXCEPT ![w] = @ \ {c}]

(***************************************************************************)
(* The connection goes to the keepalive cache, over the oldest one if      *)
(* there is no room, or is closed.                                         *)
(***************************************************************************)
FreeConnection(r, keep) ==
    LET w == home[r]
        item == [conn |-> conn[r], server |-> holds[r]]
        full == Len(cache[w]) = MaxCached
    IN  IF keep /\ conn[r] # None /\ MaxCached > 0
        THEN /\ cache' = [cache EXCEPT
                    ![w] = <<item>> \o (IF full THEN Front(@) ELSE @)]
             /\ open' = IF full THEN Closed(w, Last(cache[w]).conn) ELSE open
        ELSE /\ open' = Closed(w, conn[r])
             /\ UNCHANGED cache

(* ngx_http_upstream_finalize_request(): without blame for the server. *)
Finalize(r, keep) ==
    /\ FreeServer(holds[r], FALSE)
    /\ FreeConnection(r, keep)
    /\ Over({r})
    /\ UNCHANGED outside

(* History: one more attempt of r has sent something. *)
CountAttempt(r, nowSent) ==
    reached' = [reached EXCEPT ![r] = IF nowSent /\ ~sent[r] THEN @ + 1 ELSE @]

(* Variant: it does not matter whether the request was sent. *)
MayRetryAny(r, ft, wasSent) == ft \in NextUpstream

(* Failures to which ngx_http_upstream_next() would answer by a retry. *)
MayRetry(r, ft, wasSent) ==
    /\ {ft} \cup (IF wasSent /\ r \in NonIdempotent THEN {"non_idempotent"}
                                                    ELSE {}) \subseteq NextUpstream
    /\ ~(wasSent /\ r \in Unbuffered)

(* Variant: a failed cached connection costs no try and gains one. *)
TriesAfterGain(r, ft) ==
    tries[r] + (IF cached[r] /\ ft = "error" THEN 1 ELSE 0)

(* The balancer takes a try; a stale cached connection gives it back. *)
TriesAfter(r, ft) ==
    (IF tries[r] = 0 THEN 0 ELSE tries[r] - 1)
        + (IF cached[r] /\ ft = "error" THEN 1 ELSE 0)

(* A 404 without a body leaves the connection good for another request. *)
MayKeep(r, ft) == ft = "http_404" /\ at[r] = "waiting"

(***************************************************************************)
(* ngx_http_upstream_next(): the server is given back, with blame unless   *)
(* it answered 404, and so is the connection, and the request either goes  *)
(* to another server or ends.  proxy_next_upstream_timeout, if set, may    *)
(* have passed at any time.                                                *)
(***************************************************************************)
TryNext(r, ft, wasSent) ==
    LET left == TriesAfter(r, ft)
        retry == ~gone[r] /\ left > 0 /\ MayRetry(r, ft, wasSent)
    IN  /\ FreeServer(holds[r], ft # "http_404")
        /\ \E keep \in BOOLEAN : /\ keep => MayKeep(r, ft)
                                /\ FreeConnection(r, keep)
        /\ \/ /\ retry
              /\ tries' = [tries EXCEPT ![r] = left]
              /\ holds' = [holds EXCEPT ![r] = None]
              /\ conn' = [conn EXCEPT ![r] = None]
              /\ sent' = [sent EXCEPT ![r] = wasSent]
              /\ CountAttempt(r, wasSent)
              /\ Goto(r, "get")
              /\ UNCHANGED <<onBackup, tried, cached, gone, fresh>>
           \/ /\ ~retry \/ NextTimeout
              /\ Over({r})
        /\ UNCHANGED outside

-----------------------------------------------------------------------------
(***************************************************************************)
(* Handlers.                                                               *)
(***************************************************************************)
Declined(r) ==
    /\ at[r] = "declined"
    /\ TryNext(r, "error", sent[r])

Failed(r) ==
    /\ at[r] = "failed"
    /\ Finalize(r, FALSE)

(***************************************************************************)
(* ngx_http_upstream_send_request(): the connection turns out to be dead   *)
(* before anything is sent, or sending fails, or a part or all is sent.    *)
(* The write handler calls it until a response header has been passed on.  *)
(***************************************************************************)
SendRequest(r) ==
    /\ \/ at[r] = "send"
       \/ Handler(r) /\ at[r] \in {"connecting", "sending"} /\ ~headerSent[r]
    /\ \/ ~sent[r] /\ TryNext(r, "error", FALSE)
       \/ TryNext(r, "error", TRUE)
       \/ /\ CountAttempt(r, TRUE)
          /\ sent' = [sent EXCEPT ![r] = TRUE]
          /\ Goto(r, "sending") \/ Goto(r, "waiting")
          /\ UNCHANGED <<zone, onBackup, tried, holds, conn, cached, tries,
                         gone, fresh, cache, open, outside>>

(***************************************************************************)
(* The write handler once a response header has been passed on, which may  *)
(* be that of an earlier attempt: the rest of the request is not sent.     *)
(***************************************************************************)
StopSending(r) ==
    /\ Handler(r)
    /\ headerSent[r]
    /\ \/ at[r] \in {"connecting", "sending"} /\ Goto(r, "mute")
       \/ at[r] = "early" /\ Goto(r, "cut")
    /\ UNCHANGED <<zone, local, cache, open, outside>>

(* Variant: no timer while connecting. *)
TimeoutConnected(r) ==
    /\ Handler(r)
    /\ \/ at[r] \in {"sending", "early"}
       \/ at[r] = "waiting" /\ ~headerSent[r]
    /\ TryNext(r, "timeout", sent[r])

(***************************************************************************)
(* The timer of the connection fires: the write timer while connecting or  *)
(* sending, even if the response header has come before, and the read      *)
(* timer until the header comes, which is not armed if one was passed on.  *)
(***************************************************************************)
Timeout(r) ==
    /\ Handler(r)
    /\ \/ at[r] \in {"connecting", "sending", "early"}
       \/ at[r] = "waiting" /\ ~headerSent[r]
    /\ TryNext(r, "timeout", sent[r])

(***************************************************************************)
(* ngx_http_upstream_process_header(): the connection was closed, the      *)
(* header is invalid or reports an error another server may do better on,  *)
(* or it is passed to the client.  The server may answer before it has     *)
(* read the whole request.  A second header ends the request, "header      *)
(* already sent".                                                          *)
(***************************************************************************)
ProcessHeader(r) ==
    /\ Handler(r)
    /\ at[r] \in {"sending", "waiting", "mute"}
    /\ \/ TryNext(r, "error", sent[r])
       \/ TryNext(r, "invalid_header", sent[r])
       \/ \E ft \in {"http_404", "http_500"} :
              /\ tries[r] > 1 /\ MayRetry(r, ft, sent[r])
              /\ TryNext(r, ft, sent[r])
       \/ /\ ~headerSent[r]
          /\ headerSent' = [headerSent EXCEPT ![r] = TRUE]
          /\ Goto(r, IF at[r] = "waiting" THEN "body" ELSE "early")
          /\ UNCHANGED <<zone, local, cache, open, home, leaked, crashes>>
       \/ /\ headerSent[r]
          /\ \E keep \in BOOLEAN : /\ keep => at[r] = "waiting"
                                  /\ Finalize(r, keep)

(* The response is complete and the server keeps the connection open. *)
ResponseDone(r) ==
    /\ Handler(r)
    /\ at[r] = "body"
    /\ Finalize(r, TRUE)

(* Reading the response fails, times out or ends with the connection. *)
ResponseEnds(r) ==
    /\ Handler(r)
    /\ at[r] \in {"body", "early", "cut"}
    /\ Finalize(r, FALSE)

(***************************************************************************)
(* The request ends although the attempt is fine: the client went away, an *)
(* internal error, or the cleanup handler of a request that is freed.      *)
(***************************************************************************)
Abort(r) ==
    /\ Handler(r)
    /\ Finalize(r, FALSE)

(* A response that is being cached is read to its end without the client. *)
ClientCloses(r) ==
    /\ Handler(r)
    /\ r \in Cacheable
    /\ ~gone[r]
    /\ gone' = [gone EXCEPT ![r] = TRUE]
    /\ UNCHANGED <<zone, at, onBackup, tried, holds, conn, cached, tries, sent,
                   reached, fresh, cache, open, outside>>

(* Variant: the closed connection stays in the cache. *)
KeepaliveCloseOnly(w) ==
    /\ ~Busy(w)
    /\ \E i \in DOMAIN cache[w] : open' = Closed(w, cache[w][i].conn)
    /\ UNCHANGED <<zone, at, local, cache, outside>>

(* The close handler of an idle connection: timeout, or the server closed it. *)
KeepaliveClose(w) ==
    /\ ~Busy(w)
    /\ \E i \in DOMAIN cache[w] :
           /\ open' = Closed(w, cache[w][i].conn)
           /\ cache' = [cache EXCEPT ![w] = RemoveAt(@, i)]
    /\ UNCHANGED <<zone, at, local, outside>>

Holders(p) == {r \in Requests : holds[r] = p}

(***************************************************************************)
(* A worker dies and is replaced.  What it counted in the zone stays.  (A  *)
(* death inside a critical section would leave the zone locked.)           *)
(***************************************************************************)
Crash(w) ==
    LET Here == {r \in Requests : home[r] = w}
    IN  /\ crashes < MaxCrashes
        /\ crashes' = crashes + 1
        /\ leaked' = [p \in Servers |->
                          leaked[p] + Cardinality(Holders(p) \cap Here)]
        /\ cache' = [cache EXCEPT ![w] = <<>>]
        /\ open' = [open EXCEPT ![w] = {}]
        /\ Over(Here)
        /\ UNCHANGED <<zone, home, headerSent>>

Continue(r) ==
    \/ GetFromBackup(r)
    \/ GetBusy(r)
    \/ GetCached(r)
    \/ GetConnect(r)
    \/ Declined(r)
    \/ Failed(r)
    \/ SendRequest(r)

Next ==
    \/ \E r \in Requests :
           \/ Start(r)
           \/ Continue(r)
           \/ StopSending(r)
           \/ Timeout(r)
           \/ ProcessHeader(r)
           \/ ResponseDone(r)
           \/ ResponseEnds(r)
           \/ Abort(r)
           \/ ClientCloses(r)
    \/ \E w \in Workers : KeepaliveClose(w) \/ Crash(w)
    \/ \E p \in Servers : Expire(p)

Spec == Init /\ [][Next]_vars

(***************************************************************************)
(* A handler that runs goes on, and until a response header is passed on   *)
(* the timers of the connection fire: every turn of the event loop expires *)
(* the timers that are due, and no handler before that point arms the read *)
(* timer again.  Nothing is assumed of the servers and the clients.        *)
(***************************************************************************)
Fairness ==
    \A r \in Requests :
        /\ WF_vars(at[r] \in Running /\ Continue(r))
        /\ WF_vars(~headerSent[r] /\ Timeout(r))

FairSpec == Spec /\ Fairness

-----------------------------------------------------------------------------
(* The range of every variable. *)
TypeOK ==
    /\ home \in Homes
    /\ fails \in [Servers -> Nat] /\ conns \in [Servers -> Nat]
    /\ effective \in [Servers -> Nat] /\ current \in [Servers -> Int]
    /\ recent \in [Servers -> BOOLEAN] /\ probed \in [Servers -> BOOLEAN]
    /\ at \in [Requests -> Running \cup Suspended \cup {"idle", "done"}]
    /\ onBackup \in [Requests -> BOOLEAN]
    /\ tried \in [Requests -> SUBSET Servers]
    /\ holds \in [Requests -> Servers \cup {None}]
    /\ conn \in [Requests -> 0 .. PoolSize]
    /\ cached \in [Requests -> BOOLEAN] /\ tries \in [Requests -> Nat]
    /\ sent \in [Requests -> BOOLEAN] /\ gone \in [Requests -> BOOLEAN]
    /\ reached \in [Requests -> Nat] /\ fresh \in [Requests -> Nat]
    /\ cache \in [Workers -> Seq([conn : 1 .. PoolSize, server : Servers])]
    /\ open \in [Workers -> SUBSET (1 .. PoolSize)]
    /\ headerSent \in [Requests -> BOOLEAN]
    /\ leaked \in [Servers -> Nat] /\ crashes \in 0 .. MaxCrashes

(***************************************************************************)
(* The number of connections of a server in the zone is the number of      *)
(* requests that use it, in all workers, and those that dead workers left  *)
(* behind: whatever way an attempt ends, peer.free is called for it once.  *)
(* A count that drifts would lock a server out by max_conns, or let more   *)
(* requests through than max_conns allows.                                 *)
(***************************************************************************)
ConnsBalanced ==
    \A p \in Servers : conns[p] = Cardinality(Holders(p)) + leaked[p]

(***************************************************************************)
(* Every open upstream connection of a worker belongs to exactly one       *)
(* request or one place in the keepalive cache: none is leaked, and none   *)
(* is used by two requests.                                                *)
(***************************************************************************)
OpenIsOwned ==
    \A w \in Workers :
        LET Users == {r \in Requests : home[r] = w /\ conn[r] # None}
            Kept == DOMAIN cache[w]
        IN  /\ open[w] = {conn[r] : r \in Users} \cup {cache[w][i].conn : i \in Kept}
            /\ Cardinality(open[w]) = Cardinality(Users) + Cardinality(Kept)

(***************************************************************************)
(* "nginx does not pass non-idempotent requests to the next server if a    *)
(* request has been sent to a backend" (CHANGES, 1.9.13), and neither      *)
(* requests whose body is gone: such a request reaches one server only,    *)
(* whichever way the attempts before failed.                               *)
(***************************************************************************)
SentOnce ==
    \A r \in Requests :
        \/ r \in Unbuffered
        \/ r \in NonIdempotent /\ "non_idempotent" \notin NextUpstream
        => reached[r] <= 1

(***************************************************************************)
(* The current weights of a group cancel out whatever servers took part in *)
(* each choice, so none of them drifts away and starves the others.        *)
(***************************************************************************)
WeightsBalanced ==
    \A G \in {Primary, Backup} : MapThenSumSet(LAMBDA p : current[p], G) = 0

(***************************************************************************)
(* Connections made for one request are limited by                         *)
(* proxy_next_upstream_tries although a failure of an idle connection that *)
(* the server had closed gives its try back.                               *)
(***************************************************************************)
AttemptsBounded == \A r \in Requests : fresh[r] <= InitialTries

(***************************************************************************)
(* Every request gets a response header from some server or ends with an   *)
(* error, whatever the servers do: no server that accepts a connection and *)
(* falls silent, in whatever attempt, holds the client up for ever.  (What *)
(* follows the header is not limited in time: each read arms the timer     *)
(* again.  And an unbuffered body may go on for ever.)                     *)
(***************************************************************************)
RequestAnswered ==
    \A r \in Requests \ Unbuffered :
        at[r] # "idle" ~> headerSent[r] \/ at[r] = "done"
=============================================================================
