------------------------------ MODULE Resolver ------------------------------
(***************************************************************************)
(* The asynchronous DNS resolver of a process (core/ngx_resolver.c).       *)
(* Lookups of one name or address share a node: the first one sends the    *)
(* query, the others join its list of waiting contexts, and the node stays *)
(* in the cache after the answer.  Answers come late, twice or never, one  *)
(* for each address family; timers resend queries, time lookups out and    *)
(* expire the cache, and callers give lookups up at any moment.            *)
(*                                                                         *)
(* A process runs one event handler at a time, so an event is one action,  *)
(* but for two things that take a step each, with no event in between: the *)
(* calls of ngx_resolve_name_locked() along aliases (CNAME), and the calls *)
(* of the contexts' handlers, in a loop over a list that was taken from    *)
(* the node.  A handler ends its context.  It may also finish the request, *)
(* even terminate the main request, and that ends the lookups of all its   *)
(* subrequests, contexts that the loop has still to come to included.      *)
(* Lookups that a handler starts are taken as started after the loop.      *)
(*                                                                         *)
(* An answer to a query other than the node's current one is dropped for   *)
(* its wrong ident and has no step; neither have answers that cannot be    *)
(* parsed.  A query that could not be sent is one that is never answered.  *)
(* SRV lookups are left out: no caller asks for a service.                 *)
(***************************************************************************)
EXTENDS Integers, Sequences, SequencesExt, FiniteSets

CONSTANTS
    Lookups,        \* resolver contexts; one that has ended can be used again
    Untimed,        \* the lookups whose resolver_timeout is 0
    Main,           \* the main request that each lookup is for
    Names,          \* host names
    Addrs,          \* addresses to find the name of
    MayAsk,         \* what each lookup may be about
    Target,         \* the name that a name may be an alias of
    Long,           \* names with answers that may be too long for UDP
    Malformed,      \* names for which no query can be made
    Families,       \* address families of the directive: "A", "AAAA"
    MaxRecursion,   \* NGX_RESOLVER_MAX_RECURSION
    None,
    MaxErrors       \* bound on failing allocations

ASSUME KeysAssumption ==
    /\ Names \cap Addrs = {} /\ None \notin Names \cup Addrs
    /\ Malformed \subseteq Names /\ Long \subseteq Names
    /\ Target \in [Names -> Names]
    /\ MayAsk \in [Lookups -> SUBSET (Names \cup Addrs)]
ASSUME LookupsAssumption ==
    /\ Untimed \subseteq Lookups
    /\ DOMAIN Main = Lookups
    /\ None \notin Lookups
ASSUME FamiliesAssumption == Families # {} /\ Families \subseteq {"A", "AAAA"}
ASSUME BoundsAssumption == MaxRecursion \in Nat /\ MaxErrors \in Nat

VARIABLES
    node,       \* the nodes of the trees, by name or address
    resend,     \* resend queue of the names and of the addresses
    expire,     \* expire queues
    old,        \* nodes whose time in the expire queue is over
    ctx,        \* the contexts
    timer,      \* r->event->timer_set: the resend timer
    call,       \* the call of ngx_resolve_name_locked() in progress
    answers,    \* the contexts that a loop has still to hand its answer to
    handler,    \* the context whose handler the loop called last
    errors

vars == <<node, resend, expire, old, ctx, timer, call, answers, handler, errors>>
loop == <<answers, handler>>

Keys == Names \cup Addrs
Kinds == {"name", "addr"}
Kind(k) == IF k \in Names THEN "name" ELSE "addr"

(***************************************************************************)
(* query: rn->query # NULL; fam: what is known of each family, "pending"   *)
(* for the value -1 of naddrs; code: an error was reported for one family; *)
(* tcp: open families asked for over TCP; valid: "no", "fresh", "stale".   *)
(***************************************************************************)
Node == [query : BOOLEAN, fam : [{"A", "AAAA"} -> {"pending", "none", "some"}],
         code : BOOLEAN, tcp : SUBSET {"A", "AAAA"},
         valid : {"no", "fresh", "stale"}, cname : Names \cup {None},
         waiting : Seq(Lookups)]

ASSUME NoneAssumption == None \notin Node

NewNode(cs) ==
    [query |-> TRUE,
     fam |-> [f \in {"A", "AAAA"} |-> IF f \in Families THEN "pending" ELSE "none"],
     code |-> FALSE, tcp |-> {}, valid |-> "no", cname |-> None, waiting |-> cs]

Context == [live : BOOLEAN, node : Keys \cup {None}, kind : Kinds,
            timed : BOOLEAN, recursion : 0 .. MaxRecursion]
Idle == [live |-> FALSE, node |-> None, kind |-> "name", timed |-> FALSE,
         recursion |-> 0]

Init ==
    /\ node = [k \in Keys |-> None]
    /\ resend = [d \in Kinds |-> <<>>]
    /\ expire = [d \in Kinds |-> <<>>]
    /\ old = {}
    /\ ctx = [c \in Lookups |-> Idle]
    /\ timer = FALSE
    /\ call = None
    /\ answers = <<>>
    /\ handler = None
    /\ errors = 0

(* No function of the resolver is running: an event may be handled. *)
Quiet == call = None /\ answers = <<>>

-----------------------------------------------------------------------------
(* Queues *)

(* The list or queue q without x, which is in it once or not at all. *)
Without(q, x) ==
    IF x \notin ToSet(q) THEN q
    ELSE RemoveAt(q, CHOOSE i \in DOMAIN q : q[i] = x)

(* ngx_queue_remove(), also of a node that is in none of them *)
Removed(queues, k) == [queues EXCEPT ![Kind(k)] = Without(@, k)]

(* ngx_queue_remove() and ngx_queue_insert_head() *)
AtHead(queues, k) == [queues EXCEPT ![Kind(k)] = <<k>> \o Without(@, k)]

(* ngx_resolver_resend_empty() *)
ResendEmpty(queues) == \A d \in Kinds : queues[d] = <<>>

(* The node and the queues, after which the contexts cs are answered. *)
HandOut(cs, nodes, waits, rests, aged) ==
    /\ node' = nodes
    /\ resend' = waits
    /\ expire' = rests
    /\ old' = aged
    /\ answers' = cs
    /\ UNCHANGED <<ctx, timer, handler>>

(* Variant: only the queue of the names is looked at. *)
TimerLeftNames == timer /\ resend["name"] # <<>>

(* The resend timer is stopped with the last node to be sent again. *)
TimerLeft == timer /\ ~ResendEmpty(resend)

(***************************************************************************)
(* The end of ngx_resolve_name_done() and ngx_resolve_addr_done(): at most *)
(* two nodes are expired, from the end of the queue, and the context is    *)
(* freed.  nodes are the trees at that time.                               *)
(***************************************************************************)
Done(c, nodes) ==
    LET d    == ctx[c].kind
        q    == expire[d]
        over == {i \in DOMAIN q : i > Len(q) - 2 /\ q[i] \in old}
        gone == {q[i] : i \in over}
    IN  /\ node' = [k \in Keys |-> IF k \in gone THEN None ELSE nodes[k]]
        /\ expire' = [expire EXCEPT ![d] = SubSeq(q, 1, Len(q) - Cardinality(over))]
        /\ old' = old \ gone
        /\ ctx' = [ctx EXCEPT ![c] = Idle]
        /\ timer' = TimerLeft
        /\ UNCHANGED resend

(* ngx_resolver_set_timeout(), for the head of the list. *)
Timed(c) == [ctx[c] EXCEPT !.timed = c \notin Untimed]

-----------------------------------------------------------------------------
(* ngx_resolve_name_locked() and ngx_resolve_addr() *)

Cached(k) == node[k] # None /\ node[k].valid = "fresh"
Shared(k) == node[k] # None /\ ~Cached(k) /\ node[k].waiting # <<>>

(* ngx_resolve_start() and ngx_resolve_name() or ngx_resolve_addr(). *)
Start(c, k) ==
    /\ Quiet
    /\ ~ctx[c].live
    /\ k \in MayAsk[c]
    /\ ctx' = [ctx EXCEPT ![c] = [Idle EXCEPT !.live = TRUE, !.kind = Kind(k)]]
    /\ call' = [list |-> <<c>>, key |-> k, top |-> TRUE]
    /\ UNCHANGED <<node, resend, expire, old, timer, loop, errors>>

Calls(k) == call # None /\ k = call.key

(* The answer is in the cache: addresses, or the name of an address. *)
ResolveCached(k) ==
    /\ Calls(k) /\ Cached(k)
    /\ node[k].cname = None
    /\ HandOut(call.list \o node[k].waiting, [node EXCEPT ![k].waiting = <<>>],
               resend, AtHead(expire, k), old \ {k})
    /\ call' = None
    /\ UNCHANGED errors

(* The cache has an alias: once more, with its target. *)
ResolveCname(k) ==
    /\ Calls(k) /\ Cached(k)
    /\ node[k].cname # None
    /\ LET c == Head(call.list)
       IN  \/ /\ ctx[c].recursion < MaxRecursion
              /\ ctx' = [ctx EXCEPT ![c].recursion = @ + 1]
              /\ call' = [call EXCEPT !.key = node[k].cname]
              /\ expire' = AtHead(expire, k)
              /\ old' = old \ {k}
              /\ UNCHANGED <<node, resend, timer, loop, errors>>
           \/ /\ ctx[c].recursion >= MaxRecursion
              /\ HandOut(call.list \o node[k].waiting,
                         [node EXCEPT ![k].waiting = <<>>],
                         resend, AtHead(expire, k), old \ {k})
              /\ call' = None
              /\ UNCHANGED errors

Waits(cs, k) ==
    ctx' = [c \in Lookups |->
              IF c \notin ToSet(cs) THEN ctx[c]
              ELSE [(IF c = Head(cs) THEN Timed(c) ELSE ctx[c]) EXCEPT !.node = k]]

(* Variant: a context that joins a list gets no timer of its own. *)
ResolveJoinUntimed(k) ==
    /\ Calls(k) /\ Shared(k)
    /\ node' = [node EXCEPT ![k].waiting = call.list \o @]
    /\ ctx' = [c \in Lookups |-> IF c \in ToSet(call.list)
                                 THEN [ctx[c] EXCEPT !.node = k] ELSE ctx[c]]
    /\ call' = None
    /\ UNCHANGED <<resend, expire, old, timer, loop, errors>>

(* The query is under way for another context. *)
ResolveJoin(k) ==
    /\ Calls(k) /\ Shared(k)
    /\ node' = [node EXCEPT ![k].waiting = call.list \o @]
    /\ Waits(call.list, k)
    /\ call' = None
    /\ UNCHANGED <<resend, expire, old, timer, loop, errors>>

(* A new query for a node that is new, stale or that nobody waits for. *)
ResolveQuery(k) ==
    /\ Calls(k) /\ ~Cached(k) /\ ~Shared(k)
    /\ k \notin Malformed
    /\ node' = [node EXCEPT ![k] = NewNode(call.list)]
    /\ timer' = (timer \/ ResendEmpty(Removed(resend, k)))
    /\ resend' = AtHead(resend, k)
    /\ expire' = Removed(expire, k)
    /\ old' = old \ {k}
    /\ Waits(call.list, k)
    /\ call' = None
    /\ UNCHANGED <<loop, errors>>

(* ngx_resolver_create_name_query() declines the name: it does not exist. *)
ResolveMalformed(k) ==
    /\ Calls(k) /\ ~Cached(k) /\ ~Shared(k)
    /\ k \in Malformed
    /\ HandOut(call.list, [node EXCEPT ![k] = None],
               Removed(resend, k), Removed(expire, k), old \ {k})
    /\ call' = None
    /\ UNCHANGED errors

(***************************************************************************)
(* An allocation fails.  The caller of ngx_resolve_name() is told and the  *)
(* lookup is over (ngx_resolve_addr() forgets to free the context when it  *)
(* was to join a list); contexts that came here through an alias in an     *)
(* answer are left to their timers.                                        *)
(***************************************************************************)
ResolveFails(k) ==
    /\ Calls(k)
    /\ errors < MaxErrors
    /\ errors' = errors + 1
    /\ \/ /\ Cached(k) /\ node[k].cname = None
          /\ expire' = AtHead(expire, k)
          /\ old' = old \ {k}
          /\ UNCHANGED <<node, resend>>
       \/ /\ Shared(k)
          /\ ~ctx[Head(call.list)].timed /\ Head(call.list) \notin Untimed
          /\ UNCHANGED <<node, resend, expire, old>>
       \/ /\ ~Cached(k) /\ ~Shared(k)
          /\ node' = [node EXCEPT ![k] = None]
          /\ resend' = Removed(resend, k)
          /\ expire' = Removed(expire, k)
          /\ old' = old \ {k}
    /\ ctx' = IF call.top THEN [ctx EXCEPT ![Head(call.list)] = Idle] ELSE ctx
    /\ call' = None
    /\ UNCHANGED <<timer, loop>>

Resolve(k) ==
    \/ ResolveCached(k) \/ ResolveCname(k) \/ ResolveJoin(k)
    \/ ResolveQuery(k) \/ ResolveMalformed(k) \/ ResolveFails(k)

-----------------------------------------------------------------------------
(* Answers: ngx_resolver_process_a() *)

(* An answer with the right ident to a query for family f. *)
Expected(k, f) ==
    /\ Quiet
    /\ node[k] # None /\ node[k].query
    /\ node[k].fam[f] = "pending"

(* Variant: the node stays where it is in the queue as well. *)
NameTruncatedTwice(k, f) ==
    /\ Expected(k, f)
    /\ k \in Long /\ f \notin node[k].tcp
    /\ node[k].waiting # <<>>
    /\ node' = [node EXCEPT ![k].tcp = @ \cup {f}]
    /\ resend' = [resend EXCEPT !["name"] = <<k>> \o @]
    /\ UNCHANGED <<expire, old, ctx, timer, call, loop, errors>>

(* A truncated answer over UDP: the query is sent again over TCP. *)
NameTruncated(k, f) ==
    /\ Expected(k, f)
    /\ k \in Long /\ f \notin node[k].tcp
    /\ \/ /\ node[k].waiting = <<>>
          /\ node' = [node EXCEPT ![k] = None]
          /\ resend' = Removed(resend, k)
       \/ /\ node[k].waiting # <<>>
          /\ node' = [node EXCEPT ![k].tcp = @ \cup {f}]
          /\ resend' = AtHead(resend, k)
    /\ UNCHANGED <<expire, old, ctx, timer, call, loop, errors>>

(***************************************************************************)
(* What an answer says of its family: an error, no record at all, some     *)
(* addresses, an alias only, or no usable record.  An error of the other   *)
(* family, recorded earlier, counts as an error of this answer.            *)
(***************************************************************************)
Replies == {"error", "empty", "addresses", "alias", "useless"}
Failed(k, reply) == reply = "error" \/ node[k].code
Learnt(k, f, reply) ==
    [node[k].fam EXCEPT ![f] =
        IF reply = "addresses" /\ ~Failed(k, reply) THEN "some" ELSE "none"]
Open(fam) == \E f \in DOMAIN fam : fam[f] = "pending"
Found(fam) == \E f \in DOMAIN fam : fam[f] = "some"

Stored(k, f, reply) ==
    /\ node' = [node EXCEPT ![k].fam = Learnt(k, f, reply),
                            ![k].code = Failed(k, reply),
                            ![k].tcp = @ \ {f}]
    /\ UNCHANGED <<resend, expire, old, ctx, timer, call, loop>>

(* The other family is still open. *)
NamePart(k, f, reply) ==
    /\ Expected(k, f)
    /\ Open(Learnt(k, f, reply))
    /\ Stored(k, f, reply)
    /\ UNCHANGED errors

(* Both are answered, with an error or with nothing: the node goes. *)
NameFails(k, f, reply) ==
    LET fam == Learnt(k, f, reply)
    IN  /\ Expected(k, f)
        /\ ~Open(fam)
        /\ Failed(k, reply) \/ (reply = "empty" /\ ~Found(fam))
        /\ HandOut(node[k].waiting, [node EXCEPT ![k] = None],
                   Removed(resend, k), expire, old)
        /\ UNCHANGED <<call, errors>>

(* The node after an answer that the cache keeps. *)
Kept(k, fam, cname) ==
    [node[k] EXCEPT !.fam = fam, !.cname = cname, !.query = FALSE, !.tcp = {},
                    !.valid = "fresh", !.waiting = <<>>]

(* Both are answered and there are addresses (label "export"). *)
NameFound(k, f, reply) ==
    LET fam == Learnt(k, f, reply)
    IN  /\ Expected(k, f)
        /\ ~Open(fam) /\ ~Failed(k, reply) /\ Found(fam)
        /\ \/ /\ HandOut(node[k].waiting, [node EXCEPT ![k] = Kept(k, fam, None)],
                         Removed(resend, k), AtHead(expire, k), old)
              /\ UNCHANGED <<call, errors>>
           \/ /\ errors < MaxErrors
              /\ errors' = errors + 1
              /\ Stored(k, f, reply)

(* Both are answered, nothing is of use: the waiting contexts time out. *)
NameUseless(k, f) ==
    LET fam == Learnt(k, f, "useless")
    IN  /\ Expected(k, f)
        /\ ~Open(fam) /\ ~Failed(k, "useless") /\ ~Found(fam)
        /\ Stored(k, f, "useless")
        /\ UNCHANGED errors

(* Variant: the contexts keep pointing to the node of the alias. *)
DetachedKeep(cs) ==
    [c \in Lookups |-> IF c = Head(cs)
                       THEN [ctx[c] EXCEPT !.recursion = @ + 1] ELSE ctx[c]]

Detached(cs) ==
    [c \in Lookups |->
        IF c \notin ToSet(cs) THEN ctx[c]
        ELSE [ctx[c] EXCEPT !.node = None,
                            !.recursion = IF c = Head(cs) THEN @ + 1 ELSE @]]

MayFollow(cs) == cs # <<>> /\ ctx[Head(cs)].recursion < MaxRecursion

(* Both are answered, the last one with an alias only: it is followed. *)
NameAlias(k, f) ==
    LET fam == Learnt(k, f, "alias")
        cs  == node[k].waiting
    IN  /\ Expected(k, f)
        /\ ~Open(fam) /\ ~Failed(k, "alias") /\ ~Found(fam)
        /\ \/ /\ MayFollow(cs)
              /\ node' = [node EXCEPT ![k] = Kept(k, fam, Target[k])]
              /\ resend' = Removed(resend, k)
              /\ expire' = AtHead(expire, k)
              /\ ctx' = Detached(cs)
              /\ call' = [list |-> cs, key |-> Target[k], top |-> FALSE]
              /\ UNCHANGED <<old, timer, loop>>
           \/ /\ ~MayFollow(cs)
              /\ HandOut(cs, [node EXCEPT ![k] = Kept(k, fam, Target[k])],
                         Removed(resend, k), AtHead(expire, k), old)
              /\ UNCHANGED call
        /\ UNCHANGED errors

NameAnswer(k) ==
    \E f \in Families :
        \/ NameTruncated(k, f)
        \/ \E reply \in Replies : \/ NamePart(k, f, reply)
                                  \/ NameFails(k, f, reply)
                                  \/ NameFound(k, f, reply)
        \/ NameUseless(k, f)
        \/ NameAlias(k, f)

-----------------------------------------------------------------------------
(* Answers: ngx_resolver_process_ptr(), which keeps rn->query, so that the *)
(* answer may be taken again from a late copy.                             *)

AddrExpected(k) == Quiet /\ node[k] # None /\ node[k].query

AddrFound(k) ==
    /\ AddrExpected(k)
    /\ HandOut(node[k].waiting,
               [node EXCEPT ![k].valid = "fresh", ![k].waiting = <<>>],
               Removed(resend, k), AtHead(expire, k), old \ {k})
    /\ UNCHANGED <<call, errors>>

AddrFails(k) ==
    /\ AddrExpected(k)
    /\ HandOut(node[k].waiting, [node EXCEPT ![k] = None],
               Removed(resend, k), Removed(expire, k), old \ {k})
    /\ UNCHANGED <<call, errors>>

-----------------------------------------------------------------------------
(* The loops over the contexts to answer *)

(* ctx = next *)
Advance ==
    /\ answers' = Tail(answers)
    /\ handler' = IF Len(answers) = 1 THEN None ELSE Head(answers)

(* ctx->handler(ctx), which calls ngx_resolve_name_done() for the context. *)
Answer ==
    /\ answers # <<>>
    /\ ctx[Head(answers)].live
    /\ Done(Head(answers), node)
    /\ Advance
    /\ UNCHANGED <<call, errors>>

(***************************************************************************)
(* The context was freed by an earlier handler of the loop.  What is done  *)
(* with it is undefined: the loop gets through, or the process dies and is *)
(* replaced by a new one.                                                  *)
(***************************************************************************)
AnswerFreed ==
    /\ answers # <<>>
    /\ ~ctx[Head(answers)].live
    /\ \/ /\ Advance
          /\ UNCHANGED <<node, resend, expire, old, ctx, timer, call>>
       \/ /\ node' = [k \in Keys |-> None]
          /\ resend' = [d \in Kinds |-> <<>>]
          /\ expire' = [d \in Kinds |-> <<>>]
          /\ old' = {}
          /\ ctx' = [c \in Lookups |-> Idle]
          /\ timer' = FALSE
          /\ call' = None
          /\ answers' = <<>>
          /\ handler' = None
    /\ UNCHANGED errors

-----------------------------------------------------------------------------
(* Timers and callers *)

(***************************************************************************)
(* ngx_resolve_name_done() of a context that was not answered.  One that a *)
(* loop has taken is not in the list of its node any more.                 *)
(***************************************************************************)
Leaves(c) ==
    LET k == ctx[c].node
    IN  /\ Done(c, IF k = None \/ c \in ToSet(answers) THEN node
                   ELSE [node EXCEPT ![k].waiting = Without(@, c)])
        /\ UNCHANGED <<call, loop, errors>>

(* ngx_resolver_timeout_handler() *)
Timeout(c) ==
    /\ Quiet
    /\ ctx[c].live /\ ctx[c].timed
    /\ Leaves(c)

(* The request that waits for the lookup is finished. *)
Cancel(c) ==
    /\ Quiet
    /\ ctx[c].live
    /\ Leaves(c)

(***************************************************************************)
(* The handler that the loop has called terminates its main request, whose *)
(* cleanups give up the lookups of the other subrequests.                  *)
(***************************************************************************)
HandlerCancels(c) ==
    /\ answers # <<>> /\ handler # None
    /\ ctx[c].live
    /\ Main[c] = Main[handler]
    /\ Leaves(c)

(***************************************************************************)
(* ngx_resolver_resend_handler(): in each queue a number of nodes at the   *)
(* end are due.  They are taken from the end one by one: those with        *)
(* contexts are sent again and go to the head, the others are deleted.     *)
(***************************************************************************)
Resend(due) ==
    /\ Quiet
    /\ timer
    /\ LET Part(d, first, last) == SubSeq(resend[d], first, last)
           Fresh(d) == Part(d, 1, Len(resend[d]) - due[d])
           Due(d) == Part(d, Len(resend[d]) - due[d] + 1, Len(resend[d]))
           Again(k, q) == IF node[k].waiting # <<>> THEN <<k>> \o q ELSE q
       IN  /\ resend' = [d \in Kinds |-> FoldRight(Again, Due(d), Fresh(d))]
           /\ node' = [k \in Keys |->
                         IF k \in ToSet(Due(Kind(k))) /\ node[k].waiting = <<>>
                         THEN None ELSE node[k]]
    /\ timer' = ~ResendEmpty(resend')
    /\ UNCHANGED <<expire, old, ctx, call, loop, errors>>

ResendHandler ==
    \E n \in 0 .. Len(resend["name"]), a \in 0 .. Len(resend["addr"]) :
        Resend([name |-> n, addr |-> a])

(* Time goes by: rn->valid of a node, whose addresses or alias are not     *)
(* read again, and rn->expire of the oldest node.                          *)
ValidPasses(k) ==
    /\ Quiet
    /\ Cached(k)
    /\ node' = [node EXCEPT ![k].valid = "stale", ![k].cname = None,
                            ![k].fam = [f \in DOMAIN @ |-> "none"]]
    /\ UNCHANGED <<resend, expire, old, ctx, timer, call, loop, errors>>

ExpirePasses(d) ==
    /\ Quiet
    /\ \E i \in DOMAIN expire[d] :
          /\ expire[d][i] \notin old
          /\ \A j \in DOMAIN expire[d] : j > i => expire[d][j] \in old
          /\ old' = old \cup {expire[d][i]}
    /\ UNCHANGED <<node, resend, expire, ctx, timer, call, loop, errors>>

-----------------------------------------------------------------------------
Next ==
    \/ \E c \in Lookups :
          Timeout(c) \/ Cancel(c) \/ HandlerCancels(c) \/ \E k \in Keys : Start(c, k)
    \/ Answer \/ AnswerFreed
    \/ \E k \in Keys : Resolve(k) \/ ValidPasses(k)
    \/ \E k \in Names : NameAnswer(k)
    \/ \E k \in Addrs : AddrFound(k) \/ AddrFails(k)
    \/ ResendHandler
    \/ \E d \in Kinds : ExpirePasses(d)

Spec == Init /\ [][Next]_vars

(***************************************************************************)
(* Functions return and the timer of a lookup, if it has one, fires;       *)
(* strong fairness, because timers are looked at between events only.      *)
(* Nobody need answer.                                                     *)
(***************************************************************************)
Fairness ==
    /\ WF_vars((\E k \in Keys : Resolve(k)) \/ Answer \/ AnswerFreed)
    /\ \A c \in Lookups \ Untimed : SF_vars(Timeout(c))

FairSpec == Spec /\ Fairness

-----------------------------------------------------------------------------
(* The range of every variable. *)
TypeOK ==
    /\ node \in [Keys -> Node \cup {None}]
    /\ resend \in [Kinds -> Seq(Keys)]
    /\ expire \in [Kinds -> Seq(Keys)]
    /\ old \subseteq Keys
    /\ ctx \in [Lookups -> Context]
    /\ timer \in BOOLEAN
    /\ \/ call = None
       \/ call \in [list : Seq(Lookups), key : Keys, top : BOOLEAN]
    /\ answers \in Seq(Lookups)
    /\ handler \in Lookups \cup {None}
    /\ errors \in 0 .. MaxErrors

(***************************************************************************)
(* A context that points to a node is in the node's list of waiting        *)
(* contexts, once, or in the list that a loop is answering, and in no list *)
(* otherwise: ngx_resolve_name_done() of a context that waits for a node   *)
(* finds it there, and no answer is handed to a context that was given up  *)
(* - unless the context is one of several that a main request has, which   *)
(* the handler of another one may have freed under the loop.               *)
(***************************************************************************)
WaitersListed ==
    /\ \A c \in Lookups, k \in Keys :
          LET places == IF node[k] = None THEN {}
                        ELSE {i \in DOMAIN node[k].waiting : node[k].waiting[i] = c}
          IN  Cardinality(places) =
                IF ctx[c].live /\ ctx[c].node = k /\ c \notin ToSet(answers)
                THEN 1 ELSE 0
    /\ IsInjective(answers)
    /\ \A c \in ToSet(answers) :
          \/ ctx[c].live
          \/ handler # None /\ \E d \in Lookups \ {c} : Main[d] = Main[c]

(***************************************************************************)
(* Every node is in one queue, once: in the resend queue while its answer  *)
(* is not complete, and only there contexts wait for it; in the expire     *)
(* queue with all families answered and addresses or an alias to give.  No *)
(* queue holds a node that was deleted.                                    *)
(***************************************************************************)
QueuesMatch ==
    /\ \A k \in Keys :
          LET places(q) == Cardinality({i \in DOMAIN q[Kind(k)] : q[Kind(k)][i] = k})
              n == node[k]
          IN  IF n = None THEN places(resend) = 0 /\ places(expire) = 0
              ELSE /\ places(resend) = IF n.valid = "no" THEN 1 ELSE 0
                   /\ places(expire) = IF n.valid = "no" THEN 0 ELSE 1
                   /\ n.valid # "no" => n.waiting = <<>>
                   /\ n.valid = "fresh" /\ k \in Names =>
                        /\ ~Open(n.fam)
                        /\ Found(n.fam) # (n.cname # None)
                        /\ ~n.code
    /\ old \subseteq {k \in Keys : node[k] # None /\ node[k].valid # "no"}

(***************************************************************************)
(* While a query may have to be sent again, of a name or of an address,    *)
(* the one timer for all of them is running.                               *)
(***************************************************************************)
ResendArmed == ~ResendEmpty(resend) => timer

(***************************************************************************)
(* Every lookup with a timeout comes to an end, whether or not servers     *)
(* answer, aliases lead in a circle, memory is short or the other lookups  *)
(* that it shares a query with have no timeout.                            *)
(***************************************************************************)
LookupEnds == \A c \in Lookups \ Untimed : ctx[c].live ~> ~ctx[c].live
=============================================================================
