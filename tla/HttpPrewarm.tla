----------------------------- MODULE HttpPrewarm -----------------------------
(***************************************************************************)
(* HTTP connection prewarming and host failover of pnetlibs.c.            *)
(*                                                                         *)
(* psync_http_connect_and_cache_host(host) puts a node for the host into   *)
(* connect_cache_tree, a binary tree ordered by host name, and starts a    *)
(* thread (connect_cache_thread) that dials the host.  When the dial ends  *)
(* the thread takes the node out of the tree and either hands the socket   *)
(* to a thread waiting on the node or adds it to pcache under the key      *)
(* "HTTP<usessl>-<host>".  psync_http_connect_multihost tries, host by     *)
(* host, a cached socket, then a dial in flight (waiting on it), then a    *)
(* fresh dial; psync_http_close puts a reusable socket back into pcache.   *)
(* Every tree operation runs under connect_cache_mutex.                    *)
(*                                                                         *)
(* The tree is its in-order sequence: hosts ascending, a node added "after *)
(* e" right behind e.  A search for a host stops at the first node of that *)
(* host on its path, which may be any of the host's nodes, so it is a     *)
(* choice among them.  A socket is the pair <<usessl, host>> it was dialled *)
(* with; a cache key is the pair its string encodes.  pcache (outside      *)
(* src/) keeps at most MAXIDLE sockets a key, dropping the oldest, and may *)
(* hand out any of them.                                                   *)
(***************************************************************************)
EXTENDS Integers, Sequences, SequencesExt, FiniteSets

CONSTANTS
  Hosts,          \* host names, as numbers in strcmp order
  HostList,       \* the hosts array each caller passes, in order
  Callers,        \* threads calling psync_http_connect_multihost
  Nodes,          \* connect_cache_tree_node_t identities
  MAXIDLE,        \* PSYNC_MAX_IDLE_HTTP_CONNS
  CONNECT_FAILS,  \* whether psock_connect may fail
  PrewarmHosts,   \* the hosts psync_http_connect_and_cache_host is called for
  MaxPrewarm,     \* bound on psync_http_connect_and_cache_host calls
  MaxToggles,     \* bound on changes of the usessl setting
  MaxCalls        \* bound on calls per caller

NULL == <<"NULL">>
NoNode == 0
Sockets == BOOLEAN \X Hosts
Keys == BOOLEAN \X Hosts
Dials == IF CONNECT_FAILS THEN {TRUE, FALSE} ELSE {TRUE}

VARIABLES
  usessl,     \* the usessl setting
  tree,       \* connect_cache_tree, in order
  node,       \* each node: host, usessl, haswaiter, ready, res and its thread
  cache,      \* pcache: the sockets under each key, oldest first
  prewarms,   \* psync_http_connect_and_cache_host calls so far
  toggles,    \* changes of the usessl setting so far
  cpc,        \* each caller's place in psync_http_connect_multihost
  ci,         \* its loop index i
  cssl,       \* its local usessl
  cnode,      \* the node it waits on
  got,        \* the socket it holds
  chost,      \* the host of that socket (*host)
  cfrom,      \* the call is psync_http_connect_multihost_from_cache
  calls       \* calls so far per caller

vars == <<usessl, toggles, tree, node, cache, prewarms, cpc, ci, cssl, cnode, got,
          chost, cfrom, calls>>
callerVars == <<cpc, ci, cssl, cnode, got, chost, cfrom, calls>>

FreeNode == [host |-> 0, ssl |-> FALSE, haswaiter |-> FALSE, ready |-> FALSE,
             res |-> NULL, st |-> "unused"]

TypeOK ==
  /\ usessl \in BOOLEAN
  /\ tree \in Seq(Nodes) /\ Len(tree) <= Cardinality(Nodes)
  /\ \A n \in Nodes :
       /\ node[n].st \in {"unused", "dial", "connected", "handed"}
       /\ node[n].res \in Sockets \cup {NULL}
  /\ cache \in [Keys -> Seq(Sockets)]
  /\ cpc \in [Callers -> {"idle", "cache", "wait", "waiting", "dial", "use"}]
  /\ cnode \in [Callers -> Nodes \cup {NoNode}]
  /\ got \in [Callers -> Sockets \cup {NULL}]

Init ==
  /\ usessl \in BOOLEAN
  /\ tree = <<>>
  /\ node = [n \in Nodes |-> FreeNode]
  /\ cache = [k \in Keys |-> <<>>]
  /\ prewarms = 0
  /\ toggles = 0
  /\ cpc = [c \in Callers |-> "idle"]
  /\ ci = [c \in Callers |-> 1]
  /\ cssl = [c \in Callers |-> FALSE]
  /\ cnode = [c \in Callers |-> NoNode]
  /\ got = [c \in Callers |-> NULL]
  /\ chost = [c \in Callers |-> 0]
  /\ cfrom = [c \in Callers |-> FALSE]
  /\ calls = [c \in Callers |-> 0]

-----------------------------------------------------------------------------
(* The tree.                                                               *)

\* The positions of the host's nodes: where a search for it may stop.
Found(h) == {i \in DOMAIN tree : node[tree[i]].host = h}

\* The in-order position a new host takes: behind every smaller host.
SortedPos(h) == Cardinality({i \in DOMAIN tree : node[tree[i]].host < h}) + 1

(* connect_cache_neighbour_is_free_duplicate(e, host): walk              *)
(* ptree_get_next from e, then ptree_get_prev, while the host is the same, *)
(* and return the first node nobody waits on.                              *)
RECURSIVE FwdFree(_, _), BwdFree(_, _)
FwdFree(i, h) ==
  IF i > Len(tree) \/ node[tree[i]].host # h THEN NoNode
  ELSE IF ~node[tree[i]].haswaiter THEN tree[i] ELSE FwdFree(i + 1, h)
BwdFree(i, h) ==
  IF i < 1 \/ node[tree[i]].host # h THEN NoNode
  ELSE IF ~node[tree[i]].haswaiter THEN tree[i] ELSE BwdFree(i - 1, h)
NeighbourFree(i, h) ==
  IF FwdFree(i + 1, h) # NoNode THEN FwdFree(i + 1, h) ELSE BwdFree(i - 1, h)

\* Mutant: a dial already counts as in progress only through a duplicate.
AlreadyDialling_NoOwn(i, h) == NeighbourFree(i, h) # NoNode

\* The test of psync_http_connect_and_cache_host on the node e found:
\* !node->haswaiter || connect_cache_neighbour_is_free_duplicate(e, host).
AlreadyDialling(i, h) ==
  ~node[tree[i]].haswaiter \/ NeighbourFree(i, h) # NoNode

\* Mutant: the waiter takes the node found even when another waits on it.
WaitTarget_NoDup(i, h) == tree[i]

\* The node connect_cache_wait_for_http_connection waits on when its
\* search stops at e: e if nobody waits on it, else a free duplicate.
WaitTarget(i, h) ==
  IF ~node[tree[i]].haswaiter THEN tree[i] ELSE NeighbourFree(i, h)

\* pcache_add(key, sock, ..., PSYNC_MAX_IDLE_HTTP_CONNS).
CacheAdd(k, s) ==
  LET q == Append(cache[k], s)
  IN [cache EXCEPT ![k] = IF Len(q) > MAXIDLE THEN Tail(q) ELSE q]

-----------------------------------------------------------------------------
(* Prewarming and the dial thread.                                         *)

\* connect_cache_create_node: the node reads the usessl setting.
NewNode(h) == [FreeNode EXCEPT !.host = h, !.ssl = usessl, !.st = "dial"]

(* psync_http_connect_and_cache_host(h), under the mutex: a host not in  *)
(* the tree gets a node at its sorted place; at a node e of the host,     *)
(* nothing is started when a dial is already in progress, else a new node *)
(* goes right after e.  prun_thread1 starts the node's dial thread.        *)
ConnectAndCacheHost(h) ==
  /\ prewarms < MaxPrewarm
  /\ prewarms' = prewarms + 1
  /\ \E n \in {m \in Nodes : node[m].st = "unused"} :
       \/ /\ Found(h) = {}
          /\ tree' = InsertAt(tree, SortedPos(h), n)
          /\ node' = [node EXCEPT ![n] = NewNode(h)]
       \/ \E i \in Found(h) :
            IF AlreadyDialling(i, h)
              THEN UNCHANGED <<tree, node>>
              ELSE /\ tree' = InsertAt(tree, i + 1, n)
                   /\ node' = [node EXCEPT ![n] = NewNode(h)]
  /\ UNCHANGED <<usessl, toggles, cache, callerVars>>

\* connect_cache_thread: psock_connect(host, usessl ? 443 : 80, usessl),
\* outside the mutex.
Connect(n) ==
  /\ node[n].st = "dial"
  /\ \E ok \in Dials :
       node' = [node EXCEPT ![n].st = "connected",
                  ![n].res = IF ok THEN <<node[n].ssl, node[n].host>> ELSE NULL]
  /\ UNCHANGED <<usessl, toggles, tree, cache, prewarms, callerVars>>

\* Mutant: the thread caches the socket under the setting as it is now.
CacheKey_Now(n) == <<usessl, node[n].host>>

\* "HTTP%d-%s" with node->usessl and node->host.
CacheKey(n) == <<node[n].ssl, node[n].host>>

\* *node->res = sock; node->ready = 1; pthread_cond_signal.
HandOver(n) == [node EXCEPT ![n].ready = TRUE, ![n].st = "handed"]

\* Mutant: the thread caches the result without testing it.
Deposit_NoNullCheck(n) == CacheAdd(CacheKey(n), node[n].res)

\* if (sock) pcache_add(cachekey, sock, 25, ...).
Deposit(n) ==
  IF node[n].res # NULL THEN CacheAdd(CacheKey(n), node[n].res) ELSE cache

(* connect_cache_thread under the mutex: ptree_del; a waiter gets the     *)
(* result (it frees the node); otherwise a socket goes into pcache and    *)
(* the node is freed.                                                      *)
Deliver(n) ==
  /\ node[n].st = "connected"
  /\ tree' = SelectSeq(tree, LAMBDA m : m # n)
  /\ IF node[n].haswaiter
       THEN /\ node' = HandOver(n)
            /\ UNCHANGED cache
       ELSE /\ node' = [node EXCEPT ![n] = FreeNode]
            /\ cache' = Deposit(n)
  /\ UNCHANGED <<usessl, toggles, prewarms, callerVars>>

-----------------------------------------------------------------------------
(* Callers.  The phases of psync_http_connect_multihost: "cache" (pcache  *)
(* per host), "wait" (connect_cache_wait_for_http_connection per host),   *)
(* "dial" (psock_connect per host), then "use" until psync_http_close.    *)
(* psync_http_connect_multihost_from_cache is the "cache" phase alone.    *)

\* psync_setting_get_bool(_PS(usessl)) and the first loop.
Start(c) ==
  /\ cpc[c] = "idle" /\ calls[c] < MaxCalls
  /\ \E only \in BOOLEAN :
       /\ cfrom' = [cfrom EXCEPT ![c] = only]
       /\ cpc' = [cpc EXCEPT ![c] = "cache"]
  /\ cssl' = [cssl EXCEPT ![c] = usessl]
  /\ ci' = [ci EXCEPT ![c] = 1]
  /\ calls' = [calls EXCEPT ![c] = @ + 1]
  /\ UNCHANGED <<usessl, toggles, tree, node, cache, prewarms, cnode, got, chost>>

\* Hold the socket s to host h.
Take(c, s, h) ==
  /\ got' = [got EXCEPT ![c] = s]
  /\ chost' = [chost EXCEPT ![c] = h]
  /\ cpc' = [cpc EXCEPT ![c] = "use"]

Next1(c) == ci' = [ci EXCEPT ![c] = @ + 1]

(* One pass of the first loop: pcache_get("HTTP<usessl>-<host>"); a      *)
(* broken socket is closed and the loop goes on.  Past the last host,     *)
(* the _from_cache variant returns NULL and the other goes on waiting.    *)
CacheStep(c) ==
  /\ cpc[c] = "cache"
  /\ IF ci[c] > Len(HostList[c])
       THEN /\ cpc' = [cpc EXCEPT ![c] = IF cfrom[c] THEN "idle" ELSE "wait"]
            /\ ci' = [ci EXCEPT ![c] = 1]
            /\ UNCHANGED <<cache, got, chost>>
       ELSE LET k == <<cssl[c], HostList[c][ci[c]]>> IN
            \/ /\ cache[k] = <<>>
               /\ Next1(c) /\ UNCHANGED <<cpc, cache, got, chost>>
            \/ \E j \in DOMAIN cache[k], broken \in BOOLEAN :
                 /\ cache' = [cache EXCEPT ![k] = RemoveAt(@, j)]
                 /\ IF broken
                      THEN Next1(c) /\ UNCHANGED <<cpc, got, chost>>
                      ELSE Take(c, cache[k][j], HostList[c][ci[c]]) /\ UNCHANGED ci
  /\ UNCHANGED <<usessl, toggles, tree, node, prewarms, cssl, cnode, cfrom, calls>>

(* connect_cache_wait_for_http_connection(host, usessl), under the mutex: *)
(* at the node e the search stops at, take e if nobody waits on it, else  *)
(* its free duplicate; wait on it only if it dials with the caller's      *)
(* usessl, otherwise return NULL and try the next host.  Past the last    *)
(* host the dial phase starts.                                             *)
WaitStep(c) ==
  /\ cpc[c] = "wait"
  /\ IF ci[c] > Len(HostList[c])
       THEN /\ cpc' = [cpc EXCEPT ![c] = "dial"]
            /\ ci' = [ci EXCEPT ![c] = 1]
            /\ UNCHANGED <<node, cnode>>
       ELSE LET h == HostList[c][ci[c]]
                Pick(i) == WaitTarget(i, h)
            IN \/ /\ Found(h) = {}
                  /\ Next1(c) /\ UNCHANGED <<cpc, node, cnode>>
               \/ \E i \in Found(h) :
                    IF Pick(i) # NoNode /\ node[Pick(i)].ssl = cssl[c]
                      THEN /\ node' = [node EXCEPT ![Pick(i)].haswaiter = TRUE]
                           /\ cnode' = [cnode EXCEPT ![c] = Pick(i)]
                           /\ cpc' = [cpc EXCEPT ![c] = "waiting"]
                           /\ UNCHANGED ci
                      ELSE Next1(c) /\ UNCHANGED <<cpc, node, cnode>>
  /\ UNCHANGED <<usessl, toggles, tree, cache, prewarms, cssl, got, chost, cfrom, calls>>

(* The waiter wakes with ready set, unlocks and frees the node; a socket  *)
(* is the result, NULL sends the loop on to the next host.                *)
WaitDone(c) ==
  /\ cpc[c] = "waiting"
  /\ node[cnode[c]].ready
  /\ node' = [node EXCEPT ![cnode[c]] = FreeNode]
  /\ cnode' = [cnode EXCEPT ![c] = NoNode]
  /\ IF node[cnode[c]].res # NULL
       THEN Take(c, node[cnode[c]].res, HostList[c][ci[c]]) /\ UNCHANGED ci
       ELSE /\ cpc' = [cpc EXCEPT ![c] = "wait"]
            /\ Next1(c) /\ UNCHANGED <<got, chost>>
  /\ UNCHANGED <<usessl, toggles, tree, cache, prewarms, cssl, cfrom, calls>>

(* The third loop: psock_connect to each host in turn with the caller's   *)
(* usessl; when all fail, ptimer_notify_exception and return NULL.        *)
DialStep(c) ==
  /\ cpc[c] = "dial"
  /\ IF ci[c] > Len(HostList[c])
       THEN /\ cpc' = [cpc EXCEPT ![c] = "idle"]
            /\ UNCHANGED <<ci, got, chost>>
       ELSE \E ok \in Dials :
              IF ok THEN Take(c, <<cssl[c], HostList[c][ci[c]]>>, HostList[c][ci[c]])
                         /\ UNCHANGED ci
              ELSE Next1(c) /\ UNCHANGED <<cpc, got, chost>>
  /\ UNCHANGED <<usessl, toggles, tree, node, cache, prewarms, cssl, cnode, cfrom, calls>>

(* psync_http_close: a keep-alive socket whose response was read to the  *)
(* end goes into pcache under the cachekey the connect built; any other   *)
(* is closed.                                                              *)
Close(c) ==
  /\ cpc[c] = "use"
  /\ \E keep \in BOOLEAN :
       cache' = IF keep THEN CacheAdd(<<cssl[c], chost[c]>>, got[c]) ELSE cache
  /\ cpc' = [cpc EXCEPT ![c] = "idle"]
  /\ got' = [got EXCEPT ![c] = NULL]
  /\ UNCHANGED <<usessl, toggles, tree, node, prewarms, ci, cssl, cnode, chost, cfrom, calls>>

\* psync_setting_set_bool(_PS(usessl), ...).
SetUsessl ==
  /\ toggles < MaxToggles
  /\ toggles' = toggles + 1
  /\ usessl' = ~usessl
  /\ UNCHANGED <<tree, node, cache, prewarms, callerVars>>

\* pcache drops an entry whose keep-alive time ran out.
Expire(k, j) ==
  /\ j \in DOMAIN cache[k]
  /\ cache' = [cache EXCEPT ![k] = RemoveAt(@, j)]
  /\ UNCHANGED <<usessl, toggles, tree, node, prewarms, callerVars>>

CallerStep(c) ==
  Start(c) \/ CacheStep(c) \/ WaitStep(c) \/ WaitDone(c) \/ DialStep(c) \/ Close(c)

DialThread(n) == Connect(n) \/ Deliver(n)

Next ==
  \/ \E h \in PrewarmHosts : ConnectAndCacheHost(h)
  \/ \E n \in Nodes : DialThread(n)
  \/ \E c \in Callers : CallerStep(c)
  \/ SetUsessl
  \/ \E k \in Keys, j \in 1 .. MAXIDLE : Expire(k, j)

(* The dial thread and the callers are threads the scheduler runs; a dial *)
(* ends (psock_connect times out).                                         *)
Fairness ==
  /\ \A n \in Nodes : WF_vars(DialThread(n))
  /\ \A c \in Callers : WF_vars(CallerStep(c) /\ cpc[c] # "idle")

Spec == Init /\ [][Next]_vars /\ Fairness

-----------------------------------------------------------------------------
(* Properties.                                                             *)

(* connect_cache_wait_for_http_connection points node->res and node->cond *)
(* at its own stack; a second waiter on the same node would overwrite them *)
(* and the first would never be signalled.  So no two threads ever wait   *)
(* on one dial, whatever the prewarms, dials and waits interleave.         *)
OneWaiterPerNode ==
  \A c, d \in Callers :
    c # d /\ cpc[c] = "waiting" /\ cpc[d] = "waiting" => cnode[c] # cnode[d]

(* Every socket in pcache is kept under the key of its own host and TLS   *)
(* mode, and every caller of psync_http_connect_multihost holds a socket  *)
(* to the host it returns in *host, in the usessl it read: whether the    *)
(* socket came from the cache, from a dial thread started under another   *)
(* setting, or from its own dial, and however often the setting changes. *)
SocketsMatchKeys ==
  /\ \A k \in Keys : \A j \in DOMAIN cache[k] : cache[k][j] = k
  /\ \A c \in Callers : cpc[c] = "use" => got[c] = <<cssl[c], chost[c]>>

(* psync_http_connect_and_cache_host starts no second dial to a host while *)
(* one nobody waits on is still in flight ("already in progress"): in the *)
(* tree each host has at most one node without a waiter.                   *)
OneFreeDialPerHost ==
  \A h \in Hosts :
    Cardinality({i \in Found(h) : ~node[tree[i]].haswaiter}) <= 1

=============================================================================
