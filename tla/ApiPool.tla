------------------------------ MODULE ApiPool ------------------------------
(***************************************************************************)
(* The API connection pool of pnetlibs.c: the semaphore api_pool_sem that  *)
(* caps the number of open API sockets (in use or idle in the cache), the  *)
(* cache keyed by apikey ("API:" + apiserver), psync_apipool_get with its  *)
(* health check, psync_get_api, psync_apipool_release and _release_bad,    *)
(* psync_apipool_prepare and psync_apipool_set_server.                     *)
(*                                                                         *)
(* The cache (pcache_*, outside src/) is a set of idle sockets with the    *)
(* key each was added under; pcache_get takes any socket of the key, and   *)
(* an entry that reaches its idle timeout is freed with psync_ret_api.     *)
(* A socket is a member of Socks; its peer's address is the server it was  *)
(* dialled to, and its "misc" field the server whose hash it records.      *)
(***************************************************************************)
EXTENDS Naturals, FiniteSets

CONSTANTS
    Threads,          \* threads that make API calls
    Servers,          \* API hosts psync_apipool_set_server may select
    Socks,            \* socket identities
    NoSock,
    MAXACTIVE,        \* PSYNC_APIPOOL_MAXACTIVE, the semaphore's start value
    MAXIDLE,          \* PSYNC_APIPOOL_MAXIDLE, idle sockets per key
    CONNECT_FAILS,    \* papi_connect may fail (network down, DNS, TLS)
    MaxOps            \* bound on requests, server switches and breakages

ASSUME MAXACTIVE \in Nat \ {0} /\ MAXIDLE \in Nat \ {0} /\ MaxOps \in Nat
ASSUME CONNECT_FAILS \in BOOLEAN /\ NoSock \notin Socks

VARIABLES
    sem,       \* the value of api_pool_sem
    apiserver, \* apiserver, and with it apikey
    sstate,    \* each socket: "closed", "active" or "cached"
    peer,      \* the server a socket is connected to
    misc,      \* sock->misc: the server whose hash the socket records
    key,       \* the cache key a cached socket was added under
    broken,    \* the peer closed, TLS setting changed, or bytes pending
    pc,        \* each thread's program counter
    hold,      \* the socket a thread holds
    ops,       \* requests, switches and breakages so far
    lost       \* history: permits taken by a psync_get_api whose connect failed

vars == <<sem, apiserver, sstate, peer, misc, key, broken, pc, hold, ops, lost>>

SockVars == <<sstate, peer, misc, key, broken>>

Cached == {s \in Socks : sstate[s] = "cached"}
CachedUnder(k) == {s \in Cached : key[s] = k}
Open == {s \in Socks : sstate[s] # "closed"}

-----------------------------------------------------------------------------
\* psync_netlibs_init: sem_init(&api_pool_sem, 0, PSYNC_APIPOOL_MAXACTIVE).
Init ==
    /\ sem = MAXACTIVE
    /\ apiserver \in Servers
    /\ sstate = [s \in Socks |-> "closed"]
    /\ peer = [s \in Socks |-> apiserver]
    /\ misc = [s \in Socks |-> apiserver]
    /\ key = [s \in Socks |-> apiserver]
    /\ broken = [s \in Socks |-> FALSE]
    /\ pc = [t \in Threads |-> "idle"]
    /\ hold = [t \in Threads |-> NoSock]
    /\ ops = 0
    /\ lost = 0

\* psync_ret_api: sem_post, then close the socket.
RetApi(s) ==
    /\ sem' = sem + 1
    /\ sstate' = [sstate EXCEPT ![s] = "closed"]
    /\ broken' = [broken EXCEPT ![s] = FALSE]

Goto(t, l) == pc' = [pc EXCEPT ![t] = l]

(***************************************************************************)
(* Thread steps.                                                           *)
(***************************************************************************)

\* A caller (psync_do_api_run_command and the others) enters
\* psync_apipool_get.
Request(t) ==
    /\ pc[t] = "idle"
    /\ ops < MaxOps
    /\ ops' = ops + 1
    /\ Goto(t, "get")
    /\ UNCHANGED <<sem, apiserver, SockVars, hold, lost>>

\* psync_apipool_prepare: nothing to do if the key has a cached socket,
\* else open one with psync_get_api and release it into the cache.
Prepare(t) ==
    /\ pc[t] = "idle"
    /\ ops < MaxOps
    /\ ops' = ops + 1
    /\ Goto(t, IF CachedUnder(apiserver) # {} THEN "idle" ELSE "prepwait")
    /\ UNCHANGED <<sem, apiserver, SockVars, hold, lost>>

\* One round of the while (1) loop of psync_apipool_get: pcache_get(apikey)
\* takes an idle socket of the current key, or there is none and the
\* thread goes on to psync_get_api.
CacheGet(t) ==
    /\ pc[t] = "get"
    /\ IF CachedUnder(apiserver) = {}
         THEN /\ Goto(t, "semwait")
              /\ UNCHANGED <<sstate, hold>>
         ELSE \E s \in CachedUnder(apiserver) :
                /\ sstate' = [sstate EXCEPT ![s] = "active"]
                /\ hold' = [hold EXCEPT ![t] = s]
                /\ Goto(t, "check")
    /\ UNCHANGED <<sem, apiserver, peer, misc, key, broken, ops, lost>>

\* Mutant: a broken socket from the cache is closed without sem_post.
Check_NoPost(t) ==
    /\ pc[t] = "check"
    /\ LET s == hold[t] IN
         IF broken[s]
           THEN /\ sstate' = [sstate EXCEPT ![s] = "closed"]
                /\ broken' = [broken EXCEPT ![s] = FALSE]
                /\ hold' = [hold EXCEPT ![t] = NoSock]
                /\ Goto(t, "get")
                /\ UNCHANGED sem
           ELSE /\ Goto(t, "using")
                /\ UNCHANGED <<sem, sstate, broken, hold>>
    /\ UNCHANGED <<apiserver, peer, misc, key, ops, lost>>

\* api_sock_is_broken: a socket whose peer closed, whose TLS flag no longer
\* matches usessl, or that has bytes to read is given back with
\* psync_ret_api and the loop takes the next one; a healthy one is returned.
Check(t) ==
    /\ pc[t] = "check"
    /\ LET s == hold[t] IN
         IF broken[s]
           THEN /\ RetApi(s)
                /\ hold' = [hold EXCEPT ![t] = NoSock]
                /\ Goto(t, "get")
           ELSE /\ Goto(t, "using")
                /\ UNCHANGED <<sem, sstate, broken, hold>>
    /\ UNCHANGED <<apiserver, peer, misc, key, ops, lost>>

\* Mutant: the result of a non-blocking sem_trywait is ignored.
SemWait_NoCheck(t) ==
    /\ pc[t] \in {"semwait", "prepwait"}
    /\ sem' = sem - 1
    /\ Goto(t, IF pc[t] = "semwait" THEN "dial" ELSE "prepdial")
    /\ UNCHANGED <<apiserver, SockVars, hold, ops, lost>>

\* psync_get_api: sem_wait(&api_pool_sem), then papi_connect(apiserver).
\* The dial reads apiserver once; connecting takes a network round trip.
SemWait(t) ==
    /\ pc[t] \in {"semwait", "prepwait"}
    /\ sem > 0
    /\ sem' = sem - 1
    /\ Goto(t, IF pc[t] = "semwait" THEN "dial" ELSE "prepdial")
    /\ UNCHANGED <<apiserver, SockVars, hold, ops, lost>>

\* papi_connect either fails and psync_get_api returns NULL with the permit
\* still taken (the caller calls ptimer_notify_exception and gives up), or
\* it opens a socket to the server apiserver named when the dial began.
Dial(t) ==
    /\ pc[t] \in {"dial", "prepdial"}
    /\ \/ /\ CONNECT_FAILS
          /\ Goto(t, "idle")
          /\ lost' = lost + 1
          /\ UNCHANGED <<sstate, peer, hold>>
       \/ \E s \in Socks :
            /\ sstate[s] = "closed"
            /\ sstate' = [sstate EXCEPT ![s] = "active"]
            /\ peer' = [peer EXCEPT ![s] = apiserver]
            /\ hold' = [hold EXCEPT ![t] = s]
            /\ Goto(t, IF pc[t] = "dial" THEN "setmisc" ELSE "prepmisc")
            /\ UNCHANGED lost
    /\ UNCHANGED <<sem, apiserver, misc, key, broken, ops>>

\* sock->misc = hash_func(apiserver), read again after the connect.  The
\* socket goes to the caller, or from psync_apipool_prepare straight to
\* psync_apipool_release.
SetMisc(t) ==
    /\ pc[t] \in {"setmisc", "prepmisc"}
    /\ misc' = [misc EXCEPT ![hold[t]] = apiserver]
    /\ Goto(t, IF pc[t] = "setmisc" THEN "using" ELSE "release")
    /\ UNCHANGED <<sem, apiserver, sstate, peer, key, broken, hold, ops, lost>>

\* The caller sends its command: on a result it calls
\* psync_apipool_release, otherwise psync_apipool_release_bad.
Use(t) ==
    /\ pc[t] = "using"
    /\ \/ Goto(t, "release")
       \/ Goto(t, "releasebad")
    /\ UNCHANGED <<sem, apiserver, SockVars, hold, ops, lost>>

\* Mutant: a socket of another server is dropped without psync_ret_api.
ReleaseCheck_NoClose(t) ==
    /\ pc[t] = "release"
    /\ LET s == hold[t] IN
         IF misc[s] = apiserver
           THEN /\ Goto(t, "add")
                /\ UNCHANGED hold
           ELSE /\ hold' = [hold EXCEPT ![t] = NoSock]
                /\ Goto(t, "idle")
    /\ UNCHANGED <<sem, apiserver, SockVars, ops, lost>>

\* psync_apipool_release: a socket whose misc is the hash of the current
\* apiserver goes on to pcache_add; any other is closed by psync_ret_api.
ReleaseCheck(t) ==
    /\ pc[t] = "release"
    /\ LET s == hold[t] IN
         IF misc[s] = apiserver
           THEN /\ Goto(t, "add")
                /\ UNCHANGED <<sem, sstate, broken, hold>>
           ELSE /\ RetApi(s)
                /\ hold' = [hold EXCEPT ![t] = NoSock]
                /\ Goto(t, "idle")
    /\ UNCHANGED <<apiserver, peer, misc, key, ops, lost>>

\* Mutant: the permit is posted when the socket goes into the cache, as if
\* the semaphore counted only sockets in use.
ReleaseAdd_PostOnCache(t) ==
    /\ pc[t] = "add"
    /\ LET s == hold[t] IN
         IF Cardinality(CachedUnder(apiserver)) >= MAXIDLE
           THEN /\ RetApi(s)
                /\ UNCHANGED key
           ELSE /\ sstate' = [sstate EXCEPT ![s] = "cached"]
                /\ key' = [key EXCEPT ![s] = apiserver]
                /\ sem' = sem + 1
                /\ UNCHANGED broken
    /\ hold' = [hold EXCEPT ![t] = NoSock]
    /\ Goto(t, "idle")
    /\ UNCHANGED <<apiserver, peer, misc, ops, lost>>

\* pcache_add(apikey, api, MAXIDLESEC, psync_ret_api, MAXIDLE): the socket
\* is cached under the key apikey names now; if the key already holds
\* MAXIDLE sockets the cache frees it with psync_ret_api.
ReleaseAdd(t) ==
    /\ pc[t] = "add"
    /\ LET s == hold[t] IN
         IF Cardinality(CachedUnder(apiserver)) >= MAXIDLE
           THEN /\ RetApi(s)
                /\ UNCHANGED key
           ELSE /\ sstate' = [sstate EXCEPT ![s] = "cached"]
                /\ key' = [key EXCEPT ![s] = apiserver]
                /\ UNCHANGED <<sem, broken>>
    /\ hold' = [hold EXCEPT ![t] = NoSock]
    /\ Goto(t, "idle")
    /\ UNCHANGED <<apiserver, peer, misc, ops, lost>>

\* Mutant: release_bad closes the socket without sem_post.
ReleaseBad_NoPost(t) ==
    /\ pc[t] = "releasebad"
    /\ sstate' = [sstate EXCEPT ![hold[t]] = "closed"]
    /\ broken' = [broken EXCEPT ![hold[t]] = FALSE]
    /\ hold' = [hold EXCEPT ![t] = NoSock]
    /\ \/ Goto(t, "get")
       \/ Goto(t, "idle")
    /\ UNCHANGED <<sem, apiserver, peer, misc, key, ops, lost>>

\* psync_apipool_release_bad: psync_ret_api; psync_do_api_run_command then
\* tries again with a new psync_apipool_get or gives up.
ReleaseBad(t) ==
    /\ pc[t] = "releasebad"
    /\ RetApi(hold[t])
    /\ hold' = [hold EXCEPT ![t] = NoSock]
    /\ \/ Goto(t, "get")
       \/ Goto(t, "idle")
    /\ UNCHANGED <<apiserver, peer, misc, key, ops, lost>>

(***************************************************************************)
(* Environment.                                                            *)
(***************************************************************************)

\* psync_apipool_set_server: apiserver and apikey become the new host.
SetServer(v) ==
    /\ ops < MaxOps
    /\ ops' = ops + 1
    /\ apiserver' = v
    /\ UNCHANGED <<sem, SockVars, pc, hold, lost>>

\* An idle socket goes bad: the server closes it, usessl changes, or stray
\* bytes arrive.
Break(s) ==
    /\ sstate[s] = "cached"
    /\ ~broken[s]
    /\ ops < MaxOps
    /\ ops' = ops + 1
    /\ broken' = [broken EXCEPT ![s] = TRUE]
    /\ UNCHANGED <<sem, apiserver, sstate, peer, misc, key, pc, hold, lost>>

\* A cached socket reaches PSYNC_APIPOOL_MAXIDLESEC and the cache frees it
\* with psync_ret_api.
Expire(s) ==
    /\ sstate[s] = "cached"
    /\ RetApi(s)
    /\ UNCHANGED <<apiserver, peer, misc, key, pc, hold, ops, lost>>

-----------------------------------------------------------------------------
ThreadStep(t) ==
    \/ CacheGet(t) \/ Check(t) \/ SemWait(t) \/ Dial(t) \/ SetMisc(t)
    \/ Use(t) \/ ReleaseCheck(t) \/ ReleaseAdd(t) \/ ReleaseBad(t)

Next ==
    \/ \E t \in Threads : Request(t) \/ Prepare(t) \/ ThreadStep(t)
    \/ \E v \in Servers : SetServer(v)
    \/ \E s \in Socks : Break(s) \/ Expire(s)

\* Every thread runs when it is not blocked in sem_wait; the cache's timer
\* frees each idle socket when its time is up.  Callers need not call.
Fairness ==
    /\ \A t \in Threads : WF_vars(ThreadStep(t))
    /\ \A s \in Socks : WF_vars(Expire(s))

Spec == Init /\ [][Next]_vars /\ Fairness

-----------------------------------------------------------------------------
PCs == {"idle", "get", "check", "semwait", "prepwait", "dial", "prepdial",
        "setmisc", "prepmisc", "using", "release", "add", "releasebad"}

TypeOK ==
    /\ sem \in Nat
    /\ apiserver \in Servers
    /\ sstate \in [Socks -> {"closed", "active", "cached"}]
    /\ peer \in [Socks -> Servers]
    /\ misc \in [Socks -> Servers]
    /\ key \in [Socks -> Servers]
    /\ broken \in [Socks -> BOOLEAN]
    /\ pc \in [Threads -> PCs]
    /\ hold \in [Threads -> Socks \cup {NoSock}]
    /\ ops \in 0 .. MaxOps
    /\ lost \in Nat

\* Threads that hold a permit of api_pool_sem but no socket yet
Dialling == {t \in Threads : pc[t] \in {"dial", "prepdial"}}

\* Spec 5 ("the connection pool semaphore bounds active+idle sockets"),
\* in its strong form: every permit of api_pool_sem is accounted for: it is free, or held by a
\* thread in psync_get_api, or by an open socket, or was lost with a
\* failed papi_connect.  psync_get_api takes it before papi_connect; every
\* other way out must give it back or pass it on to the socket.
PermitsAccounted ==
    sem + Cardinality(Dialling) + Cardinality(Open) + lost = MAXACTIVE

\* (With sem >= 0 this bounds the open sockets, in use or idle in the
\* cache, by PSYNC_APIPOOL_MAXACTIVE.)

\* Spec 4.2: once the server is swapped, sockets to the old one are not
\* reused; every socket in the cache under a key is connected to the
\* server the key names.  psync_apipool_release compares misc with the
\* current apiserver and then adds under the current apikey.
CachedMatchesKey == \A s \in Cached : peer[s] = key[s]

\* A thread that waits in sem_wait of psync_get_api eventually gets a
\* permit: sockets in use are released and idle ones expire.
GetEventuallyReturns ==
    \A t \in Threads : pc[t] \in {"semwait", "prepwait"}
                         ~> pc[t] \notin {"semwait", "prepwait"}

\* The same, for the runs in which no papi_connect fails: every path of
\* psync_apipool_get, _release, _release_bad and the cache that ends a
\* socket gives its permit back, so no waiter starves.
GetReturnsUnlessPermitLost ==
    [](lost = 0) => GetEventuallyReturns
=============================================================================
