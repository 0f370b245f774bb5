----------------------------- MODULE MCControl -----------------------------
(***************************************************************************)
(* The two thread-control components that block on a condition or a       *)
(* semaphore, checked in one run: the local scanner's control (LocalScan: *)
(* a new folder d1 holding a new file f1, a new file f2 in an existing     *)
(* folder, two stopper threads t1 and t2) and the API connection pool      *)
(* (ApiPool: threads t1 and t2, hosts a and b, three socket identities,   *)
(* failing connects).  They share no state; the variable apon chooses, for *)
(* the whole behaviour, which of the two takes steps while the other stays *)
(* in its initial state.  Each keeps the fairness of its own module.      *)
(***************************************************************************)
EXTENDS TLC

CONSTANTS
    \* LocalScan
    Changes, Kind, Parent, NoParent, Stoppers, MaxCalls,
    \* ApiPool
    Threads, Servers, Socks, NoSock, MAXACTIVE, MAXIDLE, CONNECT_FAILS, MaxOps,
    \* model values
    d1, f1, f2, t1, t2, a, b, k1, k2, k3

VARIABLES
    scan_wakes, restart_scan, scan_stoppers, spc, lastscan, restartsleep,
    movedfolders, changes, found, created, happened, applied, statusOk, stpc,
    calls, interrupted,
    sem, apiserver, sstate, peer, misc, key, broken, pc, hold, ops, lost,
    apon    \* the connection pool, not the scanner, takes steps

LS == INSTANCE LocalScan
AP == INSTANCE ApiPool

lsvars == <<scan_wakes, restart_scan, scan_stoppers, spc, lastscan, restartsleep,
           movedfolders, changes, found, created, happened, applied, statusOk,
           stpc, calls, interrupted>>
apvars == <<sem, apiserver, sstate, peer, misc, key, broken, pc, hold, ops, lost>>
vars == <<lsvars, apvars, apon>>

MCChanges  == {d1, f1, f2}
MCKind     == (d1 :> "dir") @@ (f1 :> "file") @@ (f2 :> "file")
MCParent   == (d1 :> NoParent) @@ (f1 :> d1) @@ (f2 :> NoParent)
MCStoppers == {t1, t2}
MCThreads  == {t1, t2}
MCServers  == {a, b}
MCSocks3   == {k1, k2, k3}

\* The component that takes no steps sits in one of its initial states.
Init ==
    \/ /\ apon = FALSE /\ LS!Init
       /\ AP!Init /\ apiserver = CHOOSE s \in Servers : TRUE
    \/ /\ apon = TRUE /\ AP!Init
       /\ LS!Init /\ statusOk = TRUE

Next ==
    \/ ~apon /\ LS!Next /\ UNCHANGED <<apvars, apon>>
    \/ apon /\ AP!Next /\ UNCHANGED <<lsvars, apon>>

\* The fairness of LocalScan and of ApiPool, each on its own steps.
Fairness ==
    /\ WF_vars(~apon /\ LS!Scanner /\ UNCHANGED <<apvars, apon>>)
    /\ \A s \in Stoppers : WF_vars(~apon /\ LS!Resume(s) /\ UNCHANGED <<apvars, apon>>)
    /\ \A t \in Threads : WF_vars(apon /\ AP!ThreadStep(t) /\ UNCHANGED <<lsvars, apon>>)
    /\ \A s \in Socks : WF_vars(apon /\ AP!Expire(s) /\ UNCHANGED <<lsvars, apon>>)

Spec == Init /\ [][Next]_vars /\ Fairness

\* The type invariant of LocalScan.
LsTypeOK == LS!TypeOK

(* The scanner never sleeps on scan_cond with a wake counted or with     *)
(* every stopper resumed (LocalScan!NoLostSignal).                       *)
NoLostSignal == LS!NoLostSignal

(* Lists filled while a restart or stop was pending are never applied   *)
(* (LocalScan!AppliesOnlyUninterruptedScans).                           *)
AppliesOnlyUninterruptedScans == LS!AppliesOnlyUninterruptedScans

(* Spec 8.4: once the statuses stay ok, every change on disk is          *)
(* eventually applied (LocalScan!ChangesEventuallyApplied).              *)
ChangesEventuallyApplied == LS!ChangesEventuallyApplied

\* The type invariant of ApiPool.
ApTypeOK == AP!TypeOK

(* Spec 5: every permit of api_pool_sem is free, held by a dialling     *)
(* thread, held by an open socket or lost to a failed connect            *)
(* (ApiPool!PermitsAccounted).                                           *)
PermitsAccounted == AP!PermitsAccounted

(* In every run where no connect fails, every sem_wait ends             *)
(* (ApiPool!GetReturnsUnlessPermitLost).                                 *)
GetReturnsUnlessPermitLost == AP!GetReturnsUnlessPermitLost
=============================================================================
