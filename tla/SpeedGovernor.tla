---------------------------- MODULE SpeedGovernor ----------------------------
(***************************************************************************)
(* The upload side of the speed governor of pnetlibs.c: the per-second     *)
(* byte counter and the ring of (second, bytes) samples kept by            *)
(* account_uploaded_bytes, the speed averaged over the ring, and the       *)
(* shaping loop of psync_socket_writeall_upload that every upload thread   *)
(* sends through.                                                          *)
(*                                                                         *)
(* The counters are globals written with no lock by every upload thread   *)
(* and by the 1 Hz timer psync_netlibs_timer.  account_uploaded_bytes is   *)
(* therefore split where another thread can come between its steps: the   *)
(* test current_upload_sec == psync_current_time, then either the load and *)
(* the store of upload_bytes_this_sec += bytes, or the roll of the ring,   *)
(* which writes the sample, advances the offset, starts the new second and *)
(* recomputes the speed in one step.                                       *)
(*                                                                         *)
(* The setting maxuploadspeed is read at every call: -1 unlimited, 0 the   *)
(* auto-shaper, a positive value a cap in bytes per second.               *)
(***************************************************************************)
EXTENDS Integers, FiniteSets
LOCAL INSTANCE Functions

CONSTANTS
    Writers,        \* the upload threads
    Timer,          \* the timer thread
    AVG,            \* PSYNC_SPEED_CALC_AVERAGE_SEC
    T0,             \* psync_current_time when the governor starts
    MaxTime,        \* the last second the model reaches
    Speeds,         \* the values maxuploadspeed takes at a call
    Nums,           \* the lengths of a psync_socket_writeall_upload call
    MaxCalls,       \* bound on the calls of each upload thread
    INITIAL,        \* PSYNC_UPL_AUTO_SHAPER_INITIAL
    INC_PER,        \* PSYNC_UPL_AUTO_SHAPER_INC_PER
    DEC_PER,        \* PSYNC_UPL_AUTO_SHAPER_DEC_PER
    SHAPER_MIN      \* PSYNC_UPL_AUTO_SHAPER_MIN

ASSUME Timer \notin Writers /\ AVG > 0 /\ T0 <= MaxTime

Threads == Writers \cup {Timer}
Seconds == 0 .. MaxTime

VARIABLES
    now,        \* psync_current_time
    cur,        \* current_upload_sec
    this,       \* upload_bytes_this_sec
    ring,       \* upload_bytes_sec[]: [tm, bytes] samples
    off,        \* upload_bytes_off
    speed,      \* upload_speed
    dyn,        \* dyn_upload_speed
    pc,         \* control point of each thread
    mode,       \* the branch of the current call: "auto" or "capped"
    cap,        \* maxuploadspeed as read by the current call
    num,        \* bytes of the call still to send
    tsec,       \* thissec, or the second a wait started in
    wwr,        \* the length handed to psock_write
    accb,       \* the bytes argument of account_uploaded_bytes
    accl,       \* the value the += loaded
    calls,      \* calls made by each upload thread
    wire,       \* history: bytes psock_write sent in each second
    capwire,    \* history: of those, bytes sent by calls under a cap
    hist,       \* history: the bytes each second's roll recorded
    stale       \* history: an update was applied from a stale read

vars == <<now, cur, this, ring, off, speed, dyn, pc, mode, cap, num, tsec,
          wwr, accb, accl, calls, wire, capwire, hist, stale>>
shaper == <<dyn, mode, cap, num, tsec, wwr, calls>>
counters == <<cur, this, ring, off, speed>>
ghost == <<wire, capwire, hist, stale>>

MinOf(a, b) == IF a < b THEN a ELSE b

\* Mutant: the window test is tm > now - AVG.
WindowSum_Strict(r, t) ==
    SumFunctionOnSet([i \in 0 .. AVG - 1 |-> r[i].bytes],
                     {i \in 0 .. AVG - 1 : r[i].tm > t - AVG})

\* The sum the roll computes: the samples of the last AVG seconds.
WindowSum(r, t) ==
    SumFunctionOnSet([i \in 0 .. AVG - 1 |-> r[i].bytes],
                     {i \in 0 .. AVG - 1 : r[i].tm >= t - AVG})

\* get_upload_bytes_this_sec
ThisSec == IF cur = now THEN this ELSE 0

Init ==
    /\ now = T0
    /\ cur = 0 /\ this = 0 /\ off = 0 /\ speed = 0
    /\ ring = [i \in 0 .. AVG - 1 |-> [tm |-> 0, bytes |-> 0]]
    /\ dyn = INITIAL
    /\ pc = [t \in Threads |-> IF t = Timer THEN "tick" ELSE "idle"]
    /\ mode = [t \in Writers |-> "none"]
    /\ cap = [t \in Writers |-> 0]
    /\ num = [t \in Writers |-> 0]
    /\ tsec = [t \in Writers |-> 0]
    /\ wwr = [t \in Writers |-> 0]
    /\ accb = [t \in Threads |-> 0]
    /\ accl = [t \in Threads |-> 0]
    /\ calls = [t \in Writers |-> 0]
    /\ wire = [s \in Seconds |-> 0]
    /\ capwire = [s \in Seconds |-> 0]
    /\ hist = [s \in Seconds |-> 0]
    /\ stale = FALSE

\* The caller's part after account_uploaded_bytes returns.
Return(t) ==
    IF t = Timer THEN "tick"
    ELSE IF mode[t] = "all" \/ num[t] = 0 THEN "idle"
    ELSE mode[t]

-----------------------------------------------------------------------------
(* account_uploaded_bytes(accb[t]) *)

AccCheck(t) ==
    /\ pc[t] = "acc"
    /\ pc' = [pc EXCEPT ![t] = IF cur = now THEN "acc_load" ELSE "acc_roll"]
    /\ UNCHANGED <<now, counters, shaper, accb, accl, ghost>>

AccLoad(t) ==
    /\ pc[t] = "acc_load"
    /\ accl' = [accl EXCEPT ![t] = this]
    /\ pc' = [pc EXCEPT ![t] = "acc_store"]
    /\ UNCHANGED <<now, counters, shaper, accb, ghost>>

AccStore(t) ==
    /\ pc[t] = "acc_store"
    /\ this' = accl[t] + accb[t]
    /\ stale' = (stale \/ this # accl[t])
    /\ pc' = [pc EXCEPT ![t] = Return(t)]
    /\ UNCHANGED <<now, cur, ring, off, speed, shaper, accb, accl, wire,
                   capwire, hist>>

\* Mutant: the offset is advanced without the wrap.
AccRoll_NoWrap(t) ==
    /\ pc[t] = "acc_roll"
    /\ ring' = [ring EXCEPT ![off] = [tm |-> cur, bytes |-> this]]
    /\ off' = off + 1
    /\ cur' = now
    /\ this' = accb[t]
    /\ speed' = WindowSum(ring', now) \div AVG
    /\ hist' = IF cur # now THEN [hist EXCEPT ![cur] = this] ELSE hist
    /\ stale' = (stale \/ cur = now)
    /\ pc' = [pc EXCEPT ![t] = Return(t)]
    /\ UNCHANGED <<now, shaper, accb, accl, wire, capwire>>

\* The else branch: record the second that ended, start the new one with
\* these bytes, and average the samples of the last AVG seconds.
AccRoll(t) ==
    /\ pc[t] = "acc_roll"
    /\ ring' = [ring EXCEPT ![off] = [tm |-> cur, bytes |-> this]]
    /\ off' = (off + 1) % AVG
    /\ cur' = now
    /\ this' = accb[t]
    /\ speed' = WindowSum(ring', now) \div AVG
    /\ hist' = IF cur # now THEN [hist EXCEPT ![cur] = this] ELSE hist
    /\ stale' = (stale \/ cur = now)
    /\ pc' = [pc EXCEPT ![t] = Return(t)]
    /\ UNCHANGED <<now, shaper, accb, accl, wire, capwire>>

-----------------------------------------------------------------------------
(* The timer thread: psync_current_time moves on one second and the      *)
(* callbacks run; psync_netlibs_timer calls account_uploaded_bytes(0).    *)

Tick ==
    /\ pc[Timer] = "tick"
    /\ now < MaxTime
    /\ now' = now + 1
    /\ pc' = [pc EXCEPT ![Timer] = "callback"]
    /\ UNCHANGED <<counters, shaper, accb, accl, ghost>>

NetlibsTimer ==
    /\ pc[Timer] = "callback"
    /\ accb' = [accb EXCEPT ![Timer] = 0]
    /\ pc' = [pc EXCEPT ![Timer] = "acc"]
    /\ UNCHANGED <<now, counters, shaper, accl, ghost>>

-----------------------------------------------------------------------------
(* psync_socket_writeall_upload, of an upload thread *)

Call(t) ==
    /\ pc[t] = "idle"
    /\ calls[t] < MaxCalls
    /\ \E n \in Nums, s \in Speeds :
         /\ num' = [num EXCEPT ![t] = n]
         /\ cap' = [cap EXCEPT ![t] = s]
         /\ mode' = [mode EXCEPT ![t] = CASE s = 0 -> "auto"
                                          [] s > 0 -> "capped"
                                          [] OTHER -> "all"]
         /\ pc' = [pc EXCEPT ![t] = CASE s = 0 -> "auto"
                                        [] s > 0 -> "capped"
                                        [] OTHER -> "writeall"]
    /\ calls' = [calls EXCEPT ![t] = @ + 1]
    /\ UNCHANGED <<now, counters, dyn, tsec, wwr, accb, accl, ghost>>

\* Mutant: each write may send the whole cap, whatever this second sent.
Capped_NoHeadroom(t) ==
    /\ pc[t] = "capped"
    /\ IF ThisSec >= cap[t]
         THEN /\ tsec' = [tsec EXCEPT ![t] = now]
              /\ pc' = [pc EXCEPT ![t] = "waitsec"]
              /\ UNCHANGED wwr
         ELSE /\ wwr' = [wwr EXCEPT ![t] = MinOf(num[t], cap[t])]
              /\ pc' = [pc EXCEPT ![t] = "write"]
              /\ UNCHANGED tsec
    /\ UNCHANGED <<now, counters, dyn, mode, cap, num, calls, accb, accl,
                   ghost>>

\* while (get_upload_bytes_this_sec() >= uplspeed) ptimer_wait_next_sec();
\* then at most uplspeed - thissec bytes.
Capped(t) ==
    /\ pc[t] = "capped"
    /\ IF ThisSec >= cap[t]
         THEN /\ tsec' = [tsec EXCEPT ![t] = now]
              /\ pc' = [pc EXCEPT ![t] = "waitsec"]
              /\ UNCHANGED wwr
         ELSE /\ wwr' = [wwr EXCEPT ![t] = MinOf(num[t], cap[t] - ThisSec)]
              /\ pc' = [pc EXCEPT ![t] = "write"]
              /\ UNCHANGED tsec
    /\ UNCHANGED <<now, counters, dyn, mode, cap, num, calls, accb, accl,
                   ghost>>

\* The auto-shaper's while test: a reached budget grows by INC_PER percent
\* before the wait for the next second; otherwise thissec is kept.
Auto(t) ==
    /\ pc[t] = "auto"
    /\ IF ThisSec >= dyn
         THEN /\ dyn' = (dyn * INC_PER) \div 100
              /\ tsec' = [tsec EXCEPT ![t] = now]
              /\ pc' = [pc EXCEPT ![t] = "waitsec"]
         ELSE /\ tsec' = [tsec EXCEPT ![t] = ThisSec]
              /\ pc' = [pc EXCEPT ![t] = "auto_cmp"]
              /\ UNCHANGED dyn
    /\ UNCHANGED <<now, counters, mode, cap, num, wwr, calls, accb, accl,
                   ghost>>

\* Mutant: the remaining length is never compared, the budget is sent.
AutoCmp_NoClamp(t) ==
    /\ pc[t] = "auto_cmp"
    /\ pc' = [pc EXCEPT ![t] = "auto_len"]
    /\ UNCHANGED <<now, counters, shaper, accb, accl, ghost>>

\* if (num > dyn_upload_speed - thissec), dyn_upload_speed read again: the
\* difference is unsigned, so a budget now below thissec wraps past every
\* num and the whole num is sent.
AutoCmp(t) ==
    /\ pc[t] = "auto_cmp"
    /\ IF dyn >= tsec[t] /\ num[t] > dyn - tsec[t]
         THEN /\ pc' = [pc EXCEPT ![t] = "auto_len"]
              /\ UNCHANGED wwr
         ELSE /\ wwr' = [wwr EXCEPT ![t] = num[t]]
              /\ pc' = [pc EXCEPT ![t] = "writable"]
    /\ UNCHANGED <<now, counters, dyn, mode, cap, num, tsec, calls, accb,
                   accl, ghost>>

\* wwr = dyn_upload_speed - thissec, a third read; the wrapped unsigned
\* difference converted to long is the negative difference.
AutoLen(t) ==
    /\ pc[t] = "auto_len"
    /\ wwr' = [wwr EXCEPT ![t] = dyn - tsec[t]]
    /\ pc' = [pc EXCEPT ![t] = "writable"]
    /\ UNCHANGED <<now, counters, dyn, mode, cap, num, tsec, calls, accb,
                   accl, ghost>>

\* if (!psock_writable(sock)): the budget shrinks by DEC_PER percent, not
\* below SHAPER_MIN, and the thread sleeps a second before writing.
Writable(t) ==
    /\ pc[t] = "writable"
    /\ \/ UNCHANGED dyn
       \/ dyn' = IF (dyn * DEC_PER) \div 100 < SHAPER_MIN THEN SHAPER_MIN
                 ELSE (dyn * DEC_PER) \div 100
    /\ pc' = [pc EXCEPT ![t] = "write"]
    /\ UNCHANGED <<now, counters, mode, cap, num, tsec, wwr, calls, accb,
                   accl, ghost>>

\* ptimer_wait_next_sec
WaitNextSec(t) ==
    /\ pc[t] = "waitsec"
    /\ now > tsec[t]
    /\ pc' = [pc EXCEPT ![t] = mode[t]]
    /\ UNCHANGED <<now, counters, shaper, accb, accl, ghost>>

\* psock_write: all of wwr, part of it, or -1, which ends the call.
Write(t) ==
    /\ pc[t] = "write"
    /\ \E wr \in {1, wwr[t], -1} :
         IF wr = -1
           THEN /\ pc' = [pc EXCEPT ![t] = "idle"]
                /\ UNCHANGED <<num, accb, wire, capwire>>
           ELSE /\ num' = [num EXCEPT ![t] = @ - wr]
                /\ wire' = [wire EXCEPT ![now] = @ + wr]
                /\ capwire' = IF mode[t] = "capped"
                                THEN [capwire EXCEPT ![now] = @ + wr]
                                ELSE capwire
                /\ accb' = [accb EXCEPT ![t] = wr]
                /\ pc' = [pc EXCEPT ![t] = "acc"]
    /\ UNCHANGED <<now, counters, dyn, mode, cap, tsec, wwr, calls, accl,
                   hist, stale>>

\* maxuploadspeed < 0: psock_writeall, then one account of what it wrote.
WriteAll(t) ==
    /\ pc[t] = "writeall"
    /\ \/ /\ wire' = [wire EXCEPT ![now] = @ + num[t]]
          /\ accb' = [accb EXCEPT ![t] = num[t]]
          /\ num' = [num EXCEPT ![t] = 0]
          /\ pc' = [pc EXCEPT ![t] = "acc"]
       \/ /\ pc' = [pc EXCEPT ![t] = "idle"]
          /\ UNCHANGED <<wire, accb, num>>
    /\ UNCHANGED <<now, counters, dyn, mode, cap, tsec, wwr, calls, accl,
                   capwire, hist, stale>>

\* The model's time ends at MaxTime; from there every thread may stop.
Finished ==
    /\ now = MaxTime
    /\ UNCHANGED vars

Next ==
    \/ Tick \/ NetlibsTimer \/ Finished
    \/ \E t \in Threads : AccCheck(t) \/ AccLoad(t) \/ AccStore(t)
                           \/ AccRoll(t)
    \/ \E t \in Writers : Call(t) \/ Capped(t) \/ Auto(t) \/ AutoCmp(t)
                          \/ AutoLen(t) \/ Writable(t)
                          \/ WaitNextSec(t) \/ Write(t) \/ WriteAll(t)

Spec == Init /\ [][Next]_vars

-----------------------------------------------------------------------------
TypeOK ==
    /\ now \in Seconds /\ cur \in Seconds
    /\ this \in Nat /\ speed \in Nat /\ dyn \in Nat
    /\ off \in 0 .. AVG - 1
    /\ \A i \in 0 .. AVG - 1 : ring[i].tm \in Seconds /\ ring[i].bytes \in Nat
    /\ pc[Timer] \in {"tick", "callback", "acc", "acc_load", "acc_store", "acc_roll"}
    /\ \A t \in Writers : num[t] \in Nat /\ wwr[t] \in Int
    /\ stale \in BOOLEAN

(* Every length psock_write is handed by psync_socket_writeall_upload is  *)
(* neither negative nor more than the call still has to send, in both    *)
(* the capped and the auto-shaped branch, whatever the other upload       *)
(* threads do to the shared budget dyn_upload_speed meanwhile.            *)
WriteLenValid ==
  \A t \in Writers : pc[t] \in {"writable", "write"} => wwr[t] \in 0 .. num[t]

\* The cap of the capped branch (Speeds holds one positive value).
CapOf == CHOOSE v \in Speeds : v > 0

(* The speed account_uploaded_bytes publishes is the mean of the bytes    *)
(* counted in each of the last AVG whole seconds: the ring holds exactly  *)
(* one sample of each of them, and the window test tm >= now - AVG keeps  *)
(* those and no older one.  Unless an update acted on a stale read.       *)
SpeedIsAverage ==
  ~stale =>
    speed = SumFunctionOnSet(hist, {s \in Seconds : cur - AVG <= s /\ s < cur})
              \div AVG

(* psync_socket_writeall_upload under a cap never lets the calls that run *)
(* under it send more than the cap in one second, across partial writes,  *)
(* the auto-shaped and unlimited calls of the same second and a second    *)
(* that ends between the check and the write.  Unless an update of the    *)
(* counter acted on a stale read.                                         *)
CapHeld == ~stale => \A s \in Seconds : capwire[s] <= CapOf
=============================================================================
