------------------------------ MODULE TooNewWait ------------------------------
(***************************************************************************)
(* The "too new" wait at the start of task_uploadfile (pupload.c): a file  *)
(* modified less than PSYNC_UPLOAD_OLDER_THAN_SEC ago is not uploaded at   *)
(* once.  The upload thread sleeps until it should be old enough, stats it *)
(* again, and repeats while it is still new, at most ten more times; a     *)
(* file that "kept changing" is skipped for now (return -1, the task is    *)
(* retried), otherwise the thread goes on to psync_lock_file.              *)
(*                                                                         *)
(* Time is ptimer_time() in seconds.  A sleep of d seconds and 500 ms     *)
(* ends at a ptimer_time() of at least now + d; the thread may be          *)
(* scheduled later.  Another process may write the file (its mtime becomes *)
(* the current second) or remove it at any moment.                         *)
(***************************************************************************)
EXTENDS Integers

CONSTANTS
  OLDER,     \* PSYNC_UPLOAD_OLDER_THAN_SEC
  Start,     \* ptimer_time() when the thread reaches the wait
  MaxTime    \* bound on ptimer_time()

ASSUME OLDER > 0 /\ Start >= OLDER

VARIABLES
  now,       \* ptimer_time()
  mtime,     \* the file's modification time on disk
  exists,    \* the file is still there
  stm,       \* pfile_stat_mtime(&st): the mtime of the last stat
  ctime,     \* local time_t ctime
  ret,       \* local int ret: the retry counter
  wake,      \* the earliest ptimer_time() at which the sleep ends
  pc,        \* "check", "loop", "sleep", "lock" (go on) or "fail" (return -1)
  lastNew    \* history: the last stat of the loop found the file too new

vars == <<now, mtime, exists, stm, ctime, ret, wake, pc, lastNew>>

TypeOK ==
  /\ now \in Start .. MaxTime
  /\ mtime \in 0 .. MaxTime + 2 /\ stm \in 0 .. MaxTime + 2
  /\ exists \in BOOLEAN
  /\ ret \in 0 .. 11
  /\ pc \in {"check", "loop", "sleep", "lock", "fail"}
  /\ lastNew \in BOOLEAN

\* A file the thread finds has an mtime up to two seconds in the future
\* (clock skew), so the code's "future" branch is reachable.
Init ==
  /\ now = Start
  /\ mtime \in 0 .. Start + 3
  /\ exists = TRUE
  /\ stm = mtime
  /\ ctime = 0
  /\ ret = 0
  /\ wake = 0
  /\ pc = "check"
  /\ lastNew = FALSE

\* mtime >= ptimer_time() - PSYNC_UPLOAD_OLDER_THAN_SEC
TooNew(m, t) == m >= t - OLDER

\* The first stat: an old file (or one stat cannot see) goes straight on;
\* a new one sets ctime; an mtime more than two seconds ahead of it skips
\* the waits, otherwise ret = 0 and the loop starts.
Check ==
  /\ pc = "check"
  /\ stm' = IF exists THEN mtime ELSE stm
  /\ IF exists /\ TooNew(mtime, now)
       THEN /\ ctime' = now
            /\ pc' = IF now < mtime - 2 THEN "lock" ELSE "loop"
       ELSE /\ pc' = "lock"
            /\ UNCHANGED ctime
  /\ UNCHANGED <<now, mtime, exists, ret, wake, lastNew>>

\* The loop body up to the sleep: ctime is raised to the file's mtime,
\* then the sleep lasts until mtime + PSYNC_UPLOAD_OLDER_THAN_SEC, or
\* 500 ms when that has passed.
Loop ==
  /\ pc = "loop"
  /\ LET c == IF ctime < stm THEN stm ELSE ctime
     IN /\ ctime' = c
        /\ wake' = now + (IF stm + OLDER > c THEN stm + OLDER - c ELSE 0)
  /\ pc' = "sleep"
  /\ UNCHANGED <<now, mtime, exists, stm, ret, lastNew>>

\* The sleep ends: stat again (gone: return -1), ctime = ptimer_time(),
\* and the loop test mtime >= ctime - OLDER && ++ret <= 10, followed by
\* the test ret == 10 that skips the file.
Wake ==
  /\ pc = "sleep"
  /\ now >= wake
  /\ IF ~exists
       THEN /\ pc' = "fail"
            /\ UNCHANGED <<stm, ctime, ret, lastNew>>
       ELSE /\ stm' = mtime
            /\ ctime' = now
            /\ lastNew' = TooNew(mtime, now)
            /\ ret' = IF TooNew(mtime, now) THEN ret + 1 ELSE ret
            /\ pc' = CASE TooNew(mtime, now) /\ ret' <= 10 -> "loop"
                       [] ret' = 10                        -> "fail"
                       [] OTHER                            -> "lock"
  /\ UNCHANGED <<now, mtime, exists, wake>>

\* Time passes.
Tick ==
  /\ now < MaxTime
  /\ now' = now + 1
  /\ UNCHANGED <<mtime, exists, stm, ctime, ret, wake, pc, lastNew>>

\* Another process writes the file: its mtime is the current second.
Write ==
  /\ exists
  /\ mtime' = now
  /\ UNCHANGED <<now, exists, stm, ctime, ret, wake, pc, lastNew>>

\* Another process removes the file.
Remove ==
  /\ exists
  /\ exists' = FALSE
  /\ UNCHANGED <<now, mtime, stm, ctime, ret, wake, pc, lastNew>>

Next == Check \/ Loop \/ Wake \/ Tick \/ Write \/ Remove

Spec == Init /\ [][Next]_vars

(* Spec 6 step 2: a file still mutating is skipped and retried later; the  *)
(* code's own message for ret == 10 is "kept changing, skipping for now". *)
(* So when the wait loop ran, the thread goes on to lock and upload the   *)
(* file only if the last stat found it old enough.                         *)
GotOldEnough == pc = "lock" => ~lastNew

=============================================================================
