----------------------------- MODULE LocalScan -----------------------------
(***************************************************************************)
(* The control of the local scanner thread of plocalscan.c: the main loop  *)
(* of scanner_thread, one pass of scanner_scan with its restart label,     *)
(* the check of restart_scan before each apply batch, the exponential      *)
(* backoff, the self-restart after folders were moved, and scanner_wait.   *)
(* Other threads call psync_do_wake_localscan, psync_restart_localscan,    *)
(* psync_stop_localscan / psync_resume_localscan and                       *)
(* psync_wake_localscan_noscan, all under scan_mutex.                      *)
(*                                                                         *)
(* The file system is abstracted to a set of Changes, each a new folder    *)
(* ("dir") or a new or changed file ("file"); a file may lie in a new      *)
(* folder (Parent).  A change is "applied" once the scanner has written it *)
(* to the catalog and queued its tasks.                                    *)
(***************************************************************************)
EXTENDS Naturals, FiniteSets

CONSTANTS
    Changes,      \* file-system changes the user may make
    Kind,         \* Kind[c] \in {"dir", "file"}
    Parent,       \* Parent[c]: the new folder a file lies in, or NoParent
    NoParent,
    Stoppers,     \* threads that call psync_stop_localscan / resume
    MaxCalls      \* bound on wake, restart, stop and noscan calls

Dirs  == {c \in Changes : Kind[c] = "dir"}
Files == {c \in Changes : Kind[c] = "file"}

ASSUME /\ Kind \in [Changes -> {"dir", "file"}]
       /\ Parent \in [Changes -> Dirs \cup {NoParent}]
       /\ \A c \in Dirs : Parent[c] = NoParent
       /\ MaxCalls \in Nat

\* restartsleep doubles from 1000 while it is below 16000
MaxRestartSleep == 16000

VARIABLES
    scan_wakes,     \* uint32 scan_wakes
    restart_scan,   \* uint32 restart_scan, used as a flag
    scan_stoppers,  \* uint32 scan_stoppers
    spc,            \* the scanner thread's program counter
    lastscan,       \* lastscan was set by a previous loop iteration
    restartsleep,   \* restartsleep of scanner_scan
    movedfolders,   \* movedfolders of scanner_scan
    changes,        \* changes (elements added to the scan lists)
    found,          \* the contents of the nine scan_lists
    created,        \* the folders scan_create_folder made in this batch
    happened,       \* changes made on disk
    applied,        \* changes written to the catalog
    statusOk,       \* pstatus_ok_status_arr(requiredstatuses)
    stpc,           \* program counter of each stopper thread
    calls,          \* environment calls made, bounded by MaxCalls
    interrupted     \* history: a restart or stop reached the scanner while
                    \* it was filling the scan lists of this pass

vars == <<scan_wakes, restart_scan, scan_stoppers, spc, lastscan,
          restartsleep, movedfolders, changes, found, created, happened,
          applied, statusOk, stpc, calls, interrupted>>

ScanVars == <<spc, lastscan, restartsleep, movedfolders, changes, found,
              created>>

\* States in which the scanner is filling the scan lists from the disk
Gathering == {"gather", "scancreated"}

\* The changes a tree walk sees: scanner_scan_folder recurses only into
\* folders that already have a localid, so a file in a folder not yet in
\* the catalog is not listed.
Visible ==
    {c \in happened \ applied :
        Kind[c] = "dir" \/ Parent[c] = NoParent \/ Parent[c] \in applied}

-----------------------------------------------------------------------------
Init ==
    /\ scan_wakes = 0
    /\ restart_scan = 0
    /\ scan_stoppers = 0
    /\ spc = "boot"
    /\ lastscan = FALSE
    /\ restartsleep = 1000
    /\ movedfolders = FALSE
    /\ changes = FALSE
    /\ found = {}
    /\ created = {}
    /\ happened = {}
    /\ applied = {}
    /\ statusOk \in BOOLEAN
    /\ stpc = [s \in Stoppers |-> "idle"]
    /\ calls = 0
    /\ interrupted = FALSE

(***************************************************************************)
(* Scanner thread.                                                         *)
(***************************************************************************)

\* scanner_thread: after its start-up sleep it waits for the required
\* statuses and makes the first pass, scanner_scan(1).
Boot ==
    /\ spc = "boot"
    /\ statusOk
    /\ spc' = "restart"
    /\ restartsleep' = 1000
    /\ UNCHANGED <<scan_wakes, restart_scan, scan_stoppers, lastscan,
                   movedfolders, changes, found, created, happened, applied,
                   statusOk, stpc, calls, interrupted>>

\* One iteration of the while (psync_do_run) loop: wait for the statuses,
\* and if the last pass began less than 5 s ago sleep 2 s first.
Top ==
    /\ spc = "top"
    /\ statusOk
    /\ \/ lastscan /\ spc' = "throttle" /\ UNCHANGED restartsleep
       \/ spc' = "restart" /\ restartsleep' = 1000
    /\ lastscan' = TRUE
    /\ UNCHANGED <<scan_wakes, restart_scan, scan_stoppers, movedfolders,
                   changes, found, created, happened, applied, statusOk,
                   stpc, calls, interrupted>>

\* The end of the 2 s sleep: scan_wakes = 0, then scanner_scan(w).
Throttle ==
    /\ spc = "throttle"
    /\ scan_wakes' = 0
    /\ spc' = "restart"
    /\ restartsleep' = 1000
    /\ UNCHANGED <<restart_scan, scan_stoppers, lastscan, movedfolders,
                   changes, found, created, happened, applied, statusOk,
                   stpc, calls, interrupted>>

\* The restart: label.  Under scan_mutex wait while scan_stoppers is
\* non-zero, else clear restart_scan; then return if a required status is
\* not ok, else start the pass with empty lists.
ScanRestart ==
    /\ spc = "restart"
    /\ IF scan_stoppers > 0
         THEN /\ spc' = "stopwait"
              /\ UNCHANGED <<restart_scan, movedfolders, changes, found,
                             interrupted>>
         ELSE /\ restart_scan' = 0
              /\ interrupted' = FALSE
              /\ found' = {}
              /\ changes' = FALSE
              /\ movedfolders' = FALSE
              /\ spc' = IF statusOk THEN "gather" ELSE "wait"
    /\ UNCHANGED <<scan_wakes, scan_stoppers, lastscan, restartsleep,
                   created, happened, applied, statusOk, stpc, calls>>

\* The walk over the sync roots: every visible change is put in a list.
\* (The device-id check that follows calls psync_restart_localscan; that
\* call is the environment action Restart.)
Gather ==
    /\ spc = "gather"
    /\ found' = Visible
    /\ changes' = (Visible # {})
    /\ spc' = "checkdirs"
    /\ UNCHANGED <<scan_wakes, restart_scan, scan_stoppers, lastscan,
                   restartsleep, movedfolders, created, happened, applied,
                   statusOk, stpc, calls, interrupted>>

\* The top of the do { } while (i) loop over folders: under scan_mutex a
\* set restart_scan sends the pass to the backoff; otherwise the folder
\* renames and creations are applied if there are any, and the loop runs
\* again while something was applied or added to the lists.
CheckDirs ==
    /\ spc = "checkdirs"
    /\ IF restart_scan # 0
         THEN spc' = "backoff" /\ UNCHANGED changes
         ELSE IF found \cap Dirs # {}
                THEN spc' = "applydirs" /\ UNCHANGED changes
                ELSE IF changes
                       THEN spc' = "checkdirs" /\ changes' = FALSE
                       ELSE spc' = "checkfiles" /\ UNCHANGED changes
    /\ UNCHANGED <<scan_wakes, restart_scan, scan_stoppers, lastscan,
                   restartsleep, movedfolders, found, created, happened,
                   applied, statusOk, stpc, calls, interrupted>>

\* One transaction of scan_rename_folder and scan_create_folder calls.
ApplyDirs ==
    /\ spc = "applydirs"
    /\ applied' = applied \cup (found \cap Dirs)
    /\ created' = found \cap Dirs
    /\ found' = found \ Dirs
    /\ movedfolders' = TRUE
    /\ spc' = "scancreated"
    /\ UNCHANGED <<scan_wakes, restart_scan, scan_stoppers, lastscan,
                   restartsleep, changes, happened, statusOk, stpc, calls,
                   interrupted>>

\* scan_created_folder on each just-created folder lists its contents;
\* then changes is consumed and, as i > 0, the loop runs again.
ScanCreated ==
    /\ spc = "scancreated"
    /\ found' = found \cup {c \in happened \ applied :
                              Kind[c] = "file" /\ Parent[c] \in created}
    /\ changes' = FALSE
    /\ spc' = "checkdirs"
    /\ UNCHANGED <<scan_wakes, restart_scan, scan_stoppers, lastscan,
                   restartsleep, movedfolders, created, happened, applied,
                   statusOk, stpc, calls, interrupted>>

\* The second check of restart_scan, before the file batch.
CheckFiles ==
    /\ spc = "checkfiles"
    /\ spc' = IF restart_scan # 0 THEN "backoff" ELSE "applyfiles"
    /\ UNCHANGED <<scan_wakes, restart_scan, scan_stoppers, lastscan,
                   restartsleep, movedfolders, changes, found, created,
                   happened, applied, statusOk, stpc, calls, interrupted>>

\* Mutant: the scan lists are not emptied after the file batch.
ApplyFiles_KeepLists ==
    /\ spc = "applyfiles"
    /\ applied' = applied \cup found
    /\ IF movedfolders
         THEN spc' = "restart" /\ restartsleep' = 1000
         ELSE spc' = "wait" /\ UNCHANGED restartsleep
    /\ UNCHANGED <<scan_wakes, restart_scan, scan_stoppers, lastscan,
                   movedfolders, changes, found, created, happened, statusOk,
                   stpc, calls, interrupted>>

\* The file transaction (renames, uploads, modified uploads, deletes,
\* folder deletes), then the lists are freed and, if folders were moved,
\* the pass restarts at once with restartsleep = 1000; otherwise
\* scanner_scan returns and the thread calls scanner_wait.
ApplyFiles ==
    /\ spc = "applyfiles"
    /\ applied' = applied \cup found
    /\ found' = {}
    /\ IF movedfolders
         THEN spc' = "restart" /\ restartsleep' = 1000
         ELSE spc' = "wait" /\ UNCHANGED restartsleep
    /\ UNCHANGED <<scan_wakes, restart_scan, scan_stoppers, lastscan,
                   movedfolders, changes, created, happened, statusOk, stpc,
                   calls, interrupted>>

\* restart_scan was set: free the lists, sleep restartsleep ms, double it
\* while it is below 16000, and goto restart.
Backoff ==
    /\ spc = "backoff"
    /\ found' = {}
    /\ restartsleep' = IF restartsleep < MaxRestartSleep
                         THEN restartsleep * 2 ELSE restartsleep
    /\ spc' = "restart"
    /\ UNCHANGED <<scan_wakes, restart_scan, scan_stoppers, lastscan,
                   movedfolders, changes, created, happened, applied,
                   statusOk, stpc, calls, interrupted>>

\* scanner_wait: under scan_mutex, a timed wait on scan_cond unless a wake
\* is already counted; scan_wakes is cleared after the wait.
Wait ==
    /\ spc = "wait"
    /\ IF scan_wakes = 0
         THEN spc' = "waitcond" /\ UNCHANGED scan_wakes
         ELSE spc' = "top" /\ scan_wakes' = 0
    /\ UNCHANGED <<restart_scan, scan_stoppers, lastscan, restartsleep,
                   movedfolders, changes, found, created, happened, applied,
                   statusOk, stpc, calls, interrupted>>

\* pthread_cond_timedwait reaches its deadline.
Timeout ==
    /\ spc = "waitcond"
    /\ spc' = "woken"
    /\ UNCHANGED <<scan_wakes, restart_scan, scan_stoppers, lastscan,
                   restartsleep, movedfolders, changes, found, created,
                   happened, applied, statusOk, stpc, calls, interrupted>>

\* The wait returned, by a signal or the timeout: scan_wakes = 0.
Woken ==
    /\ spc = "woken"
    /\ scan_wakes' = 0
    /\ spc' = "top"
    /\ UNCHANGED <<restart_scan, scan_stoppers, lastscan, restartsleep,
                   movedfolders, changes, found, created, happened, applied,
                   statusOk, stpc, calls, interrupted>>

(***************************************************************************)
(* Calls from other threads, each under scan_mutex.                        *)
(***************************************************************************)

\* What a pthread_cond_signal on scan_cond does to the scanner: its only
\* waits on scan_cond are the timed wait and the scan_stoppers loop.
Signal(pc) ==
    CASE pc = "waitcond" -> "woken"
      [] pc = "stopwait" -> "restart"
      [] OTHER           -> pc

\* Mutant: the first-wake test inverted, if (scan_wakes++) signal.
Wake_SignalIfPending ==
    /\ calls < MaxCalls
    /\ calls' = calls + 1
    /\ scan_wakes' = scan_wakes + 1
    /\ spc' = IF scan_wakes # 0 THEN Signal(spc) ELSE spc
    /\ UNCHANGED <<restart_scan, scan_stoppers, lastscan, restartsleep,
                   movedfolders, changes, found, created, happened, applied,
                   statusOk, stpc, interrupted>>

\* psync_do_wake_localscan: count the wake; signal if it is the first.
Wake ==
    /\ calls < MaxCalls
    /\ calls' = calls + 1
    /\ scan_wakes' = scan_wakes + 1
    /\ spc' = IF scan_wakes = 0 THEN Signal(spc) ELSE spc
    /\ UNCHANGED <<restart_scan, scan_stoppers, lastscan, restartsleep,
                   movedfolders, changes, found, created, happened, applied,
                   statusOk, stpc, interrupted>>

\* psync_restart_localscan, called by other threads and by the scanner's
\* own device-id check when a sync root vanished or changed device.
Restart ==
    /\ calls < MaxCalls
    /\ calls' = calls + 1
    /\ restart_scan' = 1
    /\ interrupted' = (interrupted \/ spc \in Gathering)
    /\ UNCHANGED <<scan_wakes, scan_stoppers, ScanVars, happened, applied,
                   statusOk, stpc>>

\* Mutant: stopping counts the stopper but does not set restart_scan.
Stop_NoRestartFlag(s) ==
    /\ stpc[s] = "idle"
    /\ calls < MaxCalls
    /\ calls' = calls + 1
    /\ scan_stoppers' = scan_stoppers + 1
    /\ stpc' = [stpc EXCEPT ![s] = "stopped"]
    /\ interrupted' = (interrupted \/ spc \in Gathering)
    /\ UNCHANGED <<scan_wakes, restart_scan, ScanVars, happened, applied,
                   statusOk>>

\* psync_stop_localscan: restart_scan = 1 and one more stopper.
Stop(s) ==
    /\ stpc[s] = "idle"
    /\ calls < MaxCalls
    /\ calls' = calls + 1
    /\ restart_scan' = 1
    /\ scan_stoppers' = scan_stoppers + 1
    /\ stpc' = [stpc EXCEPT ![s] = "stopped"]
    /\ interrupted' = (interrupted \/ spc \in Gathering)
    /\ UNCHANGED <<scan_wakes, ScanVars, happened, applied, statusOk>>

\* Mutant: the last stopper to resume does not signal scan_cond.
Resume_NoSignal(s) ==
    /\ stpc[s] = "stopped"
    /\ scan_stoppers' = scan_stoppers - 1
    /\ stpc' = [stpc EXCEPT ![s] = "idle"]
    /\ UNCHANGED <<scan_wakes, restart_scan, ScanVars, happened, applied,
                   statusOk, calls, interrupted>>

\* psync_resume_localscan: one stopper less; the last one signals.
Resume(s) ==
    /\ stpc[s] = "stopped"
    /\ scan_stoppers' = scan_stoppers - 1
    /\ spc' = IF scan_stoppers - 1 = 0 THEN Signal(spc) ELSE spc
    /\ stpc' = [stpc EXCEPT ![s] = "idle"]
    /\ UNCHANGED <<scan_wakes, restart_scan, lastscan, restartsleep,
                   movedfolders, changes, found, created, happened, applied,
                   statusOk, calls, interrupted>>

\* psync_wake_localscan_noscan, the timer's exception handler: a bare
\* signal.
WakeNoScan ==
    /\ calls < MaxCalls
    /\ calls' = calls + 1
    /\ spc' = Signal(spc)
    /\ UNCHANGED <<scan_wakes, restart_scan, scan_stoppers, lastscan,
                   restartsleep, movedfolders, changes, found, created,
                   happened, applied, statusOk, stpc, interrupted>>

\* A required status (run, online, auth, ...) changes.
StatusChange ==
    /\ statusOk' = ~statusOk
    /\ UNCHANGED <<scan_wakes, restart_scan, scan_stoppers, ScanVars,
                   happened, applied, stpc, calls, interrupted>>

\* The user makes change c on disk; a file in a new folder needs the folder.
FsChange(c) ==
    /\ c \notin happened
    /\ Parent[c] = NoParent \/ Parent[c] \in happened
    /\ happened' = happened \cup {c}
    /\ UNCHANGED <<scan_wakes, restart_scan, scan_stoppers, ScanVars,
                   applied, statusOk, stpc, calls, interrupted>>

-----------------------------------------------------------------------------
Scanner ==
    \/ Boot \/ Top \/ Throttle \/ ScanRestart \/ Gather \/ CheckDirs
    \/ ApplyDirs \/ ScanCreated \/ CheckFiles \/ ApplyFiles \/ Backoff
    \/ Wait \/ Timeout \/ Woken

Environment ==
    \/ Wake \/ Restart \/ WakeNoScan \/ StatusChange
    \/ \E s \in Stoppers : Stop(s)
    \/ \E c \in Changes : FsChange(c)

Next ==
    \/ Scanner
    \/ \E s \in Stoppers : Resume(s)
    \/ Environment

\* The scanner is a kernel thread and runs whenever it is not blocked; its
\* timed wait ends when the deadline passes.  A stopper resumes after the
\* bounded work it stopped the scanner for.  The other callers, the status
\* and the user are under no obligation.
Fairness ==
    /\ WF_vars(Scanner)
    /\ \A s \in Stoppers : WF_vars(Resume(s))

Spec == Init /\ [][Next]_vars /\ Fairness

-----------------------------------------------------------------------------
(***************************************************************************)
(* Properties.                                                             *)
(***************************************************************************)

ScannerStates ==
    {"boot", "top", "throttle", "restart", "stopwait", "gather", "checkdirs",
     "applydirs", "scancreated", "checkfiles", "applyfiles", "backoff",
     "wait", "waitcond", "woken"}

RestartSleeps == {1000, 2000, 4000, 8000, 16000}

TypeOK ==
    /\ scan_wakes \in 0..MaxCalls
    /\ restart_scan \in {0, 1}
    /\ scan_stoppers \in 0..Cardinality(Stoppers)
    /\ spc \in ScannerStates
    /\ lastscan \in BOOLEAN
    /\ restartsleep \in RestartSleeps
    /\ movedfolders \in BOOLEAN
    /\ changes \in BOOLEAN
    /\ found \subseteq happened \ applied
    /\ created \subseteq Dirs
    /\ happened \subseteq Changes
    /\ applied \subseteq happened
    /\ statusOk \in BOOLEAN
    /\ stpc \in [Stoppers -> {"idle", "stopped"}]
    /\ calls \in 0..MaxCalls
    /\ interrupted \in BOOLEAN

\* No lost wake-up on scan_cond: the scanner never sleeps in scanner_wait
\* while a wake is counted in scan_wakes, and never waits in the
\* scan_stoppers loop once every stopper has resumed.  Both depend on the
\* "signal only on the first wake" test of psync_do_wake_localscan, the
\* "signal only at zero" test of psync_resume_localscan and the scanner
\* clearing scan_wakes after, never before, it waits.
NoLostSignal ==
    /\ spc = "waitcond" => scan_wakes = 0
    /\ spc = "stopwait" => scan_stoppers > 0

\* A pass never applies lists that were filled while a restart or stop
\* request was pending: psync_restart_localscan and psync_stop_localscan
\* set restart_scan, which the scanner checks before each batch and clears
\* only at the restart: label, after the stoppers have resumed.
AppliesOnlyUninterruptedScans ==
    spc \in {"applydirs", "applyfiles"} => ~interrupted

\* Spec 8.4: once the required statuses stay ok, every change made on disk
\* is eventually applied, whatever wake, restart, stop/resume and noscan
\* calls came before.
ChangesEventuallyApplied ==
    <>[]statusOk => \A c \in Changes : (c \in happened) ~> (c \in applied)

=============================================================================
