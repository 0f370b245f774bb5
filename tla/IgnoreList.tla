------------------------------ MODULE IgnoreList ------------------------------
(***************************************************************************)
(* The path filter of the local scanner (plocalscan.c): the statics       *)
(* ignored_paths / ign_paths_cnt (the (device, inode) pairs of the        *)
(* ignored directories), ign_checksum (SHA-256 of the ignorepaths string  *)
(* the list was built from) and ign_last_check (ptimer_time() of that     *)
(* build).  scanner_scan calls reload_ignored_folders at the start of      *)
(* every scan; psync_setting_set_string changes the setting from the API   *)
(* thread.                                                                 *)
(*                                                                         *)
(* SHA-256 is injective on the strings modelled, so ign_checksum holds the *)
(* string itself; the zeroed static digest is NoChecksum.  Time is         *)
(* ptimer_time() in units of Hour/3600 seconds; it starts at Start, far    *)
(* past the epoch 0 that ign_last_check holds before the first build.      *)
(* The scanner's timing is left free: it scans on a wake, on its rescan   *)
(* timeout, and not at all while pstatus says it may not.                  *)
(***************************************************************************)
EXTENDS Integers, Sequences, SequencesExt, IgnorePaths

CONSTANTS
  Patterns,   \* values of the ignorepaths setting
  Home,       \* what ppath_home() returns (or NoHome)
  Dirs,       \* directory paths the file system may hold
  Inodes,     \* inode numbers of those directories
  Dev,        \* their device id
  Absent,     \* stat() fails
  Hour,       \* 3600 seconds
  Start,      \* ptimer_time() when the scanner first runs
  MaxTime     \* bound on ptimer_time()

ASSUME Start > Hour

NoChecksum == <<"zeros">>
NoScan == -1

VARIABLES
  setting,         \* settings[_PS(ignorepaths)].str
  ign_checksum,    \* static ign_checksum
  ign_last_check,  \* static ign_last_check
  ignored_paths,   \* ignored_paths[0 .. ign_paths_cnt-1]
  now,             \* ptimer_time()
  fs,              \* the directory each path names: its inode or Absent
  scanAt,          \* history: ptimer_time() at the last scan start
  scanPattern      \* history: the setting that scan read

vars == <<setting, ign_checksum, ign_last_check, ignored_paths, now, fs,
          scanAt, scanPattern>>

TypeOK ==
  /\ setting \in Patterns
  /\ ign_checksum \in Patterns \cup {NoChecksum}
  /\ ign_last_check \in 0 .. MaxTime
  /\ ignored_paths \in Seq({Dev} \X Inodes)
  /\ now \in Start .. MaxTime
  /\ fs \in [Dirs -> Inodes \cup {Absent}]
  /\ scanAt \in {NoScan} \cup Start .. MaxTime
  /\ scanPattern \in Patterns

Init ==
  /\ setting \in Patterns
  /\ ign_checksum = NoChecksum
  /\ ign_last_check = 0
  /\ ignored_paths = <<>>
  /\ now = Start
  /\ fs \in [Dirs -> Inodes \cup {Absent}]
  /\ scanAt = NoScan
  /\ scanPattern = setting

\* add_ignored_dir(path): stat() the path and keep its (device, inode).
Stats(d) == d \in Dirs /\ fs[d] # Absent
AddIgnoredDirs(dirs) ==
  LET found == SelectSeq(dirs, Stats)
  IN [k \in DOMAIN found |-> <<Dev, fs[found[k]]>>]

\* reload_ignored_folders(), called by scanner_scan once pstatus allows a
\* scan: keep the list when the checksum is unchanged and
\* ign_last_check + 3600 < ptimer_time(); otherwise record the checksum
\* and the time, empty the list and add every parsed directory.
ReloadIgnoredFolders ==
  /\ IF ign_checksum = setting /\ ign_last_check + Hour < now
       THEN UNCHANGED <<ign_checksum, ign_last_check, ignored_paths>>
       ELSE /\ ign_checksum' = setting
            /\ ign_last_check' = now
            /\ ignored_paths' = AddIgnoredDirs(IgnoredDirs(setting, Home))
  /\ scanAt' = now
  /\ scanPattern' = setting
  /\ UNCHANGED <<setting, now, fs>>

\* psync_setting_set_string(_PS(ignorepaths), value); its change_callback
\* psync_wake_localscan only hastens the next scan.
SetIgnorePaths(v) ==
  /\ setting' = v
  /\ UNCHANGED <<ign_checksum, ign_last_check, ignored_paths, now, fs, scanAt, scanPattern>>

\* Time passes.
Tick ==
  /\ now < MaxTime
  /\ now' = now + 1
  /\ UNCHANGED <<setting, ign_checksum, ign_last_check, ignored_paths, fs, scanAt, scanPattern>>

\* A directory is removed, or removed and made again with a new inode.
ChangeDir(d, i) ==
  /\ fs' = [fs EXCEPT ![d] = i]
  /\ UNCHANGED <<setting, ign_checksum, ign_last_check, ignored_paths, now, scanAt, scanPattern>>

Next ==
  \/ ReloadIgnoredFolders
  \/ \E v \in Patterns : SetIgnorePaths(v)
  \/ Tick
  \/ \E d \in Dirs, i \in Inodes \cup {Absent} : ChangeDir(d, i)

Spec == Init /\ [][Next]_vars

\* Spec 4.5: the ignore list a scan uses is refreshed when the pattern's
\* SHA-256 changes or the cache is older than one hour.  So the list the
\* last scan started with was built from the pattern that scan read, and
\* at most an hour before it (reload_ignored_folders' skip test).
IgnoreListFresh ==
  scanAt # NoScan =>
    /\ ign_checksum = scanPattern
    /\ scanAt <= ign_last_check + Hour

=============================================================================
