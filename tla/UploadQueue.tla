---------------------------- MODULE UploadQueue ----------------------------
(***************************************************************************)
(* The upload side of the sync engine (src/pclsync/pupload.c).             *)
(*                                                                         *)
(* One main worker (upload_thread) drains the catalog table `task` in id   *)
(* order.  UPLOAD_FILE tasks are handed to detached upload threads         *)
(* (task_run_uploadfile / task_run_upload_file_thread), at most            *)
(* MAX_PARALLEL_UPLOADS at a time and gated by the bytes still to send;    *)
(* every other task type runs on the main worker, renames and deletes      *)
(* only after task_wait_no_uploads.  The local scanner (plocalscan.c) is   *)
(* the environment: it queues tasks, cancels uploads and wakes the worker. *)
(*                                                                         *)
(* Data is abstracted: a local file is a model value (its localfile id),  *)
(* sizes are small numbers of transfer units, a big-file range is one unit *)
(* long and is either sent ("U", upload_write) or copied server side       *)
(* ("C", upload_writefromfile / upload_writefromupload).                   *)
(***************************************************************************)
EXTENDS Naturals, FiniteSets, Sequences, FiniteSetsExt

CONSTANTS
  Files,                       \* localfile ids the scanner may create
  Slots,                       \* upload_task_t structures (upload list entries)
  MaxTaskId,                   \* bound on task ids handed out by the queue
  MAX_PARALLEL_UPLOADS,        \* PSYNC_MAX_PARALLEL_UPLOADS
  START_NEW_UPLOADS_TRESHOLD,  \* PSYNC_START_NEW_UPLOADS_TRESHOLD, in units
  MIN_SIZE_FOR_CHECKSUMS,      \* PSYNC_MIN_SIZE_FOR_CHECKSUMS, in units
  Sizes,                       \* file sizes in units
  WordBits,                    \* width of the uint64_t status counters
  TRANSIENT                    \* whether network and disk hiccups happen

ASSUME MAX_PARALLEL_UPLOADS \in Nat \ {0}
ASSUME Cardinality(Slots) >= MAX_PARALLEL_UPLOADS + 1
ASSUME Sizes \subseteq Nat \ {0} /\ MIN_SIZE_FOR_CHECKSUMS \in Nat
ASSUME TRANSIENT \in BOOLEAN

Word == 2 ^ WordBits
\* `a - b` on uint64_t operands
UDiff(a, b) == (a - b) % Word

UPLOAD_FILE          == "UPLOAD_FILE"
CREATE_REMOTE_FOLDER == "CREATE_REMOTE_FOLDER"
RENAME_REMOTE_FILE   == "RENAME_REMOTE_FILE"
RENAME_REMOTE_FOLDER == "RENAME_REMOTE_FOLDER"
DELETE_REMOTE_FILE   == "DELETE_REMOTE_FILE"
DELREC_REMOTE_FOLDER == "DELREC_REMOTE_FOLDER"
TaskTypes == {UPLOAD_FILE, CREATE_REMOTE_FOLDER, RENAME_REMOTE_FILE,
              RENAME_REMOTE_FOLDER, DELETE_REMOTE_FILE, DELREC_REMOTE_FOLDER}
\* task types whose handler starts with task_wait_no_uploads
BarrierTypes == {RENAME_REMOTE_FILE, RENAME_REMOTE_FOLDER,
                 DELETE_REMOTE_FILE, DELREC_REMOTE_FOLDER}
NoFile == "none"

\* Outcomes of one server call: success, a PSYNC_NET_TEMPFAIL class error
\* (no answer, or psync_handle_api_result says retry) or a PERMFAIL error.
Outcomes == IF TRANSIENT THEN {"ok", "temp", "perm"} ELSE {"ok", "perm"}

VARIABLES
  task,          \* the catalog table `task`: id -> [type, file, inprogress]
  nextTaskId,    \* next autoincrement id of `task`
  created,       \* localfile ids the scanner has inserted so far
  localfile,     \* localfile rows that exist
  lfsize,        \* localfile.size
  bound,         \* localfile rows whose fileid column is set
  remote,        \* local files that have a copy on the server
  hasUpload,     \* localfile ids with rows in localfileupload
  locks,         \* paths held through psync_lock_file
  ut,            \* upload_task_t per slot (the `uploads` list and threads)
  filesuploading, bytesuploaded, bytestouploadcurrent,  \* psync_status
  upload_wakes,  \* upload_wakes /= 0
  mpc,           \* where the main worker is
  mtask,         \* task id the main worker is handling
  mslot          \* slot of the upload it is admitting

vars == <<task, nextTaskId, created, localfile, lfsize, bound, remote,
          hasUpload, locks, ut, filesuploading, bytesuploaded,
          bytestouploadcurrent, upload_wakes, mpc, mtask, mslot>>
catalog == <<created, localfile, lfsize, bound, remote, hasUpload>>
status == <<filesuploading, bytesuploaded, bytestouploadcurrent>>
main == <<upload_wakes, mpc, mtask, mslot>>

\* Thread states.  "queued": in `uploads`, main worker waiting for a slot;
\* "begin" .. "biglast": task_uploadfile; "release", "exit": the tail of
\* task_run_upload_file_thread.
LockedStates == {"hash", "dedup", "small", "smallres", "bigstart", "big",
                 "biglast"}
RunningStates == {"begin", "cleanup", "release", "exit"} \cup LockedStates
ThreadStates == {"free", "queued"} \cup RunningStates

FreeUT == [st |-> "free", taskid |-> 0, file |-> NoFile, filesize |-> 0,
           uploaded |-> 0, stop |-> FALSE, ret |-> 0, pos |-> 0,
           ranges |-> <<>>, pending |-> {}]

Running == {s \in Slots : ut[s].st \in RunningStates}
SumUT(S, fld) == MapThenSumSet(LAMBDA s : ut[s][fld], S)

RemoveTask(i) == [j \in DOMAIN task \ {i} |-> task[j]]
\* ptask_upload_q and the other queueing calls: INSERT INTO task
WithTask(tbl, type, f) ==
  [j \in DOMAIN tbl \cup {nextTaskId} |->
     IF j = nextTaskId
     THEN [type |-> type, file |-> f, inprogress |-> FALSE]
     ELSE tbl[j]]
SetInprogress(i, b) ==
  IF i \in DOMAIN task THEN [task EXCEPT ![i].inprogress = b] ELSE task
Ready == {i \in DOMAIN task : ~task[i].inprogress}

(* wake_upload_when_ready: signal current_uploads_cond when someone waits  *)
(* on it and a new upload could start.  The only waiter is the main        *)
(* worker (task_run_uploadfile or task_wait_no_uploads).                   *)
WakeUploadWhenReady(fu, cur, up) ==
  IF /\ mpc \in {"slot_wait", "barrier_wait"}
     /\ fu < MAX_PARALLEL_UPLOADS
     /\ UDiff(cur, up) <= START_NEW_UPLOADS_TRESHOLD
  THEN IF mpc = "slot_wait" THEN "slot_check" ELSE "barrier"
  ELSE mpc

(* pupload_wake: count the wake and signal upload_cond on the first one.   *)
PuploadWake ==
  /\ upload_wakes' = TRUE
  /\ mpc' = IF ~upload_wakes /\ mpc = "idle_wait" THEN "idle_woken" ELSE mpc

(* pupload_del_tasks: delete the file's UPLOAD_FILE tasks ...              *)
WithoutUploadsOf(tbl, f) ==
  [j \in {i \in DOMAIN tbl : ~(tbl[i].type = UPLOAD_FILE /\ tbl[i].file = f)}
     |-> tbl[j]]
(* ... and flag its entries of `uploads` to stop (it signals nobody).      *)
StopUploadsOf(f) ==
  [s \in Slots |-> IF ut[s].st # "free" /\ ut[s].file = f
                   THEN [ut[s] EXCEPT !.stop = TRUE] ELSE ut[s]]

-----------------------------------------------------------------------------
(***************************************************************************)
(* The main worker, upload_thread.                                         *)
(***************************************************************************)

(* No task with inprogress=0: wait on upload_cond unless a wake is counted.*)
MainIdle ==
  /\ mpc = "select" /\ Ready = {}
  /\ IF upload_wakes THEN upload_wakes' = FALSE /\ UNCHANGED mpc
                     ELSE mpc' = "idle_wait" /\ UNCHANGED upload_wakes
  /\ UNCHANGED <<task, nextTaskId, catalog, locks, ut, status, mtask, mslot>>

MainWoken ==
  /\ mpc = "idle_woken"
  /\ upload_wakes' = FALSE /\ mpc' = "select"
  /\ UNCHANGED <<task, nextTaskId, catalog, locks, ut, status, mtask, mslot>>

(* task_run_uploadfile for the lowest ready task: no localfile row means  *)
(* return 0 and the worker deletes the task; otherwise mark it in progress*)
(* and add an entry to `uploads`.                                          *)
MainRunUpload ==
  /\ mpc = "select" /\ Ready # {}
  /\ LET i == Min(Ready) f == task[i].file IN
     /\ task[i].type = UPLOAD_FILE
     /\ IF f \notin localfile
        THEN /\ task' = RemoveTask(i)
             /\ UNCHANGED <<ut, mpc, mtask, mslot>>
        ELSE \E s \in Slots :
               /\ ut[s].st = "free"
               /\ task' = [task EXCEPT ![i].inprogress = TRUE]
               /\ ut' = [ut EXCEPT ![s] = [FreeUT EXCEPT !.st = "queued",
                           !.taskid = i, !.file = f, !.filesize = lfsize[f]]]
               /\ mpc' = "slot_check" /\ mtask' = i /\ mslot' = s
  /\ UNCHANGED <<nextTaskId, catalog, locks, status, upload_wakes>>

(* The admission loop of task_run_uploadfile, run under                    *)
(* current_uploads_mutex each time the main worker is woken.               *)
MainSlotCheck ==
  /\ mpc = "slot_check"
  /\ LET s == mslot u == ut[mslot] IN
     IF u.stop
     THEN /\ ut' = [ut EXCEPT ![s] = FreeUT]
          /\ task' = SetInprogress(u.taskid, FALSE)
          /\ mpc' = "select"
          /\ UNCHANGED status
     ELSE IF \/ filesuploading >= MAX_PARALLEL_UPLOADS
             \/ UDiff(bytestouploadcurrent, bytesuploaded)
                  > START_NEW_UPLOADS_TRESHOLD
     THEN /\ mpc' = "slot_wait"
          /\ UNCHANGED <<ut, task, status>>
     ELSE /\ bytestouploadcurrent' = (bytestouploadcurrent + u.filesize) % Word
          /\ filesuploading' = filesuploading + 1
          /\ ut' = [ut EXCEPT ![s].st = "begin"]
          /\ mpc' = "select"
          /\ UNCHANGED <<task, bytesuploaded>>
  /\ UNCHANGED <<nextTaskId, catalog, locks, upload_wakes, mtask, mslot>>

(* The result of a task run on the main worker (upload_task): 0 deletes    *)
(* the task, anything else leaves it for a later pass.  TEMPFAIL class     *)
(* errors give -1 and PERMFAIL class ones 0 (do_run_command,               *)
(* task_createfolder), except that task_renameremotefolder hands every     *)
(* error to handle_api_errors, which returns -1.                           *)
TaskResult(type, outcome) ==
  CASE outcome = "ok"   -> 0
    [] outcome = "temp" -> -1
    [] outcome = "perm" -> IF type = RENAME_REMOTE_FOLDER THEN -1 ELSE 0

AfterTask(i, ret) == IF ret = 0 THEN RemoveTask(i) ELSE task

(* task_createfolder runs at once on the main worker.                      *)
MainRunCreateFolder ==
  /\ mpc = "select" /\ Ready # {}
  /\ LET i == Min(Ready) IN
     /\ task[i].type = CREATE_REMOTE_FOLDER
     /\ \E o \in Outcomes : task' = AfterTask(i, TaskResult(task[i].type, o))
  /\ UNCHANGED <<nextTaskId, catalog, locks, ut, status, main>>

(* A rename or delete task: enter task_wait_no_uploads.                    *)
MainRunBarrierTask ==
  /\ mpc = "select" /\ Ready # {}
  /\ LET i == Min(Ready) IN
     /\ task[i].type \in BarrierTypes
     /\ mpc' = "barrier" /\ mtask' = i
  /\ UNCHANGED <<task, nextTaskId, catalog, locks, ut, status,
                 upload_wakes, mslot>>

(* Mutant of MainBarrier: no wait for filesuploading to reach zero.      *)
MainBarrier_NoCountWait ==
  /\ mpc = "barrier"
  /\ mpc' = IF \E i \in DOMAIN task : i < mtask /\ task[i].type = UPLOAD_FILE
            THEN "select" ELSE "command"
  /\ UNCHANGED <<task, nextTaskId, catalog, locks, ut, status,
                 upload_wakes, mtask, mslot>>

(* task_wait_no_uploads: wait while files are uploading, then fail (-1,    *)
(* retry later) if an UPLOAD_FILE task with a smaller id is still queued.  *)
MainBarrier ==
  /\ mpc = "barrier"
  /\ mpc' = CASE filesuploading # 0 -> "barrier_wait"
              [] \E i \in DOMAIN task : i < mtask /\ task[i].type = UPLOAD_FILE
                                    -> "select"
              [] OTHER              -> "command"
  /\ UNCHANGED <<task, nextTaskId, catalog, locks, ut, status,
                 upload_wakes, mtask, mslot>>

(* The server call of a rename or delete task and its result.  A          *)
(* successful deletefile removes the server copy of the file.              *)
MainCommand ==
  /\ mpc = "command"
  /\ \E o \in Outcomes :
       LET ret == TaskResult(task[mtask].type, o) IN
       /\ task' = AfterTask(mtask, ret)
       /\ remote' = IF o = "ok" /\ task[mtask].type = DELETE_REMOTE_FILE
                    THEN remote \ {task[mtask].file} ELSE remote
  /\ mpc' = "select"
  /\ UNCHANGED <<nextTaskId, created, localfile, lfsize, bound, hasUpload,
                 locks, ut, status, upload_wakes, mtask, mslot>>

-----------------------------------------------------------------------------
(***************************************************************************)
(* An upload thread: task_uploadfile and task_run_upload_file_thread.      *)
(***************************************************************************)

\* task_uploadfile returns r before it has taken the file lock ...
Fail(s, r) ==
  /\ ut' = [ut EXCEPT ![s].st = "release", ![s].ret = r]
  /\ UNCHANGED locks
\* ... or after it, unlocking on the way out; a 0 from the upload paths
\* goes through delete_uploadids first.
Finish(s, r) ==
  /\ ut' = [ut EXCEPT ![s].st = "release", ![s].ret = r]
  /\ locks' = locks \ {ut[s].file}
FinishUploaded(s, r) ==
  /\ ut' = [ut EXCEPT ![s].st = IF r = 0 THEN "cleanup" ELSE "release",
                      ![s].ret = r]
  /\ locks' = locks \ {ut[s].file}

(* Mutant of Bind: the fileid is recorded whether or not the row exists. *)
Bind_NoRowCheck(f) ==
  /\ remote' = remote \cup {f}
  /\ bound' = bound \cup {f}

\* set_local_file_remote_id / set_local_file_conflicted after the server
\* stored the file: the row, if it still exists, gets the remote fileid.
Bind(f) ==
  /\ remote' = remote \cup {f}
  /\ bound' = IF f \in localfile THEN bound \cup {f} ELSE bound

\* add_bytes_uploaded(n) by thread s, with its wake_upload_when_ready.
AddBytesUploaded(s, n) ==
  /\ bytesuploaded' = (bytesuploaded + n) % Word
  /\ mpc' = WakeUploadWhenReady(filesuploading, bytestouploadcurrent,
                                (bytesuploaded + n) % Word)
  /\ UNCHANGED <<filesuploading, bytestouploadcurrent>>

(* Mutant of ThreadBegin: the file lock is taken without waiting for it. *)
ThreadBegin_NoLock(s) ==
  /\ ut[s].st = "begin"
  /\ LET f == ut[s].file IN
     \/ /\ ut[s].stop \/ f \notin localfile \/ TRANSIENT
        /\ Fail(s, IF ~ut[s].stop /\ f \notin localfile THEN 0 ELSE -1)
     \/ /\ ~ut[s].stop /\ f \in localfile
        /\ locks' = locks \cup {f}
        /\ ut' = [ut EXCEPT ![s].st = "hash"]
  /\ UNCHANGED <<task, nextTaskId, catalog, status, main>>

(* Start of task_uploadfile: the stop flag, the localfile row (its path),  *)
(* the "too new" wait, then psync_lock_file.                               *)
ThreadBegin(s) ==
  /\ ut[s].st = "begin"
  /\ LET f == ut[s].file IN
     \/ /\ ut[s].stop \/ f \notin localfile \/ f \in locks \/ TRANSIENT
        /\ Fail(s, IF ~ut[s].stop /\ f \notin localfile THEN 0 ELSE -1)
     \/ /\ ~ut[s].stop /\ f \in localfile /\ f \notin locks
        /\ locks' = locks \cup {f}
        /\ ut' = [ut EXCEPT ![s].st = "hash"]
  /\ UNCHANGED <<task, nextTaskId, catalog, status, main>>

(* The upload id lookup and the local checksum: a vanished file deletes    *)
(* its localfile row and ends the task; a new size corrects                *)
(* bytestouploadcurrent and localfile.size.                                *)
ThreadHash(s) ==
  /\ ut[s].st = "hash"
  /\ LET f == ut[s].file IN
     \/ /\ TRANSIENT /\ f \in hasUpload
        /\ Finish(s, -1)
        /\ UNCHANGED <<catalog, status>>
     \/ /\ Finish(s, 0)
        /\ localfile' = localfile \ {f} /\ bound' = bound \ {f}
        /\ UNCHANGED <<created, lfsize, remote, hasUpload, status>>
     \/ \E fsize \in Sizes :
          /\ bytestouploadcurrent' =
               IF fsize # ut[s].filesize
               THEN (bytestouploadcurrent - ut[s].filesize + fsize) % Word
               ELSE bytestouploadcurrent
          /\ ut' = [ut EXCEPT ![s].filesize = fsize, ![s].st = "dedup"]
          /\ lfsize' = IF f \in localfile THEN [lfsize EXCEPT ![f] = fsize]
                                          ELSE lfsize
          /\ UNCHANGED <<locks, created, localfile, bound, remote, hasUpload,
                         filesuploading, bytesuploaded>>
  /\ UNCHANGED <<task, nextTaskId, main>>

(* The remote folder lookup, check_file_if_exists and copy_file_if_exists,*)
(* then the choice between upload_file and upload_big_file.                *)
ThreadDedup(s) ==
  /\ ut[s].st = "dedup"
  /\ LET f == ut[s].file IN
     \/ /\ Finish(s, 0)
        /\ UNCHANGED catalog
     \/ /\ Finish(s, 0)
        /\ Bind(f)
        /\ UNCHANGED <<created, localfile, lfsize, hasUpload>>
     \/ /\ TRANSIENT
        /\ Finish(s, -1)
        /\ UNCHANGED catalog
     \/ /\ ut' = [ut EXCEPT ![s].st =
                    IF ut[s].filesize <= MIN_SIZE_FOR_CHECKSUMS
                    THEN "small" ELSE "bigstart"]
        /\ UNCHANGED <<locks, catalog>>
  /\ UNCHANGED <<task, nextTaskId, status, main>>

(* One PSYNC_COPY_BUFFER_SIZE chunk of upload_file.  The last chunk is not *)
(* counted when the file turns out to have grown.                          *)
ThreadSmallChunk(s) ==
  /\ ut[s].st = "small"
  /\ \/ /\ ut[s].stop \/ TRANSIENT
        /\ Finish(s, -1)
        /\ UNCHANGED <<status, mpc>>
     \/ /\ ~ut[s].stop
        /\ ut' = [ut EXCEPT ![s].pos = @ + 1, ![s].uploaded = @ + 1,
                   ![s].st = IF ut[s].pos + 1 = ut[s].filesize
                             THEN "smallres" ELSE "small"]
        /\ AddBytesUploaded(s, 1)
        /\ UNCHANGED locks
  /\ UNCHANGED <<task, nextTaskId, catalog, upload_wakes, mtask, mslot>>

(* The answer to uploadfile: errors by class; on success the catalog is   *)
(* bound first and only then size and hash are compared.                   *)
ThreadSmallResult(s) ==
  /\ ut[s].st = "smallres"
  /\ \E o \in Outcomes :
       \/ /\ o # "ok"
          /\ FinishUploaded(s, IF o = "temp" THEN -1 ELSE 0)
          /\ UNCHANGED catalog
       \/ /\ o = "ok"
          /\ Bind(ut[s].file)
          /\ \E mismatch \in IF TRANSIENT THEN BOOLEAN ELSE {FALSE} :
               FinishUploaded(s, IF mismatch THEN -1 ELSE 0)
          /\ UNCHANGED <<created, localfile, lfsize, hasUpload>>
  /\ UNCHANGED <<task, nextTaskId, status, main>>

(* Mutant of ThreadBigStart: the resumed offset reaches bytesuploaded    *)
(* but not upload->uploaded.                                              *)
ThreadBigStart_OffsetUncounted(s) ==
  /\ ut[s].st = "bigstart"
  /\ LET f == ut[s].file IN
     \E resume \in IF f \in hasUpload THEN BOOLEAN ELSE {FALSE} :
     \E off \in IF resume THEN 0 .. ut[s].filesize ELSE {0} :
       LET u == ut[s] IN
       /\ \/ /\ TRANSIENT \/ (~resume /\ f \notin localfile)
             /\ ut' = [ut EXCEPT ![s] = [u EXCEPT !.st = "release", !.ret = -1]]
             /\ locks' = locks \ {f}
             /\ UNCHANGED hasUpload
          \/ /\ ~resume
             /\ ut' = [ut EXCEPT ![s] = [u EXCEPT !.st = "cleanup", !.ret = 0]]
             /\ locks' = locks \ {f}
             /\ UNCHANGED hasUpload
          \/ /\ resume \/ f \in localfile
             /\ hasUpload' = hasUpload \cup {f}
             /\ \E rs \in [1 .. ut[s].filesize - off -> {"U", "C"}] :
                  ut' = [ut EXCEPT ![s] = [u EXCEPT !.ranges = rs, !.pos = 1,
                                             !.pending = {}, !.st = "big"]]
             /\ UNCHANGED locks
       /\ IF off > 0 THEN AddBytesUploaded(s, off)
                     ELSE UNCHANGED <<status, mpc>>
  /\ UNCHANGED <<task, nextTaskId, created, localfile, lfsize, bound, remote,
                 upload_wakes, mtask, mslot>>

(* upload_big_file up to its range list: a resumed upload counts the bytes *)
(* the server already has; upload_create registers a new upload id unless *)
(* the localfile row vanished; the block matching splits the rest of the  *)
(* file into sent and server-copied ranges.                                *)
ThreadBigStart(s) ==
  /\ ut[s].st = "bigstart"
  /\ LET f == ut[s].file IN
     \E resume \in IF f \in hasUpload THEN BOOLEAN ELSE {FALSE} :
     \E off \in IF resume THEN 0 .. ut[s].filesize ELSE {0} :
       LET u == [ut[s] EXCEPT !.uploaded = @ + off] IN
       /\ \/ /\ TRANSIENT \/ (~resume /\ f \notin localfile)
             /\ ut' = [ut EXCEPT ![s] = [u EXCEPT !.st = "release", !.ret = -1]]
             /\ locks' = locks \ {f}
             /\ UNCHANGED hasUpload
          \/ /\ ~resume
             /\ ut' = [ut EXCEPT ![s] = [u EXCEPT !.st = "cleanup", !.ret = 0]]
             /\ locks' = locks \ {f}
             /\ UNCHANGED hasUpload
          \/ /\ resume \/ f \in localfile
             /\ hasUpload' = hasUpload \cup {f}
             /\ \E rs \in [1 .. ut[s].filesize - off -> {"U", "C"}] :
                  ut' = [ut EXCEPT ![s] = [u EXCEPT !.ranges = rs, !.pos = 1,
                                             !.pending = {}, !.st = "big"]]
             /\ UNCHANGED locks
       /\ IF off > 0 THEN AddBytesUploaded(s, off)
                     ELSE UNCHANGED <<status, mpc>>
  /\ UNCHANGED <<task, nextTaskId, created, localfile, lfsize, bound, remote,
                 upload_wakes, mtask, mslot>>

(* One pass of the range loop of upload_big_file: the stop check, then    *)
(* upload_range, upload_from_file or upload_from_upload, each counting the *)
(* range as uploaded once sent; after the last range the LAST request     *)
(* (upload_info) is sent.                                                  *)
ThreadBigSend(s) ==
  /\ ut[s].st = "big"
  /\ \/ /\ ut[s].stop \/ TRANSIENT
        /\ Finish(s, -1)
        /\ UNCHANGED <<status, mpc>>
     \/ /\ ~ut[s].stop /\ ut[s].pos <= Len(ut[s].ranges)
        /\ ut' = [ut EXCEPT ![s].pending = @ \cup {ut[s].pos},
                   ![s].pos = @ + 1, ![s].uploaded = @ + 1]
        /\ AddBytesUploaded(s, 1)
        /\ UNCHANGED locks
     \/ /\ ~ut[s].stop /\ ut[s].pos > Len(ut[s].ranges)
        /\ ut' = [ut EXCEPT ![s].st = "biglast"]
        /\ UNCHANGED <<locks, status, mpc>>
  /\ UNCHANGED <<task, nextTaskId, catalog, upload_wakes, mtask, mslot>>

(* Reading the answer to the oldest outstanding range.  An error on a     *)
(* server-side copy drains the other answers, turns that range into an    *)
(* upload range and restarts the loop from it (`goto restart`), sending   *)
(* it and every later range again.                                         *)
ThreadBigResponse(s) ==
  /\ ut[s].st \in {"big", "biglast"} /\ ut[s].pending # {}
  /\ LET j == Min(ut[s].pending) IN
     \/ /\ ut' = [ut EXCEPT ![s].pending = @ \ {j}]
        /\ UNCHANGED <<locks, status, mpc>>
     \/ /\ TRANSIENT \/ ut[s].ranges[j] = "U"
        /\ Finish(s, -1)
        /\ UNCHANGED <<status, mpc>>
     \/ /\ ut[s].ranges[j] = "C"
        /\ IF ut[s].stop
           THEN /\ Finish(s, -1)
                /\ UNCHANGED <<status, mpc>>
           ELSE /\ ut' = [ut EXCEPT ![s].ranges[j] = "U", ![s].pending = {j},
                           ![s].pos = j + 1, ![s].uploaded = @ + 1,
                           ![s].st = "big"]
                /\ AddBytesUploaded(s, 1)
                /\ UNCHANGED locks
  /\ UNCHANGED <<task, nextTaskId, catalog, upload_wakes, mtask, mslot>>

(* The LAST answer (size and checksum), the file size check and           *)
(* upload_save, which binds the catalog on success.                        *)
ThreadBigFinish(s) ==
  /\ ut[s].st = "biglast" /\ ut[s].pending = {}
  /\ \/ /\ TRANSIENT
        /\ Finish(s, -1)
        /\ UNCHANGED catalog
     \/ \E o \in Outcomes :
          /\ FinishUploaded(s, IF o = "temp" THEN -1 ELSE 0)
          /\ IF o = "ok" THEN Bind(ut[s].file) ELSE UNCHANGED <<bound, remote>>
          /\ UNCHANGED <<created, localfile, lfsize, hasUpload>>
  /\ UNCHANGED <<task, nextTaskId, status, main>>

(* delete_uploadids after task_uploadfile has unlocked the file.          *)
ThreadCleanup(s) ==
  /\ ut[s].st = "cleanup"
  /\ hasUpload' = hasUpload \ {ut[s].file}
  /\ ut' = [ut EXCEPT ![s].st = "release"]
  /\ UNCHANGED <<task, nextTaskId, created, localfile, lfsize, bound, remote,
                 locks, status, main>>

(* task_run_upload_file_thread after the upload: a failure clears          *)
(* inprogress and wakes the worker, a success deletes the task.            *)
ThreadRelease(s) ==
  /\ ut[s].st = "release"
  /\ ut' = [ut EXCEPT ![s].st = "exit"]
  /\ IF ut[s].ret # 0
     THEN /\ task' = SetInprogress(ut[s].taskid, FALSE)
          /\ PuploadWake
     ELSE /\ task' = IF ut[s].taskid \in DOMAIN task
                     THEN RemoveTask(ut[s].taskid) ELSE task
          /\ UNCHANGED <<upload_wakes, mpc>>
  /\ UNCHANGED <<nextTaskId, catalog, locks, status, mtask, mslot>>

(* Mutants of ThreadExit: the file's size is not taken off               *)
(* bytestouploadcurrent; the worker waiting on current_uploads_cond is    *)
(* not signalled.                                                          *)
ThreadExit_KeepsSize(s) ==
  /\ ut[s].st = "exit"
  /\ LET fu  == filesuploading - 1
         cur == IF fu = 0 THEN 0 ELSE bytestouploadcurrent
         up  == IF fu = 0 THEN 0 ELSE UDiff(bytesuploaded, ut[s].uploaded)
     IN /\ filesuploading' = fu
        /\ bytestouploadcurrent' = cur
        /\ bytesuploaded' = up
        /\ mpc' = WakeUploadWhenReady(fu, cur, up)
  /\ ut' = [ut EXCEPT ![s] = FreeUT]
  /\ UNCHANGED <<task, nextTaskId, catalog, locks, upload_wakes, mtask, mslot>>
ThreadExit_NoWake(s) ==
  /\ ut[s].st = "exit"
  /\ LET fu  == filesuploading - 1
         cur == IF fu = 0 THEN 0
                ELSE UDiff(bytestouploadcurrent, ut[s].filesize)
         up  == IF fu = 0 THEN 0 ELSE UDiff(bytesuploaded, ut[s].uploaded)
     IN /\ filesuploading' = fu
        /\ bytestouploadcurrent' = cur
        /\ bytesuploaded' = up
        /\ UNCHANGED mpc
  /\ ut' = [ut EXCEPT ![s] = FreeUT]
  /\ UNCHANGED <<task, nextTaskId, catalog, locks, upload_wakes, mtask, mslot>>

(* ... then, under current_uploads_mutex: take the file off the counters, *)
(* zero the byte counters with the last upload, leave `uploads`, and       *)
(* wake_upload_when_ready.                                                 *)
ThreadExit(s) ==
  /\ ut[s].st = "exit"
  /\ LET fu  == filesuploading - 1
         cur == IF fu = 0 THEN 0
                ELSE UDiff(bytestouploadcurrent, ut[s].filesize)
         up  == IF fu = 0 THEN 0 ELSE UDiff(bytesuploaded, ut[s].uploaded)
     IN /\ filesuploading' = fu
        /\ bytestouploadcurrent' = cur
        /\ bytesuploaded' = up
        /\ mpc' = WakeUploadWhenReady(fu, cur, up)
  /\ ut' = [ut EXCEPT ![s] = FreeUT]
  /\ UNCHANGED <<task, nextTaskId, catalog, locks, upload_wakes, mtask, mslot>>

-----------------------------------------------------------------------------
(***************************************************************************)
(* The callers: the local scanner's apply phase (plocalscan.c) and the     *)
(* other users of pupload_wake / pupload_stop_all.                         *)
(***************************************************************************)

(* scan_upload_file: INSERT OR IGNORE the localfile row, queue its upload.*)
ScanUploadFile(f) ==
  /\ f \notin created /\ nextTaskId <= MaxTaskId
  /\ created' = created \cup {f} /\ localfile' = localfile \cup {f}
  /\ \E sz \in Sizes : lfsize' = [lfsize EXCEPT ![f] = sz]
  /\ task' = WithTask(task, UPLOAD_FILE, f) /\ nextTaskId' = nextTaskId + 1
  /\ UNCHANGED <<bound, remote, hasUpload, locks, ut, status, main>>

(* scan_upload_modified_file: pupload_del_tasks, the new size, a new      *)
(* upload task.                                                            *)
ScanUploadModifiedFile(f) ==
  /\ f \in localfile /\ nextTaskId <= MaxTaskId
  /\ task' = WithTask(WithoutUploadsOf(task, f), UPLOAD_FILE, f)
  /\ nextTaskId' = nextTaskId + 1
  /\ ut' = StopUploadsOf(f)
  /\ \E sz \in Sizes : lfsize' = [lfsize EXCEPT ![f] = sz]
  /\ UNCHANGED <<created, localfile, bound, remote, hasUpload, locks, status,
                 main>>

(* scan_delete_file: read localfile.fileid, pupload_del_tasks, delete the *)
(* row, and queue a remote delete when the row had a fileid.               *)
ScanDeleteFile(f) ==
  /\ f \in localfile
  /\ f \in bound => nextTaskId <= MaxTaskId
  /\ IF f \in bound
     THEN /\ task' = WithTask(WithoutUploadsOf(task, f), DELETE_REMOTE_FILE, f)
          /\ nextTaskId' = nextTaskId + 1
     ELSE /\ task' = WithoutUploadsOf(task, f)
          /\ UNCHANGED nextTaskId
  /\ ut' = StopUploadsOf(f)
  /\ localfile' = localfile \ {f} /\ bound' = bound \ {f}
  /\ UNCHANGED <<created, lfsize, remote, hasUpload, locks, status, main>>

(* The folder and rename tasks the scanner queues (scan_create_folder,    *)
(* scan_rename_file, scan_rename_folder, scan_delete_folder).             *)
ScanQueueTask(type) ==
  /\ task' = WithTask(task, type, NoFile) /\ nextTaskId <= MaxTaskId
  /\ nextTaskId' = nextTaskId + 1
  /\ UNCHANGED <<catalog, locks, ut, status, main>>

(* pupload_wake from the scanner or the timer exception handler.           *)
Wake ==
  /\ ~upload_wakes
  /\ PuploadWake
  /\ UNCHANGED <<task, nextTaskId, catalog, locks, ut, status, mtask, mslot>>

(* pupload_stop_all: flag every entry of `uploads`.                        *)
StopAll ==
  /\ \E s \in Slots : ut[s].st # "free" /\ ~ut[s].stop
  /\ ut' = [s \in Slots |-> IF ut[s].st # "free"
                           THEN [ut[s] EXCEPT !.stop = TRUE] ELSE ut[s]]
  /\ UNCHANGED <<task, nextTaskId, catalog, locks, status, main>>

-----------------------------------------------------------------------------
NoSlot == "none"

Init ==
  /\ task = [i \in {} |-> [type |-> UPLOAD_FILE, file |-> NoFile,
                           inprogress |-> FALSE]]
  /\ nextTaskId = 1
  /\ created = {} /\ localfile = {} /\ bound = {} /\ remote = {}
  /\ lfsize = [f \in Files |-> Min(Sizes)]
  /\ hasUpload = {} /\ locks = {}
  /\ ut = [s \in Slots |-> FreeUT]
  /\ filesuploading = 0 /\ bytesuploaded = 0 /\ bytestouploadcurrent = 0
  /\ upload_wakes = FALSE /\ mpc = "select" /\ mtask = 0 /\ mslot = NoSlot

MainStep ==
  \/ MainIdle \/ MainWoken \/ MainRunUpload \/ MainSlotCheck
  \/ MainRunCreateFolder \/ MainRunBarrierTask \/ MainBarrier \/ MainCommand

ThreadStep(s) ==
  \/ ThreadBegin(s) \/ ThreadHash(s) \/ ThreadDedup(s)
  \/ ThreadSmallChunk(s) \/ ThreadSmallResult(s)
  \/ ThreadBigStart(s) \/ ThreadBigSend(s) \/ ThreadBigResponse(s)
  \/ ThreadBigFinish(s) \/ ThreadCleanup(s) \/ ThreadRelease(s)
  \/ ThreadExit(s)

Environment ==
  \/ \E f \in Files : ScanUploadFile(f) \/ ScanUploadModifiedFile(f)
                      \/ ScanDeleteFile(f)
  \/ \E type \in TaskTypes \ {UPLOAD_FILE, DELETE_REMOTE_FILE} :
       ScanQueueTask(type)
  \/ Wake
  \/ StopAll

Next == MainStep \/ (\E s \in Slots : ThreadStep(s)) \/ Environment

(* The worker and every upload thread keep running (they are threads of  *)
(* the process, scheduled by the OS); the scanner and the other callers   *)
(* are not obliged to do anything.                                         *)
Fairness ==
  /\ WF_vars(MainStep)
  /\ \A s \in Slots : WF_vars(ThreadStep(s))

Spec == Init /\ [][Next]_vars /\ Fairness

-----------------------------------------------------------------------------
(***************************************************************************)
(* Properties.                                                             *)
(***************************************************************************)

TaskRecord == [type : TaskTypes, file : Files \cup {NoFile},
               inprogress : BOOLEAN]
UTRecord == [st : ThreadStates, taskid : 0 .. MaxTaskId,
             file : Files \cup {NoFile}, filesize : {0} \cup Sizes,
             uploaded : Nat, stop : BOOLEAN, ret : {0, -1}, pos : Nat,
             ranges : Seq({"U", "C"}), pending : SUBSET Nat]

TypeOK ==
  /\ DOMAIN task \subseteq 1 .. MaxTaskId
  /\ \A i \in DOMAIN task : task[i] \in TaskRecord
  /\ nextTaskId \in 1 .. MaxTaskId + 1
  /\ created \subseteq Files /\ localfile \subseteq created
  /\ lfsize \in [Files -> Sizes]
  /\ bound \subseteq localfile /\ remote \subseteq created
  /\ hasUpload \subseteq created /\ locks \subseteq created
  /\ ut \in [Slots -> UTRecord]
  /\ {filesuploading, bytesuploaded, bytestouploadcurrent} \subseteq 0 .. Word - 1
  /\ upload_wakes \in BOOLEAN
  /\ mpc \in {"select", "idle_wait", "idle_woken", "slot_check", "slot_wait",
              "barrier", "barrier_wait", "command"}
  /\ mtask \in 0 .. MaxTaskId /\ mslot \in Slots \cup {NoSlot}

(* The status counters that gate new uploads agree with the threads that *)
(* are running: filesuploading counts them, and bytestouploadcurrent and  *)
(* bytesuploaded are the sums of their upload_list_t filesize and         *)
(* uploaded fields.  Several threads update the counters under            *)
(* current_uploads_mutex at admission (task_run_uploadfile), on a size    *)
(* change (task_uploadfile), per chunk (add_bytes_uploaded) and at exit   *)
(* (task_run_upload_file_thread, which zeroes them with the last upload). *)
StatusMatchesThreads ==
  /\ filesuploading = Cardinality(Running)
  /\ bytestouploadcurrent = SumUT(Running, "filesize") % Word
  /\ bytesuploaded = SumUT(Running, "uploaded") % Word

(* When the worker sends a rename or delete to the server, no upload      *)
(* thread is running and no UPLOAD_FILE task queued before it is left:    *)
(* task_wait_no_uploads waits for filesuploading to drop to zero and then *)
(* refuses while an earlier upload task, e.g. one that failed and went    *)
(* back to inprogress=0, is still in the table.                           *)
RemoteOpsAfterUploads ==
  mpc = "command" =>
    /\ Running = {}
    /\ ~\E i \in DOMAIN task : i < mtask /\ task[i].type = UPLOAD_FILE

(* No two upload threads work on the same local file at once, although    *)
(* pupload_del_tasks lets a new upload task of a file be admitted while   *)
(* the cancelled thread of its old task is still running: the path lock   *)
(* (psync_lock_file) is taken before the checksum and released on every   *)
(* way out of task_uploadfile.                                             *)
OneUploadPerFile ==
  \A s1, s2 \in Slots :
    s1 # s2 /\ ut[s1].st \in LockedStates /\ ut[s2].st \in LockedStates
      => ut[s1].file # ut[s2].file

(* A wait of the worker on current_uploads_cond, for an upload slot in     *)
(* task_run_uploadfile or for the uploads to end in task_wait_no_uploads, *)
(* always ends: some finishing thread signals it (wake_upload_when_ready, *)
(* also after the unsigned byte gate went wrong).                          *)
WorkerWaitsEnd ==
  mpc \in {"slot_wait", "barrier_wait"} ~> mpc \notin {"slot_wait", "barrier_wait"}

(* Spec section 8, invariant 3: psync_status.bytesuploaded never exceeds   *)
(* psync_status.bytestouploadcurrent.                                      *)
BytesUploadedWithinTotal ==
  bytesuploaded <= bytestouploadcurrent

(* A file gets a copy on the server only while its localfile row exists, *)
(* so that deleting the file locally (scan_delete_file) also deletes it   *)
(* remotely.                                                               *)
RemoteCopyOnlyForLiveFiles ==
  [][\A f \in Files : f \notin remote /\ f \in remote' => f \in localfile']_vars

(* Every queued task eventually leaves the table (spec section 7: the      *)
(* queue drops items whose failure is fatal and retries the others),      *)
(* provided no network or disk hiccups happen (TRANSIENT = FALSE) and     *)
(* pupload_stop_all is eventually no longer called.                        *)
QueueDrains ==
  <>[][~StopAll]_vars =>
    \A i \in 1 .. MaxTaskId : i \in DOMAIN task ~> i \notin DOMAIN task

(* A thread in the middle of a big-file upload writes to the upload id   *)
(* it created or resumed (upload_big_file, upload_range), so that id, a   *)
(* localfileupload row of its file, must stay until the thread is done;   *)
(* another thread's delete_uploadids, called after psync_unlock_file,     *)
(* must not remove it.                                                    *)
UploadIdKept ==
  \A s \in Slots : ut[s].st \in {"big", "biglast"} => ut[s].file \in hasUpload

=============================================================================
