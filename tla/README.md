# TLA+ models of the pCloud sync core (pclsync)

This directory holds TLA+ specifications of the concurrent and algorithmic
parts of the sync core under `src/pclsync/`, the TLC configurations that check
them, and `PROJECT.json`. `PROJECT.json` lists every component, run, mutant,
finding and hazard. It also maps each definition to the source lines it
translates.

## 1. The system

The sync core keeps a local directory tree and a pCloud account in step. The
part in this repository is the upload direction. Its parts:

| Part | Source | Concurrency |
|---|---|---|
| Shadow catalog (SQLite tables `localfile`, `task`, `localfileupload`, ...) | outside `src/` | shared by every thread, under the SQL lock |
| Local scanner | `plocalscan.c` | one scanner thread; wake/restart/stop from any thread |
| Task queue and upload worker | `pupload.c` | one main worker (`upload_thread`) plus one thread per running file upload |
| Connection pool, HTTP connection cache and prewarming, block checksums, range building, speed limits | `pnetlibs.c` | shared by the upload threads; one dial thread per prewarmed host |
| Path listing, settings, business-account calls, device monitor | `ppath.c`, `psettings.c`, `pbusinessaccount.c`, `pdevice_monitor.c` | I/O wrappers |

### How the parts interact

1. **The scanner produces the tasks.** The scanner compares the disk with the
   catalog and, in its apply phase, writes `localfile` rows. It queues `task`
   rows for:
   - uploads (`scan_upload_file`, `scan_upload_modified_file`);
   - remote deletes (`scan_delete_file`);
   - folder creation, renames and recursive folder deletes.

   It calls `pupload_del_tasks` for a file it sees modified or deleted. That
   deletes the file's queued upload tasks and sets `stop` on its running
   uploads.
2. **The main worker dispatches the tasks.** `upload_thread` repeatedly takes
   the lowest task id with `inprogress=0`:
   - **Folder creation** runs on the main worker itself.
   - **Renames and deletes** first pass the barrier `task_wait_no_uploads`. The
     barrier waits on `current_uploads_cond` until `filesuploading` is 0. It then
     fails (the task is retried) while an upload task with a smaller id is
     still queued.
   - **Uploads** go through `task_run_uploadfile`. It marks the task
     `inprogress=1` and adds an `upload_list_t` to the `uploads` list. It then
     waits on `current_uploads_cond` while the upload gate is closed:
     `filesuploading >= PSYNC_MAX_PARALLEL_UPLOADS`, or
     `bytestouploadcurrent - bytesuploaded > PSYNC_START_NEW_UPLOADS_TRESHOLD`.
     When the gate opens, it adds the file to the counters and starts a thread.
3. **An upload thread runs `task_uploadfile`.** In order, it:
   1. checks the stop flag and the row, then takes `psync_lock_file`;
   2. hashes the file, correcting the counters if the size changed;
   3. checks whether the server already has the content (same name, or by
      checksum), and if so binds the row;
   4. otherwise uploads, either in one `uploadfile` call (small files) or as a
      resumable upload with pipelined ranges (big files: `upload_big_file`).

   On the way out it adjusts the counters under `current_uploads_mutex`, and
   the last thread to finish zeroes them. `wake_upload_when_ready` then signals
   the main worker.
4. **`pupload_wake` ends the worker's idle wait.** When the worker finds no
   ready task, it waits on `upload_cond` until `pupload_wake` counts a wake.
   `pupload_stop_all` sets every upload's stop flag.

### Correctness properties the code should have

- The status counters equal the count and the byte sums over the running
  uploads. The gate reads them, and spec §8 invariant 3 says
  `bytesuploaded <= bytestouploadcurrent`.
- A rename or delete reaches the server only after every earlier upload has
  finished.
- No two threads upload the same file at once.
- A file deleted locally has no server copy left behind.
- The worker's waits end.
- Every task eventually leaves the queue. Spec §7 says fatal errors drop the
  item.
- An uploaded file is at least `PSYNC_UPLOAD_OLDER_THAN_SEC` old when its
  upload starts; a file that keeps changing is skipped and retried (spec §6
  step 2).
- A thread's upload id stays on the server while the thread writes to it.
- A scan uses an ignore list built from the current pattern no more than an
  hour before (spec §4.5).
- An HTTP socket, whether cached, handed over by a prewarm dial or dialled
  afresh, reaches only callers of its own host and TLS mode; one prewarm dial
  has at most one waiting thread (spec §4.3).

## 2. Modules

### `UploadQueue.tla`: the task queue, the main worker and the upload threads

The module covers one sync. Its constants are a set of `Files`, a set of
thread `Slots` and `MaxTaskId`.

**State:**

| Variable | Code it models |
|---|---|
| `task` | the `task` table: id ↦ type, file, `inprogress` |
| `nextTaskId` | the table's next row id |
| `localfile`, `lfsize`, `bound` | the `localfile` rows, their `size`, and whether `fileid` is set |
| `remote` | the server has a copy of the file |
| `hasUpload` | the file has a `localfileupload` row |
| `locks` | `psync_lock_file` |
| `ut[s]` | one `upload_list_t` together with its thread's program counter, taken from `uploads` |
| `filesuploading`, `bytesuploaded`, `bytestouploadcurrent` | `psync_status`, in `WordBits`-bit unsigned arithmetic |
| `upload_wakes`, `mpc`, `mtask`, `mslot` | the main worker: `upload_wakes`, its program counter with the condition-variable waits, and the task and slot it handles |

**Actions:**

- **Main worker.** Each step of the main worker is an action. `MainRunUpload`
  and `MainSlotCheck` are `task_run_uploadfile`. `MainBarrier` is
  `task_wait_no_uploads`.
- **Upload threads.** Each stretch of `task_uploadfile` between two
  interleaving points is an action: `ThreadBegin`, `ThreadHash`, `ThreadDedup`,
  `ThreadSmallChunk`, `ThreadSmallResult`, `ThreadBigStart`, `ThreadBigSend`,
  `ThreadBigResponse`, `ThreadBigFinish`, `ThreadCleanup`, `ThreadRelease` and
  `ThreadExit`.
- **Scanner apply functions.** These are environment actions:
  `ScanUploadFile`, `ScanUploadModifiedFile`, `ScanDeleteFile` and
  `ScanQueueTask`.
- **Other callers.** `Wake` and `StopAll` model the remaining callers of
  `pupload_wake` and `pupload_stop_all`.
- **Server answers and transient failures.** These are nondeterministic
  choices. Transient failures (network, disk, lock busy) are enabled by the
  constant `TRANSIENT`.

**Abstractions:**

- Contents and checksums are abstracted away.
- A file's size is a member of `Sizes`. A size of at most
  `MIN_SIZE_FOR_CHECKSUMS` takes the small-file path.
- A big file is split into one range per byte. Each range is an upload range
  (`"U"`) or a server-side copy (`"C"`), chosen freely, which stands for what
  the block matching of `pnetlibs.c` can produce.
- Condition variables are program-counter states: `slot_wait`, `barrier_wait`
  and `idle_wait`. A signal moves the worker on only when the code's condition
  for signalling holds.

`MCUploadQueue.tla` gives the model values: one file `f1` and up to three slots.
`MCUploadQueueBoth.tla` instantiates the module twice for the passing run:
`UQA` with three slots and two parallel uploads of one-unit files, and `UQB`
with two slots, one upload at a time and files of one or two units. A flag
`bon`, chosen in the initial state, decides which instance takes steps while
the other stays in its initial state. Weak fairness is stated on `UQB`'s
steps only, since `UQA` is checked for invariants only.

### `TooNewWait.tla`: the too-new wait of `task_uploadfile`

Before it locks the file, `task_uploadfile` (`pupload.c:1342-1380`) stats it.
A file modified less than `PSYNC_UPLOAD_OLDER_THAN_SEC` (`OLDER`) ago is not
uploaded yet: the thread sleeps until the file should be old enough, stats it
again, and repeats while it is still new and `++ret <= 10`. A file whose
mtime is more than two seconds in the future skips the waits. After the loop,
`ret == 10` means the file "kept changing" and the task fails for now;
otherwise the thread goes on to `psync_lock_file`.

**State.** `now` is `ptimer_time()`; `mtime` and `exists` are the file on
disk; `stm`, `ctime` and `ret` are the code's `st`, `ctime` and `ret`; `wake`
is the earliest time the current sleep ends (the sleep's extra 500 ms make it
end at or after that second); `pc` is the thread's control point; `lastNew`
records whether the loop's last stat found the file too new.

**Actions.** `Check` is the first stat and its two branches, `Loop` the loop
body up to the sleep, `Wake` the re-stat and the two tests (`while` and
`ret == 10`). `Tick`, `Write` (another process writes the file, its mtime
becoming the current second) and `Remove` are the environment.
`psync_apipool_prepare`, called once on the way in, is `ApiPool`'s `Prepare`
and does not affect the wait.

### `ChecksumTable.tla`, `TableSizing.tla` and `ContentSet.tla`: the block checksum table

`pnetlibs.c` finds blocks of a local file that the server already has. It does
this with an open-addressed hash table over the blocks' Adler-32 checksums.

- **`TableSizing`** is the size search of `psync_net_create_hash` together with
  `psync_is_prime`, written as `RECURSIVE` operators. The search starts at
  `((blockcnt+1)/2)*6+1` and tests `c` and `c+4` in steps of 6.
- **`ChecksumTable` state.** `blocks` is the block id ↦ content map. `adlerOf`
  gives each content an Adler-32 value drawn from `AdlerVals`, so that different
  contents can collide. `elements` holds the slots, and `next` the SHA-1 chains
  of equal blocks. `blockactions` is each block's transfer or copy decision.
- **`ChecksumTable` actions.**
  - `CreateHash` inserts one block per step. It either chains the block to an
    equal one, takes a free slot, or drops it after `MAX_ADLER_COLL` collisions.
  - `CheckWindow(c)` is one hit of the window loop of
    `psync_net_check_file_for_blocks`. It runs `psync_net_block_match_found`,
    which marks the whole chain as "copy" and calls `psync_net_hash_remove`.
    The removal shifts entries back into the hole.
- **`ContentSet`** is what the table promises: a set of stored contents from
  which a match claims a content exactly once. `ChecksumTable` maps its
  occupied slots to `stored` and its copied blocks to `claimed`, and the run
  checks `ABS!Spec` as a property.

### `AdlerChecksum.tla`: the Adler-32 weak checksum

`adler32` (`pnetlibs.c:1937`) sums a buffer into two 16-bit halves in
`uint32_t`: `adler`, the byte sum, and `sum`, the sum of the running byte
sums. It folds both modulo `ADLER32_BASE` (65521) once every
`ADLER32_NMAX` (5552) bytes, the longest run that cannot wrap, with the
loop unrolled 16 bytes at a time. `adler32_roll` (`:1964`) slides a window
of `len` bytes one byte on, adding `BASE * BASE` so the unsigned
difference stays positive.

The module writes the loops as operators: `Add1` is `ADLER32_1`, `AddAll`
a fold of it over a sequence, `Chunks` the three loops, and `Word` the
wrap at `2^W`. `AdlerRef` is the checksum from its definition over the
integers. TLC's integers stop at `2^31`, so the model is checked on a
scaled word: `W` = 8 bits, `BASE` = 13, `NMAX` = 9 and an unrolling of 3.
These keep the relations the code's constants have: `BASE * BASE < 2^W`,
`BASE` fits a half word, `NMAX` is the largest chunk whose sums cannot
wrap for the largest byte (3 here), and the unrolling divides `NMAX`.
`UploadPlan` and `DownloadScan` abstract the rolled value to the bytes of
the window; the two properties below are what justifies that.

### `RangePlan.tla`: the download plan

`psync_net_download_ranges` turns the per-block actions that
`psync_net_check_file_for_blocks` found into the list of ranges a new file
is built from. A range is either TRANSFER (fetched from the server) or COPY
(read from a local file at an offset). Adjacent blocks merge when they have
the same type and, for COPY, the same file and a contiguous offset.

- **Operators.** `DownloadRanges` is the whole function: the fallback to one
  full TRANSFER range when there are no candidate files or the checksums are
  permanently unavailable, `"tempfail"` on a temporary failure or a size
  mismatch, and otherwise the first range followed by `Coalesce`, the `for`
  loop. One round of the loop is `AddBlock`, its merge test `Continues`, a
  new range `NewRange`, and the last block's length `BlockLen`.
- **Abstractions.** A block action is a record; the file name is the index
  into `files[]`. `PSYNC_RANGE_*` is defined in a header outside `src/`; the
  model takes the zeroed `blockactions` (the `memset`) to be TRANSFER, which
  is how `psync_net_block_match_found` reads an unclaimed block.
  `first` is what `blockactions[0]` holds: `acts[0]`, or any action when the
  file has no blocks and the read is past a `malloc(0)` buffer.

`MCAlgorithms.tla` sweeps the inputs of both `TableSizing` (block counts 1..400) and `RangePlan`: block sizes 2 and 3, files of up to
three blocks, every assignment of TRANSFER or COPY from two files at
offsets 0..4, and every checksum outcome. The reference `Expected` gives,
for each byte of the new file, the file and offset it must come from;
`Produced` flattens a plan into the same form.

### `UploadPlan.tla`: the upload plan

`upload_big_file` (`pupload.c`) starts from one UPLOAD range, from the
resume offset to the end of the file. It then scans that range against the
block checksums of the remote file (`psync_net_scan_file_for_blocks`) and of
earlier uploads (`psync_net_scan_upload_for_blocks`). The matches replace
parts of the range with COPY ranges. Finally every copy longer than
`PSYNC_MAX_COPY_FROM_REQ` is split. The sending loop then numbers the
ranges' upload offsets in list order.

- **`check_range_for_blocks` keeps its ring buffer.** `ScanStart` is the
  setup and first read, and `ScanLoop` runs one `Iteration` per round of the
  `while` loop. A round is made of:
  - `MatchStep`: the Adler-32 probe, the SHA-1 over the window, which may
    wrap, and on a match `Matched`, which extends or starts a range and
    starts the skip;
  - `AlignStep`: the block-boundary work. It is composed of `WrapOut`
    (the `outbyteoff` wrap), `RefillAt` (the half refills, with the zero
    padding of a short read) and `FinishSkip` (the end of a skip, where
    `Resync` recomputes the sum);
  - `EndRound`: the `continue` after a skip, or the roll.

  Unknown buffer bytes are `Uninit`. Reading one, reading past the buffer,
  or not ending is recorded as a fault.
- **The Adler-32 sum is the window it sums.** A roll is correct only when
  the byte that leaves is the first byte of the summed window. Otherwise
  the sum becomes `Garbage`, which matches nothing.
  `AdlerRollsWindow` and `AdlerOfBuffer` (`AdlerChecksum`) check that the
  code's arithmetic earns this abstraction.
- **`MergeOne` is one round of `merge_list_to_element`.** It has four
  cases: a match covers the whole range, its start, its end, or its middle.
- **`ScanFile`, `ScanSources`, `SplitCopies` and `UploadRanges`** are the
  list walk, the order of the scans, the split and the whole plan.

`MCAlgorithms.tla` gives block size 2 and `PSYNC_COPY_BUFFER_SIZE` 8. A
range of 8 or more bytes therefore gets the 8-byte buffer, and a shorter one
the 4-byte buffer. `PSYNC_MAX_COPY_FROM_REQ` is 3. Local files have 2 to 9
bytes over {0, 1}, with resume offset 0 or 1. The sources are:

- for files of up to 7 bytes, the remote file alone (one or two blocks),
  or the remote file and one earlier upload (one block each);
- for files of 8 and 9 bytes, the remote file alone, with one block.

### `DownloadScan.tla`: the download-side block scan

`psync_net_download_ranges` (`pnetlibs.c`) starts with every block of the
remote file TRANSFER. It then reads each local candidate file with
`psync_net_check_file_for_blocks`, which turns blocks it finds into COPY
actions, and finally coalesces the actions with the code `RangePlan` models.

- **The same ring buffer as the upload scan.** The buffer, the half reads,
  the zero padding of a short read and the Adler-32 roll are `UploadPlan`'s
  operators. `DScanLoop` runs one `DIteration` per round. A round is
  `DMatchStep` (the probe and the lookup), then `DAtBoundary` (`DWrapOut`,
  the `outbyteoff` wrap that advances `buffoff`, and the refill), then
  `DEndRound` (the roll).
- **`MatchFound` is `psync_net_block_match_found`.** The matched block and
  every block chained to it as an equal content become COPY from this file
  at `buffoff + outbyteoff`. The content then leaves the hash, so a later
  file cannot claim it again.
- **`CheckFiles` and `ScanLocals`** are the loop over the local files, which
  stops at the first fault.

`MCAlgorithms.tla` gives a remote file of two 2-byte blocks over {0, 1},
the second full or one byte long. The local side is one file of up to 7
bytes, or two files of up to 3 bytes each.

### `FolderScan.tla`: change detection of the local scanner

This module is the part of `plocalscan.c` that decides what changed. It is a
function of the disk and the catalog, with no state of its own.

- **The two lists of a folder.** `DiskList` is `scanner_local_folder_to_list`
  without the entries on the ignore list (`IsPathToIgnore`). `DbList` is
  `scanner_db_folder_to_list` without the rows whose name is ignored. Those
  rows go to `try_delete_local*` (`DbIgnored`). Both lists are sorted by name
  (`folderlist_cmp`).
- **`Walk` is the merge walk of `scanner_scan_folder`.**
  - A name only on disk goes to `AddNew` (`add_new_element`). It skips
    folders of another device, ignored names and invalid UTF-8 names.
  - A name only in the catalog goes to `AddDeleted`.
  - A name on both sides with a different kind is both deleted and new.
  - A name on both sides with the same kind is handled by `SameKind`. The
    disk entry takes the catalog ids, and a file whose mtime, size or inode
    changed is modified.
  - A folder whose short device id and inode both changed, on the sync's
    device, has its local id cleared (`Relocated`).
- **`Descend` and `ScanFolder`.** `Descend` recurses into every disk folder
  with a local id that is on the sync's device. `ScanFolder` is the whole
  function.
- **Rename extraction.** `ScanSync` is `scanner_scan`'s walk from the sync
  root, followed by the rename extraction: folders by `compare_inode`, then
  files by `compare_sizeinodemtime`. `psync_list_extract_repeating` is
  outside `src/`. It is modelled from spec §4.5 as `ExtractRepeating`: both
  lists are sorted by the comparator and walked in step, and pairs that
  compare equal move out in order.

The harness has three sweeps, 27,186 scans in all:

- **A.** A root with names 1 and 2. Each name is absent, a file, or a folder
  on either side. Disk folders are on device 1 or 2, and catalog folders
  have short id 10 or 20.
- **B.** A catalogued subfolder, with files 1 and 2 in the root and file 3
  inside it. These are moves between two scanned folders.
- **C.** Files 1 and 2 under every combination of an ignore-list entry, an
  ignored name and an invalid name.

### `LocalScan.tla`: the scanner thread's control

The module covers the scanner thread and the threads that call into it.

**State:**

| Variable | Code it models |
|---|---|
| `scan_wakes`, `restart_scan`, `scan_stoppers` | the three counters under `scan_mutex` |
| `spc` | the scanner's program counter: `scanner_thread`'s loop, the steps of `scanner_scan`, and the two waits on `scan_cond` (`waitcond` is the timed wait of `scanner_wait`, `stopwait` the `scan_stoppers` loop) |
| `lastscan`, `restartsleep`, `movedfolders`, `changes` | the locals of the same names |
| `found`, `created` | the contents of the nine `scan_lists`; the folders made by the current folder batch |
| `happened`, `applied` | changes the user made on disk; changes written to the catalog |
| `statusOk` | `pstatus_ok_status_arr(requiredstatuses)` |
| `stpc` | each stopper thread, between `psync_stop_localscan` and `psync_resume_localscan` |
| `interrupted` | history: a restart or stop arrived while the lists were being filled |

**Actions:**

- **Scanner steps.** `Boot`, `Top` and `Throttle` are `scanner_thread`.
  `ScanRestart` is the `restart:` label. `Gather` is the tree walk: it lists
  every change it can see, which excludes files in folders that are not yet in
  the catalog. `CheckDirs`, `ApplyDirs` and `ScanCreated` are the folder loop.
  `CheckFiles` and `ApplyFiles` are the file batch, and `Backoff` is the
  restart path. `Wait`, `Timeout` and `Woken` are `scanner_wait`.
- **Other threads.** `Wake`, `Restart`, `Stop(s)`, `Resume(s)` and
  `WakeNoScan` are the five entry points, and `Signal` is
  `pthread_cond_signal` on `scan_cond`.
- **Environment.** `StatusChange` and `FsChange(c)` are the environment.

`MCControl.tla` checks it with a new folder `d1` holding a new file `f1`, a
new file `f2` in an existing folder, and two stoppers.

### `ApiPool.tla`: the API connection pool

The module covers `api_pool_sem`, the cache, the acquire and release paths,
and server switches.

**State:**

| Variable | Code it models |
|---|---|
| `sem` | the value of `api_pool_sem` |
| `apiserver` | `apiserver`, and with it `apikey` |
| `sstate`, `peer`, `misc`, `key`, `broken` | each socket: closed, in use or cached; the host it is connected to; `sock->misc`; the key it was cached under; whether it has gone bad |
| `pc`, `hold` | each calling thread and the socket it holds |
| `lost` | history: permits taken by a `psync_get_api` whose `papi_connect` failed |

**Actions:**

- **Thread steps.** The steps of `psync_apipool_get` are `CacheGet` and
  `Check` (`api_sock_is_broken`). `psync_get_api` is split into `SemWait`,
  `Dial` and `SetMisc`. The caller's command is `Use`. The release paths are
  `ReleaseCheck` and `ReleaseAdd` (`psync_apipool_release`) and `ReleaseBad`.
  `Prepare` is `psync_apipool_prepare`.
- **Environment.** `SetServer` is `psync_apipool_set_server`. `Break` and
  `Expire` are a cached socket going bad and its idle timeout.

**Abstractions:**

- `pcache` is outside `src/` and is modelled from how it is used.
- A host stands for its hash, so hash collisions are not modelled.

`MCApiPool.tla` gives two threads, hosts `a` and `b`, and two or three socket
identities for the violation runs. `MCControl.tla` checks the passing
properties of `LocalScan` and `ApiPool` in one run: the two share no state,
so a variable `apon`, chosen once in the initial state, selects which of
them takes steps while the other stays in one of its initial states, and
each keeps the fairness of its own module.

### `HttpPrewarm.tla`: the HTTP connection cache and prewarming

`psync_http_connect_and_cache_host` puts a node for a host into
`connect_cache_tree` (ordered by host name) and starts `connect_cache_thread`,
which dials the host. When the dial ends the thread takes the node out of the
tree and either hands the socket to a thread waiting on the node or puts it
into `pcache` under `HTTP<usessl>-<host>`. `psync_http_connect_multihost`
tries each host's cached socket, then waits on a dial in flight
(`connect_cache_wait_for_http_connection`), then dials each host itself;
`psync_http_close` caches a reusable socket.

**State:**

| Variable | Code it models |
|---|---|
| `tree` | `connect_cache_tree`, as its in-order sequence of nodes |
| `node` | each `connect_cache_tree_node_t`: host, `usessl`, `haswaiter`, `ready`, the result, and where its dial thread is |
| `cache` | `pcache`'s sockets under each `HTTP<usessl>-<host>` key |
| `usessl` | the `usessl` setting |
| `cpc`, `ci`, `cssl`, `cnode`, `got`, `chost`, `cfrom` | each caller: its phase, loop index, local `usessl`, the node it waits on, the socket and `*host` it returns, and whether it is the `_from_cache` variant |

**Actions:** `ConnectAndCacheHost` (the tree search, the "already in
progress" test with `connect_cache_neighbour_is_free_duplicate`, the insert);
the dial thread's `Connect` (outside the mutex) and `Deliver` (under it);
the caller's `Start`, `CacheStep`, `WaitStep`, `WaitDone`, `DialStep` and
`Close`; the environment's `SetUsessl` (`psync_setting_set_bool`) and
`Expire` (pcache's timeout).

**Abstractions:** a search of the tree may stop at any node of the host,
since which one it meets depends on the tree's shape; a socket is the pair
(`usessl`, host) it was dialled with, and a key the pair its string encodes;
`pcache` (outside `src/`) keeps `MAXIDLE` sockets a key, dropping the oldest.

The module is checked inside `MCAlgorithms` (run `alg_sweep`) as a third
state machine beside the checksum table and the speed governor.

### `SpeedGovernor.tla`: the upload speed governor

`account_uploaded_bytes` (`pnetlibs.c`) keeps the bytes of the current
second in `upload_bytes_this_sec`. When a call sees that
`psync_current_time` has moved past `current_upload_sec`, it rolls: it
stores a `(second, bytes)` sample in the ring `upload_bytes_sec`, starts the
new second, and publishes `upload_speed`, the mean of the samples of the last
`PSYNC_SPEED_CALC_AVERAGE_SEC` seconds. Every upload thread calls it from
`psync_socket_writeall_upload`, and the 1 Hz timer `psync_netlibs_timer`
calls it with 0 bytes. None of these calls takes a lock.

**State:**

| Variable | Code it models |
|---|---|
| `now` | `psync_current_time` |
| `cur`, `this`, `ring`, `off`, `speed` | `current_upload_sec`, `upload_bytes_this_sec`, `upload_bytes_sec[]`, `upload_bytes_off`, `upload_speed` |
| `dyn` | `dyn_upload_speed`, the auto-shaper's budget |
| `pc`, `mode`, `cap`, `num`, `tsec`, `wwr`, `accb`, `accl` | each thread's control point and the locals of the call it is in |
| `wire`, `capwire`, `hist`, `stale` | history: bytes `psock_write` sent in each second (all, and those of capped calls), the bytes each second's roll recorded, and whether an update acted on a stale read |

**Actions:**

- **`account_uploaded_bytes`.** `AccCheck` is the test of the second.
  `AccLoad` and `AccStore` are the two halves of `+=`. `AccRoll` is the
  `else` branch, in one step. `stale` records an `AccStore` whose loaded
  value has changed since, or an `AccRoll` of a second that another thread
  has already rolled.
- **`psync_socket_writeall_upload`.** `Call` reads `maxuploadspeed`. The
  auto-shaper reads the shared `dyn_upload_speed` three times with no lock,
  and each read is a step of its own. `Auto` is the `while` test against
  the budget. `AutoCmp` is `num > dyn_upload_speed - thissec`, where the
  unsigned difference wraps when the budget has dropped below `thissec`.
  `AutoLen` is `wwr = dyn_upload_speed - thissec`, which as a `long` is
  then negative. `Writable` is the `!psock_writable` decrease. Together they
  are the auto-shaper, `Capped` is the cap, and `WriteAll` is
  the unlimited branch. `Write` is `psock_write`, which may send all of the
  bytes, one byte, or fail. `WaitNextSec` is `ptimer_wait_next_sec`.
- **The timer.** `Tick` is the timer thread advancing `psync_current_time`.
  It is outside `src/` and modelled from the spec. `NetlibsTimer` is the
  callback. `Finished` lets every thread stop at the last modelled second.

**What the stale condition hides.** Both properties are stated as "unless an
update acted on a stale read", and TLC shows that such updates happen. With
the condition removed, `CapHeld` fails in 12 states with one upload thread:

1. The timer ticks and decides to roll.
2. The upload thread sends 1 byte under a cap of 2, rolls the new second
   itself, and sets the counter to 1.
3. The timer's late roll sets the counter back to 0.
4. The upload thread sends 2 more bytes in the same second.

Spec §5 and §9 call these counters single-writer per direction with benign
races. The timer is a second writer, and the lost count lets a capped upload
exceed its cap. This is listed under hazards.

**Two upload threads.** `MCSpeedGovernor.tla` gives the module two
writers in the auto-shaper, for the run `sg_two_writers` (see "What the
violations show").

`MCAlgorithms.tla` instantiates the module (as `SG`) for one writer `w1`
and the timer; a flag `sgon`, set in one extra initial state, lets it take
steps while the algorithm sweeps stay put.

### `IgnorePaths.tla` and `IgnoreList.tla`: the ignore list of the scanner

At the start of every scan, `scanner_scan` calls `reload_ignored_folders`
(`plocalscan.c`). It builds `ignored_paths`, the `(device, inode)` pairs of
the directories named in the `ignorepaths` setting, which
`is_path_to_ignore` consults during the walk (`FolderScan` takes that set as
an input).

- **`IgnorePaths`** is the parser as pure operators over a string (a
  sequence of one-character strings, NUL past the end). `SkipSpace`,
  `PieceEnd` and `TrimEnd` are the three pointer loops, `DirOf` the `$HOME`
  expansion (`NoHome` when `ppath_home` returns NULL), and `ParseFrom` /
  `ParsePiece` the `while (1)` loop. `IgnoredDirs(s, home)` is the sequence
  of paths handed to `add_ignored_dir`. `MCAlgorithms` checks it against a
  reference that splits, trims and expands (`IgnorePathsParsed`).
- **`IgnoreList` state.** `setting` is the setting's string; `ign_checksum`
  and `ign_last_check` are the statics (SHA-256 is injective on the strings
  modelled, so the checksum is the string itself, and `NoChecksum` the
  zeroed digest); `ignored_paths` the list; `now` is `ptimer_time()`; `fs`
  gives each path its inode or `Absent`. The history variables `scanAt` and
  `scanPattern` record when the last scan started and what setting it read.
- **`IgnoreList` actions.** `ReloadIgnoredFolders` is the whole of
  `reload_ignored_folders` with `add_ignored_dir`: the skip test, then the
  new checksum and time, the emptied list and one `stat` per parsed path.
  `SetIgnorePaths` is `psync_setting_set_string`; its change callback only
  wakes the scanner, and the scanner's timing is left free (it scans on a
  wake or a timeout, and not at all while `pstatus` holds it). `Tick`
  advances the clock and `ChangeDir` removes or recreates a directory.

## 3. Runs

| Run | Config | Expect | What it shows |
|---|---|---|---|
| `uq_uploads` | `UQPass.cfg` | pass | Two instances of `UploadQueue` (`MCUploadQueueBoth`). `UQA`: small files with up to 2 parallel uploads, cancel/re-queue of the same file, folder/rename/delete tasks and transient failures; it checks `UqaTypeOK`, `StatusMatchesThreads`, `RemoteOpsAfterUploads` and `OneUploadPerFile`. `UQB`: the big-file path with resume offsets, pipelined ranges, copy-range errors and size changes; it checks `BigStatusMatchesThreads` and `WorkerWaitsEnd` (every wait on `current_uploads_cond` ends). |
| `alg_sweep` | `AlgSweep.cfg` | pass | The pure algorithms of `pnetlibs.c` and the change detection of `plocalscan.c` over about 80,000 inputs, one per initial state, and the checksum table as a state machine from its own initial states. It checks twenty-five properties:<br>• `AdlerOfBuffer`: `adler32` over every buffer of up to 5 bytes of value 0..3, and over buffers of 3s of up to 20 bytes (which pass the 9-byte chunk), summed in one call or in two calls the second continuing from the first, equals Adler-32 from its definition;<br>• `AdlerRollsWindow`: `adler32_roll` of the Adler-32 of a window gives the Adler-32 of the window moved one byte on;<br>• `IgnorePathsParsed` (spec §4.5): for every `ignorepaths` string of up to four pieces among a path character, a space, `;`, a newline, `$HOME` and `$HOM`, with and without a home directory, the pointer walk of `reload_ignored_folders` hands `add_ignored_dir` exactly the trimmed, `$HOME`-expanded pieces in order (empty pieces aside, which `stat` rejects), against a reference that splits, trims and expands;<br>• `TableSizeMinimalPrime`: for every block count from 1 to 400, the table size is prime, at least 3 × blocks, and the first prime the search reaches, against a plain reference definition of primality;<br>• `PlanReproducesFile`: every byte the plan writes comes from where the block actions say;<br>• `PlanCoalesced` (spec §4.4): no two neighbouring ranges could have been one;<br>• `ScanSound`: the block scan of an upload stays inside its buffer, reads only bytes it has written, ends, and the merge never uses a freed range;<br>• `UploadPlanReproducesFile` (spec §6 step 7): the ranges of the upload plan, read in order, are the local file from the resume offset;<br>• `DownloadScanFindsFirst` (spec §4.4): the download scan stays in its buffer. A block is COPY exactly when some local file holds it, and the copy is from the first file and offset in scan order;<br>• `DownloadPlanBuildsRemote`: the scan and the coalescing together give a plan that builds the remote file;<br>• `ScanListsMatchCatalog` (spec §4.5): over the folders the walk reaches, the scan lists hold exactly the new, deleted and modified entries, once each, by parent folder, name and kind. This is checked against a reference diff;<br>• `RenamesPaired` (spec §4.5, §10 scenario 4): renames pair only entries with equal keys, and no pairable deleted and new entry is left unpaired;<br>• for tables of up to 4 blocks of 3 contents with colliding and wrapping Adler values, built and then matched: `CtTypeOK`, `LookupMatchesTable` (both lookups agree with the slots), `ProbeBound` (every entry within `MAX_ADLER_COLL` of home), `MatchCoversDuplicates` (a match claims every equal block) and the refinement `ContentSetRefined`;<br>• the upload speed governor, one upload thread racing the 1 Hz timer over the unlocked counters for three seconds, each call taking the auto-shaper, a cap of 2 bytes a second or no limit: `SgTypeOK`, `SpeedIsAverage` (the published speed is the exact mean of the bytes of the last `AVG` whole seconds, against a history of what each roll recorded) and `CapHeld` (calls under the cap never send more than the cap in one second, across partial writes, other calls of the same second and a second that ends between the check and the write); both of these hold unless an update acted on a stale read; and `WriteLenValid` (every length the shaping loop hands to `psock_write` lies between zero and the bytes the call still has to send);<br>• the HTTP prewarm cache, two callers of `psync_http_connect_multihost` (one asking hosts 2 then 1, one host 1, each either variant) against two prewarm dials of host 1, failing dials and a change of `usessl`: `HpTypeOK`, `OneWaiterPerNode` (no two threads wait on one dial, whose `res` and `cond` point at the waiter's stack), `SocketsMatchKeys` (every cached socket is under its own host and TLS mode, and every caller holds a socket of the host it returns and the `usessl` it read) and `OneFreeDialPerHost` (the "already in progress" test never lets two unwaited dials to a host coexist). |
| `scan_pool` | `Control.cfg` | pass | The scanner's control and the API pool, each from its own initial states (`MCControl`). It checks seven properties:<br>• `LsTypeOK`;<br>• `NoLostSignal`: the scanner never sleeps on `scan_cond` with a wake counted or with every stopper resumed;<br>• `AppliesOnlyUninterruptedScans`: lists filled while a restart or stop was pending are never applied;<br>• `ChangesEventuallyApplied` (spec §8.4): once the required statuses stay ok, every change on disk is eventually applied;<br>• `ApTypeOK`;<br>• `PermitsAccounted` (spec §5, strong form): with failing connects, three socket identities and `MaxOps` 4, every permit of `api_pool_sem` is free, held by a thread between `sem_wait` and the connect, held by an open socket, or lost to a failed connect (the history variable `lost`). With `sem >= 0` this bounds the open sockets by `PSYNC_APIPOOL_MAXACTIVE`;<br>• `GetReturnsUnlessPermitLost`: in every run where no connect fails, every `sem_wait` ends. |
| `uq_double_count` | `UQDoubleCount.cfg` | violation | `BytesUploadedWithinTotal` (spec §8.3) fails. |
| `uq_orphan` | `UQOrphan.cfg` | violation | `RemoteCopyOnlyForLiveFiles` fails. |
| `uq_queue_drains` | `UQQueueDrains.cfg` | violation | `QueueDrains` fails. |
| `ap_permit_leak` | `APPermitLeak.cfg` | violation | `GetEventuallyReturns` fails when connects can fail. |
| `ap_stale_server` | `APStaleServer.cfg` | violation | `CachedMatchesKey` (spec §4.2) fails. |
| `il_stale` | `ILStale.cfg` | violation | `IgnoreListFresh` (spec §4.5) fails. |
| `tnw_keeps_changing` | `TNWKeepsChanging.cfg` | violation | `GotOldEnough` (spec §6 step 2) fails. |
| `uq_uploadid_deleted` | `UQUploadIdDeleted.cfg` | violation | `UploadIdKept` fails. |
| `sg_two_writers` | `SGTwoWriters.cfg` | violation | `WriteLenValid` fails with two upload threads in the auto-shaper (`MCSpeedGovernor`). |

### What the violations show

- **`uq_double_count`.** After a failed server-side copy range,
  `upload_big_file` jumps to `restart` (`pupload.c:1179`). It then sends that
  range and every later one again, and counts their bytes again. The trace has
  11 states.
- **`uq_orphan`.** `scan_delete_file` deletes the row of a file whose upload is
  past its last stop check. The upload then binds or creates the server copy.
  The row it would update is gone, so no remote delete is ever queued.
- **`uq_queue_drains`.** `task_renameremotefolder` returns -1 for every server
  error (`handle_api_errors`). A permanent error therefore keeps the lowest
  task id in the queue forever, and every later task starves.
- **`ap_permit_leak`.** `psync_get_api` calls `sem_wait` before
  `papi_connect` (`pnetlibs.c:130`). When the connect fails it returns NULL
  and never posts the permit. After `PSYNC_APIPOOL_MAXACTIVE` failed connects
  (2 in the trace), the next API call blocks in `sem_wait` forever, even once
  the network is back.
- **`ap_stale_server`.** `psync_apipool_release` checks `misc` against
  `apiserver`, then calls `pcache_add` under `apikey`. A
  `psync_apipool_set_server` between the two puts a socket to the old host
  into the new host's cache slot. The same happens when the server changes
  during the dial, because `misc` is computed after `papi_connect`. The trace
  has 8 states.
- **`il_stale`.** `reload_ignored_folders` returns early when the pattern's
  SHA-256 is unchanged and `ign_last_check + 3600 < ptimer_time()`
  (`plocalscan.c:219`), that is exactly when the list is older than an
  hour. While it is younger, every scan rebuilds it. The trace: a scan at
  time 3, no scan for more than an hour (`Hour` = 2, e.g. while `pstatus`
  holds the scanner back), and a scan at time 6 that keeps the list of
  time 3. Every later scan keeps it as well, until the setting changes, so
  an ignored directory that is removed and made again (new inode) is
  synced. Spec §4.5 says the list is refreshed when the pattern changes or
  the cache is older than an hour; the test reads as if
  `ptimer_time() < ign_last_check + 3600` was meant.
- **`tnw_keeps_changing`.** The too-new wait loop is
  `while (mtime >= ctime - OLDER && ++ret <= 10)`, and the give-up test after
  it is `ret == 10` (`pupload.c:1372`). A file still new at the eleventh
  re-check leaves the loop with `ret = 11`, which the test misses, and the
  thread locks and uploads a file that is still being written. The trace
  (24 states, `OLDER` = 1) writes the file once a second while the thread
  sleeps. The reverse also holds: a file that settles exactly at the
  eleventh check leaves with `ret = 10` and is skipped although it is old.
  The message "kept changing, skipping for now" and spec §6 step 2 say a
  changing file is skipped; the test reads as if `ret > 10` was meant.
- **`uq_uploadid_deleted`.** `task_uploadfile` calls `psync_unlock_file`
  and only then `delete_uploadids` (`pupload.c:1529`), which deletes every
  `localfileupload` row of the file, and the ids on the server. In the
  16-state trace, thread 1 decides not to resume and unlocks; the scanner
  sees the file modified and queues a new upload; thread 2 takes the lock,
  starts a big-file upload and creates an upload id; thread 1's cleanup then
  deletes it. Thread 2's writes fail, its task is retried, and the
  transferred bytes are wasted.
- **`sg_two_writers`.** `psync_socket_writeall_upload` reads the global
  `dyn_upload_speed` three times with no lock (`pnetlibs.c:856`, `:863`,
  `:864`). In the 22-state trace the budget is 3 and the second has sent
  2 bytes. Thread `w2` passes the test `num > dyn_upload_speed - thissec`
  (3 > 1). Thread `w1`'s `psock_writable` fails, and it halves the budget
  to 1. `w2` then computes `wwr = 1 - 2`, which wraps as `unsigned long`
  and is -1 as a `long`, and it hands that length to `psock_write`. Spec
  §5 and §9 call the races on the speed counters benign. With a single
  upload thread the length is always valid (`WriteLenValid` in `alg_sweep`).

- **A defect seen in the range plan, without a run.** `psync_net_download_ranges` gives the first range
  `len = blocksize` unconditionally (`pnetlibs.c:2101`). Only blocks 1 and
  later get the short last-block length. For a file of one partial block
  (the trace: `filesize` 1, `blocksize` 2) the plan is one range of 2 bytes,
  so it asks for bytes past the end of the remote file or copies too much of
  the local one. For the empty file there are no blocks, and
  `blockactions[0]` is read from a `malloc(0)` buffer. A one-block file is a
  case a unit test reaches directly, so `alg_sweep` checks the plan only up
  to the file's length (`PlanReproducesFile`), and the defect is listed under
  hazards.
- **A padded window can match, without a run.** After the last short read,
  `psync_net_check_file_for_blocks` zero-fills the rest of the block
  (`pnetlibs.c:2063`). The scan then goes on over windows that end in that
  padding. TLC shows a case: a local file `0,0,1` against remote blocks
  `<<0,0>>` and `<<1,0>>`. Block 1 matches at offset 2, using a pad byte, so
  the plan copies 2 bytes from a file that has only 1 there. Whether this
  corrupts a download depends on the copier outside `src/`. The properties
  therefore check a COPY only over the bytes the file has, and this is listed
  as a hazard.

### Bounds and why they are enough

- **One file.** Every race in the module is between threads or tasks of the
  same file: the path lock, `pupload_del_tasks`, the barrier and the
  delete/upload race. Threads of different files interact only through the
  counters. Those counters are exercised just as well by two uploads of one
  file, which happens after a cancel and re-queue.
- **Three slots and `MaxTaskId = 3`.** This allows an old cancelled thread, a
  new one and a queued third task.
- **`MAX_PARALLEL_UPLOADS = 2` in the small-file runs.** This makes the
  parallel admission and the gate reachable.
- **`MAX_PARALLEL_UPLOADS = 1` and two slots in `UQB`.** The big
  path has many more states, so this instance keeps the parallelism small.
  No symmetry is used: the two instances have different slot sets, and
  `WorkerWaitsEnd` is a liveness property.
- **`WordBits = 16`.** This is enough to show a wrap without making sums
  overflow by accident.

- **Checksum table: `AdlerVals = {0, 12, 13, 26}`, `MAX_ADLER_COLL = 1`,
  up to 4 blocks.** With 1 to 4 blocks the table has 7 or 13 slots. 13 and 26
  share home slot 0 in a 13-slot table, and 12 and 26 share slot 5 in a
  7-slot one. So collisions, the cap, wrap-around at the last slot and the
  backward shift over a wrapped run all occur. Three contents over four
  blocks give equal blocks, and hence chains.
- **Adler-32: a scaled word of 8 bits, buffers of up to 5 bytes of 0..3
  and buffers of 3s of up to 20 bytes.** With the largest byte the sums
  reach the word's limit at the ninth byte, so the longer buffers need the
  fold of every chunk, and a sum that is never folded wraps by the
  fourteenth. Every cut point of every buffer exercises the continuation
  from a previous value that the download scan uses over its ring's wrap.
- **Table sizing: block counts 1..400.** This covers every size-search
  branch: `c` prime, `c+4` prime, and several steps of 6.
- **Range plan: block sizes 2 and 3, up to three blocks, offsets 0..4.**
  Three blocks give a first, a middle and a last block. Two block sizes
  give a last block that is full and one that is partial. Offsets 0..4 with
  block size 2 let a COPY continue contiguously, restart at the same place,
  or overlap. The fallback paths do not read the block actions, so they are
  enumerated with all blocks TRANSFER.
- **Upload plan: block size 2, buffers of 4 and 8 bytes, files of up to 9
  bytes.** Files of up to 9 bytes wrap the 4-byte ring twice and fill the
  8-byte one. Every file of up to 7 bytes, with one or two remote blocks, gives
  matches at every alignment, repeated blocks, adjacent matches that merge,
  a match cut by the end of the file, and ranges longer than the
  3-byte copy limit. The second source makes an UPLOAD remainder in the
  middle of the file be scanned again.
- **Download scan: two remote blocks, a 4-byte buffer, one local file of up
  to 7 bytes or two of up to 3.** Seven bytes wrap the 4-byte ring and refill
  it twice. A second file sees the hash after the first has removed
  contents. Equal blocks give chains. A one-byte last block is a short
  content that no full window can equal.
- **Folder scan: two names per folder, one level of subfolder.** Two names
  give every order of the merge walk: disk first, catalog first, and equal.
  Each name is absent, a file or a folder, so every kind change occurs. Two
  inodes and two mtimes give modified files, and files whose rename key
  differs in one component only. Two devices give a foreign folder and a
  relocated one. The subfolder in sweep B gives moves between folders,
  which is spec §10 scenario 4. Deeper trees repeat the same walk.
- **Local scanner: `MaxCalls = 3`.**
  These allow a stop, a resume and a restart to land inside one pass. They
  also allow a wake to land in each wait, and the backoff to double several
  times. Two stoppers exercise the "signal only at zero" test. The folder
  `d1` with its file `f1` is the case that needs `scan_created_folder`.
- **API pool: two threads, two hosts, `MAXACTIVE = 2`, `MAXIDLE = 1`,
  `MaxOps` 4 or 5.** Two threads can hold both permits and contend for the
  cache. One idle socket per key makes the eviction path reachable. Two hosts
  allow a switch. `ap_pool` has three socket identities, so that a
  missing `sem_wait` or an extra `sem_post` shows as a third open socket.
- **Speed governor: one upload thread and the timer, `AVG = 2`, seconds
  1..3, a cap of 2, 3 bytes a call, two calls.** A 3-byte call under a cap
  of 2 must be split across seconds. Two calls let a second call be checked
  against the first call's bytes of the same second. Three seconds with a
  window of 2 fill the ring and wrap it. The timer's roll can interleave
  with every step of the thread's own accounting.
- **Two upload threads: budget 3, `DEC_PER` 50, seconds 1..2, one call of
  3 bytes each, the auto-shaper only.** The smallest budget at which one
  thread can send 2 bytes, stay below the budget, and see it halved below
  `thissec` by the other thread.

- **Too-new wait: `OLDER` = 1, start at time 2, times up to 30.** With one
  second of age required, each loop pass lasts about one second, so 30
  seconds allow the eleven re-checks and a write before each. The initial
  mtime ranges over old, new and more than two seconds in the future, so
  all three branches of the first test occur.
- **Upload id run: three slots, `MaxTaskId = 3`, `MAX_PARALLEL_UPLOADS = 2`.**
  Two upload threads of one file can then run at once: one cleaning up after
  its unlock, one starting the big-file path.

- **HTTP prewarm: two hosts, two callers, two dial nodes, two prewarms of
  host 1, one idle socket a key, one change of `usessl`.** Two prewarms of
  one host with a waiter in between give the second node and its neighbour
  search; two callers can both reach the wait phase for host 1, which is the
  two-waiter case. One caller's list fails over from host 2 (never
  prewarmed) to host 1. One change of the setting between a node's creation
  and its deposit is what a wrong cache key needs; further changes repeat it.
  One idle socket a key makes `pcache`'s eviction reachable.

- **Ignore list: two directories, settings "a" and "a;b", two inodes, an
  hour of 2 time units and times 3..7.** Two settings give a pattern change;
  the clock passes the hour after a build, which is what the skip test is
  about. The parser sweep of `MCAlgorithms` covers every arrangement of
  separators, white space and `$HOME` up to four pieces, with and without a
  home directory.

### Fairness

- **Weak fairness on the main worker and on each upload thread.** Each is a
  kernel thread that runs whenever it is not blocked.
- **No fairness on the environment.** Scanner calls, wakes and stops need not
  happen.
- **`QueueDrains` is a conditional property.** It is conditioned on
  `StopAll` eventually no longer happening, and its run has `TRANSIENT = FALSE`.
  Transient errors could otherwise repeat forever, which is not a bug.
- **`UQPass.cfg` disables deadlock checking.** In the bounded model, a
  worker idle on `upload_cond` with no input left is a legitimate final state.
  A worker stuck in a wait is caught by `WorkerWaitsEnd` instead.
- **ApiPool: weak fairness on each thread's steps and on the cache's expiry
  of each idle socket.** Expiry is the cache's timer. The `AP*.cfg` runs and `Control.cfg`
  disable deadlock checking: once the bounded callers stop calling, an idle
  pool is a final state. A thread stuck in `sem_wait` is what
  `GetEventuallyReturns` looks for.

- **`AlgSweep.cfg` disables deadlock checking.** The table build and the
  window scan end, and the other sweeps are enumerations of inputs with no
  next step.
- **`ILStale.cfg` checks an invariant only**, so no fairness is assumed.
- **SpeedGovernor: no liveness and no fairness.** Its properties are
  invariants. It is checked inside `AlgSweep.cfg`, which disables deadlock
  checking for the sweeps; at the last modelled second `Finished` stutters,
  so the governor itself has no final state.
- **HttpPrewarm: invariants only, inside `AlgSweep.cfg`.** The module
  states weak fairness on each dial thread and on each caller (a dial ends,
  since `psock_connect` times out), but that every
  `psync_http_connect_multihost` call returns is not checked: the liveness
  run (`Control.cfg`) cannot also carry it within its time budget.
- **TooNewWait and the upload id run check one invariant each**, so no
  fairness is assumed. `UQUploadIdDeleted.cfg` disables deadlock checking
  for the same reason as `UQPass.cfg`. `SGTwoWriters.cfg` checks
  one invariant, and `Finished` stutters at the last second.
- **LocalScan: weak fairness on the scanner thread and on each stopper's
  resume.** The timed wait of `scanner_wait` ends when its deadline passes,
  so `Timeout` is a fair scanner step. A stopper resumes after the bounded
  work it stopped the scanner for. Wakes, restarts, status changes and the
  user are unfair. `ChangesEventuallyApplied` is conditioned on the statuses
  eventually staying ok, because `pstatus_wait_statuses_arr` blocks the
  scanner otherwise. Status changes are unbounded, so the scanner never
  deadlocks; `Control.cfg` disables deadlock checking for the API pool's
  sake (above).

### Mutants

Each property of a passing run is shown able to fail by a plausible bug in
the code it is about, listed under "mutants" in `PROJECT.json`:

- the row check of `Bind` dropped;
- `ThreadExit` not taking the file's size off `bytestouploadcurrent`;
- `ThreadExit` not signalling the worker;
- `MainBarrier` not waiting for `filesuploading = 0`;
- `ThreadBegin` not taking the file lock;
- `ThreadBigStart` not adding the resume offset to `upload->uploaded`;
- `CreateHash` linking the chain to the slot instead of the block;
- `psync_net_hash_remove` without the backward shift, or matching on Adler
  only;
- the insertion cap checked one collision late, or without the SHA-1
  duplicate test;
- `psync_is_prime` stopping at `i*i >= num`;
- the file batch not emptying the scan lists;
- the first-wake test of `psync_do_wake_localscan` inverted;
- `psync_stop_localscan` not setting `restart_scan`;
- `psync_resume_localscan` not signalling;
- `sem_trywait`'s result ignored;
- `api_sock_is_broken` closing without `sem_post`;
- release dropping a socket of another host without closing it;
- the permit posted when a socket goes into the cache;
- a COPY block merged without the offset test;
- only COPY ranges extended, so every TRANSFER block is its own range;
- the ring buffer's `outbyteoff` never wrapped;
- a match at the start of an UPLOAD range not moving its file offset;
- the ring offset of `account_uploaded_bytes` advanced without the wrap;
- the window test `tm > now - AVG` instead of `>=`;
- a capped write allowed the whole cap, whatever this second has sent;
- the auto-shaper sending its whole budget without comparing it with what
  the call has left;
- a download match turning only the found block COPY, not its chain;
- the download ring's `outbyteoff` wrap not advancing `buffoff`;
- a name that changed kind reported as new only, not also deleted;
- the file rename key compared without the mtime;
- `adler32` not folding its sums after a chunk;
- `adler32_roll` without the `- ADLER32_INITIAL` term;
- the ignorepaths parser keeping a piece's trailing white space;
- `connect_cache_thread` caching its result without the `if (sock)` test;
- a waiter taking the node found even when another thread waits on it;
- `connect_cache_thread` keying the socket with the current `usessl`
  setting instead of the node's;
- `psync_http_connect_and_cache_host` treating a dial as in progress only
  through a free duplicate, not the node found itself.

## 4. Plan and what is not modelled yet

The next modules, in priority order:

1. **The apply phase of the scanner on the catalog.** `scan_rename_folder`,
   `scan_create_folder` with `scan_created_folder`, and the file batch, driven
   by `FolderScan`'s lists. This would check that a move into a new folder is
   also found as a rename.

Not modelled, and why:

- **The catalog itself (outside `src/`).** It is abstracted to the rows the
  modules need.
- **The HTTP request and response code.** Request building, header parsing
  and `readall` are formatting and I/O over one socket; `psync_http_close`'s
  choice between caching and closing is modelled as a free choice.
- **Liveness of the HTTP wait.** See Fairness: that a waiter on a prewarm
  dial is always woken is not checked.
- **`ppath.c`, `pbusinessaccount.c` and `pdevice_monitor.c`.** These are
  I/O and formatting with no protocol. `ppath_home`'s result is an input of
  the ignorepaths parser.
- **`psettings.c` beyond `psync_setting_set_string` of `ignorepaths`.** The
  other setters are straight-line stores with no concurrency, the fix
  callbacks and defaults are defined outside `src/`, and persistence is SQL.
- **The name filter (`psync_is_name_to_ignore`).** It is outside `src/`;
  `FolderScan` takes the set of ignored names as an input.
- **The download side of the speed governor, and two upload threads in the
  passing run.** `psync_socket_readall_download_thread` mirrors the upload
  governor. Two upload threads are checked only for the `dyn_upload_speed`
  wrap (`sg_two_writers`). In the passing run they would also show the lost
  `+=`, but they multiply its state space past what it can cover next to
  the timer.
- **`pupload_stop_sync`.** It needs several syncs.
- **The restat list and `prun_throttled`.** The restat list of the scanner
  (`psync_restat_sync_folders*`) only ends in a wake. `prun_throttled` is
  outside `src/`, so `Wake` is `psync_do_wake_localscan` called directly.
- **The spec's restart check after each folder.** Spec §4.5 says the
  scanner checks `restart_scan` after each folder. The code checks it only
  before each batch (`plocalscan.c:1046`, `:1104`). The model follows the
  code.
- **Files moved into folders created in the same pass.** `ScanSync` pairs
  renames over the lists of the tree walk. The code adds the contents of new
  folders (`scan_created_folder`) before it extracts the file renames, and
  `FolderScan` does not model that step.
- **The quota/DISKFULL status waits (`pstatus_wait_statuses_arr`).** They live
  outside `src/` and only delay a step.
