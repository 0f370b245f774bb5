---------------------------- MODULE DownloadScan ----------------------------
(***************************************************************************)
(* The download-side block scan of psync_net_download_ranges (pnetlibs.c): *)
(* psync_net_check_file_for_blocks reads each local candidate file through *)
(* the same ring buffer as check_range_for_blocks, tests every window of   *)
(* one block against the hash of the remote file's block checksums, and    *)
(* on a confirmed match turns the block, and every block chained to it as  *)
(* a duplicate, into a COPY from that file and offset                      *)
(* (psync_net_block_match_found), taking its content out of the hash.      *)
(*                                                                         *)
(* The buffer, reads, window and Adler-32 roll are those of UploadPlan;    *)
(* the lookup by Adler and SHA-1 is by content, as there.  The context dx  *)
(* is a record: bs, copybuf, blocks (the remote file's block contents,     *)
(* from 0; a short last block holds only its own bytes), locals (local     *)
(* file k, from 0, as [file, fsize]), and, during a scan, file, fsize and  *)
(* fidx of the file being read.  Block actions are those of RangePlan.     *)
(***************************************************************************)
EXTENDS RangePlan, UploadPlan

\* The memset of blockactions: every block TRANSFER.
NoActions(dx) == [i \in DOMAIN dx.blocks |-> Transfer]

\* psync_net_create_hash: the contents of all blocks.
HashOf(dx) == {dx.blocks[i] : i \in DOMAIN dx.blocks}

\* buffersize of psync_net_check_file_for_blocks.
DBufferSize(dx) == IF dx.bs * 2 > dx.copybuf THEN dx.bs * 2 ELSE dx.copybuf

\* Mutant: only the block the lookup returned becomes COPY; its chained
\* duplicates stay TRANSFER although the content leaves the hash.
MatchFound_NoChain(dx, st, c, o) ==
    LET top == CHOOSE i \in DOMAIN dx.blocks :
                 /\ dx.blocks[i] = c
                 /\ \A j \in DOMAIN dx.blocks : dx.blocks[j] = c => j <= i
    IN [st EXCEPT
          !.acts = [i \in DOMAIN @ |->
                      IF i = top THEN [type |-> "copy", idx |-> dx.fidx,
                                       off |-> o]
                      ELSE @[i]],
          !.hash = @ \ {c}]

\* psync_net_block_match_found(hash, ..., off, fileidx, buffoff +
\* outbyteoff): the matched block and its chain of equal blocks (next[])
\* become COPY from this file at offset o, and the content leaves the hash.
MatchFound(dx, st, c, o) ==
    [st EXCEPT
       !.acts = [i \in DOMAIN @ |->
                   IF dx.blocks[i] = c THEN [type |-> "copy", idx |-> dx.fidx,
                                             off |-> o]
                   ELSE @[i]],
       !.hash = @ \ {c}]

\* if (psync_net_hash_has_adler(...)): SHA-1 over the window, the lookup
\* by both sums and, on a hit, the match at buffoff + outbyteoff.
DMatchStep(dx, st) ==
    IF st.adler \notin st.hash THEN st
    ELSE IF WinOverrun(st) THEN Fault(st, "overrun")
    ELSE IF Uninit \in Reads(Win(st)) THEN Fault(st, "uninit")
    ELSE IF Win(st) \notin st.hash THEN st
    ELSE MatchFound(dx, st, Win(st), st.buffoff + st.out)

\* Mutant: the wrap of outbyteoff does not advance buffoff.
DWrapOut_NoBuffoff(st) ==
    IF st.out >= st.bufferlen THEN [st EXCEPT !.out = 0] ELSE st

\* if (outbyteoff >= bufferlen): outbyteoff back to 0, buffoff on by a
\* whole buffer.
DWrapOut(st) ==
    IF st.out >= st.bufferlen
      THEN [st EXCEPT !.out = 0, !.buffoff = @ + st.bsize]
      ELSE st

\* The block-boundary part: wrap outbyteoff, then the refill of
\* UploadPlan (the two loops read the halves alike).
DAtBoundary(dx, st) ==
    IF ~st.exit /\ st.in % dx.bs = 0 THEN RefillAt(dx, DWrapOut(st)) ELSE st

DEndRound(st) == IF st.exit THEN st ELSE Roll(st)

\* One round of the while (1) loop.
DIteration(dx, st) == DEndRound(DAtBoundary(dx, DMatchStep(dx, st)))

RECURSIVE DScanLoop(_, _, _)
DScanLoop(dx, st, fuel) ==
    IF st.exit THEN st
    ELSE IF fuel = 0 THEN Fault(st, "loop")
    ELSE DScanLoop(dx, DIteration(dx, st), fuel - 1)

\* The first read of hbuffersize bytes: a file shorter than a block is
\* left; a short read is rounded up to whole blocks and zero-filled.
FirstRead(dx, st) ==
    IF st.rd = st.bsize \div 2 THEN [st EXCEPT !.bufferlen = st.bsize]
    ELSE IF st.rd < dx.bs THEN [st EXCEPT !.exit = TRUE]
    ELSE ShortRead(dx, st, 0)

\* adler32 of the first block; outbyteoff = buffoff = 0, inbyteoff = bs.
Seed(dx, st) ==
    IF st.exit THEN st ELSE [st EXCEPT !.adler = Bytes(st, 0, dx.bs)]

DScanState(dx, acts, hash) ==
    [pos |-> 0, bsize |-> DBufferSize(dx),
     buff |-> [i \in 0 .. DBufferSize(dx) - 1 |-> Uninit],
     bufferlen |-> 0, adler |-> Garbage, out |-> 0, in |-> dx.bs,
     buffoff |-> 0, rd |-> 0, exit |-> FALSE, fault |-> "none",
     acts |-> acts, hash |-> hash]

\* psync_net_check_file_for_blocks over local file k.
LocalCx(dx, k) ==
    [dx EXCEPT !.file = dx.locals[k].file, !.fsize = dx.locals[k].fsize,
               !.fidx = k]

CheckFileForBlocks(dx, acts, hash) ==
    DScanLoop(dx, Seed(dx, FirstRead(dx, ReadHalf(dx,
                                         DScanState(dx, acts, hash), 0))),
              2 * dx.fsize + 8)

\* The loop of psync_net_download_ranges over files[0 .. filecnt - 1];
\* the result holds the block actions, the hash left and any fault.
RECURSIVE CheckFiles(_, _, _)
CheckFiles(dx, k, res) ==
    IF k \notin DOMAIN dx.locals \/ res.fault # "none" THEN res
    ELSE CheckFiles(dx, k + 1,
                    CheckFileForBlocks(LocalCx(dx, k), res.acts, res.hash))

ScanLocals(dx) ==
    CheckFiles(dx, 0, [acts |-> NoActions(dx), hash |-> HashOf(dx),
                       fault |-> "none"])
=============================================================================
