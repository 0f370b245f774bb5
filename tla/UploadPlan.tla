----------------------------- MODULE UploadPlan -----------------------------
(***************************************************************************)
(* The upload plan of upload_big_file (pupload.c): the range list that     *)
(* starts as one UPLOAD range from the resume offset to the end of the     *)
(* file, is cut by psync_net_scan_file_for_blocks (pnetlibs.c) into UPLOAD *)
(* ranges and COPY_FILE ranges of an existing remote file, and is split so *)
(* that no copy exceeds PSYNC_MAX_COPY_FROM_REQ.                           *)
(*                                                                         *)
(* check_range_for_blocks is kept with its ring buffer: the buffer of      *)
(* buffersize bytes filled a half at a time by pfile_read, the window      *)
(* [outbyteoff, inbyteoff) of one block, the rolling Adler-32 and the skip *)
(* past a matched block.  The Adler-32 value is abstracted to the bytes it *)
(* summarises: a roll drops the byte that leaves the window, and when that *)
(* is not the byte the sum began with the sum no longer describes any      *)
(* window (Garbage).  A lookup by Adler and SHA-1 finds a block whose      *)
(* content equals both.                                                    *)
(*                                                                         *)
(* The context cx of a scan is a record: file (byte i of the local file at *)
(* i), fsize, bs (checksums->blocksize), sources (for each source of       *)
(* checksums, the content of each of its blocks, from 1), copybuf          *)
(* (PSYNC_COPY_BUFFER_SIZE) and maxcopy (PSYNC_MAX_COPY_FROM_REQ); during  *)
(* a scan rblocks is the current source's blocks and tag its range type.   *)
(***************************************************************************)
EXTENDS Integers, Sequences

\* A byte of a buffer malloc returned and nothing has written yet.
Uninit == 9

\* The Adler-32 sum of no window at all.
Garbage == <<>>

MinOf(a, b) == IF a < b THEN a ELSE b

\* buffersize of check_range_for_blocks for a range of len bytes.
BufferSize(cx, len) ==
    IF cx.bs * 2 > cx.copybuf \/ len < cx.copybuf THEN cx.bs * 2
    ELSE cx.copybuf

\* The bytes of the buffer from a for n positions, as a sequence; a
\* position past the end of the buffer is recorded by Overrun.
Bytes(st, a, n) == [k \in 1 .. n |-> st.buff[a + k - 1]]
Overrun(st, a, n) == a + n > st.bsize

\* The window the SHA-1 is computed over: one block from outbyteoff, or the
\* end of the buffer and its start when the window wraps.
Win(st) ==
    IF st.out < st.in THEN Bytes(st, st.out, st.in - st.out)
    ELSE Bytes(st, st.out, st.bsize - st.out) \o Bytes(st, 0, st.in)

WinOverrun(st) == st.out < st.in /\ Overrun(st, st.out, st.in - st.out)

\* psync_net_hash_has_adler_and_sha1: the highest block with this content
\* (psync_net_create_hash leaves the last of equal blocks in the table),
\* counted from 1; 0 if none.
Lookup(cx, adler, sha) ==
    LET hits == {i \in DOMAIN cx.rblocks : cx.rblocks[i] = adler
                                             /\ cx.rblocks[i] = sha}
    IN IF hits = {} THEN 0
       ELSE CHOOSE i \in hits : \A j \in hits : j <= i

HasAdler(cx, adler) == \E i \in DOMAIN cx.rblocks : cx.rblocks[i] = adler

\* pfile_read(fd, buff + at, hbuffersize) at file position st.pos.
ReadHalf(cx, st, at) ==
    LET rd == MinOf(st.bsize \div 2, cx.fsize - st.pos)
    IN [st EXCEPT
          !.buff = [i \in DOMAIN @ |->
                      IF at <= i /\ i < at + rd THEN cx.file[st.pos + i - at]
                      ELSE @[i]],
          !.pos = @ + rd,
          !.rd = rd]

\* memset(buff + from, 0, to - from)
Zero(st, from, to) ==
    [st EXCEPT !.buff = [i \in DOMAIN @ |->
                           IF from <= i /\ i < to THEN 0 ELSE @[i]]]

RoundUp(n, bs) == ((n + bs - 1) \div bs) * bs

\* The scan stops with a fault: a read past the buffer, a read of a byte
\* no pfile_read or memset wrote, or no end within the iteration bound.
Fault(st, f) == [st EXCEPT !.fault = f, !.exit = TRUE]

Reads(w) == {w[k] : k \in DOMAIN w}

\* The scan state when the loop of check_range_for_blocks starts over the
\* len bytes from off: pfile_seek, the first half read, and the Adler-32
\* of the first block; a range whose first half cannot be read is left.
ScanStart(cx, off, len) ==
    LET st0 == [pos |-> off, bsize |-> BufferSize(cx, len),
                buff |-> [i \in 0 .. BufferSize(cx, len) - 1 |-> Uninit],
                bufferlen |-> 0, adler |-> Garbage, out |-> 0, in |-> cx.bs,
                buffoff |-> 0, skip |-> -1, urs |-> <<>>, rd |-> 0,
                exit |-> FALSE, cont |-> FALSE, fault |-> "none"]
        st1 == ReadHalf(cx, st0, 0)
    IN IF st1.rd < st1.bsize \div 2 THEN [st1 EXCEPT !.exit = TRUE]
       ELSE [st1 EXCEPT !.bufferlen = st1.bsize,
                        !.adler = Bytes(st1, 0, cx.bs)]

\* A confirmed match of block idx at range position p = buffoff +
\* outbyteoff: extend the last range when both the block and the file
\* position continue it, else start a new one; a block cut by the range's
\* end ends the scan; otherwise move inbyteoff to the next block boundary
\* and remember how far the window still has to skip.
Matched(cx, off, len, st, idx) ==
    LET p    == st.buffoff + st.out
        blen == IF p + cx.bs <= len THEN cx.bs ELSE len - p
        u    == st.urs[Len(st.urs)]
        urs  == IF /\ st.urs # <<>>
                   /\ u.off + u.len = (idx - 1) * cx.bs
                   /\ u.uploadoffset + u.len = off + p
                THEN [st.urs EXCEPT ![Len(st.urs)].len = @ + blen]
                ELSE Append(st.urs, [uploadoffset |-> off + p,
                                     off |-> (idx - 1) * cx.bs, len |-> blen,
                                     type |-> cx.tag])
        b    == cx.bs - (st.in % cx.bs)
        step == IF b = cx.bs THEN 0 ELSE b
    IN IF blen # cx.bs THEN [st EXCEPT !.urs = urs, !.exit = TRUE]
       ELSE [st EXCEPT !.urs = urs, !.skip = cx.bs - step,
                       !.in = @ + step, !.out = @ + step]

\* if (psync_net_hash_has_adler(...)): SHA-1 over the window, then the
\* lookup by both sums.
MatchStep(cx, off, len, st) ==
    IF ~HasAdler(cx, st.adler) THEN st
    ELSE IF WinOverrun(st) THEN Fault(st, "overrun")
    ELSE IF Uninit \in Reads(Win(st)) THEN Fault(st, "uninit")
    ELSE LET idx == Lookup(cx, st.adler, Win(st))
         IN IF idx = 0 THEN st ELSE Matched(cx, off, len, st, idx)

\* A pfile_read that returned rd bytes, 0 < rd < hbuffersize, into the
\* half from at: bufferlen is rounded up to whole blocks and the rest of
\* those blocks is zeroed.
ShortRead(cx, st, at) ==
    LET bl == RoundUp(st.rd, cx.bs)
    IN [Zero(st, at + st.rd, at + bl) EXCEPT !.bufferlen = at + bl]

\* A refill of the half from at when inbyteoff reaches it.
Refill(cx, st, at) ==
    LET r == ReadHalf(cx, st, at)
    IN IF r.rd = r.bsize \div 2 THEN r
       ELSE IF r.rd = 0 THEN [r EXCEPT !.exit = TRUE]
       ELSE ShortRead(cx, r, at)

\* if (outbyteoff >= buffersize): outbyteoff wraps to the buffer start.
WrapOut(st) ==
    IF st.out >= st.bsize
      THEN [st EXCEPT !.out = @ - st.bsize, !.buffoff = @ + st.bsize]
      ELSE st

\* When inbyteoff reaches the end of the data, or the middle of the
\* buffer, the next half is read (or the scan ends at a short buffer).
RefillAt(cx, st) ==
    IF st.in = st.bufferlen
      THEN IF st.bufferlen # st.bsize THEN [st EXCEPT !.exit = TRUE]
           ELSE Refill(cx, [st EXCEPT !.in = 0], 0)
    ELSE IF st.in = st.bsize \div 2 THEN Refill(cx, st, st.bsize \div 2)
    ELSE st

\* The window after a skip: its Adler-32 is computed afresh.
Resync(st) ==
    IF WinOverrun(st) THEN Fault(st, "overrun")
    ELSE [st EXCEPT !.adler = Win(st), !.cont = TRUE]

\* if (skip != -1): move both offsets past the rest of the matched block.
FinishSkip(st) ==
    IF st.exit \/ st.skip = -1 THEN st
    ELSE Resync([st EXCEPT !.in = @ + st.skip, !.out = @ + st.skip,
                           !.skip = -1])

\* Mutant: outbyteoff is never taken back to the start of the buffer.
AlignStep_NoWrap(cx, st) == FinishSkip(RefillAt(cx, st))

\* The block-boundary part of the loop: wrap outbyteoff, refill a half,
\* and finish a skip by recomputing the Adler-32 of the new window.
AlignStep(cx, st) == FinishSkip(RefillAt(cx, WrapOut(st)))

\* adler32_roll(adler, buff[outbyteoff++], buff[inbyteoff++], blocksize).
Roll(st) ==
    IF st.out >= st.bsize \/ st.in >= st.bsize THEN Fault(st, "overrun")
    ELSE IF st.buff[st.in] = Uninit THEN Fault(st, "uninit")
    ELSE [st EXCEPT
            !.adler = IF @ # Garbage /\ Head(@) = st.buff[st.out]
                        THEN Tail(@) \o <<st.buff[st.in]>> ELSE Garbage,
            !.out = @ + 1, !.in = @ + 1]

\* The block-boundary part runs when inbyteoff is at a block boundary.
AtBoundary(cx, st) ==
    IF ~st.exit /\ st.in % cx.bs = 0 THEN AlignStep(cx, st) ELSE st

\* The end of a round: stop, go round again after a skip, or roll.
EndRound(st) ==
    IF st.exit THEN st
    ELSE IF st.cont THEN [st EXCEPT !.cont = FALSE]
    ELSE Roll(st)

\* One round of the while loop.
Iteration(cx, off, len, st) ==
    EndRound(AtBoundary(cx, MatchStep(cx, off, len, st)))

RECURSIVE ScanLoop(_, _, _, _, _)
ScanLoop(cx, off, len, st, fuel) ==
    IF st.exit \/ st.buffoff + st.out >= len THEN st
    ELSE IF fuel = 0 THEN Fault(st, "loop")
    ELSE ScanLoop(cx, off, len, Iteration(cx, off, len, st), fuel - 1)

\* check_range_for_blocks: the final scan state; its urs are the matches.
CheckRange(cx, off, len) == ScanLoop(cx, off, len, ScanStart(cx, off, len),
                                     4 * len + 8)

(***************************************************************************)
(* merge_list_to_element(le, rlist): the matches of rlist, in order, cut   *)
(* out of the UPLOAD range le.  m.acc holds the ranges before le, m.tail   *)
(* those the code has put after it; le is freed when a match covers all of *)
(* it, and a match handled after that reads freed memory.                  *)
(***************************************************************************)
\* Mutant: a match at the start of le moves its upload offset and length
\* but not the file offset it is read from.
MergeOne_NoOffAdvance(m, ur) ==
    LET le == m.le IN
    IF ~m.alive THEN [m EXCEPT !.fault = "freed"]
    ELSE IF ur.len = le.len
      THEN [m EXCEPT !.acc = @ \o <<ur>>, !.alive = FALSE]
    ELSE IF ur.uploadoffset = le.uploadoffset
      THEN [m EXCEPT !.acc = @ \o <<ur>>,
                     !.le = [le EXCEPT !.uploadoffset = @ + ur.len,
                                       !.len = @ - ur.len]]
    ELSE IF ur.uploadoffset + ur.len = le.uploadoffset + le.len
      THEN [m EXCEPT !.le.len = @ - ur.len, !.tail = <<ur>> \o @]
    ELSE LET cut == ur.uploadoffset - le.uploadoffset
             n   == [uploadoffset |-> ur.uploadoffset + ur.len,
                     off |-> ur.uploadoffset + ur.len,
                     len |-> le.len - cut - ur.len, type |-> "upload"]
         IN [m EXCEPT !.acc = @ \o <<[le EXCEPT !.len = cut], ur>>, !.le = n]

MergeOne(m, ur) ==
    LET le == m.le IN
    IF ~m.alive THEN [m EXCEPT !.fault = "freed"]
    ELSE IF ur.len = le.len
      THEN [m EXCEPT !.acc = @ \o <<ur>>, !.alive = FALSE]
    ELSE IF ur.uploadoffset = le.uploadoffset
      THEN [m EXCEPT !.acc = @ \o <<ur>>,
                     !.le = [le EXCEPT !.uploadoffset = @ + ur.len,
                                       !.off = @ + ur.len, !.len = @ - ur.len]]
    ELSE IF ur.uploadoffset + ur.len = le.uploadoffset + le.len
      THEN [m EXCEPT !.le.len = @ - ur.len, !.tail = <<ur>> \o @]
    ELSE LET cut == ur.uploadoffset - le.uploadoffset
             n   == [uploadoffset |-> ur.uploadoffset + ur.len,
                     off |-> ur.uploadoffset + ur.len,
                     len |-> le.len - cut - ur.len, type |-> "upload"]
         IN [m EXCEPT !.acc = @ \o <<[le EXCEPT !.len = cut], ur>>, !.le = n]

RECURSIVE MergeAll(_, _)
MergeAll(m, rlist) ==
    IF rlist = <<>> THEN m ELSE MergeAll(MergeOne(m, Head(rlist)), Tail(rlist))

MergeListToElement(le, rlist) ==
    LET m == MergeAll([acc |-> <<>>, le |-> le, alive |-> TRUE, tail |-> <<>>,
                       fault |-> "none"], rlist)
    IN [ranges |-> m.acc \o (IF m.alive THEN <<m.le>> ELSE <<>>) \o m.tail,
        fault |-> m.fault]

\* psync_net_scan_file_for_blocks (tag "copyfile") and
\* psync_net_scan_upload_for_blocks (tag "copyupload") over the list:
\* every UPLOAD range of at least one block is scanned, and its matches
\* replace it.  The elements merge_list_to_element inserts after the
\* current one are not visited.
RECURSIVE ScanFile(_, _, _)
ScanFile(cx, todo, res) ==
    IF todo = <<>> THEN res
    ELSE LET ur == Head(todo)
             sc == CheckRange(cx, ur.off, ur.len)
             mg == MergeListToElement(ur, sc.urs)
         IN IF ur.len < cx.bs \/ ur.type # "upload"
              THEN ScanFile(cx, Tail(todo), [res EXCEPT !.ranges = @ \o <<ur>>])
            ELSE IF sc.fault # "none"
              THEN [res EXCEPT !.fault = sc.fault]
            ELSE IF sc.urs = <<>>
              THEN ScanFile(cx, Tail(todo), [res EXCEPT !.ranges = @ \o <<ur>>])
            ELSE ScanFile(cx, Tail(todo),
                          [ranges |-> res.ranges \o mg.ranges,
                           fault |-> IF mg.fault # "none" THEN mg.fault
                                     ELSE res.fault])

\* The split loop of upload_big_file: a copy range longer than
\* PSYNC_MAX_COPY_FROM_REQ is cut, and the rest, put right after it, is
\* visited next.
RECURSIVE SplitCopies(_, _)
SplitCopies(cx, rs) ==
    IF rs = <<>> THEN rs
    ELSE LET le == Head(rs) IN
         IF le.type \in {"copyfile", "copyupload"} /\ le.len > cx.maxcopy
           THEN <<[le EXCEPT !.len = cx.maxcopy]>>
                \o SplitCopies(cx, <<[le EXCEPT !.off = @ + cx.maxcopy,
                                                !.len = @ - cx.maxcopy]>>
                                   \o Tail(rs))
         ELSE <<le>> \o SplitCopies(cx, Tail(rs))

(***************************************************************************)
(* upload_big_file from the resume offset uploadoffset: the UPLOAD range   *)
(* of the rest of the file, a scan against the checksums of each source in *)
(* turn (cx.sources[1] the remote file, the others earlier uploads of the  *)
(* file), and the split.  The sending loop then gives the ranges           *)
(* consecutive upload offsets from uploadoffset in list order.             *)
(***************************************************************************)
SourceCx(cx, i) ==
    [cx EXCEPT !.rblocks = cx.sources[i],
               !.tag = IF i = 1 THEN "copyfile" ELSE "copyupload"]

RECURSIVE ScanSources(_, _, _)
ScanSources(cx, i, res) ==
    IF i > Len(cx.sources) \/ res.fault # "none" THEN res
    ELSE ScanSources(cx, i + 1,
                     ScanFile(SourceCx(cx, i), res.ranges,
                              [ranges |-> <<>>, fault |-> "none"]))

UploadRanges(cx, uploadoffset) ==
    LET rl == IF uploadoffset < cx.fsize
                THEN <<[uploadoffset |-> uploadoffset, off |-> uploadoffset,
                        len |-> cx.fsize - uploadoffset, type |-> "upload"]>>
                ELSE <<>>
        sf == ScanSources(cx, 1, [ranges |-> rl, fault |-> "none"])
    IN [sf EXCEPT !.ranges = SplitCopies(cx, @)]
=============================================================================
