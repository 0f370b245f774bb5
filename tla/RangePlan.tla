----------------------------- MODULE RangePlan ------------------------------
(***************************************************************************)
(* The download plan of psync_net_download_ranges (pnetlibs.c): from the   *)
(* server's block checksums and the per-block actions found by             *)
(* psync_net_check_file_for_blocks, the list of ranges the new file is     *)
(* built from: TRANSFER ranges fetched from the server and COPY ranges     *)
(* read from a local file.  Adjacent blocks with the same action, and for  *)
(* COPY the same file and a contiguous offset, are merged into one range.  *)
(*                                                                         *)
(* A block action is a record; block i of the checksums is acts[i], with   *)
(* i in 0 .. blockcnt - 1 as in the code.  A range is a record with the    *)
(* fields of psync_range_list_t; "file" is the index into files[].         *)
(***************************************************************************)
EXTENDS Naturals, Sequences, SequencesExt

CONSTANTS
    Files,     \* indices 0 .. filecnt - 1 of the local candidate files
    NoFile     \* the filename of a TRANSFER range

ASSUME NoFile \notin Files

Transfer == [type |-> "transfer"]
CopyActions(offs) == [type : {"copy"}, idx : Files, off : offs]

\* psync_get_checksums: ceil(filesize / blocksize) blocks.
BlockCnt(filesize, blocksize) == (filesize + blocksize - 1) \div blocksize

\* The length the loop gives block i >= 1: the last block holds
\* filesize % blocksize bytes, or a whole block when that is 0.
BlockLen(i, blockcnt, filesize, blocksize) ==
    IF i = blockcnt - 1 /\ filesize % blocksize # 0
      THEN filesize % blocksize
      ELSE blocksize

\* A new range for block action a at block i, of length len.
NewRange(a, i, len, blocksize) ==
    IF a.type = "copy"
      THEN [type |-> "copy", off |-> a.off, len |-> len, file |-> a.idx]
      ELSE [type |-> "transfer", off |-> i * blocksize, len |-> len,
            file |-> NoFile]

\* Mutant: a COPY block merges whatever offset it copies from.
Continues_NoOffCheck(r, a) ==
    /\ a.type = r.type
    /\ r.type = "copy" => r.file = a.idx

\* Mutant: only COPY ranges are extended; every TRANSFER block is a range.
Continues_CopyOnly(r, a) ==
    /\ a.type = r.type
    /\ r.type = "copy"
    /\ r.file = a.idx /\ r.off + r.len = a.off

\* Block action a continues range r: same type and, for COPY, same file
\* and the offset where r ends.
Continues(r, a) ==
    /\ a.type = r.type
    /\ r.type = "copy" => (r.file = a.idx /\ r.off + r.len = a.off)

\* One round of the for loop over block i.
AddBlock(rs, a, i, len, blocksize) ==
    IF Continues(Last(rs), a)
      THEN [rs EXCEPT ![Len(rs)].len = @ + len]
      ELSE Append(rs, NewRange(a, i, len, blocksize))

RECURSIVE Coalesce(_, _, _, _, _, _)
Coalesce(rs, acts, i, blockcnt, filesize, blocksize) ==
    IF i >= blockcnt THEN rs
    ELSE Coalesce(AddBlock(rs, acts[i], i,
                           BlockLen(i, blockcnt, filesize, blocksize),
                           blocksize),
                  acts, i + 1, blockcnt, filesize, blocksize)

(***************************************************************************)
(* psync_net_download_ranges.  rt is the result of psync_net_get_checksums *)
(* ("ok", "permfail" or "tempfail"), cssize the file size the checksums    *)
(* report.  first is what blockactions[0] holds: acts[0], or, when there   *)
(* are no blocks at all, whatever the read past the malloc(0) buffer       *)
(* returns.  The first range always has len blocksize.  The result is      *)
(* "tempfail" or the sequence of ranges.                                   *)
(***************************************************************************)
DownloadRanges(filecnt, rt, cssize, filesize, blocksize, acts, first) ==
    IF filecnt = 0 \/ rt = "permfail"
      THEN <<[type |-> "transfer", off |-> 0, len |-> filesize,
              file |-> NoFile]>>
    ELSE IF rt = "tempfail" \/ cssize # filesize THEN "tempfail"
    ELSE Coalesce(<<NewRange(first, 0, blocksize, blocksize)>>, acts, 1,
                  BlockCnt(filesize, blocksize), filesize, blocksize)
=============================================================================
