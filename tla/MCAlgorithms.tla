---------------------------- MODULE MCAlgorithms ----------------------------
(* The algorithms of pnetlibs.c and plocalscan.c over bounded inputs.    *)
(* The block-checksum table (ChecksumTable) runs as a state machine from *)
(* its own initial states; every other algorithm is a pure function, with *)
(* one input per initial state and no step.  Below, the pure algorithms   *)
(* of pnetlibs.c over bounded inputs, one input per                        *)
(* initial state: the table size of psync_net_create_hash for every block *)
(* count up to MaxBlockCount (blockcnt > 0), and (blockcnt = 0)           *)
(* psync_net_download_ranges for every file of up to MaxBlocks blocks of  *)
(* each size in BlockSizes, every assignment of block actions (TRANSFER,  *)
(* or COPY from one of two local files at an offset in Offsets), and every *)
(* outcome of psync_net_get_checksums, compared with a reference: the     *)
(* byte each position of the new file is to be taken from.  MinFileSize  *)
(* is 0 to include the empty file, or 1 to leave it out.                  *)
EXTENDS RangePlan, TableSizing, UploadPlan, DownloadScan, FolderScan,
        IgnorePaths, AdlerChecksum,
        FiniteSets

CONSTANTS MaxBlockCount, BlockSizes, MaxBlocks, Offsets, MinFileSize,
          UpBlockSize, UpCopyBuf, UpMaxCopy, UpMaxSize, DnCopyBuf, DnMaxSize,
          DnMaxSize2

Actions == {Transfer} \cup CopyActions(Offsets)

\* psync_net_check_file_for_blocks runs only when filecnt > 0 and the
\* checksums arrived with the expected size; on the other paths every block
\* stays TRANSFER (the memset of blockactions).
Input(fc, rt, cs, fs, bs, acts, fst) ==
  [filecnt |-> fc, rt |-> rt, cssize |-> cs, filesize |-> fs,
   blocksize |-> bs, acts |-> acts, first |-> fst]

\* blockactions[0]: acts[0], or anything when there are no blocks.
Firsts(acts) == IF DOMAIN acts # {} THEN {acts[0]} ELSE Actions

Inputs ==
  UNION { UNION {
    LET Blocks == 0 .. BlockCnt(fs, bs) - 1 IN
      UNION { { Input(2, "ok", fs, fs, bs, acts, fst) : fst \in Firsts(acts) }
              : acts \in [Blocks -> Actions] }
      \cup
      { Input(fc, rt, cs, fs, bs, [i \in Blocks |-> Transfer], Transfer) :
          <<fc, rt, cs>> \in ({0, 2} \X {"ok", "permfail", "tempfail"}
                               \X {fs, fs + 1}) \ {<<2, "ok", fs>>} }
    : fs \in MinFileSize .. MaxBlocks * bs } : bs \in BlockSizes }

\* The plan input of a table-sizing state, never looked at.
NoInput == Input(0, "tempfail", 0, 0, 1, <<>>, Transfer)

(* Upload plans: a local file of 2 .. UpMaxSize bytes over {0, 1}, from  *)
(* resume offset 0 or 1, and the block contents of the sources.  Files of *)
(* up to UpMaxSize - 2 bytes meet a remote file of one or two blocks, or a *)
(* remote file and an earlier upload of one block each; the longer files, *)
(* whose first scan has the larger buffer, a remote file of one block.    *)
Block == [1 .. UpBlockSize -> {0, 1}]

OneBlock == {<<a>> : a \in [1 .. 1 -> Block]}

Sources(fs) ==
  IF fs <= UpMaxSize - 2
    THEN OneBlock \cup {<<a>> : a \in [1 .. 2 -> Block]}
         \cup {<<a, b>> : a \in [1 .. 1 -> Block], b \in [1 .. 1 -> Block]}
  ELSE OneBlock

UpCx(f, fs, srcs) ==
  [file |-> f, fsize |-> fs, bs |-> UpBlockSize, sources |-> srcs,
   rblocks |-> <<>>, tag |-> "none", copybuf |-> UpCopyBuf,
   maxcopy |-> UpMaxCopy]

UpInputs ==
  UNION { UNION {
    { [cx |-> UpCx(f, fs, srcs), uo |-> uo] :
        f \in [0 .. fs - 1 -> {0, 1}], uo \in {0, 1} }
    : srcs \in Sources(fs) } : fs \in 2 .. UpMaxSize }

NoUpload == [cx |-> UpCx(<<>>, 0, <<>>), uo |-> 0]

(* Download scans: a remote file of two blocks of UpBlockSize bytes over  *)
(* {0, 1}, the last one full or of one byte, and one local file of up to  *)
(* DnMaxSize bytes or two of up to DnMaxSize2 bytes.                       *)
RemoteBlocks ==
  {[i \in 0 .. 1 |-> IF i = 0 THEN a ELSE b] :
     a \in Block, b \in Block \cup [1 .. 1 -> {0, 1}]}

LocalFiles(n) == {[file |-> f, fsize |-> n] : f \in [0 .. n - 1 -> {0, 1}]}

LocalSets ==
  {[k \in {0} |-> l] : l \in UNION {LocalFiles(n) : n \in 0 .. DnMaxSize}}
  \cup {[k \in {0, 1} |-> IF k = 0 THEN l0 ELSE l1] :
          l0, l1 \in UNION {LocalFiles(n) : n \in 0 .. DnMaxSize2}}

DnCx(locals, blocks) ==
  [bs |-> UpBlockSize, copybuf |-> DnCopyBuf, blocks |-> blocks,
   locals |-> locals, file |-> <<>>, fsize |-> 0, fidx |-> 0]

DnInputs == {DnCx(l, b) : l \in LocalSets, b \in RemoteBlocks}

NoDownload == DnCx(<<>>, <<>>)

(* Folder scans of one sync on device 1 (short id DevShortOf(1)).  Disk   *)
(* files are on device 1 with size 1; catalog files have device 0, as      *)
(* scanner_db_folder_to_list gives them, and local id 20 + name; catalog  *)
(* folders have local id 10 + name.                                        *)
DevShortOf(d) == 10 * d

Entry(n, isf, ino, d, mt, lid) ==
  [name |-> n, isfolder |-> isf, inode |-> ino, dev |-> d, mtime |-> mt,
   size |-> IF isf THEN 0 ELSE 1, localid |-> lid, remoteid |-> lid,
   parent |-> 0]

DiskFiles(n) == {{}} \cup {{Entry(n, FALSE, i, 1, m, 0)} : i, m \in {1, 2}}
DbFiles(n) == {{}} \cup {{Entry(n, FALSE, i, 0, m, 20 + n)} : i, m \in {1, 2}}

\* Sweep A: the root with names 1 and 2, each absent, a file, or a folder
\* (of device 1 or 2 on disk, with short id 10 or 20 in the catalog); the
\* folders are empty.
DiskA(n) == DiskFiles(n) \cup {{Entry(n, TRUE, i, d, 0, 0)} : i, d \in {1, 2}}
DbA(n) == DbFiles(n) \cup {{Entry(n, TRUE, i, d, 0, 10 + n)} : i \in {1, 2},
                                                              d \in {10, 20}}

Ctx(disk, db, ip, ign, bad) ==
  [disk |-> disk, db |-> db, dev |-> 1, ignpaths |-> ip, ignnames |-> ign,
   badnames |-> bad]

SweepA ==
  {Ctx([p \in {<<>>} \cup {<<e.name>> : e \in {x \in a1 \cup a2 : x.isfolder}}
          |-> IF p = <<>> THEN a1 \cup a2 ELSE {}],
       [l \in {0, 11, 12} |-> IF l = 0 THEN b1 \cup b2 ELSE {}], {}, {}, {}) :
     a1 \in DiskA(1), a2 \in DiskA(2), b1 \in DbA(1), b2 \in DbA(2)}

\* Sweep B: a folder 5 known to the catalog (local id 15), files 1 and 2
\* in the root and a file 3 inside it, for moves between the two folders.
SweepB ==
  {Ctx([p \in {<<>>, <<5>>} |->
          IF p = <<>> THEN {Entry(5, TRUE, 9, 1, 0, 0)} \cup a1 \cup a2 ELSE a3],
       [l \in {0, 15} |->
          IF l = 0 THEN {Entry(5, TRUE, 9, 10, 0, 15)} \cup b1 \cup b2 ELSE b3],
       {}, {}, {}) :
     a1 \in DiskFiles(1), a2 \in DiskFiles(2), a3 \in DiskFiles(3),
     b1 \in DbFiles(1), b2 \in DbFiles(2), b3 \in DbFiles(3)}

\* Sweep C: files 1 and 2 in the root under the ignore list (device 1,
\* inode 2), the ignored name 2 and the invalid name 1.
SweepC ==
  {Ctx([p \in {<<>>} |-> a1 \cup a2], [l \in {0} |-> b1 \cup b2], ip, ign, bad) :
     a1 \in DiskFiles(1), a2 \in DiskFiles(2), b1 \in DbFiles(1),
     b2 \in DbFiles(2), ip \in {{}, {<<1, 2>>}}, ign \in {{}, {2}},
     bad \in {{}, {1}}}

NoFolders == Ctx([p \in {} |-> {}], [l \in {} |-> {}], {}, {}, {})

(* The ignorepaths sweep: every string of up to four pieces from         *)
(* IgPieces (a path character, white space, both separators, "$HOME" and  *)
(* the near miss "$HOM"), with a home directory and without one.          *)
IgPieces == {<<"a">>, <<" ">>, <<";">>, <<"\n">>, HomeTag, <<"$", "H", "O", "M">>}
IgStrings == {FlattenSeq(ps) : ps \in UNION {[1 .. n -> IgPieces] : n \in 0 .. 4}}
IgInputs == IgStrings \X {<<"/", "h">>, NoHome}
NoIgnore == <<<<>>, NoHome>>

(* The Adler-32 sweep: every buffer of up to AdMaxLen bytes of value    *)
(* 0 .. MaxByte, and buffers of MaxByte bytes up to AdLongLen long, which  *)
(* pass the NMAX chunk, each cut in two at every point.                    *)
CONSTANTS AdMaxLen, AdLongLen

AdBufs ==
  UNION {[1 .. n -> 0 .. MaxByte] : n \in 0 .. AdMaxLen}
  \cup {[k \in 1 .. n |-> MaxByte] : n \in AdMaxLen + 1 .. AdLongLen}
AdInputs == UNION {{[buf |-> b, cut |-> c] : c \in 0 .. Len(b)} : b \in AdBufs}
NoAdler == [buf |-> <<>>, cut |-> 0]

(* The checksum table: contents s1..s3 with Adler-32 values from          *)
(* CtAdlerVals, up to CtMaxBlocks blocks.                                  *)
CONSTANTS s1, s2, s3, CtAdlerVals, CtMaxBlocks, MAX_ADLER_COLL

(* The upload speed governor: one upload thread w1 and the 1 Hz timer,   *)
(* seconds SgT0..SgMaxTime, a window of SgAVG seconds.                     *)
CONSTANTS w1, SgTimer, SgAVG, SgT0, SgMaxTime, SgSpeeds, SgNums, SgMaxCalls,
          SgINITIAL, SgINC_PER, SgDEC_PER, SgSHAPER_MIN

VARIABLES sgnow, sgcur, sgthis, sgring, sgoff, sgspeed, sgdyn, sgpc, sgmode,
          sgcap, sgnum, sgtsec, sgwwr, sgaccb, sgaccl, sgcalls, sgwire,
          sgcapwire, sghist, sgstale,
          sgon   \* the speed governor, not the checksum table, takes steps

SG == INSTANCE SpeedGovernor
        WITH Writers <- {w1}, Timer <- SgTimer, AVG <- SgAVG, T0 <- SgT0,
             MaxTime <- SgMaxTime, Speeds <- SgSpeeds, Nums <- SgNums,
             MaxCalls <- SgMaxCalls, INITIAL <- SgINITIAL,
             INC_PER <- SgINC_PER, DEC_PER <- SgDEC_PER,
             SHAPER_MIN <- SgSHAPER_MIN,
             now <- sgnow, cur <- sgcur, this <- sgthis, ring <- sgring,
             off <- sgoff, speed <- sgspeed, dyn <- sgdyn, pc <- sgpc,
             mode <- sgmode, cap <- sgcap, num <- sgnum, tsec <- sgtsec,
             wwr <- sgwwr, accb <- sgaccb, accl <- sgaccl, calls <- sgcalls,
             wire <- sgwire, capwire <- sgcapwire, hist <- sghist,
             stale <- sgstale

\* maxuploadspeed: unlimited, auto-shaped, or a cap of 2 bytes a second.
MCSgSpeeds == {-1, 0, 2}

sgvars == <<sgnow, sgcur, sgthis, sgring, sgoff, sgspeed, sgdyn, sgpc, sgmode,
            sgcap, sgnum, sgtsec, sgwwr, sgaccb, sgaccl, sgcalls, sgwire,
            sgcapwire, sghist, sgstale, sgon>>

(* The HTTP prewarm cache: callers hc1 (hosts 2 then 1) and hc2 (host 1),  *)
(* two dial nodes, host 1 prewarmed up to twice, one change of usessl.    *)
CONSTANTS hc1, hc2, HpHosts, HpNodes, HpMAXIDLE, HpCONNECT_FAILS,
          HpPrewarmHosts, HpMaxPrewarm, HpMaxToggles, HpMaxCalls

VARIABLES hpusessl, hptoggles, hptree, hpnode, hpcache, hpprewarms, hpcpc,
          hpci, hpcssl, hpcnode, hpgot, hpchost, hpcfrom, hpcalls,
          hpon   \* the prewarm cache takes steps

MCHpHostList == (hc1 :> <<2, 1>>) @@ (hc2 :> <<1>>)

HP == INSTANCE HttpPrewarm
        WITH Hosts <- HpHosts, HostList <- MCHpHostList, Callers <- {hc1, hc2},
             Nodes <- HpNodes, MAXIDLE <- HpMAXIDLE,
             CONNECT_FAILS <- HpCONNECT_FAILS, PrewarmHosts <- HpPrewarmHosts,
             MaxPrewarm <- HpMaxPrewarm, MaxToggles <- HpMaxToggles,
             MaxCalls <- HpMaxCalls,
             usessl <- hpusessl, toggles <- hptoggles, tree <- hptree,
             node <- hpnode, cache <- hpcache, prewarms <- hpprewarms,
             cpc <- hpcpc, ci <- hpci, cssl <- hpcssl, cnode <- hpcnode,
             got <- hpgot, chost <- hpchost, cfrom <- hpcfrom, calls <- hpcalls

hpvars == <<hpusessl, hptoggles, hptree, hpnode, hpcache, hpprewarms, hpcpc,
            hpci, hpcssl, hpcnode, hpgot, hpchost, hpcfrom, hpcalls, hpon>>

\* The prewarm cache's state while another part is checked.
HpIdle == HP!Init /\ hpusessl = FALSE /\ hpon = FALSE

VARIABLES blockcnt, in, up, dn, sc, ig, ad,
          ctblocks, ctadler, ctcnt, ctelements, ctnext, ctactions, ctins,
          ctphase

CtShas == {s1, s2, s3}

CT == INSTANCE ChecksumTable
        WITH Shas <- CtShas, AdlerVals <- CtAdlerVals, MaxBlocks <- CtMaxBlocks,
             blocks <- ctblocks, adlerOf <- ctadler, cnt <- ctcnt,
             elements <- ctelements, next <- ctnext, blockactions <- ctactions,
             ins <- ctins, phase <- ctphase

algvars == <<blockcnt, in, up, dn, sc, ig, ad>>
ctvars == <<ctblocks, ctadler, ctcnt, ctelements, ctnext, ctactions, ctins,
            ctphase>>

\* The table's state while a pure algorithm is checked: one block, not
\* yet inserted.
CtIdle ==
  /\ ctblocks = <<s1>> /\ ctadler = [c \in CtShas |-> 0]
  /\ ctcnt = TableSize(1) /\ ctelements = [o \in 0 .. ctcnt - 1 |-> 0]
  /\ ctnext = <<0>> /\ ctactions = <<"transfer">> /\ ctins = 1
  /\ ctphase = "create"

NoAlgorithm ==
  blockcnt = 0 /\ in = NoInput /\ up = NoUpload /\ dn = NoDownload
  /\ sc = NoFolders /\ ig = NoIgnore /\ ad = NoAdler

Init ==
  \/ /\ \/ blockcnt \in 1 .. MaxBlockCount /\ in = NoInput /\ up = NoUpload
           /\ dn = NoDownload /\ sc = NoFolders
        \/ blockcnt = 0 /\ in \in Inputs /\ up = NoUpload /\ dn = NoDownload
           /\ sc = NoFolders
        \/ blockcnt = 0 /\ in = NoInput /\ up \in UpInputs /\ dn = NoDownload
           /\ sc = NoFolders
        \/ blockcnt = 0 /\ in = NoInput /\ up = NoUpload /\ dn \in DnInputs
           /\ sc = NoFolders
        \/ blockcnt = 0 /\ in = NoInput /\ up = NoUpload /\ dn = NoDownload
           /\ sc \in SweepA \cup SweepB \cup SweepC
     /\ ig = NoIgnore /\ ad = NoAdler
     /\ CtIdle
     /\ SG!Init /\ sgon = FALSE /\ HpIdle
  \/ /\ blockcnt = 0 /\ in = NoInput /\ up = NoUpload /\ dn = NoDownload
     /\ sc = NoFolders /\ ig \in IgInputs /\ ad = NoAdler
     /\ CtIdle
     /\ SG!Init /\ sgon = FALSE /\ HpIdle
  \/ /\ blockcnt = 0 /\ in = NoInput /\ up = NoUpload /\ dn = NoDownload
     /\ sc = NoFolders /\ ig = NoIgnore /\ ad \in AdInputs
     /\ CtIdle
     /\ SG!Init /\ sgon = FALSE /\ HpIdle
  \/ NoAlgorithm /\ CT!Init /\ SG!Init /\ sgon = FALSE /\ HpIdle
  \/ NoAlgorithm /\ CtIdle /\ SG!Init /\ sgon = TRUE /\ HpIdle
  \/ NoAlgorithm /\ CtIdle /\ SG!Init /\ sgon = FALSE /\ HP!Init /\ hpon = TRUE

\* Only the checksum table, the speed governor and the prewarm cache take
\* steps.
Next ==
  \/ NoAlgorithm /\ ~sgon /\ ~hpon /\ CT!Next /\ UNCHANGED <<algvars, sgvars, hpvars>>
  \/ sgon /\ SG!Next /\ UNCHANGED <<algvars, ctvars, sgon, hpvars>>
  \/ hpon /\ HP!Next /\ UNCHANGED <<algvars, ctvars, sgvars, hpon>>
  \/ UNCHANGED <<algvars, ctvars, sgvars, hpvars>>
Spec == Init /\ [][Next]_<<algvars, ctvars, sgvars, hpvars>>

\* The type invariant of HttpPrewarm.
HpTypeOK == HP!TypeOK

(* No two threads wait on one prewarm dial: a second waiter would        *)
(* overwrite the first one's res and cond, and the first would never be  *)
(* woken (HttpPrewarm!OneWaiterPerNode).                                  *)
OneWaiterPerNode == HP!OneWaiterPerNode

(* Cached and returned HTTP sockets match their host and usessl, across   *)
(* a change of the setting (HttpPrewarm!SocketsMatchKeys).                *)
SocketsMatchKeys == HP!SocketsMatchKeys

(* At most one prewarm dial per host that nobody waits on                *)
(* (HttpPrewarm!OneFreeDialPerHost).                                      *)
OneFreeDialPerHost == HP!OneFreeDialPerHost

\* The type invariant of SpeedGovernor.
SgTypeOK == SG!TypeOK

(* The published speed is the exact mean of the bytes of the last AVG     *)
(* whole seconds, unless an update acted on a stale read                   *)
(* (SpeedGovernor!SpeedIsAverage).                                         *)
SpeedIsAverage == SG!SpeedIsAverage

(* Calls of psync_socket_writeall_upload under a cap never send more than *)
(* the cap in one second, unless an update acted on a stale read           *)
(* (SpeedGovernor!CapHeld).                                                *)
CapHeld == SG!CapHeld

(* Every length psock_write gets from psync_socket_writeall_upload lies   *)
(* between zero and the bytes the call still has to send, for one upload  *)
(* thread (SpeedGovernor!WriteLenValid).                                   *)
WriteLenValid == SG!WriteLenValid

\* The type invariant of ChecksumTable.
CtTypeOK == CT!TypeOK

(* Spec section 8.5: both lookups of the table agree with its slots, also *)
(* after removals have shifted clusters back and across the wrap-around   *)
(* (ChecksumTable!LookupMatchesTable).                                      *)
LookupMatchesTable == CT!LookupMatchesTable

(* Spec section 8.5: every entry lies within MAX_ADLER_COLL probes of its *)
(* home slot after insertion and every backward shift                      *)
(* (ChecksumTable!ProbeBound).                                              *)
ProbeBound == CT!ProbeBound

(* Spec section 4.4: a match claims the block and every duplicate of it   *)
(* (ChecksumTable!MatchCoversDuplicates).                                   *)
MatchCoversDuplicates == CT!MatchCoversDuplicates

(* The table implements the content set ContentSet                        *)
(* (ChecksumTable!ContentSetRefined).                                       *)
ContentSetRefined == CT!ContentSetRefined

(* Reference for the ignorepaths parser: cut the string at every ';' and *)
(* newline, trim white space from both ends of each piece, and replace a  *)
(* leading "$HOME" by the home directory (dropping the piece without one). *)
IgCuts(s) == <<0>> \o SetToSortSeq({k \in DOMAIN s : s[k] \in {";", "\n"}}, <) \o <<Len(s) + 1>>
IgPiecesOf(s) ==
  LET c == IgCuts(s) IN [i \in 1 .. Len(c) - 1 |-> SubSeq(s, c[i] + 1, c[i + 1] - 1)]
IgTrim(p) ==
  LET K == {k \in DOMAIN p : ~IsSpace(p[k])}
  IN IF K = {} THEN <<>> ELSE SubSeq(p, Min(K), Max(K))
IgRefDir(p, h) ==
  IF Len(p) >= 5 /\ SubSeq(p, 1, 5) = HomeTag
    THEN IF h = NoHome THEN <<>> ELSE h \o SubSeq(p, 6, Len(p))
    ELSE p
NonEmpty(d) == d # <<>>
IgRefDirs(s, h) ==
  SelectSeq([i \in DOMAIN IgPiecesOf(s) |-> IgRefDir(IgTrim(IgPiecesOf(s)[i]), h)], NonEmpty)

(* Spec section 4.5: the directories reload_ignored_folders hands to       *)
(* add_ignored_dir are the pieces of the semicolon- or newline-separated  *)
(* list, trimmed, with $HOME expanded, in order; the only others are      *)
(* empty paths, which stat() rejects.  The pointer walk of the code       *)
(* (leading white space skipped across separators, the trailing trim, the *)
(* NUL at the end) agrees with the reference on every swept string.       *)
IgnorePathsParsed ==
  SelectSeq(IgnoredDirs(ig[1], ig[2]), NonEmpty) = IgRefDirs(ig[1], ig[2])

(* adler32 over a buffer, also when the buffer is summed in two calls,   *)
(* the second continuing from the first one's value (as the download scan *)
(* does over the wrap of its ring buffer), is the Adler-32 of the whole   *)
(* buffer: the uint32 sums never wrap between two folds.                   *)
AdlerOfBuffer ==
  LET b == ad.buf
  IN adler32(adler32(INITIAL, SubSeq(b, 1, ad.cut)), SubSeq(b, ad.cut + 1, Len(b)))
       = AdlerRef(b)

(* Rolling the window one byte on with adler32_roll gives the Adler-32 of *)
(* the new window, which is what lets UploadPlan and DownloadScan treat   *)
(* the rolled value as a function of the window's bytes.                   *)
AdlerRollsWindow ==
  LET b == ad.buf
  IN Len(b) >= 2 =>
       adler32_roll(adler32(INITIAL, SubSeq(b, 1, Len(b) - 1)), b[1], b[Len(b)],
                    Len(b) - 1)
         = AdlerRef(Tail(b))

PrimeRef(n) == n > 1 /\ \A d \in 2 .. n - 1 : n % d # 0

(* Spec section 4.4 and 9: the table of psync_net_create_hash has a prime *)
(* size of at least three times the block count, and it is the first      *)
(* prime from the start of the search, so the trial division of           *)
(* psync_is_prime neither accepts a composite nor skips a prime.          *)
TableSizeMinimalPrime ==
  blockcnt > 0 =>
    LET start == ((blockcnt + 1) \div 2) * 6 + 1
        t == TableSize(blockcnt)
    IN /\ PrimeRef(t)
       /\ t >= 3 * blockcnt
       /\ \A m \in start .. t - 1 : ~PrimeRef(m)

Result == DownloadRanges(in.filecnt, in.rt, in.cssize, in.filesize,
                         in.blocksize, in.acts, in.first)

\* Whether the plan comes from the checksums rather than the fallback
BlockPlan == in.filecnt > 0 /\ in.rt = "ok"

\* Reference: the source of byte j (from 0) of the new file, as a pair of
\* a file (NoFile for the server) and an offset in it.
Wanted(j) ==
  LET a == in.acts[j \div in.blocksize]
  IN IF BlockPlan /\ a.type = "copy"
       THEN <<a.idx, a.off + (j % in.blocksize)>>
       ELSE <<NoFile, j>>

Expected == [j \in 1 .. in.filesize |-> Wanted(j - 1)]

\* The bytes a range list produces, in order.
Produced(rs) ==
  FlattenSeq([n \in 1 .. Len(rs) |->
                [k \in 1 .. rs[n].len |-> <<rs[n].file, rs[n].off + k - 1>>]])

\* Every byte the plan of psync_net_download_ranges writes is the byte the
\* block actions call for: a merged COPY range reads on from where the
\* previous block's copy ended, and a TRANSFER range starts at its block.
PlanReproducesFile ==
  blockcnt = 0 /\ Result # "tempfail" => IsPrefix(Expected, Produced(Result))

\* Spec 4.4 ("adjacent blocks of the same action-kind and contiguous source
\* offset merge into one range"): no two neighbouring ranges of the plan
\* could have been one.
PlanCoalesced ==
  blockcnt = 0 /\ Result # "tempfail" =>
    \A n \in 1 .. Len(Result) - 1 :
      ~ /\ Result[n].type = Result[n + 1].type
        /\ Result[n].file = Result[n + 1].file
        /\ Result[n].off + Result[n].len = Result[n + 1].off

UpPlan == UploadRanges(up.cx, up.uo)

\* Reference for upload plans: the byte a range sends at its k-th position.
SourceByte(blocks, o) ==
  IF o \div up.cx.bs + 1 \in DOMAIN blocks
    THEN blocks[o \div up.cx.bs + 1][(o % up.cx.bs) + 1]
    ELSE -1

RangeByte(r, k) ==
  CASE r.type = "upload"     -> up.cx.file[r.off + k]
    [] r.type = "copyfile"   -> SourceByte(up.cx.sources[1], r.off + k)
    [] r.type = "copyupload" -> SourceByte(up.cx.sources[2], r.off + k)

RECURSIVE Sent(_)
Sent(rs) ==
  IF rs = <<>> THEN <<>>
  ELSE [k \in 1 .. Head(rs).len |-> RangeByte(Head(rs), k - 1)] \o Sent(Tail(rs))

\* check_range_for_blocks never reads past its buffer or a byte of it that
\* no read or memset has written, ends, and merge_list_to_element never
\* touches the range it has freed.
ScanSound == up.cx.fsize > 0 => UpPlan.fault = "none"

\* Spec 6 step 7: the ranges upload_big_file sends, read in order from the
\* resume offset, are the local file: an UPLOAD range is read at its own
\* offset, and a copy range names bytes of the remote file or earlier
\* upload equal to the local ones, after the matching, the cutting of
\* merge_list_to_element and the split at PSYNC_MAX_COPY_FROM_REQ.
UploadPlanReproducesFile ==
  up.cx.fsize > 0 /\ UpPlan.fault = "none" =>
    Sent(UpPlan.ranges) = [j \in 1 .. up.cx.fsize - up.uo |->
                             up.cx.file[up.uo + j - 1]]

\* A real occurrence of block content c in local file k at offset o: a
\* whole block, in a window inside the file.
RealAt(k, o, c) ==
  /\ Len(c) = dn.bs
  /\ o + dn.bs <= dn.locals[k].fsize
  /\ \A j \in 1 .. dn.bs : dn.locals[k].file[o + j - 1] = c[j]

\* The local bytes of a COPY from file k at offset o agree with content c
\* as far as the file goes.
CopyAgrees(k, o, c) ==
  /\ o < dn.locals[k].fsize
  /\ \A j \in 1 .. dn.bs :
       o + j - 1 < dn.locals[k].fsize => dn.locals[k].file[o + j - 1] = c[j]

Before(k, o, a) == k < a.idx \/ (k = a.idx /\ o < a.off)

FindsFirst(r) ==
  /\ r.fault = "none"
  /\ \A i \in DOMAIN dn.blocks :
       LET a == r.acts[i] IN
       IF a.type = "copy"
         THEN /\ CopyAgrees(a.idx, a.off, dn.blocks[i])
              /\ ~\E k \in DOMAIN dn.locals, o \in 0 .. DnMaxSize :
                    Before(k, o, a) /\ RealAt(k, o, dn.blocks[i])
         ELSE ~\E k \in DOMAIN dn.locals, o \in 0 .. DnMaxSize :
                 RealAt(k, o, dn.blocks[i])

(* Spec 4.4 ("for every byte position ... record the match and REMOVE this *)
(* block and all its chained duplicates"): psync_net_check_file_for_blocks *)
(* ends without reading outside its buffer, and leaves a block TRANSFER   *)
(* only when no local file holds its content; a COPY block names the       *)
(* first file and offset, in scan order, that hold it, across the ring     *)
(* wrap, the refills, and blocks removed from the hash by earlier files.   *)
DownloadScanFindsFirst == dn # NoDownload => FindsFirst(ScanLocals(dn))

RemoteSize == Len(dn.blocks[0]) + Len(dn.blocks[1])
RemoteByte(j) == dn.blocks[j \div dn.bs][(j % dn.bs) + 1]

BuildsRemote(p) ==
  /\ Len(p) >= RemoteSize
  /\ \A j \in 1 .. RemoteSize :
       IF p[j][1] = NoFile THEN p[j][2] = j - 1
       ELSE p[j][2] < dn.locals[p[j][1]].fsize =>
              dn.locals[p[j][1]].file[p[j][2]] = RemoteByte(j - 1)

DnPlan(acts) ==
  DownloadRanges(Cardinality(DOMAIN dn.locals), "ok", RemoteSize, RemoteSize, dn.bs,
                 acts, acts[0])

(* psync_net_download_ranges end to end: the scan of the local files and  *)
(* the coalescing of its block actions give a plan whose every byte, up to *)
(* the remote file's size, is the remote byte: fetched at its own offset,  *)
(* or copied from a local byte equal to it.                                *)
DownloadPlanBuildsRemote ==
  dn # NoDownload => BuildsRemote(Produced(DnPlan(ScanLocals(dn).acts)))
(* Reference for a folder scan: the entries each side shows, the folders  *)
(* the scan reaches (depth one, as in the sweeps), and per folder what is *)
(* new, deleted and modified by name and kind.                             *)
VisDisk(p) == {e \in sc.disk[p] : <<e.dev, e.inode>> \notin sc.ignpaths}
VisDb(l) == {f \in sc.db[l] : f.name \notin sc.ignnames}
Reportable(e) ==
  /\ ~(e.isfolder /\ e.dev # sc.dev)
  /\ e.name \notin sc.ignnames \cup sc.badnames
Twin(e, f) == e.name = f.name /\ e.isfolder = f.isfolder

Reached ==
  {<<<<>>, 0>>} \cup
  {<<<<pr[1].name>>, pr[2].localid>> :
     pr \in {pr \in VisDisk(<<>>) \X VisDb(0) :
               /\ Twin(pr[1], pr[2]) /\ pr[1].isfolder /\ pr[1].dev = sc.dev
               /\ (DevShortOf(pr[1].dev) = pr[2].dev \/ pr[1].inode = pr[2].inode)
               /\ <<pr[1].name>> \in DOMAIN sc.disk}}

RefNew(p, l) == {e \in VisDisk(p) : Reportable(e) /\ ~\E f \in VisDb(l) : Twin(e, f)}
RefDel(p, l) == {f \in VisDb(l) : ~\E e \in VisDisk(p) : Twin(e, f)}
RefMod(p, l) ==
  {e \in VisDisk(p) :
     \E f \in VisDb(l) : Twin(e, f) /\ ~e.isfolder
                         /\ <<e.mtime, e.size, e.inode>> # <<f.mtime, f.size, f.inode>>}

Key(x) == <<x.parent, x.name, x.isfolder>>
RefKeys(R(_, _)) ==
  UNION {{<<r[2], x.name, x.isfolder>> : x \in R(r[1], r[2])} : r \in Reached}
Listed(q) == {Key(q[i]) : i \in DOMAIN q}
ListsAre(q, ref) == Listed(q) = ref /\ Len(q) = Cardinality(ref)
Kind(q, isf) == \A i \in DOMAIN q : q[i].isfolder = isf

ScanLists == ScanSync(sc)

(* Spec 4.5 (steps 1 to 4): over the folders scanner_scan_folder reaches, *)
(* each entry only on disk is reported new once (unless skipped as of     *)
(* another device, an ignored or an invalid name), each catalog entry     *)
(* with no disk entry of its name and kind deleted once, a name that      *)
(* changed kind both, and a file whose (mtime, size, inode) changed        *)
(* modified, with the local folder id of its parent; renamed entries      *)
(* count as deleted and new; every list holds its own kind only.          *)
ScanListsMatchCatalog ==
  sc # NoFolders =>
    LET s == ScanLists IN
    /\ ListsAre(s.newfiles \o s.renfilesto \o s.newfolders \o s.renfoldersto,
                RefKeys(RefNew))
    /\ ListsAre(s.delfiles \o s.renfilesfrom \o s.delfolders \o s.renfoldersfrom,
                RefKeys(RefDel))
    /\ ListsAre(s.modfiles, RefKeys(RefMod))
    /\ \A q \in {s.newfiles, s.renfilesto, s.delfiles, s.renfilesfrom, s.modfiles} :
         Kind(q, FALSE)
    /\ \A q \in {s.newfolders, s.renfoldersto, s.delfolders, s.renfoldersfrom} :
         Kind(q, TRUE)

FileId(x) == <<x.size, x.inode, x.mtime>>

(* Spec 4.5 and scenario 4 of section 10: the rename extraction pairs a   *)
(* deleted with a new folder only on equal inode, and a deleted with a new *)
(* file only on equal (size, inode, mtime); and after it no deleted entry *)
(* is left beside a new one it could have been paired with, so a file     *)
(* moved between scanned folders, unchanged, is a rename and no upload.   *)
RenamesPaired ==
  sc # NoFolders =>
    LET s == ScanLists IN
    /\ Len(s.renfilesfrom) = Len(s.renfilesto)
    /\ Len(s.renfoldersfrom) = Len(s.renfoldersto)
    /\ \A i \in DOMAIN s.renfilesfrom :
         FileId(s.renfilesfrom[i]) = FileId(s.renfilesto[i])
    /\ \A i \in DOMAIN s.renfoldersfrom :
         s.renfoldersfrom[i].inode = s.renfoldersto[i].inode
    /\ \A i \in DOMAIN s.delfiles, j \in DOMAIN s.newfiles :
         FileId(s.delfiles[i]) # FileId(s.newfiles[j])
    /\ \A i \in DOMAIN s.delfolders, j \in DOMAIN s.newfolders :
         s.delfolders[i].inode # s.newfolders[j].inode
=============================================================================
