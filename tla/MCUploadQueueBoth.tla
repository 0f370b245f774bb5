------------------------- MODULE MCUploadQueueBoth -------------------------
(***************************************************************************)
(* The two passing instances of UploadQueue, checked in one run.  UQA:     *)
(* three upload_task_t slots, two parallel uploads, three task ids and    *)
(* one-unit files, for the counters and the ordering of the worker's      *)
(* commands.  UQB: two slots, one parallel upload, two task ids and files *)
(* of one or two units, so that an upload takes the checksum path, for    *)
(* the worker's waits.  The variable bon chooses, for the whole            *)
(* behaviour, which of the two takes steps while the other stays in its   *)
(* initial state; UQB keeps the fairness of UploadQueue on its own steps.                                                                 *)
(***************************************************************************)
EXTENDS TLC

CONSTANTS f1, u1, u2, u3, START_NEW_UPLOADS_TRESHOLD, MIN_SIZE_FOR_CHECKSUMS,
          WordBits, TRANSIENT

VARIABLES
    atask, anextTaskId, acreated, alocalfile, alfsize, abound, aremote, ahasUpload, alocks, aut, afilesuploading, abytesuploaded, abytestouploadcurrent, aupload_wakes, ampc, amtask, amslot,
    btask, bnextTaskId, bcreated, blocalfile, blfsize, bbound, bremote, bhasUpload, blocks, but, bfilesuploading, bbytesuploaded, bbytestouploadcurrent, bupload_wakes, bmpc, bmtask, bmslot,
    bon    \* UQB, not UQA, takes steps

MCFiles == {f1}
MCSlots == {u1, u2, u3}
MCSlots2 == {u1, u2}

UQA == INSTANCE UploadQueue
       WITH Files <- MCFiles, Slots <- MCSlots, MaxTaskId <- 3, MAX_PARALLEL_UPLOADS <- 2,
             Sizes <- {1},
             task <- atask,
             nextTaskId <- anextTaskId,
             created <- acreated,
             localfile <- alocalfile,
             lfsize <- alfsize,
             bound <- abound,
             remote <- aremote,
             hasUpload <- ahasUpload,
             locks <- alocks,
             ut <- aut,
             filesuploading <- afilesuploading,
             bytesuploaded <- abytesuploaded,
             bytestouploadcurrent <- abytestouploadcurrent,
             upload_wakes <- aupload_wakes,
             mpc <- ampc,
             mtask <- amtask,
             mslot <- amslot
UQB == INSTANCE UploadQueue
       WITH Files <- MCFiles, Slots <- MCSlots2, MaxTaskId <- 2, MAX_PARALLEL_UPLOADS <- 1,
             Sizes <- {1, 2},
             task <- btask,
             nextTaskId <- bnextTaskId,
             created <- bcreated,
             localfile <- blocalfile,
             lfsize <- blfsize,
             bound <- bbound,
             remote <- bremote,
             hasUpload <- bhasUpload,
             locks <- blocks,
             ut <- but,
             filesuploading <- bfilesuploading,
             bytesuploaded <- bbytesuploaded,
             bytestouploadcurrent <- bbytestouploadcurrent,
             upload_wakes <- bupload_wakes,
             mpc <- bmpc,
             mtask <- bmtask,
             mslot <- bmslot

avars == <<atask, anextTaskId, acreated, alocalfile, alfsize, abound, aremote, ahasUpload, alocks, aut, afilesuploading, abytesuploaded, abytestouploadcurrent, aupload_wakes, ampc, amtask, amslot>>
bvars == <<btask, bnextTaskId, bcreated, blocalfile, blfsize, bbound, bremote, bhasUpload, blocks, but, bfilesuploading, bbytesuploaded, bbytestouploadcurrent, bupload_wakes, bmpc, bmtask, bmslot>>
vars == <<avars, bvars, bon>>

Init == UQA!Init /\ UQB!Init /\ bon \in BOOLEAN

Next ==
    \/ ~bon /\ UQA!Next /\ UNCHANGED <<bvars, bon>>
    \/ bon /\ UQB!Next /\ UNCHANGED <<avars, bon>>

(* The fairness of UploadQueue, on the steps of UQB.  UQA is checked for  *)
(* safety only, so its behaviours need none.                              *)
Fairness ==
    /\ WF_vars(bon /\ UQB!MainStep /\ UNCHANGED <<avars, bon>>)
    /\ \A s \in MCSlots2 : WF_vars(bon /\ UQB!ThreadStep(s) /\ UNCHANGED <<avars, bon>>)

Spec == Init /\ [][Next]_vars /\ Fairness

\* The type invariant of UploadQueue, on UQA.
UqaTypeOK == UQA!TypeOK

(* filesuploading, bytestouploadcurrent and bytesuploaded agree with the *)
(* running upload threads, with two uploads in parallel                  *)
(* (UploadQueue!StatusMatchesThreads).                                     *)
StatusMatchesThreads == UQA!StatusMatchesThreads

(* The same, with files large enough for the checksum path and several   *)
(* chunks (UploadQueue!StatusMatchesThreads).                              *)
BigStatusMatchesThreads == UQB!StatusMatchesThreads

(* A rename or delete reaches the server only after every upload queued  *)
(* before it ended (UploadQueue!RemoteOpsAfterUploads).                    *)
RemoteOpsAfterUploads == UQA!RemoteOpsAfterUploads

(* No two upload threads hold the same file's path lock                  *)
(* (UploadQueue!OneUploadPerFile).                                        *)
OneUploadPerFile == UQA!OneUploadPerFile

(* Every wait of the worker on current_uploads_cond ends                  *)
(* (UploadQueue!WorkerWaitsEnd).                                          *)
WorkerWaitsEnd == UQB!WorkerWaitsEnd
=============================================================================
