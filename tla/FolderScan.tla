----------------------------- MODULE FolderScan -----------------------------
(***************************************************************************)
(* The change detection of the local scanner (plocalscan.c): for each     *)
(* folder, scanner_scan_folder merges the sorted list of what is on disk  *)
(* with the sorted list of what the catalog holds under that local folder *)
(* id and sorts the differences into the scan lists (new, deleted and     *)
(* modified files and folders), then descends into the matched folders.   *)
(* scanner_scan then pairs deleted with new entries into renames:         *)
(* folders by inode, files by (size, inode, mtime).                       *)
(*                                                                         *)
(* An entry is a record: name (a number; strcmp order is < on numbers),   *)
(* isfolder, inode, dev, mtime, size, localid, remoteid, and parent (the  *)
(* localparentfolderid copy_folderlist_element gives a scan-list entry).  *)
(* The context sx of a scan: disk (the entries of each folder path, a     *)
(* sequence of names from the sync root), db (the catalog rows under each *)
(* local folder id, 0 for the root), dev (the sync root's device),        *)
(* ignpaths (the (device, inode) pairs of the ignore list), ignnames      *)
(* (names psync_is_name_to_ignore matches) and badnames (invalid UTF-8).  *)
(***************************************************************************)
EXTENDS Integers, Sequences, SequencesExt

\* pdevice_id_short, defined outside src/: the device id the catalog keeps.
CONSTANT DevShort(_)

\* is_path_to_ignore(deviceid, inode)
IsPathToIgnore(sx, e) == <<e.dev, e.inode>> \in sx.ignpaths

ByName(S) == SetToSortSeq(S, LAMBDA x, y : x.name < y.name)

\* scanner_local_folder_to_list: the folder's entries minus ignored paths,
\* sorted by psync_list_sort(folderlist_cmp).
DiskList(sx, p) == ByName({e \in sx.disk[p] : ~IsPathToIgnore(sx, e)})

\* scanner_db_folder_to_list: catalog rows with an ignored name are not
\* listed but handed to try_delete_localfolder / try_delete_localfile.
DbList(sx, lid) == ByName({e \in sx.db[lid] : e.name \notin sx.ignnames})
DbIgnored(sx, lid) == {e.localid : e \in {f \in sx.db[lid] : f.name \in sx.ignnames}}

\* add_element_to_scan_list: an entry copied with its new parent.
AddTo(acc, k, e, lid) ==
    [acc EXCEPT ![k] = Append(@, [e EXCEPT !.parent = lid]),
                !.changes = @ + 1]

\* add_new_element: a folder of another device, an ignored name and an
\* invalid UTF-8 name are skipped.
AddNew(sx, acc, e, lid) ==
    IF \/ e.isfolder /\ e.dev # sx.dev
       \/ e.name \in sx.ignnames \/ e.name \in sx.badnames
      THEN acc
      ELSE AddTo(acc, IF e.isfolder THEN "newfolders" ELSE "newfiles", e, lid)

\* add_deleted_element
AddDeleted(acc, e, lid) ==
    AddTo(acc, IF e.isfolder THEN "delfolders" ELSE "delfiles", e, lid)

\* The disk list as the walk leaves it, for the descent.
Keep(acc, e) == [acc EXCEPT !.disk = Append(@, e)]

\* Mutant: the modification test leaves out the inode.
Modified_NoInode(e, f) == e.mtime # f.mtime \/ e.size # f.size

Modified(e, f) == e.mtime # f.mtime \/ e.size # f.size \/ e.inode # f.inode

\* A folder whose short device id and inode both changed is not scanned
\* into when it is on the sync's device (its localid is cleared).
Relocated(sx, e, f) ==
    DevShort(e.dev) # f.dev /\ e.inode # f.inode /\ e.dev = sx.dev

\* Same name and kind: the disk entry takes the catalog ids; a file that
\* changed is modified.
SameKind(sx, acc, e, f, lid) ==
    Keep(IF ~e.isfolder /\ Modified(e, f) THEN AddTo(acc, "modfiles", e, lid)
         ELSE acc,
         IF e.isfolder /\ Relocated(sx, e, f) THEN [e EXCEPT !.localid = 0]
         ELSE e)

\* Mutant: a name that changed kind is reported new only.
SameName_NoDelete(sx, acc, e, f, lid) ==
    IF e.isfolder # f.isfolder THEN Keep(AddNew(sx, acc, e, lid), e)
    ELSE SameKind(sx, acc, [e EXCEPT !.localid = f.localid,
                                     !.remoteid = f.remoteid], f, lid)

\* cmp == 0: a change of kind is a delete and a new entry.
SameName(sx, acc, e, f, lid) ==
    IF e.isfolder # f.isfolder
      THEN Keep(AddNew(sx, AddDeleted(acc, f, lid), e, lid), e)
      ELSE SameKind(sx, acc, [e EXCEPT !.localid = f.localid,
                                       !.remoteid = f.remoteid], f, lid)

\* The merge walk over the two sorted lists and the two loops after it.
RECURSIVE Walk(_, _, _, _, _)
Walk(sx, lid, d, b, acc) ==
    IF d = <<>> /\ b = <<>> THEN acc
    ELSE IF b = <<>> \/ (d # <<>> /\ Head(d).name < Head(b).name)
      THEN Walk(sx, lid, Tail(d), b, Keep(AddNew(sx, acc, Head(d), lid), Head(d)))
    ELSE IF d = <<>> \/ Head(b).name < Head(d).name
      THEN Walk(sx, lid, d, Tail(b), AddDeleted(acc, Head(b), lid))
    ELSE Walk(sx, lid, Tail(d), Tail(b), SameName(sx, acc, Head(d), Head(b), lid))

RECURSIVE ScanFolder(_, _, _, _), Descend(_, _, _, _)

\* The last loop of scanner_scan_folder: recurse into each folder of the
\* disk list that has a local id and is on the sync's device.
Descend(sx, p, ds, acc) ==
    IF ds = <<>> THEN acc
    ELSE Descend(sx, p, Tail(ds),
                 IF Head(ds).isfolder /\ Head(ds).localid # 0
                    /\ Head(ds).dev = sx.dev
                   THEN ScanFolder(sx, Append(p, Head(ds).name),
                                   Head(ds).localid, acc)
                   ELSE acc)

AfterWalk(sx, p, w, outer) == Descend(sx, p, w.disk, [w EXCEPT !.disk = outer])

\* scanner_scan_folder(path p, local folder id lid); a folder that cannot
\* be listed is left.
ScanFolder(sx, p, lid, acc) ==
    IF p \notin DOMAIN sx.disk THEN acc
    ELSE AfterWalk(sx, p,
                   Walk(sx, lid, DiskList(sx, p), DbList(sx, lid),
                        [acc EXCEPT !.disk = <<>>,
                                    !.dbdel = @ \cup DbIgnored(sx, lid)]),
                   acc.disk)

EmptyLists ==
    [newfiles |-> <<>>, newfolders |-> <<>>, delfiles |-> <<>>,
     delfolders |-> <<>>, modfiles |-> <<>>, disk |-> <<>>,
     renfoldersfrom |-> <<>>, renfoldersto |-> <<>>,
     renfilesfrom |-> <<>>, renfilesto |-> <<>>,
     dbdel |-> {}, changes |-> 0]

Sign(a, b) == IF a < b THEN -1 ELSE IF a > b THEN 1 ELSE 0

\* compare_inode
CmpInode(e, f) == Sign(e.inode, f.inode)

\* Mutant: the file key leaves out the mtime.
CmpSizeInodeMtime_NoMtime(e, f) ==
    IF e.size # f.size THEN Sign(e.size, f.size) ELSE Sign(e.inode, f.inode)

\* compare_sizeinodemtime: size, then inode, then mtimenat.
CmpSizeInodeMtime(e, f) ==
    IF e.size # f.size THEN Sign(e.size, f.size)
    ELSE IF e.inode # f.inode THEN Sign(e.inode, f.inode)
    ELSE Sign(e.mtime, f.mtime)

Cmp(folders, e, f) ==
    IF folders THEN CmpInode(e, f) ELSE CmpSizeInodeMtime(e, f)

\* psync_list_extract_repeating(l1, l2, ex1, ex2, cmp), outside src/
\* (spec 4.5): both lists sorted by cmp and walked in step; a pair that
\* compares equal moves to ex1 and ex2, in order.
RECURSIVE Pair(_, _, _, _)
Pair(folders, a, b, r) ==
    IF a = <<>> \/ b = <<>> THEN [r EXCEPT !.a = @ \o a, !.b = @ \o b]
    ELSE IF Cmp(folders, Head(a), Head(b)) < 0
      THEN Pair(folders, Tail(a), b, [r EXCEPT !.a = Append(@, Head(a))])
    ELSE IF Cmp(folders, Head(a), Head(b)) > 0
      THEN Pair(folders, a, Tail(b), [r EXCEPT !.b = Append(@, Head(b))])
    ELSE Pair(folders, Tail(a), Tail(b),
              [r EXCEPT !.from = Append(@, Head(a)), !.to = Append(@, Head(b))])

ExtractRepeating(folders, l1, l2) ==
    Pair(folders, SortSeq(l1, LAMBDA x, y : Cmp(folders, x, y) < 0),
         SortSeq(l2, LAMBDA x, y : Cmp(folders, x, y) < 0),
         [from |-> <<>>, to |-> <<>>, a |-> <<>>, b |-> <<>>])

WithFolderRenames(s, x) ==
    [s EXCEPT !.delfolders = x.a, !.newfolders = x.b,
              !.renfoldersfrom = x.from, !.renfoldersto = x.to]

WithFileRenames(s, x) ==
    [s EXCEPT !.delfiles = x.a, !.newfiles = x.b,
              !.renfilesfrom = x.from, !.renfilesto = x.to]

\* scanner_scan over one sync: the walk from the sync root (local folder
\* id 0), the rename extraction on folders, then on files.
FolderRenames(s) ==
    WithFolderRenames(s, ExtractRepeating(TRUE, s.delfolders, s.newfolders))

FileRenames(s) ==
    WithFileRenames(s, ExtractRepeating(FALSE, s.delfiles, s.newfiles))

ScanSync(sx) == FileRenames(FolderRenames(ScanFolder(sx, <<>>, 0, EmptyLists)))
=============================================================================
