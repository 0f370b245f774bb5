--------------------------- MODULE ChecksumTable ---------------------------
(***************************************************************************)
(* The block-checksum hash table of pnetlibs.c: psync_net_create_hash      *)
(* builds an open-addressed, linearly probed table of the remote blocks,   *)
(* chaining blocks with equal SHA-1 through `next`;                        *)
(* psync_net_check_file_for_blocks slides a window over a local file and, *)
(* for each window whose Adler-32 and SHA-1 are in the table,             *)
(* psync_net_block_match_found marks the block and its duplicates as      *)
(* copies and psync_net_hash_remove deletes the entry with a backward     *)
(* shift of the following cluster.                                         *)
(*                                                                         *)
(* Block contents are model values of Shas (equal SHA-1 means equal        *)
(* content); the Adler-32 of a content is chosen by Init from AdlerVals,  *)
(* so that different contents may collide.  Block i of the C code (0-based)*)
(* is block i+1 here, which is also the value the C code stores in a slot.*)
(***************************************************************************)
EXTENDS Integers, FiniteSets, Sequences, TableSizing

CONSTANTS
  Shas,            \* block contents (SHA-1 values)
  AdlerVals,       \* Adler-32 values a content may have
  MaxBlocks,       \* bound on checksums->blockcnt
  MAX_ADLER_COLL   \* the probe cap of psync_net_create_hash

ASSUME MaxBlocks \in Nat \ {0} /\ MAX_ADLER_COLL \in Nat
ASSUME AdlerVals \subseteq Nat

VARIABLES
  blocks,        \* checksums->blocks: block id -> content
  adlerOf,       \* the Adler-32 of each content
  cnt,           \* hash->elementcnt
  elements,      \* hash->elements: slot -> block id, 0 = empty
  next,          \* checksums->next: block id -> next block of equal SHA-1
  blockactions,  \* block id -> "transfer" | "copy"
  ins,           \* the create_hash loop index (next block to insert)
  phase          \* "create" while the table is built, then "scan"

vars == <<blocks, adlerOf, cnt, elements, next, blockactions, ins, phase>>

-----------------------------------------------------------------------------
Adler(i) == adlerOf[blocks[i]]
Slots == 0 .. cnt - 1
Succ(o) == IF o + 1 >= cnt THEN 0 ELSE o + 1

(* Mutants of InsertProbe: the collision count tested before it is      *)
(* incremented (col++ > MAX_ADLER_COLL); no SHA-1 comparison, so equal    *)
(* blocks get slots of their own instead of a chain.                       *)
RECURSIVE InsertProbe_CapLate(_, _, _)
InsertProbe_CapLate(i, o, col) ==
  IF blocks[elements[o]] = blocks[i] THEN [kind |-> "dup", o |-> o]
  ELSE IF col > MAX_ADLER_COLL THEN [kind |-> "drop", o |-> o]
  ELSE IF elements[Succ(o)] = 0 THEN [kind |-> "free", o |-> Succ(o)]
  ELSE InsertProbe_CapLate(i, Succ(o), col + 1)
RECURSIVE InsertProbe_NoDupCheck(_, _, _)
InsertProbe_NoDupCheck(i, o, col) ==
  IF col + 1 > MAX_ADLER_COLL THEN [kind |-> "drop", o |-> o]
  ELSE IF elements[Succ(o)] = 0 THEN [kind |-> "free", o |-> Succ(o)]
  ELSE InsertProbe_NoDupCheck(i, Succ(o), col + 1)

(* The probe of one insertion, from the slot after an occupied one: the  *)
(* SHA-1 comparison with the occupant, the step with wrap-around and the  *)
(* collision count, until an empty slot.                                   *)
RECURSIVE InsertProbe(_, _, _)
InsertProbe(i, o, col) ==
  IF blocks[elements[o]] = blocks[i] THEN [kind |-> "dup", o |-> o]
  ELSE IF col + 1 > MAX_ADLER_COLL THEN [kind |-> "drop", o |-> o]
  ELSE IF elements[Succ(o)] = 0 THEN [kind |-> "free", o |-> Succ(o)]
  ELSE InsertProbe(i, Succ(o), col + 1)

(* psync_net_hash_has_adler and psync_net_hash_has_adler_and_sha1: probe *)
(* from adler % elementcnt to the first empty slot.                       *)
RECURSIVE FindAdler(_, _)
FindAdler(a, o) ==
  IF elements[o] = 0 THEN 0
  ELSE IF Adler(elements[o]) = a THEN elements[o]
  ELSE FindAdler(a, Succ(o))
HasAdler(a) == FindAdler(a, a % cnt) # 0

RECURSIVE FindSlot(_, _, _, _)
FindSlot(el, a, c, o) ==
  IF el[o] = 0 THEN -1
  ELSE IF Adler(el[o]) = a /\ blocks[el[o]] = c THEN o
  ELSE FindSlot(el, a, c, Succ(o))
HasAdlerAndSha1(a, c) ==
  LET o == FindSlot(elements, a, c, a % cnt) IN IF o = -1 THEN 0 ELSE elements[o]

(* The inner loop of psync_net_hash_remove: walking from the entry's      *)
(* home slot, does it reach the hole before its own slot?                 *)
RECURSIVE ReachesHole(_, _, _)
ReachesHole(bp, zeroidx, o) ==
  IF bp = zeroidx THEN TRUE
  ELSE IF bp = o THEN FALSE
  ELSE ReachesHole(Succ(bp), zeroidx, o)

(* The outer loop: move each entry of the cluster after the hole into it *)
(* when its home slot allows, until an empty slot ends the cluster.        *)
RECURSIVE Shift(_, _, _)
Shift(el, zeroidx, o) ==
  LET o2 == Succ(o) idx == el[o2] IN
  IF idx = 0 THEN el
  ELSE LET bp == Adler(idx) % cnt IN
       IF bp # o2 /\ ReachesHole(bp, zeroidx, o2)
       THEN Shift([el EXCEPT ![zeroidx] = idx, ![o2] = 0], o2, o2)
       ELSE Shift(el, zeroidx, o2)

(* Mutants of HashRemove: the slot is emptied without the backward       *)
(* shift; the entry is found by its Adler-32 alone.                       *)
HashRemove_NoShift(el, a, c) ==
  LET o == FindSlot(el, a, c, a % cnt) IN
  IF o = -1 THEN el ELSE [el EXCEPT ![o] = 0]
RECURSIVE FindAdlerSlot(_, _, _)
FindAdlerSlot(el, a, o) ==
  IF el[o] = 0 THEN -1
  ELSE IF Adler(el[o]) = a THEN o
  ELSE FindAdlerSlot(el, a, Succ(o))
HashRemove_AdlerOnly(el, a, c) ==
  LET o == FindAdlerSlot(el, a, a % cnt) IN
  IF o = -1 THEN el ELSE Shift([el EXCEPT ![o] = 0], o, o)

(* psync_net_hash_remove: find the entry, empty its slot, shift back.     *)
HashRemove(el, a, c) ==
  LET o == FindSlot(el, a, c, a % cnt) IN
  IF o = -1 THEN el ELSE Shift([el EXCEPT ![o] = 0], o, o)

(* The blocks chained from block idx through `next`.                      *)
RECURSIVE Chain(_)
Chain(idx) == {idx} \cup (IF next[idx] = 0 THEN {} ELSE Chain(next[idx]))

(* psync_net_block_match_found: unless the block is already a copy, mark *)
(* it and every block chained to it as copies of the local file, then     *)
(* remove its entry from the table.                                        *)
BlockMatchFound(idx) ==
  IF blockactions[idx] # "transfer" THEN UNCHANGED <<elements, blockactions>>
  ELSE /\ blockactions' = [b \in DOMAIN blockactions |->
                             IF b \in Chain(idx) THEN "copy" ELSE blockactions[b]]
       /\ elements' = HashRemove(elements, Adler(idx), blocks[idx])

-----------------------------------------------------------------------------
(* The checksums of the remote file arrive: blockcnt blocks with their    *)
(* contents and Adler-32 values; create_hash sizes and clears the table.  *)
Init ==
  /\ \E n \in 1 .. MaxBlocks : blocks \in [1 .. n -> Shas]
  /\ adlerOf \in [Shas -> AdlerVals]
  /\ cnt = TableSize(Len(blocks))
  /\ elements = [o \in 0 .. cnt - 1 |-> 0]
  /\ next = [i \in 1 .. Len(blocks) |-> 0]
  /\ blockactions = [i \in 1 .. Len(blocks) |-> "transfer"]
  /\ ins = 1
  /\ phase = "create"

(* Mutant of CreateHash: the chain link records the slot, not the     *)
(* block in it.                                                           *)
CreateHash_NextSlot ==
  /\ phase = "create"
  /\ LET i == ins home == Adler(i) % cnt
         r == IF elements[home] = 0 THEN [kind |-> "free", o |-> home]
              ELSE InsertProbe(i, home, 0)
     IN /\ elements' = IF r.kind = "drop" THEN elements
                       ELSE [elements EXCEPT ![r.o] = i]
        /\ next' = IF r.kind = "dup" THEN [next EXCEPT ![i] = r.o]
                   ELSE next
  /\ ins' = ins + 1
  /\ phase' = IF ins = Len(blocks) THEN "scan" ELSE "create"
  /\ UNCHANGED <<blocks, adlerOf, cnt, blockactions>>

(* One pass of the insertion loop of psync_net_create_hash for block ins: *)
(* an empty home slot takes it; otherwise the probe chains it to an entry *)
(* of equal SHA-1 (taking that entry's slot), places it in the first      *)
(* empty slot, or drops it after MAX_ADLER_COLL collisions.               *)
CreateHash ==
  /\ phase = "create"
  /\ LET i == ins home == Adler(i) % cnt
         r == IF elements[home] = 0 THEN [kind |-> "free", o |-> home]
              ELSE InsertProbe(i, home, 0)
     IN /\ elements' = IF r.kind = "drop" THEN elements
                       ELSE [elements EXCEPT ![r.o] = i]
        /\ next' = IF r.kind = "dup" THEN [next EXCEPT ![i] = elements[r.o]]
                   ELSE next
  /\ ins' = ins + 1
  /\ phase' = IF ins = Len(blocks) THEN "scan" ELSE "create"
  /\ UNCHANGED <<blocks, adlerOf, cnt, blockactions>>

(* One window position of psync_net_check_file_for_blocks over a local   *)
(* file: the window has content c; only when the table has its Adler-32  *)
(* is the SHA-1 computed and looked up, and a hit is a match.             *)
CheckWindow(c) ==
  /\ phase = "scan"
  /\ HasAdler(adlerOf[c])
  /\ LET off == HasAdlerAndSha1(adlerOf[c], c) IN
     /\ off # 0
     /\ BlockMatchFound(off)
  /\ UNCHANGED <<blocks, adlerOf, cnt, next, ins, phase>>

Next == CreateHash \/ \E c \in Shas : CheckWindow(c)

Spec == Init /\ [][Next]_vars

-----------------------------------------------------------------------------
(* The contents the table holds, and the contents whose blocks are        *)
(* reachable from it through `next`.                                       *)
Stored == {blocks[elements[o]] : o \in {o2 \in Slots : elements[o2] # 0}}
Occupied == {o \in Slots : elements[o] # 0}
Displacement(o) == (o - (Adler(elements[o]) % cnt) + cnt) % cnt

TypeOK ==
  /\ \E n \in 1 .. MaxBlocks : blocks \in [1 .. n -> Shas]
  /\ adlerOf \in [Shas -> AdlerVals]
  /\ elements \in [Slots -> 0 .. Len(blocks)]
  /\ next \in [1 .. Len(blocks) -> 0 .. Len(blocks)]
  /\ blockactions \in [1 .. Len(blocks) -> {"transfer", "copy"}]
  /\ ins \in 1 .. Len(blocks) + 1 /\ phase \in {"create", "scan"}

(* Spec section 8.5: a lookup (psync_net_hash_has_adler_and_sha1) of any *)
(* content finds a block of that content exactly when the table holds it, *)
(* and psync_net_hash_has_adler answers for an Adler-32 exactly when some *)
(* held block has it, also after removals have shifted clusters back     *)
(* (psync_net_hash_remove) and across the wrap-around of the table.      *)
LookupMatchesTable ==
  /\ \A c \in Shas :
       LET r == HasAdlerAndSha1(adlerOf[c], c) IN
       /\ r # 0 => blocks[r] = c
       /\ r = 0 => c \notin Stored
  /\ \A a \in AdlerVals :
       HasAdler(a) <=> \E o \in Occupied : Adler(elements[o]) = a

(* Spec section 8.5: every held entry lies within MAX_ADLER_COLL probes  *)
(* of its home slot, after the capped insertion of psync_net_create_hash *)
(* and after every backward shift of psync_net_hash_remove.              *)
ProbeBound ==
  \A o \in Occupied : Displacement(o) <= MAX_ADLER_COLL

(* Spec section 4.4: a match claims the block and all its duplicates:    *)
(* once one block of a content is marked a copy, every block of that      *)
(* content is, so no block with the same SHA-1 is left to transfer while *)
(* the table no longer holds its content (psync_net_create_hash must      *)
(* chain every duplicate, and psync_net_block_match_found must follow the *)
(* whole chain).                                                           *)
MatchCoversDuplicates ==
  \A i, j \in DOMAIN blocks :
    blocks[i] = blocks[j] /\ blockactions[i] = "copy" => blockactions[j] = "copy"

(* The table behaves as a set of contents (ContentSet): building it only *)
(* adds the inserted block's content or drops it, and a match claims and *)
(* removes exactly the matched content and keeps every other one.         *)
Claimed == {blocks[i] : i \in {j \in DOMAIN blocks : blockactions[j] = "copy"}}
ABS == INSTANCE ContentSet WITH Contents <- Shas, stored <- Stored,
                                 claimed <- Claimed
ContentSetRefined == ABS!Spec
=============================================================================
