----------------------------- MODULE LeafCheck -----------------------------
(***************************************************************************)
(* check_leaf() of tree-checker.c: the validation of one leaf block, in   *)
(* its relaxed form (apfs_check_leaf_relaxed: layout only) and its full    *)
(* form (apfs_check_leaf_full: layout, then check_leaf_item on every      *)
(* slot).                                                                  *)
(*                                                                         *)
(* The leaf is bytes read from disk: any value is possible.  The checker  *)
(* reads the header first and then one item per loop iteration, so the    *)
(* model reads the block lazily: the header fields and each item are      *)
(* chosen (\E) at the step that reads them.  A rejected leaf is thus      *)
(* represented by what the checker had read when it failed, which is      *)
(* everything its verdict depends on.                                     *)
(*                                                                         *)
(* Item offsets and sizes are u32 fields; apfs_item_end_nr() adds them in *)
(* u32 arithmetic, modelled as (offset + size) % FieldMod.                *)
(*                                                                         *)
(* Item checkers: check_csum_item and check_simple_keyed_refs depend on   *)
(* the key and the item size only; check_inode_ref walks the packed       *)
(* name records of the item, and is a loop of its own here, reading each  *)
(* record's name_len when the code does.  check_dir_item walks the       *)
(* packed dir entries of a DIR_ITEM, DIR_INDEX or XATTR_ITEM the same     *)
(* way; an entry is read as its location key, type, name and data lengths *)
(* and the hash of its name, the fields the checker tests.  An inode     *)
(* item's payload is read as the fields check_inode_item tests.  Orphan  *)
(* items stand for the key types check_leaf_item's switch has no case    *)
(* for.                                                                   *)
(***************************************************************************)
EXTENDS ItemCheck, Sequences, SequencesExt, Bitwise

CONSTANTS
    DataSize,         \* APFS_LEAF_DATA_SIZE(fs_info)
    ItemHeaderSize,   \* sizeof(struct apfs_item), one slot of the item table
    FieldMod,         \* 2^32, the range of the u32 item offset/size fields
    ObjectIds,        \* key objectids a block may hold
    KeyTypes,         \* key types a block may hold (a subset of AllKeyTypes)
    KeyOffsets,       \* key offsets a block may hold
    ItemOffsets,      \* values of the u32 item offset field
    ItemSizes,        \* values of the u32 item size field
    MaxItems,         \* largest header nritems considered
    Levels,           \* values of the header level field
    Owners,           \* values of the header owner field
    CsumSize,         \* fs_info->csum_size
    InodeRefSize,     \* sizeof(struct apfs_inode_ref): index, then name_len
    NameLenSize,      \* sizeof(name_len), the last field of apfs_inode_ref
    PtrSize,          \* sizeof(iref), the size of a pointer
    NameLens,         \* values of the name_len field
    CsumObjectId,     \* APFS_EXTENT_CSUM_OBJECTID
    NeverEmptyOwners,\* ROOT, CHUNK, EXTENT, DEV, FS and DATA_RELOC tree ids
    DirItemSize,      \* sizeof(struct apfs_dir_item), one entry header
    LocKeys,          \* location keys an entry may hold
    FileTypes,        \* values of the dir_type field
    DirNameLens,      \* values of an entry's name_len field
    DataLens,         \* values of an entry's data_len field
    NameLen,          \* APFS_NAME_LEN
    XattrNameMax,     \* XATTR_NAME_MAX
    MaxXattrSize,     \* APFS_MAX_XATTR_SIZE(fs_info)
    FirstFreeObjectId,\* APFS_FIRST_FREE_OBJECTID
    LastFreeObjectId, \* APFS_LAST_FREE_OBJECTID
    RootTreeDirObjectId, \* APFS_ROOT_TREE_DIR_OBJECTID
    MixedGroups,      \* the MIXED_GROUPS incompat feature of the superblock
    SkinnyMetadata,   \* the SKINNY_METADATA incompat feature of the superblock
    FreeInoObjectId,  \* APFS_FREE_INO_OBJECTID
    InodeItems,       \* payloads an inode item may hold
    InodeFlagMask     \* APFS_INODE_FLAG_MASK, the known flag bits

ASSUME /\ DataSize < FieldMod
       /\ \A o \in ItemOffsets \cup ItemSizes : o \in 0..FieldMod - 1
       /\ CsumObjectId \in ObjectIds
       /\ KeyTypes \subseteq {1, 12, 24, 48, 84, 96, 128, 176, 182, 184}
       /\ \E k \in 0..32 : InodeFlagMask = 2^k - 1


(* Key types, with the values of the on-disk format (ctree.h). *)
INODE_ITEM_KEY      == 1
INODE_REF_KEY       == 12
XATTR_ITEM_KEY      == 24
DIR_ITEM_KEY        == 84
DIR_INDEX_KEY       == 96
ORPHAN_ITEM_KEY     == 48
EXTENT_CSUM_KEY     == 128
AllKeyTypes == {INODE_ITEM_KEY, INODE_REF_KEY, XATTR_ITEM_KEY, ORPHAN_ITEM_KEY, DIR_ITEM_KEY,
                DIR_INDEX_KEY, EXTENT_CSUM_KEY, TREE_BLOCK_REF_KEY,
                SHARED_BLOCK_REF_KEY, SHARED_DATA_REF_KEY}
DirKeyTypes == {DIR_ITEM_KEY, DIR_INDEX_KEY, XATTR_ITEM_KEY}

FT_XATTR == 8
FT_MAX   == 9

(* File type bits of an inode mode (linux/stat.h). *)
S_IFMT   == 61440   \* 0170000
S_IFSOCK == 49152   \* 0140000
S_IFLNK  == 40960   \* 0120000
S_IFBLK  == 24576   \* 0060000
S_IFDIR  == 16384   \* 0040000

Keys == {Key(o, t, f) : o \in ObjectIds, t \in KeyTypes, f \in KeyOffsets}
(* An item as read: its header, and the name_len of every inode ref     *)
(* record the checker has read from its payload, or the dir entries.    *)
(* The payload of an inode item is read only by check_inode_item, in the *)
(* full check; an item whose payload is not read carries NoInodeItem.     *)
NoInodeItem == [generation |-> 0, transid |-> 0, mode |-> 0, nlink |-> 0, flags |-> 0]
ItemHeaders == [key : Keys, offset : ItemOffsets, size : ItemSizes, names : {<<>>},
                dirs : {<<>>}, inode : {NoInodeItem}]
Items == {h \in ItemHeaders : h.key.type # INODE_ITEM_KEY}
         \cup {[h EXCEPT !.inode = ii] :
                 h \in {g \in ItemHeaders : g.key.type = INODE_ITEM_KEY},
                 ii \in InodeItems}
(* A dir entry as check_dir_item reads it; its name is represented by     *)
(* apfs_name_hash() of it.                                               *)
DirEntries == [loc : LocKeys, type : FileTypes, name_len : DirNameLens,
               data_len : DataLens, hash : KeyOffsets]


VARIABLES
    pc,        \* "start", "walk", "inode_ref" or "done"
    hdr,       \* header fields read so far: level, nritems, owner, reloc
    full,      \* check_item_data
    items,     \* the items of slots 0..slot, as read so far
    slot,      \* loop counter of check_leaf
    prev_key,  \* key of the previous slot (ZeroKey before slot 0)
    ptr,       \* check_inode_ref: record offset from the item start
    reads,     \* name_len fields read: [slot, from, to) in item offsets
    ret        \* return value of check_leaf

vars == <<pc, hdr, full, items, slot, prev_key, ptr, reads, ret>>

(* apfs_item_end_nr(): offset + size in u32. *)
ItemEnd(it) == (it.offset + it.size) % FieldMod

(* item_end_expected of the loop; items[s] is the item of slot s - 1. *)
ItemEndExpected(s) == IF s = 0 THEN DataSize ELSE items[s].offset

(* Fault variant: ranges that touch are taken for overlapping ones. *)
CheckCsumItemTouching(it, s, pk) ==
    LET prev_csum_end ==
            (items[s].size \div CsumSize) * SectorSize + pk.offset
    IN CASE it.key.objectid # CsumObjectId            -> EUCLEAN
         [] ~IsAligned(it.key.offset, SectorSize)     -> EUCLEAN
         [] ~IsAligned(it.size, CsumSize)             -> EUCLEAN
         [] s > 0 /\ pk.type = EXTENT_CSUM_KEY
               /\ prev_csum_end >= it.key.offset      -> EUCLEAN
         [] OTHER                                     -> 0

(* check_csum_item(); items[s] is the item of slot s - 1 when s > 0. *)
CheckCsumItem(it, s, pk) ==
    LET prev_csum_end ==
            (items[s].size \div CsumSize) * SectorSize + pk.offset
    IN CASE it.key.objectid # CsumObjectId            -> EUCLEAN
         [] ~IsAligned(it.key.offset, SectorSize)     -> EUCLEAN
         [] ~IsAligned(it.size, CsumSize)             -> EUCLEAN
         [] s > 0 /\ pk.type = EXTENT_CSUM_KEY
               /\ prev_csum_end > it.key.offset       -> EUCLEAN
         [] OTHER                                     -> 0

(* check_simple_keyed_refs() *)
CheckSimpleKeyedRefs(it) ==
    LET expect_item_size ==
            IF it.key.type = SHARED_DATA_REF_KEY THEN SharedDataRefSize ELSE 0
    IN CASE it.size # expect_item_size                    -> EUCLEAN
         [] ~IsAligned(it.key.objectid, SectorSize)       -> EUCLEAN
         [] it.key.type # TREE_BLOCK_REF_KEY
               /\ ~IsAligned(it.key.offset, SectorSize)   -> EUCLEAN
         [] OTHER                                         -> 0

(* check_prev_ino(): in a subvolume tree, an item of an inode follows an *)
(* item of the same inode.                                              *)
CheckPrevIno(it, s, pk) == PrevInoOk(hdr.owner, s, it.key, pk)

(* check_inode_ref() up to its loop: continuity, then an item larger     *)
(* than one record header.  The loop is the InodeRef* steps below.      *)
CheckInodeRefHead(it, s, pk) ==
    CASE ~CheckPrevIno(it, s, pk)    -> EUCLEAN
      [] it.size <= InodeRefSize     -> EUCLEAN
      [] OTHER                       -> 0

(* check_dir_item() up to its loop. *)
CheckDirItemHead(it, s, pk) == IF CheckPrevIno(it, s, pk) THEN 0 ELSE EUCLEAN

(* check_inode_key(): the location key of an entry that names an inode;  *)
(* item_key is the key of the slot.                                      *)
CheckInodeKey(item_key, key) ==
    CASE item_key.type = XATTR_ITEM_KEY ->
            IF key.objectid # 0 \/ key.type # 0 \/ key.offset # 0
            THEN EUCLEAN ELSE 0
      [] (key.objectid < FirstFreeObjectId \/ key.objectid > LastFreeObjectId)
            /\ key.objectid \notin {RootTreeDirObjectId, FreeInoObjectId} -> EUCLEAN
      [] key.offset # 0 -> EUCLEAN
      [] OTHER -> 0

DirEntrySize(e) == DirItemSize + e.name_len + e.data_len

(* One iteration of check_dir_item's loop on entry e at offset cur, after *)
(* the header check: location key, dir type, name and data lengths, the   *)
(* entry inside the item, the name hash.                                  *)
DirEntryVerdict(it, e, cur) ==
    LET key == it.key
        max_name_len == IF e.type = FT_XATTR THEN XattrNameMax ELSE NameLen
        location == CASE e.loc.type = ROOT_ITEM_KEY -> CheckRootKey(key, e.loc)
                      [] e.loc.type \in {INODE_ITEM_KEY, 0} ->
                            CheckInodeKey(key, e.loc)
                      [] OTHER -> EUCLEAN
    IN CASE location # 0                                         -> location
         [] e.type >= FT_MAX                                    -> EUCLEAN
         [] key.type = XATTR_ITEM_KEY /\ e.type # FT_XATTR      -> EUCLEAN
         [] e.type = FT_XATTR /\ key.type # XATTR_ITEM_KEY      -> EUCLEAN
         [] e.name_len > max_name_len                           -> EUCLEAN
         [] e.name_len + e.data_len > MaxXattrSize              -> EUCLEAN
         [] e.data_len # 0 /\ e.type # FT_XATTR                 -> EUCLEAN
         [] cur + DirEntrySize(e) > it.size                     -> EUCLEAN
         [] key.type \in {DIR_ITEM_KEY, XATTR_ITEM_KEY}
               /\ key.offset # e.hash                           -> EUCLEAN
         [] OTHER                                               -> 0

(* valid_mask: S_IFMT | S_ISUID | S_ISGID | S_ISVTX | 0777 *)
ValidModeMask == 65535

(* check_inode_item(): the key names an inode, the generations are at    *)
(* most the superblock's + 1, no unknown mode bits, a file type that is  *)
(* a single S_IF bit or LNK, BLK or SOCK, a directory has one link, no   *)
(* unknown flags.                                                         *)
CheckInodeItem(it) ==
    LET ii   == it.inode
        mode == ii.mode
        fmt  == mode & S_IFMT
    IN CASE CheckInodeKey(it.key, it.key) # 0                     -> EUCLEAN
         [] ii.generation > SuperGen + 1                          -> EUCLEAN
         [] ii.transid > SuperGen + 1                             -> EUCLEAN
         [] (mode & ValidModeMask) # mode                         -> EUCLEAN
         [] ~HasSingleBitSet(fmt)
               /\ fmt \notin {S_IFLNK, S_IFBLK, S_IFSOCK}          -> EUCLEAN
         [] fmt = S_IFDIR /\ ii.nlink > 1                         -> EUCLEAN
         [] (ii.flags & InodeFlagMask) # ii.flags                 -> EUCLEAN
         [] OTHER                                                 -> 0

(* check_leaf_item(): the switch on the key type; no case, no check.      *)
(* The chunk is the item itself, at logical address key.offset; items[s] *)
(* is the previous item, whose extent end check_extent_data_item reads.  *)
CheckLeafItem(it, s, pk) ==
    CASE it.key.type = EXTENT_DATA_KEY ->
            CheckFileExtent(hdr.owner, s, pk, items[s], it)
      [] it.key.type = EXTENT_CSUM_KEY -> CheckCsumItem(it, s, pk)
      [] it.key.type \in DirKeyTypes -> CheckDirItemHead(it, s, pk)
      [] it.key.type = INODE_REF_KEY -> CheckInodeRefHead(it, s, pk)
      [] it.key.type = BLOCK_GROUP_ITEM_KEY -> CheckBlockGroupItem(it)
      [] it.key.type = CHUNK_ITEM_KEY -> CheckLeafChunkItem(it, MixedGroups)
      [] it.key.type = DEV_ITEM_KEY -> CheckDevItem(it)
      [] it.key.type = INODE_ITEM_KEY -> CheckInodeItem(it)
      [] it.key.type = ROOT_ITEM_KEY -> CheckRootItem(it)
      [] it.key.type \in {EXTENT_ITEM_KEY, METADATA_ITEM_KEY} ->
            CheckExtentItem(it, SkinnyMetadata)
      [] it.key.type \in {TREE_BLOCK_REF_KEY, SHARED_DATA_REF_KEY,
                          SHARED_BLOCK_REF_KEY} -> CheckSimpleKeyedRefs(it)
      [] it.key.type = EXTENT_DATA_REF_KEY -> CheckExtentDataRef(it)
      [] OTHER -> 0

Finish(r) == /\ pc' = "done"
             /\ ret' = r

Init == /\ pc = "start"
        /\ hdr = [level |-> 0, nritems |-> 0, owner |-> 0, reloc |-> FALSE]
        /\ full \in BOOLEAN
        /\ items = <<>>
        /\ slot = 0
        /\ prev_key = ZeroKey
        /\ ptr = 0
        /\ reads = {}
        /\ ret = 0

(***************************************************************************)
(* The checker's steps.  The header is read first (nritems at the         *)
(* declaration, the level after the early return).                        *)
(***************************************************************************)
BadLevel ==
    /\ pc = "start"
    /\ \E level \in Levels \ {0}, n \in 0..MaxItems :
          hdr' = [hdr EXCEPT !.level = level, !.nritems = n]
    /\ Finish(EUCLEAN)
    /\ UNCHANGED <<full, items, slot, prev_key, ptr, reads>>

(* nritems == 0: the owner rules unless the RELOC flag is set. *)
EmptyLeaf ==
    /\ pc = "start"
    /\ 0 \in Levels
    /\ \E owner \in Owners, reloc \in BOOLEAN :
          /\ hdr' = [level |-> 0, nritems |-> 0, owner |-> owner, reloc |-> reloc]
          /\ Finish(IF ~reloc /\ (owner \in NeverEmptyOwners \/ owner = 0)
                    THEN EUCLEAN ELSE 0)
    /\ UNCHANGED <<full, items, slot, prev_key, ptr, reads>>

(* A leaf with items; its owner is read by check_prev_ino(). *)
BeginWalk ==
    /\ pc = "start"
    /\ 0 \in Levels
    /\ \E n \in 1..MaxItems, owner \in Owners :
          hdr' = [hdr EXCEPT !.nritems = n, !.owner = owner]
    /\ pc' = "walk"
    /\ UNCHANGED <<full, items, slot, prev_key, ptr, reads, ret>>

(* The verdict of the loop body on item it at the current slot, up to   *)
(* the loop of check_inode_ref: key order, item end, end inside the     *)
(* leaf, then the item checker.                                         *)
SlotVerdict(it) ==
    CASE CompKeys(prev_key, it.key) >= 0          -> EUCLEAN
      [] ItemEnd(it) # ItemEndExpected(slot)      -> EUCLEAN
      [] ItemEnd(it) > DataSize                   -> EUCLEAN
      [] full                                     -> CheckLeafItem(it, slot, prev_key)
      [] OTHER                                    -> 0

(* The key order, item end and end-in-leaf checks of the loop body, the *)
(* ones before check_leaf_item.                                          *)
LayoutOk(it) ==
    /\ CompKeys(prev_key, it.key) < 0
    /\ ItemEnd(it) = ItemEndExpected(slot)
    /\ ItemEnd(it) <= DataSize

(* The items a loop iteration may read.  The key is read first, offset  *)
(* and size only once the key order check has passed: an item rejected  *)
(* by it is read with offset and size 0.  The payload of an inode item   *)
(* is read only by check_leaf_item, so only in the full check and only   *)
(* once the layout checks have passed; an item rejected before is its    *)
(* header.                                                              *)
HeaderReads ==
    {h \in ItemHeaders : CompKeys(prev_key, h.key) < 0 \/ (h.offset = 0 /\ h.size = 0)}
ReadItems ==
    IF full THEN {it \in Items : LayoutOk(it)} \cup {h \in HeaderReads : ~LayoutOk(h)}
            ELSE HeaderReads

(* Items whose checker has a loop over the records of the item. *)
WalksRecords(it) == full /\ it.key.type \in {INODE_REF_KEY} \cup DirKeyTypes

RejectSlot ==
    /\ pc = "walk" /\ slot < hdr.nritems
    /\ \E it \in ReadItems :
          /\ SlotVerdict(it) < 0
          /\ items' = Append(items, it)
          /\ Finish(SlotVerdict(it))
    /\ UNCHANGED <<hdr, full, slot, prev_key, ptr, reads>>

(* The end of the loop body: prev_key = key, next slot. *)
NextSlot(key) ==
    /\ prev_key' = key
    /\ slot' = slot + 1

(* Fault variant: the loop runs while slot <= nritems. *)
AcceptSlotPastEnd ==
    /\ pc = "walk" /\ slot <= hdr.nritems
    /\ \E it \in ReadItems :
          /\ SlotVerdict(it) = 0 /\ ~WalksRecords(it)
          /\ items' = Append(items, it)
          /\ NextSlot(it.key)
    /\ UNCHANGED <<pc, hdr, full, ret, ptr, reads>>

AcceptSlot ==
    /\ pc = "walk" /\ slot < hdr.nritems
    /\ \E it \in ReadItems :
          /\ SlotVerdict(it) = 0 /\ ~WalksRecords(it)
          /\ items' = Append(items, it)
          /\ NextSlot(it.key)
    /\ UNCHANGED <<pc, hdr, full, ret, ptr, reads>>

(* An inode ref item that passed the checks before check_inode_ref's     *)
(* loop: ptr = apfs_item_ptr_offset(), end = ptr + item size.           *)
StartInodeRef ==
    /\ pc = "walk" /\ slot < hdr.nritems
    /\ \E it \in ReadItems :
          /\ SlotVerdict(it) = 0 /\ WalksRecords(it)
          /\ it.key.type = INODE_REF_KEY
          /\ items' = Append(items, it)
    /\ pc' = "inode_ref"
    /\ ptr' = 0
    /\ UNCHANGED <<hdr, full, slot, prev_key, reads, ret>>

CurItem == items[Len(items)]

(* ptr + sizeof(iref) > end: too little left for a record. *)
InodeRefShort ==
    /\ pc = "inode_ref" /\ ptr < CurItem.size
    /\ ptr + PtrSize > CurItem.size
    /\ Finish(EUCLEAN)
    /\ UNCHANGED <<hdr, full, items, slot, prev_key, ptr, reads>>

(* Read name_len, at the end of the record header; the record with its  *)
(* name must fit, and ptr moves past it.                                 *)
InodeRefRecord ==
    /\ pc = "inode_ref" /\ ptr < CurItem.size
    /\ ptr + PtrSize <= CurItem.size
    /\ \E namelen \in NameLens :
          /\ reads' = reads \cup {[slot |-> slot,
                                   from |-> ptr + InodeRefSize - NameLenSize,
                                   to |-> ptr + InodeRefSize]}
          /\ items' = [items EXCEPT ![Len(items)].names = Append(@, namelen)]
          /\ IF ptr + InodeRefSize + namelen > CurItem.size
                THEN Finish(EUCLEAN) /\ UNCHANGED ptr
                ELSE ptr' = ptr + InodeRefSize + namelen /\ UNCHANGED <<pc, ret>>
    /\ UNCHANGED <<hdr, full, slot, prev_key>>

(* The records fill the item: back to the loop of check_leaf. *)
InodeRefDone ==
    /\ pc = "inode_ref" /\ ptr >= CurItem.size
    /\ pc' = "walk"
    /\ NextSlot(CurItem.key)
    /\ UNCHANGED <<hdr, full, items, ptr, reads, ret>>

(* A dir item that passed check_prev_ino: cur = 0. *)
StartDirItem ==
    /\ pc = "walk" /\ slot < hdr.nritems
    /\ \E it \in ReadItems :
          /\ SlotVerdict(it) = 0 /\ WalksRecords(it)
          /\ it.key.type \in DirKeyTypes
          /\ items' = Append(items, it)
    /\ pc' = "dir_item"
    /\ ptr' = 0
    /\ UNCHANGED <<hdr, full, slot, prev_key, reads, ret>>

(* cur + sizeof(struct apfs_dir_item) > item_size: the entry header   *)
(* crosses the item end.                                             *)
DirItemShort ==
    /\ pc = "dir_item" /\ ptr < CurItem.size
    /\ ptr + DirItemSize > CurItem.size
    /\ Finish(EUCLEAN)
    /\ UNCHANGED <<hdr, full, items, slot, prev_key, ptr, reads>>

(* The entries the loop may read at cur.  The name is read, and hashed,  *)
(* only by the hash check of a DIR_ITEM or XATTR_ITEM, the last check of  *)
(* the loop body; an entry the code never hashes is read with hash 0.    *)
NameHashed(it, e, cur) ==
    /\ it.key.type \in {DIR_ITEM_KEY, XATTR_ITEM_KEY}
    /\ DirEntryVerdict(it, [e EXCEPT !.hash = it.key.offset], cur) = 0
EntryReads(it, cur) ==
    {e \in DirEntries : NameHashed(it, e, cur) \/ e.hash = 0}

(* Read the entry at cur and check it; cur moves past it. *)
DirItemEntry ==
    /\ pc = "dir_item" /\ ptr < CurItem.size
    /\ ptr + DirItemSize <= CurItem.size
    /\ \E e \in EntryReads(CurItem, ptr) :
          /\ items' = [items EXCEPT ![Len(items)].dirs = Append(@, e)]
          /\ IF DirEntryVerdict(CurItem, e, ptr) # 0
                THEN Finish(EUCLEAN) /\ UNCHANGED ptr
                ELSE ptr' = ptr + DirEntrySize(e) /\ UNCHANGED <<pc, ret>>
    /\ UNCHANGED <<hdr, full, slot, prev_key, reads>>

(* cur reached item_size: back to the loop of check_leaf. *)
DirItemDone ==
    /\ pc = "dir_item" /\ ptr >= CurItem.size
    /\ pc' = "walk"
    /\ NextSlot(CurItem.key)
    /\ UNCHANGED <<hdr, full, items, ptr, reads, ret>>

EndWalk ==
    /\ pc = "walk" /\ slot = hdr.nritems
    /\ Finish(0)
    /\ UNCHANGED <<hdr, full, items, slot, prev_key, ptr, reads>>

Next == \/ BadLevel \/ EmptyLeaf \/ BeginWalk
        \/ RejectSlot \/ AcceptSlot \/ StartInodeRef
        \/ InodeRefShort \/ InodeRefRecord \/ InodeRefDone
        \/ StartDirItem \/ DirItemShort \/ DirItemEntry \/ DirItemDone
        \/ EndWalk

Spec == Init /\ [][Next]_vars

(* Spec is the check the code intends: the function as built starts with  *)
(* "return 0;" and never reaches it.                                      *)

-----------------------------------------------------------------------------
TypeOK ==
    /\ pc \in {"start", "walk", "inode_ref", "dir_item", "done"}
    /\ hdr \in [level : Levels \cup {0}, nritems : 0..MaxItems,
                owner : Owners \cup {0}, reloc : BOOLEAN]
    /\ full \in BOOLEAN
    /\ Len(items) <= MaxItems
    /\ \A i \in DOMAIN items :
          /\ items[i].key \in Keys
          /\ items[i].names \in Seq(NameLens)
          /\ items[i].dirs \in Seq(DirEntries)
    /\ slot \in 0..MaxItems
    /\ prev_key \in Keys \cup {ZeroKey}
    /\ ptr \in Nat
    /\ ret \in {0, EUCLEAN}

(***************************************************************************)
(* The reference: what a valid leaf is, stated over the whole block with *)
(* plain integers (no u32 wrap) and over all pairs of items, not over     *)
(* adjacent slots as the checker's loop does.                             *)
(***************************************************************************)
SizeBefore(its, i) ==
    LET S[k \in 0..i] == IF k = 0 THEN 0 ELSE S[k - 1] + its[k].size
    IN S[i]

ItemKeysAscending(its) ==
    KeysAscending(<<ZeroKey>> \o [i \in 1..Len(its) |-> its[i].key])

(* The payloads tile the end of the data area, back to back. *)
PayloadsTiled(its) ==
    \A i \in 1..Len(its) : its[i].offset = DataSize - SizeBefore(its, i)

IsCsum(it) == it.key.type = EXTENT_CSUM_KEY
CsumEnd(it) == it.key.offset + (it.size \div CsumSize) * SectorSize

(* An inode ref item holds one or more records (header and name) that   *)
(* exactly fill it, and is larger than one header.                      *)
RecordsSize(ns) == FoldLeft(LAMBDA acc, n : acc + InodeRefSize + n, 0, ns)
InodeRefValid(it) ==
    /\ it.size > InodeRefSize
    /\ Len(it.names) >= 1
    /\ RecordsSize(it.names) = it.size

(* A dir entry names an inode of the subvolume or the root of a          *)
(* subvolume; an xattr entry has an all-zero location (the comment in     *)
(* check_inode_key, tree-checker.c:392), a name of at most XATTR_NAME_MAX *)
(* and a value; a dir entry has no data.  DIR_ITEM and                    *)
(* XATTR_ITEM keys are the hash of each name they hold.  The entries fill *)
(* the item exactly.                                                      *)
InodeNumber(o) ==
    o \in FirstFreeObjectId..LastFreeObjectId \cup {RootTreeDirObjectId, FreeInoObjectId}
DirEntryValid(it, e) ==
    LET xattr == it.key.type = XATTR_ITEM_KEY
    IN /\ IF xattr THEN e.loc = ZeroKey
          ELSE \/ e.loc.type = ROOT_ITEM_KEY /\ e.loc.objectid \in FsTreeOwners
               \/ /\ e.loc.type \in {INODE_ITEM_KEY, 0}
                  /\ InodeNumber(e.loc.objectid) /\ e.loc.offset = 0
       /\ e.type < FT_MAX /\ (e.type = FT_XATTR) = xattr
       /\ e.name_len <= (IF xattr THEN XattrNameMax ELSE NameLen)
       /\ e.name_len + e.data_len <= MaxXattrSize
       /\ xattr \/ e.data_len = 0
       /\ it.key.type # DIR_INDEX_KEY => e.hash = it.key.offset
EntriesSize(es) == FoldLeft(LAMBDA acc, e : acc + DirEntrySize(e), 0, es)
DirItemValid(it) ==
    /\ \A i \in DOMAIN it.dirs : DirEntryValid(it, it.dirs[i])
    /\ EntriesSize(it.dirs) = it.size

(* An inode item: the key is an inode number with offset 0; generation   *)
(* and transid at most one past the superblock's (a log tree may be one  *)
(* ahead); the mode has 16 bits and one of the seven file types (FIFO,   *)
(* CHR, DIR, BLK, REG, LNK, SOCK) in bits 12..15; a directory has at     *)
(* most one link; the flags are known ones.                              *)
FileTypeCodes == {1, 2, 4, 6, 8, 10, 12}
InodeItemValid(it) ==
    LET ii == it.inode
    IN /\ InodeNumber(it.key.objectid) /\ it.key.offset = 0
       /\ ii.generation <= SuperGen + 1 /\ ii.transid <= SuperGen + 1
       /\ ii.mode < 65536 /\ ii.mode \div 4096 \in FileTypeCodes
       /\ ii.mode \div 4096 = 4 => ii.nlink <= 1
       /\ ii.flags <= InodeFlagMask

ItemValid(it) ==
    CASE IsCsum(it) -> /\ it.key.objectid = CsumObjectId
                      /\ IsAligned(it.key.offset, SectorSize)
                      /\ IsAligned(it.size, CsumSize)
      [] it.key.type = INODE_REF_KEY -> InodeRefValid(it)
      [] it.key.type \in DirKeyTypes -> DirItemValid(it)
      [] it.key.type = INODE_ITEM_KEY -> InodeItemValid(it)
      [] it.key.type \in {TREE_BLOCK_REF_KEY, SHARED_BLOCK_REF_KEY} ->
                      /\ it.size = 0
                      /\ IsAligned(it.key.objectid, SectorSize)
                      /\ it.key.type = TREE_BLOCK_REF_KEY
                         \/ IsAligned(it.key.offset, SectorSize)
      [] it.key.type = SHARED_DATA_REF_KEY ->
                      /\ it.size = SharedDataRefSize
                      /\ IsAligned(it.key.objectid, SectorSize)
                      /\ IsAligned(it.key.offset, SectorSize)
      [] OTHER -> TRUE

(* Checksum items cover ascending, non-overlapping byte ranges. *)
CsumRangesOrdered(its) ==
    \A i, j \in 1..Len(its) :
        i < j /\ IsCsum(its[i]) /\ IsCsum(its[j])
            => CsumEnd(its[i]) <= its[j].key.offset

(* In a subvolume tree, an inode ref or dir item is not the first item of *)
(* its inode in the leaf unless it is the first item of the leaf.        *)
InodeContinuity(h, its) ==
    h.owner \in FsTreeOwners =>
        \A i \in 2..Len(its) :
            its[i].key.type \in {INODE_REF_KEY} \cup DirKeyTypes
                => its[i - 1].key.objectid = its[i].key.objectid

EmptyLeafValid(h) ==
    h.reloc \/ (h.owner \notin NeverEmptyOwners /\ h.owner # 0)

ValidLeaf(h, its, isFull) ==
    /\ h.level = 0
    /\ h.nritems = 0 => EmptyLeafValid(h)
    /\ ItemKeysAscending(its)
    /\ PayloadsTiled(its)
    /\ isFull => /\ \A i \in 1..Len(its) : ItemValid(its[i])
                 /\ CsumRangesOrdered(its)
                 /\ InodeContinuity(h, its)

(* Soundness: check_leaf returns 0 only for a leaf that has all its       *)
(* nritems items, each valid, in ascending key order, tiling the data    *)
(* area (the contract leaf users rely on, per the comment above the      *)
(* loop: "leaf users won't need to bother with similar sanity checks").  *)
LeafAcceptedOnlyIfValid ==
    pc = "done" /\ ret = 0 =>
        /\ Len(items) = hdr.nritems
        /\ ValidLeaf(hdr, items, full)

(* Completeness: check_leaf rejects a leaf only when what it has read    *)
(* already cannot be part of a valid leaf, so no valid image fails to     *)
(* mount.                                                                 *)
LeafRejectedOnlyIfInvalid ==
    pc = "done" /\ ret # 0 => ~ValidLeaf(hdr, items, full)

(* A leaf that check_leaf accepts has its item table (slot headers,      *)
(* growing from the front) clear of the payloads (growing from the end). *)
ItemTableClearOfData ==
    pc = "done" /\ ret = 0 =>
        hdr.nritems * ItemHeaderSize <= DataSize - SizeBefore(items, Len(items))

(* check_inode_ref reads every name_len field inside the item it checks: *)
(* a read past the item end reads another item, or past the end of the  *)
(* extent buffer for the item of slot 0.                                 *)
NameLenReadInsideItem ==
    \A r \in reads : r.to <= items[r.slot + 1].size

(* check_leaf_item() is called only when check_item_data is set.  Each   *)
(* property below holds in every state of a full check when the checker  *)
(* it names accepts exactly the items the reference definition of        *)
(* ItemCheck calls valid, over the bounded item sets of the model.       *)

(* check_block_group_item, check_dev_item and check_leaf_chunk_item with *)
(* apfs_check_chunk_valid accept exactly the valid chunk tree items: the *)
(* chunk's stripe counts, spread by the code over ncopies, nparity and a *)
(* list of profile cases, match the stripe table of every RAID profile.  *)
ChunkTreeItemChecksAgree == full => ChunkTreeCheckersMatch

(* check_root_item accepts exactly the valid root items, a legacy-sized   *)
(* item included, whose generation_v2 is read from zeroed memory.        *)
RootItemCheckAgrees == full => RootCheckerMatches

(* check_extent_item's walk over the inline refs accepts exactly the     *)
(* extent items whose refs fill the payload with no padding and whose    *)
(* counts stay within the total; check_extent_data_ref exactly the valid *)
(* data ref items.                                                       *)
BackrefChecksAgree == full => BackrefCheckersMatch

(* check_extent_data_item, on a file extent in slot 0, accepts exactly   *)
(* the valid ones: aligned offset, type, compression and encryption in    *)
(* range, inline sizes, and the aligned, non-overflowing regular fields.  *)
FileExtentCheckAgrees == full => FileExtentAloneMatches
====
