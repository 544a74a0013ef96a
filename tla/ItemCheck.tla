----------------------------- MODULE ItemCheck -----------------------------
(***************************************************************************)
(* The item checkers of tree-checker.c that check_leaf_item() dispatches  *)
(* to and that decide on one item, or on one item and the item of the     *)
(* previous slot: check_block_group_item, check_dev_item,                 *)
(* check_leaf_chunk_item with apfs_check_chunk_valid, check_root_item,    *)
(* check_extent_item with its walk of the inline back references,         *)
(* check_extent_data_ref and check_extent_data_item.  Each is a pure      *)
(* operator from the item as read (its key, its size and the payload      *)
(* fields the checker reads) to 0 or -EUCLEAN, and each is stated next to *)
(* a reference definition of a valid item written from the specification's *)
(* table of item invariants (spec.md, section 4.4).  The properties say    *)
(* that checker and reference agree on every item of the bounded sets      *)
(* the model is given.                                                     *)
(*                                                                         *)
(* u64 arithmetic wraps at U64Mod: check_add_overflow() is a sum that      *)
(* reaches U64Mod, ALIGN() and key offset sums are taken % U64Mod.         *)
(***************************************************************************)
EXTENDS KeyOrder, Sequences, FiniteSets, Bitwise

CONSTANTS
    SectorSize,        \* fs_info->sectorsize
    NodeSize,          \* fs_info->nodesize
    SuperGen,          \* apfs_super_generation(fs_info->super_copy)
    FsTreeOwners,      \* tree ids for which is_fstree() holds
    TreeRelocObjectId, \* APFS_TREE_RELOC_OBJECTID
    SharedDataRefSize, \* sizeof(struct apfs_shared_data_ref)
    U64Mod,            \* 2^64, the range of a u64
    MaxLevel,          \* APFS_MAX_LEVEL
    StripeLen,         \* APFS_STRIPE_LEN
    BlockGroupItemSize,\* sizeof(struct apfs_block_group_item)
    ChunkSize,         \* sizeof(struct apfs_chunk), with its first stripe
    StripeSize,        \* sizeof(struct apfs_stripe)
    RootItemSize,      \* sizeof(struct apfs_root_item)
    LegacyRootItemSize,\* apfs_legacy_root_item_size()
    RootSubvolDead,    \* APFS_ROOT_SUBVOL_DEAD
    ExtentItemSize,    \* sizeof(struct apfs_extent_item)
    TreeBlockInfoSize, \* sizeof(struct apfs_tree_block_info)
    InlineRefSize,     \* sizeof(struct apfs_extent_inline_ref): type, offset
    InlineRefTypeSize, \* offsetof(struct apfs_extent_inline_ref, offset)
    ExtentDataRefSize, \* sizeof(struct apfs_extent_data_ref)
    InlineDataStart,   \* APFS_FILE_EXTENT_INLINE_DATA_START
    FileExtentItemSize,\* sizeof(struct apfs_file_extent_item)
    BlockGroupItems,   \* block group items: key, size, chunk_objectid, used, flags
    DevItems,          \* dev items: key, devid, bytes_used, total_bytes
    ChunkItems,        \* chunk items: key, size and the apfs_chunk fields
    RootItems,         \* root items: key, size, root (the apfs_root_item fields)
    ExtentItems,       \* extent items: key, size, header fields, irefs
    DataRefItems,      \* extent data ref items: key, size, offsets of the records
    FileExtents,       \* file extent items: key, size and the extent fields
    PrevItems          \* items of the previous slot of a file extent

ASSUME /\ \E k \in 0..20 : StripeLen = 2^k
       /\ 0 \notin FsTreeOwners /\ TreeRelocObjectId \notin FsTreeOwners

EUCLEAN == -117

(* Key types, object ids and flag bits of the on-disk format (ctree.h). *)
ROOT_ITEM_KEY        == 132
EXTENT_DATA_KEY      == 108
EXTENT_ITEM_KEY      == 168
METADATA_ITEM_KEY    == 169
TREE_BLOCK_REF_KEY   == 176
EXTENT_DATA_REF_KEY  == 178
SHARED_BLOCK_REF_KEY == 182
SHARED_DATA_REF_KEY  == 184
BLOCK_GROUP_ITEM_KEY == 192
DEV_ITEM_KEY         == 216
CHUNK_ITEM_KEY       == 228
DEV_ITEMS_OBJECTID          == 1
FIRST_CHUNK_TREE_OBJECTID   == 256

BG_DATA == 1
BG_SYSTEM == 2
BG_METADATA == 4
BG_RAID0 == 8
BG_RAID1 == 16
BG_DUP == 32
BG_RAID10 == 64
BG_RAID5 == 128
BG_RAID6 == 256
BG_RAID1C3 == 512
BG_RAID1C4 == 1024
BG_TYPE_MASK    == BG_DATA | BG_SYSTEM | BG_METADATA
ProfileBits     == {BG_RAID0, BG_RAID1, BG_DUP, BG_RAID10, BG_RAID5,
                    BG_RAID6, BG_RAID1C3, BG_RAID1C4}
BG_PROFILE_MASK == 2040

EXTENT_FLAG_DATA       == 1
EXTENT_FLAG_TREE_BLOCK == 2
BLOCK_FLAG_FULL_BACKREF == 256
ROOT_SUBVOL_RDONLY     == 1

FILE_EXTENT_INLINE == 0
NR_FILE_EXTENT_TYPES == 3
COMPRESS_NONE == 0
NR_COMPRESS_TYPES == 4

(* has_single_bit_set() *)
HasSingleBitSet(x) == x # 0 /\ (x & (x - 1)) = 0

(* hweight64(): the number of bits set (flags use bits 0..10). *)
Hweight(x) == Cardinality({i \in 0..10 : (x \div 2^i) % 2 = 1})

(* is_power_of_2() *)
IsPowerOf2(x) == x # 0 /\ (x & (x - 1)) = 0

(* ALIGN(x, sectorsize) in u64 arithmetic. *)
AlignU64(x) == LET y == (x + SectorSize - 1) % U64Mod IN y - (y % SectorSize)

(* check_add_overflow() on two u64 values. *)
AddOverflows(a, b) == a + b >= U64Mod

(* check_root_key(): item_key is the key of the slot, key the key checked. *)
CheckRootKey(item_key, key) ==
    CASE key.objectid = 0 -> EUCLEAN
      [] key.objectid \notin FsTreeOwners /\ item_key.type # ROOT_ITEM_KEY -> EUCLEAN
      [] key.objectid = TreeRelocObjectId /\ key.offset = 0 -> EUCLEAN
      [] OTHER -> 0

(* check_prev_ino() of a slot with the given owner of the leaf. *)
PrevInoOk(owner, s, key, pk) ==
    s = 0 \/ owner \notin FsTreeOwners \/ key.objectid = pk.objectid
-----------------------------------------------------------------------------
(* check_block_group_item() *)
CheckBlockGroupItem(it) ==
    LET flags == it.flags
        type  == flags & BG_TYPE_MASK
    IN CASE it.key.offset = 0                                  -> EUCLEAN
         [] it.size # BlockGroupItemSize                       -> EUCLEAN
         [] it.chunk_objectid # FIRST_CHUNK_TREE_OBJECTID      -> EUCLEAN
         [] it.used > it.key.offset                            -> EUCLEAN
         [] Hweight(flags & BG_PROFILE_MASK) > 1               -> EUCLEAN
         [] type \notin {BG_DATA, BG_METADATA, BG_SYSTEM,
                         BG_METADATA | BG_DATA}                -> EUCLEAN
         [] OTHER                                              -> 0

(* check_dev_item(): the item size is not checked before the fields are *)
(* read.                                                                 *)
CheckDevItem(it) ==
    CASE it.key.objectid # DEV_ITEMS_OBJECTID   -> EUCLEAN
      [] it.devid # it.key.offset              -> EUCLEAN
      [] it.bytes_used > it.total_bytes        -> EUCLEAN
      [] OTHER                                 -> 0

(* apfs_bg_flags_to_raid_index() with apfs_raid_array[]: the profile of *)
(* the highest profile bit set, SINGLE (0) for none; ncopies and nparity *)
(* of each profile.                                                      *)
RaidProfile(type) ==
    LET p == type & BG_PROFILE_MASK
    IN IF p = 0 THEN 0 ELSE CHOOSE b \in ProfileBits : b <= p /\ p < 2 * b
RaidCopies(b) ==
    CASE b \in {BG_RAID1, BG_DUP, BG_RAID10} -> 2
      [] b = BG_RAID1C3                     -> 3
      [] b = BG_RAID1C4                     -> 4
      [] OTHER                              -> 1
RaidParity(b) ==
    CASE b = BG_RAID5 -> 1 [] b = BG_RAID6 -> 2 [] OTHER -> 0

(* Fault variant: RAID1 taken to need at least two stripes, not exactly *)
(* two.                                                                  *)
CheckChunkValidRaid1Min(c, logical, mixed) ==
    LET type    == c.type
        profile == type & BG_PROFILE_MASK
        ncopies == RaidCopies(RaidProfile(type))
        nparity == RaidParity(RaidProfile(type))
        n       == c.num_stripes
    IN CASE n = 0                                              -> EUCLEAN
         [] n < ncopies                                        -> EUCLEAN
         [] nparity # 0 /\ n = nparity                         -> EUCLEAN
         [] ~IsAligned(logical, SectorSize)                    -> EUCLEAN
         [] c.sector_size # SectorSize                         -> EUCLEAN
         [] c.length = 0 \/ ~IsAligned(c.length, SectorSize)   -> EUCLEAN
         [] AddOverflows(logical, c.length)                    -> EUCLEAN
         [] ~IsPowerOf2(c.stripe_len) \/ c.stripe_len # StripeLen -> EUCLEAN
         [] (type & (BG_TYPE_MASK | BG_PROFILE_MASK)) # type   -> EUCLEAN
         [] ~HasSingleBitSet(profile) /\ profile # 0           -> EUCLEAN
         [] (type & BG_TYPE_MASK) = 0                          -> EUCLEAN
         [] (type & BG_SYSTEM) # 0
               /\ (type & (BG_METADATA | BG_DATA)) # 0         -> EUCLEAN
         [] ~mixed /\ (type & BG_METADATA) # 0
               /\ (type & BG_DATA) # 0                         -> EUCLEAN
         [] \/ (type & BG_RAID10) # 0 /\ c.sub_stripes # 2
            \/ (type & BG_RAID1) # 0 /\ n < 2
            \/ (type & BG_RAID5) # 0 /\ n < 2
            \/ (type & BG_RAID6) # 0 /\ n < 3
            \/ (type & BG_DUP) # 0 /\ n # 2
            \/ profile = 0 /\ n # 1                            -> EUCLEAN
         [] OTHER                                              -> 0

(* apfs_check_chunk_valid() of chunk c at logical address logical; mixed *)
(* is the MIXED_GROUPS incompat feature of the superblock.                *)
CheckChunkValid(c, logical, mixed) ==
    LET type    == c.type
        profile == type & BG_PROFILE_MASK
        ncopies == RaidCopies(RaidProfile(type))
        nparity == RaidParity(RaidProfile(type))
        n       == c.num_stripes
    IN CASE n = 0                                              -> EUCLEAN
         [] n < ncopies                                        -> EUCLEAN
         [] nparity # 0 /\ n = nparity                         -> EUCLEAN
         [] ~IsAligned(logical, SectorSize)                    -> EUCLEAN
         [] c.sector_size # SectorSize                         -> EUCLEAN
         [] c.length = 0 \/ ~IsAligned(c.length, SectorSize)   -> EUCLEAN
         [] AddOverflows(logical, c.length)                    -> EUCLEAN
         [] ~IsPowerOf2(c.stripe_len) \/ c.stripe_len # StripeLen -> EUCLEAN
         [] (type & (BG_TYPE_MASK | BG_PROFILE_MASK)) # type   -> EUCLEAN
         [] ~HasSingleBitSet(profile) /\ profile # 0           -> EUCLEAN
         [] (type & BG_TYPE_MASK) = 0                          -> EUCLEAN
         [] (type & BG_SYSTEM) # 0
               /\ (type & (BG_METADATA | BG_DATA)) # 0         -> EUCLEAN
         [] ~mixed /\ (type & BG_METADATA) # 0
               /\ (type & BG_DATA) # 0                         -> EUCLEAN
         [] \/ (type & BG_RAID10) # 0 /\ c.sub_stripes # 2
            \/ (type & BG_RAID1) # 0 /\ n # 2
            \/ (type & BG_RAID5) # 0 /\ n < 2
            \/ (type & BG_RAID6) # 0 /\ n < 3
            \/ (type & BG_DUP) # 0 /\ n # 2
            \/ profile = 0 /\ n # 1                            -> EUCLEAN
         [] OTHER                                              -> 0

(* apfs_chunk_item_size(): the chunk header with num_stripes stripes. *)
ChunkItemSizeOf(n) == ChunkSize + StripeSize * (n - 1)

(* check_leaf_chunk_item(): the item holds the chunk and, unless         *)
(* num_stripes is 0, exactly its stripes; then the common check at the    *)
(* chunk's logical address, the key offset.                               *)
CheckLeafChunkItem(it, mixed) ==
    CASE it.size < ChunkSize                                   -> EUCLEAN
      [] it.num_stripes # 0
            /\ ChunkItemSizeOf(it.num_stripes) # it.size       -> EUCLEAN
      [] OTHER -> CheckChunkValid(it, it.key.offset, mixed)
(* Fault variant: the whole structure read, whatever the item size. *)
ReadRootItemWhole(it) == it.root

(* check_root_item(): read_extent_buffer() copies item_size bytes into a *)
(* zeroed apfs_root_item, so a legacy item reads generation_v2 as 0.     *)
ReadRootItem(it) ==
    IF it.size = LegacyRootItemSize THEN [it.root EXCEPT !.generation_v2 = 0]
                                    ELSE it.root
CheckRootItem(it) ==
    LET ri == ReadRootItem(it)
        valid_root_flags == ROOT_SUBVOL_RDONLY | RootSubvolDead
    IN CASE CheckRootKey(it.key, it.key) # 0                    -> EUCLEAN
         [] it.size \notin {RootItemSize, LegacyRootItemSize}   -> EUCLEAN
         [] ri.generation > SuperGen + 1                        -> EUCLEAN
         [] ri.generation_v2 > SuperGen + 1                     -> EUCLEAN
         [] ri.last_snapshot > SuperGen + 1                     -> EUCLEAN
         [] ~IsAligned(ri.bytenr, SectorSize)                   -> EUCLEAN
         [] ri.level >= MaxLevel                                -> EUCLEAN
         [] ri.drop_level >= MaxLevel                           -> EUCLEAN
         [] (ri.flags & valid_root_flags) # ri.flags            -> EUCLEAN
         [] OTHER                                               -> 0

(* apfs_extent_inline_ref_size(): the size of an inline ref by its type; *)
(* an unknown type has size 0.                                            *)
InlineRefSizeOf(t) ==
    CASE t \in {TREE_BLOCK_REF_KEY, SHARED_BLOCK_REF_KEY} -> InlineRefSize
      [] t = SHARED_DATA_REF_KEY -> InlineRefSize + SharedDataRefSize
      [] t = EXTENT_DATA_REF_KEY -> InlineRefTypeSize + ExtentDataRefSize
      [] OTHER                   -> 0

(* The i-th inline ref of an extent item; the bytes after the listed refs *)
(* are zero, and read as a ref of the unknown type 0.                     *)
NoRef == [type |-> 0, offset |-> 0, count |-> 0]
IrefAt(it, i) == IF i <= Len(it.irefs) THEN it.irefs[i] ELSE NoRef

(* Fault variant: every inline ref counted once. *)
InlineRefCountOne(iref) == 1

(* What an inline ref adds to inline_refs: one for a tree block or shared *)
(* block ref, the count of an extent data or shared data ref.             *)
InlineRefCount(iref) ==
    IF iref.type \in {TREE_BLOCK_REF_KEY, SHARED_BLOCK_REF_KEY} THEN 1 ELSE iref.count

(* The loop of check_extent_item over the inline refs from pos (an offset *)
(* in the item) to the item end, with inline_refs found so far, then the  *)
(* padding and refcount checks after it.  A ref of each type adds one     *)
(* (tree refs) or its count (data refs); the offset of a shared ref and   *)
(* of the data ref of an EXTENT_DATA_REF must be sector aligned.          *)
RECURSIVE WalkInlineRefs(_, _, _, _)
WalkInlineRefs(it, pos, i, inline_refs) ==
    LET end  == it.size
        iref == IrefAt(it, i)
        sz   == InlineRefSizeOf(iref.type)
        ok   == CASE iref.type = TREE_BLOCK_REF_KEY -> TRUE
                  [] iref.type \in {SHARED_BLOCK_REF_KEY, EXTENT_DATA_REF_KEY,
                                    SHARED_DATA_REF_KEY} ->
                        IsAligned(iref.offset, SectorSize)
                  [] OTHER -> FALSE
        adds == InlineRefCount(iref)
    IN IF pos < end
       THEN IF pos + InlineRefSize <= end /\ pos + sz <= end /\ ok
            THEN WalkInlineRefs(it, pos + sz, i + 1, inline_refs + adds)
            ELSE EUCLEAN
       ELSE IF pos # end \/ inline_refs > it.refs THEN EUCLEAN ELSE 0

(* check_extent_item(); skinny is the SKINNY_METADATA incompat feature. *)
(* The tree block info is read before the item is known to hold it.     *)
CheckExtentItem(it, skinny) ==
    LET key     == it.key
        is_tree == (it.flags & EXTENT_FLAG_TREE_BLOCK) # 0
        has_info == is_tree /\ key.type # METADATA_ITEM_KEY
        start   == ExtentItemSize + (IF has_info THEN TreeBlockInfoSize ELSE 0)
    IN CASE key.type = METADATA_ITEM_KEY /\ ~skinny                 -> EUCLEAN
         [] ~IsAligned(key.objectid, SectorSize)                    -> EUCLEAN
         [] key.type = METADATA_ITEM_KEY /\ key.offset >= MaxLevel  -> EUCLEAN
         [] it.size < ExtentItemSize                                -> EUCLEAN
         [] it.generation > SuperGen + 1                            -> EUCLEAN
         [] ~HasSingleBitSet(it.flags & (EXTENT_FLAG_DATA
                                         | EXTENT_FLAG_TREE_BLOCK)) -> EUCLEAN
         [] is_tree /\ key.type = EXTENT_ITEM_KEY
               /\ key.offset # NodeSize                             -> EUCLEAN
         [] ~is_tree /\ key.type # EXTENT_ITEM_KEY                  -> EUCLEAN
         [] ~is_tree /\ ~IsAligned(key.offset, SectorSize)          -> EUCLEAN
         [] ~is_tree /\ (it.flags & BLOCK_FLAG_FULL_BACKREF) # 0    -> EUCLEAN
         [] has_info /\ it.info_level >= MaxLevel                   -> EUCLEAN
         [] OTHER -> WalkInlineRefs(it, start, 1, 0)

(* check_extent_data_ref(): the loop returns at the first record whose   *)
(* offset is not aligned; records past the listed ones are zero.         *)
DrefOffset(it, j) == IF j <= Len(it.offsets) THEN it.offsets[j] ELSE 0
CheckExtentDataRef(it) ==
    CASE it.size % ExtentDataRefSize # 0                        -> EUCLEAN
      [] ~IsAligned(it.key.objectid, SectorSize)                -> EUCLEAN
      [] \E j \in 1..(it.size \div ExtentDataRefSize) :
            ~IsAligned(DrefOffset(it, j), SectorSize)           -> EUCLEAN
      [] OTHER                                                  -> 0
(* file_extent_end(): the end of the extent of item fe at key k, in u64; *)
(* an inline extent ends at its ram_bytes rounded up to a sector.        *)
FileExtentEnd(k, fe) ==
    IF fe.type = FILE_EXTENT_INLINE
    THEN AlignU64((k.offset + fe.ram_bytes) % U64Mod)
    ELSE (k.offset + fe.num_bytes) % U64Mod

(* Fault variant: the check_add_overflow() test left out. *)
CheckFileExtentNoOverflow(owner, s, pk, pfe, fe) ==
    LET key == fe.key
        common ==
            CASE ~IsAligned(key.offset, SectorSize)               -> EUCLEAN
              [] ~PrevInoOk(owner, s, key, pk)                    -> EUCLEAN
              [] fe.size < InlineDataStart                        -> EUCLEAN
              [] fe.type >= NR_FILE_EXTENT_TYPES                  -> EUCLEAN
              [] fe.compression >= NR_COMPRESS_TYPES              -> EUCLEAN
              [] fe.encryption # 0                                -> EUCLEAN
              [] OTHER                                            -> 0
        inline ==
            CASE key.offset # 0                                   -> EUCLEAN
              [] fe.compression # COMPRESS_NONE                   -> 0
              [] fe.size # InlineDataStart + fe.ram_bytes         -> EUCLEAN
              [] OTHER                                            -> 0
        regular ==
            CASE fe.size # FileExtentItemSize                     -> EUCLEAN
              [] \E f \in {fe.ram_bytes, fe.disk_bytenr, fe.disk_num_bytes,
                           fe.offset, fe.num_bytes} :
                    ~IsAligned(f, SectorSize)                     -> EUCLEAN
              [] s > 0 /\ pk.objectid = key.objectid
                    /\ pk.type = EXTENT_DATA_KEY
                    /\ FileExtentEnd(pk, pfe) > key.offset        -> EUCLEAN
              [] OTHER                                            -> 0
    IN IF common # 0 THEN common
       ELSE IF fe.type = FILE_EXTENT_INLINE THEN inline ELSE regular

(* check_extent_data_item() of item fe at slot s of a leaf of the given  *)
(* owner; pk is the key of the previous slot and pfe its item.  The      *)
(* checks every extent gets, then the inline branch, which returns before *)
(* the overlap check, or the regular/prealloc one.                        *)
CheckFileExtent(owner, s, pk, pfe, fe) ==
    LET key == fe.key
        common ==
            CASE ~IsAligned(key.offset, SectorSize)               -> EUCLEAN
              [] ~PrevInoOk(owner, s, key, pk)                    -> EUCLEAN
              [] fe.size < InlineDataStart                        -> EUCLEAN
              [] fe.type >= NR_FILE_EXTENT_TYPES                  -> EUCLEAN
              [] fe.compression >= NR_COMPRESS_TYPES              -> EUCLEAN
              [] fe.encryption # 0                                -> EUCLEAN
              [] OTHER                                            -> 0
        inline ==
            CASE key.offset # 0                                   -> EUCLEAN
              [] fe.compression # COMPRESS_NONE                   -> 0
              [] fe.size # InlineDataStart + fe.ram_bytes         -> EUCLEAN
              [] OTHER                                            -> 0
        regular ==
            CASE fe.size # FileExtentItemSize                     -> EUCLEAN
              [] \E f \in {fe.ram_bytes, fe.disk_bytenr, fe.disk_num_bytes,
                           fe.offset, fe.num_bytes} :
                    ~IsAligned(f, SectorSize)                     -> EUCLEAN
              [] AddOverflows(fe.num_bytes, key.offset)           -> EUCLEAN
              [] s > 0 /\ pk.objectid = key.objectid
                    /\ pk.type = EXTENT_DATA_KEY
                    /\ FileExtentEnd(pk, pfe) > key.offset        -> EUCLEAN
              [] OTHER                                            -> 0
    IN IF common # 0 THEN common
       ELSE IF fe.type = FILE_EXTENT_INLINE THEN inline ELSE regular
-----------------------------------------------------------------------------
(***************************************************************************)
(* Reference definitions of a valid item, from the table of item          *)
(* invariants of the specification.  Where the code checks a field the    *)
(* table does not name, the reference says so in its comment.             *)
(***************************************************************************)

(* Block group: nonzero size, exact payload size, used within the size,   *)
(* at most one profile bit, a legal type combination; the chunk objectid  *)
(* is the chunk tree's (checked by the code, not named by the table).     *)
BlockGroupValid(it) ==
    /\ it.key.offset > 0 /\ it.size = BlockGroupItemSize
    /\ it.chunk_objectid = FIRST_CHUNK_TREE_OBJECTID
    /\ it.used <= it.key.offset
    /\ it.flags & BG_PROFILE_MASK \in {0} \cup ProfileBits
    /\ it.flags & BG_TYPE_MASK \in {BG_DATA, BG_METADATA, BG_SYSTEM,
                                    BG_DATA + BG_METADATA}

(* Device item: the dev items objectid, the key offset is the device id, *)
(* bytes used within total bytes.                                        *)
DevItemValid(it) ==
    /\ it.key.objectid = DEV_ITEMS_OBJECTID /\ it.key.offset = it.devid
    /\ it.bytes_used <= it.total_bytes

(* The stripe table of the RAID profiles: stripes and substripes a chunk *)
(* of each profile may have.                                              *)
LegalStripes(profile, n, sub) ==
    CASE profile = 0                     -> n = 1
      [] profile \in {BG_RAID1, BG_DUP}  -> n = 2
      [] profile = BG_RAID10             -> n >= 2 /\ sub = 2
      [] profile = BG_RAID0              -> n >= 1
      [] profile = BG_RAID5              -> n >= 2
      [] profile \in {BG_RAID6, BG_RAID1C3} -> n >= 3
      [] profile = BG_RAID1C4            -> n >= 4

(* Chunk item: exactly its stripes, stripe count legal for the profile,  *)
(* logical address aligned and free of overflow with the length, the     *)
(* fixed stripe length, known type bits with at most one profile bit and *)
(* one type (data with metadata only in mixed mode); the sector size of  *)
(* the chunk is the filesystem's (checked by the code, not in the table). *)
ChunkItemValid(it, mixed) ==
    LET profile == it.type & BG_PROFILE_MASK
    IN /\ it.num_stripes >= 1 /\ it.size = ChunkItemSizeOf(it.num_stripes)
       /\ IsAligned(it.key.offset, SectorSize)
       /\ it.length > 0 /\ IsAligned(it.length, SectorSize)
       /\ it.key.offset + it.length < U64Mod
       /\ it.sector_size = SectorSize /\ it.stripe_len = StripeLen
       /\ it.type < 2 * BG_RAID1C4
       /\ profile \in {0} \cup ProfileBits
       /\ it.type & BG_TYPE_MASK \in {BG_DATA, BG_METADATA, BG_SYSTEM}
                \cup (IF mixed THEN {BG_DATA + BG_METADATA} ELSE {})
       /\ LegalStripes(profile, it.num_stripes, it.sub_stripes)

(* Root item: the root key rule for the item's own key, one of the two    *)
(* sizes, the generations a legacy or current item holds bounded by the   *)
(* superblock's + 1, an aligned block, levels under the maximum, only    *)
(* the read-only and dead flags.                                         *)
RootItemValid(it) ==
    LET ri == it.root
        gens == {ri.generation, ri.last_snapshot}
                \cup (IF it.size = RootItemSize THEN {ri.generation_v2} ELSE {})
    IN /\ it.key.objectid # 0
       /\ it.key.objectid = TreeRelocObjectId => it.key.offset # 0
       /\ it.size \in {RootItemSize, LegacyRootItemSize}
       /\ \A g \in gens : g <= SuperGen + 1
       /\ IsAligned(ri.bytenr, SectorSize)
       /\ ri.level < MaxLevel /\ ri.drop_level < MaxLevel
       /\ ri.flags \in {0, ROOT_SUBVOL_RDONLY, RootSubvolDead,
                        ROOT_SUBVOL_RDONLY + RootSubvolDead}

(* Extent item: an aligned address; a metadata item (skinny metadata      *)
(* only, the code's condition) has a level in range; exactly one of the   *)
(* data and tree block flags; a data extent has an EXTENT_ITEM key, an    *)
(* aligned length and no full backref; a tree block extent keyed by      *)
(* EXTENT_ITEM is a node long and has a tree block info with a level in  *)
(* range; the header, the info and a prefix of known, aligned inline refs *)
(* fill the item exactly, and their reference counts sum to at most the   *)
(* declared total.  A tree block ref counts one.                         *)
RefKnown(r) ==
    \/ r.type = TREE_BLOCK_REF_KEY
    \/ r.type \in {SHARED_BLOCK_REF_KEY, EXTENT_DATA_REF_KEY, SHARED_DATA_REF_KEY}
       /\ IsAligned(r.offset, SectorSize)
RefCount(r) ==
    IF r.type \in {EXTENT_DATA_REF_KEY, SHARED_DATA_REF_KEY} THEN r.count ELSE 1
RECURSIVE SumOver(_, _, _)
SumOver(f(_), refs, k) == IF k = 0 THEN 0 ELSE f(refs[k]) + SumOver(f, refs, k - 1)
ExtentItemValid(it, skinny) ==
    LET key == it.key
        isTree == it.flags & (EXTENT_FLAG_DATA + EXTENT_FLAG_TREE_BLOCK)
                    = EXTENT_FLAG_TREE_BLOCK
        head == ExtentItemSize
                + (IF isTree /\ key.type = EXTENT_ITEM_KEY THEN TreeBlockInfoSize ELSE 0)
        Size(r) == InlineRefSizeOf(r.type)
    IN /\ IsAligned(key.objectid, SectorSize)
       /\ key.type = METADATA_ITEM_KEY => skinny /\ key.offset < MaxLevel
       /\ it.generation <= SuperGen + 1
       /\ it.flags & (EXTENT_FLAG_DATA + EXTENT_FLAG_TREE_BLOCK)
             \in {EXTENT_FLAG_DATA, EXTENT_FLAG_TREE_BLOCK}
       /\ ~isTree => /\ key.type = EXTENT_ITEM_KEY
                     /\ IsAligned(key.offset, SectorSize)
                     /\ it.flags & BLOCK_FLAG_FULL_BACKREF = 0
       /\ isTree /\ key.type = EXTENT_ITEM_KEY =>
             key.offset = NodeSize /\ it.info_level < MaxLevel
       /\ \E k \in 0..Len(it.irefs) :
             /\ \A j \in 1..k : RefKnown(it.irefs[j])
             /\ head + SumOver(Size, it.irefs, k) = it.size
             /\ SumOver(RefCount, it.irefs, k) <= it.refs

(* Extent data ref: a whole number of records, an aligned objectid, every *)
(* record's offset aligned.                                              *)
DataRefValid(it) ==
    /\ it.size % ExtentDataRefSize = 0
    /\ IsAligned(it.key.objectid, SectorSize)
    /\ \A j \in 1..Len(it.offsets) :
          j * ExtentDataRefSize <= it.size => IsAligned(it.offsets[j], SectorSize)
(* File extent at slot s after the item pfe at key pk: aligned file       *)
(* offset; the previous item belongs to the same inode in a subvolume    *)
(* tree; at least an inline header; type and compression in range, no    *)
(* encryption; an inline extent at offset 0, an uncompressed one exactly *)
(* header + ram bytes; a regular or prealloc extent of the fixed size     *)
(* with five aligned fields, an end that does not overflow, and starting  *)
(* at or after the end of the previous extent of the inode, where an      *)
(* inline extent ends at its ram bytes rounded up to a sector.            *)
TrueExtentEnd(k, fe) ==
    IF fe.type = FILE_EXTENT_INLINE
    THEN k.offset + ((fe.ram_bytes + SectorSize - 1) \div SectorSize) * SectorSize
    ELSE k.offset + fe.num_bytes
FileExtentValid(owner, s, pk, pfe, fe) ==
    LET key == fe.key
    IN /\ IsAligned(key.offset, SectorSize)
       /\ s > 0 /\ owner \in FsTreeOwners => pk.objectid = key.objectid
       /\ fe.size >= InlineDataStart
       /\ fe.type \in 0..NR_FILE_EXTENT_TYPES - 1
       /\ fe.compression \in 0..NR_COMPRESS_TYPES - 1
       /\ fe.encryption = 0
       /\ fe.type = FILE_EXTENT_INLINE =>
             /\ key.offset = 0
             /\ fe.compression = COMPRESS_NONE => fe.size = InlineDataStart + fe.ram_bytes
       /\ fe.type # FILE_EXTENT_INLINE =>
             /\ fe.size = FileExtentItemSize
             /\ \A f \in {fe.ram_bytes, fe.disk_bytenr, fe.disk_num_bytes,
                          fe.offset, fe.num_bytes} : IsAligned(f, SectorSize)
             /\ key.offset + fe.num_bytes < U64Mod
             /\ s > 0 /\ pk.type = EXTENT_DATA_KEY /\ pk.objectid = key.objectid
                   => TrueExtentEnd(pk, pfe) <= key.offset

-----------------------------------------------------------------------------
(* Leaf owners for the file extent check: a subvolume tree and another. *)
CheckOwners == {CHOOSE o \in FsTreeOwners : TRUE, 0}

(* The block group, device and chunk checkers (the chunk tree's items)   *)
(* accept exactly the items the table calls valid: check_block_group_item *)
(* against its five rules, check_dev_item against its two, and            *)
(* check_leaf_chunk_item with apfs_check_chunk_valid, in either mixed     *)
(* mode, against the stripe table of the RAID profiles, whose rules the  *)
(* code spreads over ncopies, nparity and a final list of cases.          *)
ChunkTreeCheckersMatch ==
    /\ \A it \in BlockGroupItems : (CheckBlockGroupItem(it) = 0) <=> BlockGroupValid(it)
    /\ \A it \in DevItems : (CheckDevItem(it) = 0) <=> DevItemValid(it)
    /\ \A it \in ChunkItems, mixed \in BOOLEAN :
          (CheckLeafChunkItem(it, mixed) = 0) <=> ChunkItemValid(it, mixed)

(* check_root_item accepts exactly the valid root items, legacy-sized    *)
(* ones included, whose generation_v2 the code reads from zeroed memory. *)
RootCheckerMatches ==
    \A it \in RootItems : (CheckRootItem(it) = 0) <=> RootItemValid(it)

(* check_extent_item, walking the inline refs of the item one by one with *)
(* the size of each type, accepts exactly the extent items whose refs     *)
(* fill the payload with no padding and whose counts stay within the     *)
(* total, and check_extent_data_ref exactly the valid data ref items.     *)
BackrefCheckersMatch ==
    /\ \A it \in ExtentItems, skinny \in BOOLEAN :
          (CheckExtentItem(it, skinny) = 0) <=> ExtentItemValid(it, skinny)
    /\ \A it \in DataRefItems : (CheckExtentDataRef(it) = 0) <=> DataRefValid(it)

(* check_extent_data_item accepts exactly the valid file extents when it  *)
(* checks one in slot 0, where no previous item is read: every test of    *)
(* the common, inline and regular branches, in the code's order.          *)
FileExtentAloneMatches ==
    \A owner \in CheckOwners, fe \in FileExtents :
       (CheckFileExtent(owner, 0, ZeroKey, fe, fe) = 0)
          <=> FileExtentValid(owner, 0, ZeroKey, fe, fe)

(* After a previous item the check accepted in its own slot, the overlap  *)
(* check would reject every extent that starts before the previous one of *)
(* its inode ends.  The code does not meet this, and no run checks it:     *)
(* file_extent_end() wraps in u64 for a compressed inline extent with      *)
(* ram_bytes near 2^64 (one of MCPrevItems), and a following overlapping  *)
(* extent is accepted (tree-checker.c:120, 325).                           *)
PrevAccepted(owner, p) ==
    p.key.type # EXTENT_DATA_KEY \/ CheckFileExtent(owner, 0, ZeroKey, p, p) = 0
FileExtentAfterPrevMatches ==
    \A owner \in CheckOwners, fe \in FileExtents, p \in PrevItems :
       PrevAccepted(owner, p) /\ CompKeys(p.key, fe.key) < 0 =>
         ((CheckFileExtent(owner, 1, p.key, p, fe) = 0)
            <=> FileExtentValid(owner, 1, p.key, p, fe))
====
