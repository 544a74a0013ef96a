---------------------------- MODULE MC_LeafCheck ----------------------------
(***************************************************************************)
(* Instances of LeafCheck for TLC, in units of a scaled-down leaf: a data *)
(* area of 5 units, one unit per item-table slot, sectors and checksums   *)
(* of 2 units.  An inode ref record header is an index of 2 units and a   *)
(* name_len of 1, and a pointer is as large as the index (8 bytes each in *)
(* the code).  The u32 item fields wrap at 16, so offsets near 16 stand   *)
(* for values near 2^32.                                                  *)
(***************************************************************************)
EXTENDS LeafCheck, MC_ItemCheck

MCDataSize == 5
MCItemHeaderSize == 1
MCFieldMod == 16
\* 256 is an ordinary, sector-aligned id, an inode number; 1009 plays
\* APFS_EXTENT_CSUM_OBJECTID (-10ULL), which is not sector aligned and lies
\* above LAST_FREE and FREE_INO and below TREE_RELOC.
MCObjectIds == {256, 1009}
MCCsumObjectId == 1009
MCKeyTypes == {1, 12, 24, 48, 84, 128, 176, 184}
\* two sector-aligned offsets, so two checksum items can touch or overlap
MCKeyOffsets == {0, 1, 2}
MCLayoutValues == 0..5
\* Offsets just below the u32 wrap point.
MCWrapOffsets == 0..5 \cup {14, 15}
MCWrapSizes == 0..5 \cup {6}
MCMaxItems == 2
MCLevels == {0, 1}
\* 0 (undefined), 1 (ROOT_TREE, never empty), 257 (a subvolume)
MCOwners == {0, 1, 257}
MCNeverEmptyOwners == {1, 2, 3, 4, 5}
MCFsTreeOwners == {5, 257}
MCSectorSize == 2
MCCsumSize == 2
MCSharedDataRefSize == 1
MCInodeRefSize == 3
MCNameLenSize == 1
MCPtrSize == 2
MCNameLens == {0, 1}
\* A dir entry header is 2 units; names of up to 1 unit (APFS_NAME_LEN and
\* XATTR_NAME_MAX are both 255), name plus data of up to 2 units.
MCDirItemSize == 2
MCDirNameLens == {0, 1, 2}
MCDataLens == {0, 2}
MCNameLen == 1
MCXattrNameMax == 1
MCMaxXattrSize == 2
\* FIRST_FREE is 256; LAST_FREE (-256ULL), FREE_INO (-12ULL) and
\* TREE_RELOC (-8ULL) are the largest ids, in this order.
MCFirstFreeObjectId == 256
MCLastFreeObjectId == 1000
MCRootTreeDirObjectId == 6
MCFreeInoObjectId == 1001
MCTreeRelocObjectId == 1010
\* Location keys: none (xattr), an inode, an inode with an offset, a
\* subvolume root, a root that is not a subvolume, a key of another type.
MCLocKeys == {Key(0, 0, 0), Key(256, 1, 0), Key(256, 1, 1), Key(257, 132, 7),
              Key(2, 132, 7), Key(256, 12, 0)}
\* APFS_FT_REG_FILE, APFS_FT_XATTR, APFS_FT_MAX
MCFileTypes == {1, 8, 9}
\* Inode item payloads: every value of the four S_IFMT bits with mode
\* 0644, then one payload for each other check: a mode bit above valid_mask,
\* a generation and a transid two past the superblock's, a directory and a
\* regular file with two links, a known and an unknown flag.
MCSuperGen == 10
MCInodeFlagMask == 4095
MCInodeItems ==
    LET ok(m) == [generation |-> 11, transid |-> 11, mode |-> m, nlink |-> 1,
                  flags |-> 0]
        reg == 32768 + 420
    IN {ok(f * 4096 + 420) : f \in 0..15}
       \cup {[ok(reg) EXCEPT !.mode = 65536 + reg],
             [ok(reg) EXCEPT !.generation = 12],
             [ok(reg) EXCEPT !.transid = 12],
             [ok(16384 + 420) EXCEPT !.nlink = 2],
             [ok(reg) EXCEPT !.nlink = 2],
             [ok(reg) EXCEPT !.flags = 1],
             [ok(reg) EXCEPT !.flags = 4096]}

\* apfs_check_node on nodes of up to three pointers, three keys, child
\* pointers null, unaligned or aligned, levels 0, 1 and APFS_MAX_LEVEL.
Node == INSTANCE NodeCheck
          WITH MaxLevel <- 8, Levels <- {0, 1, 8}, MaxPtrs <- 3,
               NodeKeys <- {Key(256, 1, 0), Key(256, 12, 0), Key(257, 1, 0)},
               Bytenrs <- {0, 4096, 6144}, SectorSize <- 4096
NodeSoundMatches == Node!NodeCheckerSound
NodeCompleteMatches == Node!NodeCheckerComplete

\* The node checks do not depend on the leaf walk; they are stated in
\* every state of a full check, where a failure is a state that violates
\* them.

(* apfs_check_node accepts only nodes whose level is in range and whose  *)
(* keys ascend over all pairs, though its loop compares adjacent keys.    *)
NodeAcceptedKeysAscending == full => NodeSoundMatches

(* apfs_check_node rejects only invalid nodes: no valid node fails to     *)
(* be read.                                                                *)
NodeRejectedOnlyIfInvalid == full => NodeCompleteMatches
====
