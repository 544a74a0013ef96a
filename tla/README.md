# TLA+ models of the apfs kernel module sources

This directory holds TLA+ models of the code in `src/` and the TLC
configurations that check them. Each module is translated from the C
source. `PROJECT.json` maps every definition to the lines it models, and
lists the runs, the mutants, the findings and the hazards.

## The system and its parts

| Part | Source | What it does |
|---|---|---|
| raw block buffer | `apfs_buf.c`, `apfs_buf.h` | Reads or writes a byte range of the device. `apfs_buf_ioapply` cuts a request into bios. Each bio completes on its own in `apfs_buf_bio_end_io`. The submitter may sleep on `io_wait`. |
| field accessors | `struct-funcs.c` | Reads and writes little-endian fields of a metadata block that is kept in separate pages. A field can straddle two pages. A token caches the page last used. |
| tree checker | `tree-checker.c` | Validates a leaf (`check_leaf`, and per item `check_leaf_item`) or a node (`apfs_check_node`) read from disk before the tree code uses it. |
| tree defrag | `tree-defrag.c` | Reallocates the leaves of a tree in passes. It resumes from `defrag_progress` until it passes `defrag_max`. |
| unicode | `unicode.h` | Declarations only. There are no bodies to model. |

The parts interact as follows:

- The buffer layer reads a block.
- The accessors decode its fields.
- The checker uses the accessors to validate the block.
- Defrag walks the validated tree.

The models keep these interfaces abstract, as described below:

- The checker models read each field as a value.
- The accessor model checks the byte layout those values come from.

## Modules

**`ApfsBuf`** models one `struct apfs_buf` through its life: alloc, init,
alloc_pages, submit, wait and free.

- State:
  - `pc` is the submitting thread.
  - `bp` holds the fields set by `apfs_buf_init`.
  - `io_remaining`, `io_errors`, `error` and `done` are the count of the `io_wait` completion.
  - `loop` holds the locals of `apfs_buf_ioapply`.
  - `bios` holds one record per submitted bio.
  - `pages` is `bp->pages`: whether the array is allocated, and how many of its entries hold a page. `alloc_pages_bulk_array` fills empty entries in order, so the filled ones are a prefix.
- Actions:
  - `BufAllocPageArray` is the `kcalloc` of the page array. It either succeeds or returns `-ENOMEM`. The `-ENOMEM` state `nomem` has no successor, because what a caller does next is code outside `src/`.
  - `BulkFill(k)` is one turn of the filling loop: a call that brings `k` pages, then `break`, `continue` or `congestion_wait`. `BufFree` is `apfs_buf_free_pages` followed by `kfree`.
  - There is one action per statement group of `ioapply`: `NextChunk`, `AddPage`, `SubmitBio` and `EmptyBio`.
  - Each bio completion is two actions. `EndIoDec` is the `atomic_dec`. `EndIoCheck` is the `atomic_read == 1` test and the `complete`. Splitting them exposes the window between the two.
- Units:
  - Sizes are in 512-byte sectors.
  - A page is `PageSectors` sectors.
- Fairness:
  - `WF` on the submitter: a running kernel thread keeps running.
  - `WF` on bio completion: the block layer ends every bio it was given.
  - None on the filling loop. It ends only if the page allocator eventually brings a page, and that allocator is outside `src/`. So the model allows the loop to spin forever and states no termination property for it.
  - The caller is not obliged to start requests.

**`ValueCodec`** models the four accessors and their token variants on
`NumPages` pages of `PageSize` bytes.

- `pages` holds the bytes.
- `token` is the `struct apfs_map_token`: a page and its block offset.
- `call` records the last call and its value.
- The abstract specification, **`FlatMemory`**, is a flat byte array. A read returns the little-endian value of `w` bytes. A write replaces those bytes.
- `ValueCodec` instantiates it with the refinement mapping `mem <- byte o of page (EbStart+o) div PageSize`.
- The run checks `Abs!Spec` as a property.

**`KeyOrder`** models `struct apfs_key` and `apfs_comp_cpu_keys`. It is
spec-modelled, because the comparator lives in `ctree.c`, outside `src/`.

**`LeafCheck`** models `check_leaf` and the item checkers it calls.

- The leaf is untrusted disk content, so it is read *lazily*. Each header field and each item is chosen with `\E` at the step where the code reads it.
  - A rejected leaf is represented by the prefix the checker read, which is all its verdict depends on.
  - Within an item, fields are read in the code's order (`HeaderReads`, `ReadItems`, `EntryReads`):
    - An item's offset and size are read only after the key order check has passed.
    - An inode item's payload is read only by `check_leaf_item`, after the layout checks (`LayoutOk`).
    - A dir entry's name, and so its hash, is read only by the final hash check (`NameHashed`).
    - A field that is never read takes the value 0, so behaviours that differ only in unread bytes are one behaviour.
  - `items` holds the items read so far.
  - `reads` records where each `name_len` of an inode ref was read.
- Actions:
  - `BadLevel`, `EmptyLeaf` and `BeginWalk` cover the header.
  - `RejectSlot`, `AcceptSlot` and `StartInodeRef` cover one loop iteration: key order, item end, end inside the leaf, then `check_leaf_item`.
  - `InodeRefShort`, `InodeRefRecord` and `InodeRefDone` cover the record loop of `check_inode_ref`.
  - `StartDirItem`, `DirItemShort`, `DirItemEntry` and `DirItemDone` cover the entry loop of `check_dir_item`. An entry is read as its location key, dir type, name and data lengths, and the hash of its name, which stands for the name.
  - `EndWalk` ends the slot loop.
- Item checkers:
  - Modelled: `check_csum_item`, `check_simple_keyed_refs`, `check_prev_ino`, `check_inode_ref`, `check_dir_item` with `check_inode_key` and `check_root_key`, and `check_inode_item`.
  - The payload of an inode item is read only in the full check. It is the fields `check_inode_item` tests: generation, transid, mode, nlink and flags. The mode's file-type test, `has_single_bit_set(mode & S_IFMT)` with LNK, BLK and SOCK let through by name, uses the `Bitwise` module. The reference states the seven file types as values of bits 12–15, without bit operations.
  - `CheckLeafItem` is the whole switch of `check_leaf_item`. The checkers of the extent, file extent, chunk tree and root items are operators of `ItemCheck`, called with the leaf's owner, the previous key and item, and the `MIXED_GROUPS` and `SKINNY_METADATA` superblock features (constants `MixedGroups` and `SkinnyMetadata`).
  - The walk's key types do not include theirs, which keeps the walk within its time. Those checkers are checked on their own, as described under `ItemCheck`.
  - Key types the switch does not handle fall into the no-check class (`ORPHAN_ITEM_KEY`).
- `Spec` is the check the code intends, that is, the code past its first statement. The function as built starts with `return 0;` and never reaches the check. That is recorded as a hazard in `PROJECT.json`, not as a run.
- Item offsets and sizes are u32. `apfs_item_end_nr` is `(offset + size) % FieldMod`.
- The reference definition `ValidLeaf` is written independently of the loop. It requires:
  - pairwise ascending keys;
  - payloads packed back to back from the end of the data area, in plain integers;
  - per-type item rules, including dir entries that fill their item exactly;
  - ordered csum ranges;
  - inode continuity in subvolume trees;
  - the empty-leaf owner rules.

**`ItemCheck`** models the item checkers whose verdict depends on the item alone, or on the item and the previous slot. Each is a pure operator that returns 0 or `-EUCLEAN`, as a `CASE` in the order of the code's early returns.

- The checkers:
  - `CheckFileExtent` is `check_extent_data_item`. It uses `PrevInoOk` (`check_prev_ino`) and `FileExtentEnd` (`file_extent_end`, in u64 arithmetic modulo `U64Mod`, with `ALIGN` as `AlignU64`).
  - `CheckBlockGroupItem`, `CheckDevItem`, `CheckRootItem` with `CheckRootKey`, and `CheckExtentDataRef`.
  - `CheckLeafChunkItem` with `CheckChunkValid` (`apfs_check_chunk_valid`). `RaidProfile`, `RaidCopies` and `RaidParity` stand for `apfs_bg_flags_to_raid_index` and `apfs_raid_array`, which live outside `src/`.
  - `CheckExtentItem`. Its loop over the inline refs is the recursive operator `WalkInlineRefs`.
- `ReadRootItem` is `read_extent_buffer` into a zeroed struct: a legacy-sized root item reads `generation_v2` as 0.
- The bytes past the listed inline refs, or past the listed data refs, read as zero, so they form a ref of the unknown type 0.
- Reference definitions (`BlockGroupValid`, `DevItemValid`, `ChunkItemValid`, `RootItemValid`, `ExtentItemValid`, `DataRefValid`, `FileExtentValid`) are written from the item table of the spec, without the code's order of checks:
  - `ChunkItemValid` states the legal stripe counts per profile as one table (`LegalStripes`).
  - `ExtentItemValid` asks for a prefix of the refs that fills the payload exactly.
  - `FileExtentValid` computes the previous extent's end without wrapping.
- `MC_ItemCheck` gives the bounded item sets. `MC_LeafCheck` extends it, so the four agreement properties run in the leafcheck run.
- The file extent property covers an extent in slot 0 only (`FileExtentAloneMatches`). The overlap agreement after a previous item (`FileExtentAfterPrevMatches`) is stated but no run checks it. With the wrapping inline extent in `MCPrevItems`, TLC finds it violated; see "Known looseness".
- Each property has the form `full => <agreement over all items>`: `check_leaf_item` runs only when `check_item_data` is set. The agreement is a constant expression, which TLC evaluates once.

**`NodeCheck`** models `apfs_check_node`. The function reads one block and changes nothing, so it is a pure operator, as the item checkers are:

- `CheckNode(n)` is the level and empty checks, then the loop.
- `WalkNode` is the loop, as a recursion on the slot.
- `SlotVerdict` is one iteration.
- As in `LeafCheck`, it models the code past `return 0;`.
- `MC_LeafCheck` instantiates it on a bounded set of nodes. Its two properties are checked in the leafcheck run against the reference `ValidNode`.
- The child pointer of the last slot is never checked, because the loop stops at `nritems - 1`. That is recorded as a hazard, not as a run.

**`Defrag`** models `apfs_defrag_leaves` and the caller loop that calls it
again while it returns `-EAGAIN`.

- The tree is abstracted to its leaf keys (`keys`) and its level-1 nodes (`firsts`).
  - A level-1 node is named by its first key, the key the root holds for it.
- State:
  - `progress` and `dmax` are `root->defrag_progress` and `root->defrag_max`.
  - `inPass` is true while the caller loops.
  - `lastRet` is the last return value.
  - `realloced`, `startNodes` and `startProgress` record the current pass, so properties can relate its end to its start.
- Actions:
  - One call runs under the tree locks and is one step. `DefragLeaves` is the call, split by the path it takes:
    - `SkipRoot` skips the extent root and roots that are not shareable.
    - `NoPath` is the `-ENOMEM` return.
    - `LeafRoot` is a root that is a leaf.
    - `Walk` covers the rest. It includes a fresh start that reads `defrag_max`, the search, the faults of each call, `apfs_realloc_node`, `apfs_find_next_key` and the `out:` test.
    - `NextKeyStep` has three outcomes of `apfs_find_next_key`: a next node (0), none (1), or a failed search (< 0). Only 0 sets `-EAGAIN`, so the other two leave the 0 of the realloc.
  - The environment:
    - `StartPass` is a new call sequence.
    - `InsertKey`, `DeleteKey`, `SplitNode` and `MergeNode` are other writers between two calls, when the transaction has ended.
- Fairness: `WF` on `DefragLeaves`, because the caller calls again on `-EAGAIN`. The environment has no fairness.

The `MC_*` modules give the constants their values.

## Runs

| run | expect | what it shows |
|---|---|---|
| apfsbuf | pass | With one bio per request, an aligned request that returns 0 moved exactly `len` sectors from `bno`, back to back. An aligned submit always wakes its waiter. Every page handed to `bio_add_page` is an entry that the filling loop filled, for unaligned requests too (`PagesUsedAllocated`). |
| apfsbuf_multibio | violation | A two-bio request wakes the submitter while bio 2 is in flight. `apfs_buf_bio_end_io` completes at `io_remaining == 1` before the next chunk's count is taken. |
| apfsbuf_unaligned_hang | violation | An unaligned request gets an empty last bio. Its count is dropped without `complete`, and the submitter sleeps forever. |
| apfsbuf_unaligned_loss | violation | The same empty bio's `-EIO` is overwritten by `error = io_errors` (0). The submit returns success for a partial transfer. |
| valuecodec | pass | Every sequence of get/set, with or without the token, straddling or not, refines `FlatMemory`. |
| leafcheck | pass | `Spec` rejects no leaf that `ValidLeaf` calls valid, for relaxed and full checking. The other direction, soundness, is not a pass property: the code fails it twice, by the u32 wrap (`leafcheck_wrap`) and by the xattr location (see "Known looseness"). `apfs_check_node` accepts only nodes with a level in range and ascending keys, and rejects no valid node. The chunk tree, root and backref checkers accept exactly the items their reference calls valid. So does the file extent checker, for an extent in slot 0. |
| leafcheck_wrap | violation | An offset near 2^32 wraps the item end, so a payload outside the leaf is accepted. |
| leafcheck_overlap | violation | Nothing keeps payloads clear of the item table. |
| leafcheck_overread | violation | `check_inode_ref` uses `sizeof(iref)` (a pointer) where the record header is meant, and reads `name_len` past the item. |
| defrag | pass | Every pass ends under the caller's loop, despite inserts, deletes, splits, merges and failed calls between and in the calls. |
| defrag_lastnode | violation | With a fixed tree and no faults, a pass ends with 0 and never reallocates the last level-1 node. Once `defrag_progress` is the first key of that node, it equals `defrag_max`, and the `out:` test returns 0 before the node is walked. |
| defrag_nextkey | violation | With a fixed tree and one failed call, `apfs_find_next_key` fails after the first realloc. `ret` keeps the 0 of the realloc, `defrag_progress` is cleared, and the pass reports the tree done. The level-1 nodes before `defrag_max` are never reallocated. |

Every property of a passing run has a mutant in `PROJECT.json`: a plausible
bug in a mapped definition that the property catches. Examples:

- the submitter not taking its own count;
- a wait that does not block;
- a lost `io_errors` copy;
- a token hit that tests only the end of the field;
- `>=` for `>` in the csum range test;
- swapped key comparison;
- RAID1 taken to need two stripes or more;
- a legacy root item read whole;
- every inline ref counted once;
- the overflow test of a regular file extent left out.

## Bounds and why they suffice

**ApfsBuf.**

- Pages are 2 sectors.
- Bios hold 2 pages.
- Requests are 1–4 sectors at sector 0, 1 or 2.

These bounds cover:

- aligned and unaligned starts;
- requests ending mid-page and on a page;
- one bio and the empty-bio tail.

The multi-bio runs use 6 sectors, which gives two full bios.

**ValueCodec.**

- Two 4-byte pages.
- 4-byte fields at every offset.

So a straddle leaves 1, 2 or 3 bytes in the first page. Byte values are
distinct (base 5), so any swapped or misplaced byte changes the value.
Mixed widths were tried and go beyond the time limit. Width 4 is the case
with every split.

**LeafCheck.**

- Data size is 5 units.
- Up to 2 items.
- Layout values are 0..5.
- Three key offsets, two objectids, and key types for each checker class.
- Inode ref header is 3 units, with `name_len` its last unit. A pointer is 2 units (8 vs 10 bytes in the code, kept smaller than the header).
- A dir entry header is 2 units. Names are 0–2 units long against a maximum of 1, and data is 0 or 2 units against a name-plus-data maximum of 2. So each length check can fail, and an item holds one or two entries.
- Six location keys: the zero key, an inode, an inode with a nonzero offset, a subvolume root, a root that is not a subvolume, and a key of another type. File types are a regular file, `FT_XATTR` and `FT_MAX`.
- Inode item payloads: all 16 values of the S_IFMT bits with mode 0644, and one payload for each other check (an unknown mode bit, generation or transid two past the superblock's, a directory and a file with two links, a known and an unknown flag).
- Object ids 256 (an inode number, sector aligned) and 1009 (the csum tree id, not aligned).
- Key types: `INODE_ITEM`, `INODE_REF`, `XATTR_ITEM`, `ORPHAN_ITEM` (no check), `DIR_ITEM`, `EXTENT_CSUM`, `TREE_BLOCK_REF` and `SHARED_DATA_REF`. `DIR_INDEX` goes through the same `check_dir_item` and differs from `DIR_ITEM` only in skipping the hash test. It is left out of the run, because with it the run takes more than twice as long. The run as configured reaches about 3.2 million states in about 1 minute, or 2.5 minutes with coverage collection.

Two items give:

- the order check;
- the continuity checks, `item_end_expected` of slot 1 and prev_key;
- the csum-range check.

Three items took 9 minutes even before the dir and inode checkers were added. The wrap run adds offsets 14 and 15 and size 6
with `FieldMod = 16`.

**ItemCheck.**

- Units: sectors of 2 and a node of 4. u64 values wrap at 16, so 12–15 stand for values near 2^64. Tree levels are below 2, and the superblock generation is 10.
- Each item set is a product over the fields a checker tests, around a valid item, so every check of every checker both passes and fails on some item. The sets are:
  - 512 block group items;
  - 32 dev items;
  - 1831 chunks, with every type and profile combination, 0–4 stripes and both substripe counts;
  - 6144 root items, of both sizes;
  - 6849 extent items, with up to two inline refs of every type and every item size up to 8;
  - 72 data ref items;
  - 3272 file extents.
- File extents are checked alone, in slot 0. `MCPrevItems` holds 10 previous items for the overlap agreement, which no run checks: an inode item; inline extents ending at 2, 4 and 14; one whose end wraps to 0; an extent of another inode; and regular extents, one of them shorter than its disk extent.

**NodeCheck.**

- Up to 3 pointers.
- Levels 0, 1 and 8 (`APFS_MAX_LEVEL`).
- Three keys.
- Pointers 0, 4096 and 6144 (null, aligned and unaligned).

These 5832 nodes are checked once, as a constant, in the leafcheck run.

**Defrag.**

- Four keys: two objectids times two offsets.
- Root levels 0, 1 and 2; the three root kinds.
- At most one tree change and one fault per behaviour.

This gives:

- trees of one to four level-1 nodes;
- every fault path;
- each kind of change between two calls.

## Known looseness, and disagreements without a run

All 12 runs the project can have are used. The disagreements below are stated in the modules and confirmed by TLC, but no run shows them. Each is a hazard in `PROJECT.json`.

- **xattr location.** An `XATTR_ITEM` entry whose location key is a `ROOT_ITEM` key goes to `check_root_key`. That accepts any subvolume id, although the comment in `check_inode_key` (tree-checker.c:392) says an xattr location is all zero.
  - The reference `DirEntryValid` states the comment's rule.
  - Under `MC_LeafCheck.cfg`, TLC finds `LeafAcceptedOnlyIfValid` violated by an xattr item with location (257, `ROOT_ITEM`, 7).
  - So that property is checked only by `leafcheck_wrap`, which finds the u32 wrap.
- **`name_len` 0.** `check_inode_ref` checks only the first record against the item size, so a later record may have `name_len` 0. Here the reference still follows the code.

The item checkers of `ItemCheck` have further places where the code is looser than it should be:

- `check_extent_item` counts a tree block ref or shared block ref as 1 in `inline_refs`. The spec's table speaks only of the counts of data references. The reference follows the code.
- `apfs_check_chunk_valid` also tests the chunk's `sector_size`, and `check_block_group_item` the `chunk_objectid`. The spec's table names neither. The references include both, with a comment.
- `file_extent_end` wraps for an inline extent with `ram_bytes` near 2^64. A compressed inline extent has no size check, so a following overlapping extent of the same inode is accepted.
  - `MCPrevItems` holds such an extent (`ram_bytes` 15, which wraps at 16).
  - TLC finds `FileExtentAfterPrevMatches` violated, against a reference that computes the true end.
  - No run checks that agreement. The pass property covers slot 0 only.
- `check_dev_item` and the tree block info level of `check_extent_item` are read before the item size is known to cover them. These are hazards whose verdicts are checked but whose reads are not.

## What is not modelled

| Not modelled | Status |
|---|---|
| The ItemCheck checkers inside the leaf walk | `CheckLeafItem` dispatches to them, but the walk's key types leave them out. Each one adds key types, and so states, to the single LeafCheck pass run. They are checked over their own item sets instead. |
| Log output (`generic_err`, `apfs_crit`) | Left out. No property is about it. |
| Page contents of `apfs_buf` | Left out. No property is about them. |
| What a caller does after `apfs_buf_alloc_pages` returns `-ENOMEM` | The return is modelled, and the model stops there. If the caller then calls `apfs_buf_free`, that walks `page_count` entries of a NULL array. This is recorded as a hazard. |
| `apfs_node_key` | Left out. |
| `unicode.h` | Has no bodies. |
| Subpage extent buffers (`EbStart > 0`) in `ValueCodec` | Allowed by the module but not run. |
