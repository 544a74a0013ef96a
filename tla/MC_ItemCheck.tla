---------------------------- MODULE MC_ItemCheck ----------------------------
(***************************************************************************)
(* Bounded item sets for the checkers of ItemCheck, in the units of        *)
(* MC_LeafCheck: sectors of 2, a node of 4, u64 values that wrap at 16    *)
(* (so 12..15 stand for values near 2^64), tree levels under 2.  Each set *)
(* is a product over the fields a checker tests, around a valid item, so *)
(* that every check of the checker both passes and fails on some item.    *)
(***************************************************************************)
EXTENDS ItemCheck

MCU64Mod == 16
MCNodeSize == 4
MCMaxLevel == 2
MCStripeLen == 4
MCBlockGroupItemSize == 2
\* a chunk with one stripe is 3 units, each further stripe 1
MCChunkSize == 3
MCStripeSize == 1
MCRootItemSize == 3
MCLegacyRootItemSize == 2
MCRootSubvolDead == 4
\* extent item header 2, tree block info 1, inline ref 2 (type 1, offset 1),
\* extent data ref 2: tree and shared block refs take 2, data refs 3
MCExtentItemSize == 2
MCTreeBlockInfoSize == 1
MCInlineRefSize == 2
MCInlineRefTypeSize == 1
MCExtentDataRefSize == 2
MCInlineDataStart == 2
MCFileExtentItemSize == 4

\* used in and beyond the size; one profile bit, two, none, one unknown
\* bit; every combination of the type bits
MCBlockGroupItems ==
    {[key |-> Key(100, 192, o), size |-> sz, chunk_objectid |-> c, used |-> u,
      flags |-> t + p] :
       o \in {0, 2}, sz \in {1, 2}, c \in {256, 257}, u \in {2, 4},
       t \in 0..7, p \in {0, 16, 24, 2048}}

MCDevItems ==
    {[key |-> Key(o, 216, f), devid |-> d, bytes_used |-> u, total_bytes |-> t] :
       o \in {1, 2}, f \in {1, 3}, d \in {1, 3}, u \in {2, 4}, t \in {2, 4}}

\* Every type and profile combination with every stripe count and both
\* substripe counts, then the address, length, stripe length and sector
\* size of a one-stripe data chunk; logical 12 + length 4 overflows.
ChunkOf(logical, len, n, sz, sub, sl, ss, type) ==
    [key |-> Key(256, 228, logical), size |-> sz, num_stripes |-> n,
     sub_stripes |-> sub, length |-> len, stripe_len |-> sl,
     sector_size |-> ss, type |-> type]
MCChunkItems ==
    {ChunkOf(0, 2, n, 3 + (IF n = 0 THEN 0 ELSE n - 1) + d, sub, 4, 2, t + p) :
       n \in 0..4, d \in {0, 1}, sub \in {1, 2}, t \in 0..7,
       p \in {0, 24, 2048} \cup ProfileBits}
    \cup {ChunkOf(l, len, 1, 3, 1, sl, ss, 1) :
            l \in {0, 1, 12}, len \in {0, 2, 3, 4}, sl \in {2, 4, 6}, ss \in {2, 4}}

\* generation 11 is the superblock's + 1, 12 is one more
MCRootItems ==
    {[key |-> Key(o, 132, f), size |-> sz,
      root |-> [generation |-> g, generation_v2 |-> g2, last_snapshot |-> ls,
                bytenr |-> b, level |-> lv, drop_level |-> dl, flags |-> fl]] :
       o \in {0, 2, 5, 1010}, f \in {0, 1}, sz \in {1, 2, 3}, g \in {11, 12},
       g2 \in {11, 12}, ls \in {11, 12}, b \in {0, 1}, lv \in {1, 2},
       dl \in {1, 2}, fl \in {0, 1, 2, 5}}

\* Inline refs: each type (0 is unknown) with an aligned and an unaligned
\* offset; data refs count 2.
MCRefs == {[type |-> t, offset |-> o, count |-> 2] :
             t \in {0, 176, 178, 182, 184}, o \in {0, 1}}
MCRefSeqs == {<<>>} \cup {<<r>> : r \in MCRefs} \cup {<<r, q>> : r, q \in MCRefs}
ExtentOf(k, sz, fl, refs, g, lv, irefs) ==
    [key |-> k, size |-> sz, flags |-> fl, refs |-> refs, generation |-> g,
     info_level |-> lv, irefs |-> irefs]
\* The header checks over keys of both types, then the refs of a data
\* extent, a tree block extent and a metadata item with every size.
MCExtentItems ==
    {ExtentOf(Key(o, t, f), sz, fl, 1, g, lv, <<>>) :
       o \in {0, 1}, t \in {168, 169}, f \in {1, 2, 4}, sz \in {1, 2, 3},
       fl \in {0, 1, 2, 3, 257, 258}, g \in {11, 12}, lv \in {1, 2}}
    \cup {ExtentOf(k, sz, fl, refs, 11, 1, irefs) :
            <<k, fl>> \in {<<Key(0, 168, 2), 1>>, <<Key(0, 168, 4), 2>>,
                           <<Key(0, 169, 1), 2>>},
            sz \in 0..8, refs \in {1, 3}, irefs \in MCRefSeqs}

MCDataRefItems ==
    {[key |-> Key(o, 178, 7), size |-> sz, offsets |-> os] :
       o \in {0, 1}, sz \in 0..5,
       os \in {<<>>, <<0>>, <<1>>, <<0, 0>>, <<0, 1>>, <<1, 0>>}}

FileExtentOf(o, off, sz, t, c, e, ram, db, dn, fo, nb) ==
    [key |-> Key(o, 108, off), size |-> sz, type |-> t, compression |-> c,
     encryption |-> e, ram_bytes |-> ram, disk_bytenr |-> db,
     disk_num_bytes |-> dn, offset |-> fo, num_bytes |-> nb]
\* Types 0 (inline), 1 (regular) and 3 (unknown), compressions 0, 1 and 4
\* (unknown), with every size, ram_bytes and num_bytes; then encryption
\* and the other aligned fields on a regular extent.
MCFileExtents ==
    {FileExtentOf(o, off, sz, t, c, 0, ram, 2, 2, 0, nb) :
       o \in {256, 257}, off \in {0, 1, 2, 4, 14}, sz \in 1..4, t \in {0, 1, 3},
       c \in {0, 1, 4}, ram \in {0, 1, 2}, nb \in {0, 2, 3}}
    \cup {FileExtentOf(256, off, 4, 2, 0, e, 2, db, dn, fo, 2) :
            off \in {2, 4}, e \in {0, 1}, db \in {0, 1}, dn \in {2, 3}, fo \in {0, 1}}

\* Previous items: an inode item, and extents of inodes 256 and 257 that
\* end at 2, 4 or 14, inline (compressed, with no size check) or regular,
\* one of them a regular extent shorter than its disk extent, and a
\* compressed inline extent whose ram_bytes (15) wraps its end to 0.
MCPrevItems ==
    {[FileExtentOf(256, 0, 0, 0, 0, 0, 0, 0, 0, 0, 0) EXCEPT !.key = Key(256, 1, 0)],
     FileExtentOf(256, 0, 3, 0, 0, 0, 1, 0, 0, 0, 0),
     FileExtentOf(256, 0, 2, 0, 1, 0, 3, 0, 0, 0, 0),
     FileExtentOf(256, 0, 2, 0, 1, 0, 13, 0, 0, 0, 0),
     FileExtentOf(256, 0, 2, 0, 1, 0, 15, 0, 0, 0, 0),
     FileExtentOf(257, 0, 2, 0, 1, 0, 3, 0, 0, 0, 0),
     FileExtentOf(256, 0, 4, 1, 0, 0, 2, 2, 2, 0, 2),
     FileExtentOf(256, 0, 4, 1, 0, 0, 2, 2, 4, 0, 2),
     FileExtentOf(256, 0, 4, 1, 0, 0, 4, 2, 4, 0, 4),
     FileExtentOf(256, 2, 4, 2, 0, 0, 2, 2, 2, 0, 2)}
====
