\* u32 wrap of offset + size in apfs_item_end_nr(): an item whose payload
\* lies past the end of the leaf passes the end checks.
SPECIFICATION Spec
CONSTANTS
    DataSize <- MCDataSize
    ItemHeaderSize <- MCItemHeaderSize
    FieldMod <- MCFieldMod
    ObjectIds <- MCObjectIds
    KeyTypes <- MCKeyTypes
    KeyOffsets <- MCKeyOffsets
    ItemOffsets <- MCWrapOffsets
    ItemSizes <- MCWrapSizes
    MaxItems <- MCMaxItems
    Levels <- MCLevels
    Owners <- MCOwners
    SectorSize <- MCSectorSize
    CsumSize <- MCCsumSize
    SharedDataRefSize <- MCSharedDataRefSize
    InodeRefSize <- MCInodeRefSize
    NameLenSize <- MCNameLenSize
    PtrSize <- MCPtrSize
    NameLens <- MCNameLens
    FsTreeOwners <- MCFsTreeOwners
    CsumObjectId <- MCCsumObjectId
    NeverEmptyOwners <- MCNeverEmptyOwners
    DirItemSize <- MCDirItemSize
    LocKeys <- MCLocKeys
    FileTypes <- MCFileTypes
    DirNameLens <- MCDirNameLens
    DataLens <- MCDataLens
    NameLen <- MCNameLen
    XattrNameMax <- MCXattrNameMax
    MaxXattrSize <- MCMaxXattrSize
    FirstFreeObjectId <- MCFirstFreeObjectId
    LastFreeObjectId <- MCLastFreeObjectId
    RootTreeDirObjectId <- MCRootTreeDirObjectId
    MixedGroups = FALSE
    SkinnyMetadata = TRUE
    FreeInoObjectId <- MCFreeInoObjectId
    TreeRelocObjectId <- MCTreeRelocObjectId
    InodeItems <- MCInodeItems
    SuperGen <- MCSuperGen
    InodeFlagMask <- MCInodeFlagMask
    NodeSize <- MCNodeSize
    U64Mod <- MCU64Mod
    MaxLevel <- MCMaxLevel
    StripeLen <- MCStripeLen
    BlockGroupItemSize <- MCBlockGroupItemSize
    ChunkSize <- MCChunkSize
    StripeSize <- MCStripeSize
    RootItemSize <- MCRootItemSize
    LegacyRootItemSize <- MCLegacyRootItemSize
    RootSubvolDead <- MCRootSubvolDead
    ExtentItemSize <- MCExtentItemSize
    TreeBlockInfoSize <- MCTreeBlockInfoSize
    InlineRefSize <- MCInlineRefSize
    InlineRefTypeSize <- MCInlineRefTypeSize
    ExtentDataRefSize <- MCExtentDataRefSize
    InlineDataStart <- MCInlineDataStart
    FileExtentItemSize <- MCFileExtentItemSize
    BlockGroupItems <- MCBlockGroupItems
    DevItems <- MCDevItems
    ChunkItems <- MCChunkItems
    RootItems <- MCRootItems
    ExtentItems <- MCExtentItems
    DataRefItems <- MCDataRefItems
    FileExtents <- MCFileExtents
    PrevItems <- MCPrevItems
CHECK_DEADLOCK FALSE
INVARIANT LeafAcceptedOnlyIfValid
