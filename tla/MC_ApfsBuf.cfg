\* Requests of one to four sectors at page-aligned and unaligned start
\* addresses.  An unaligned request can leave the submitter asleep forever
\* (MC_ApfsBuf_unaligned_hang.cfg), so deadlock is not checked; for aligned
\* requests AlignedWaitTerminates says the wait ends.
CONSTANTS
  PageSectors <- MCPageSectors
  BioMaxVecs <- MCBioMaxVecs
  Bytenrs <- MCAnyBytenrs
  Sizes <- MCOneBioSizes
  Waits <- MCWaits
  IoErrs <- MCIoErrs
SPECIFICATION Spec
INVARIANT TypeOK
INVARIANT AlignedSuccessMeansFullTransfer
INVARIANT PagesUsedAllocated
PROPERTY AlignedWaitTerminates
CHECK_DEADLOCK FALSE
