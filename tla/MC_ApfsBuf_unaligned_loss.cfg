\* A request starting inside a page: the -EIO of the empty second chunk is
\* overwritten by the completion of the first bio.
CONSTANTS
  PageSectors <- MCPageSectors
  BioMaxVecs <- MCBioMaxVecs
  Bytenrs <- MCUnalignedBytenrs
  Sizes <- MCUnalignedSizes
  Waits <- MCWaits
  IoErrs <- MCIoErrs
SPECIFICATION Spec
INVARIANT SuccessMeansFullTransfer
CHECK_DEADLOCK FALSE
