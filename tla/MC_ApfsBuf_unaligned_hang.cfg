\* A request starting inside a page: when the first bio completes after the
\* count for the empty second chunk was taken, nobody signals io_wait.
CONSTANTS
  PageSectors <- MCPageSectors
  BioMaxVecs <- MCBioMaxVecs
  Bytenrs <- MCUnalignedBytenrs
  Sizes <- MCUnalignedSizes
  Waits <- MCWaits
  IoErrs <- MCIoErrs
SPECIFICATION Spec
PROPERTY WaitTerminates
CHECK_DEADLOCK FALSE
