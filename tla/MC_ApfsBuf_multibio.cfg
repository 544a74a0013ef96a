\* A page-aligned request of three pages: two bios, the first of which can
\* complete before the submitter takes the count for the second.  A failed
\* kcalloc() ends a run where it stops, so deadlock is not checked.
CONSTANTS
  PageSectors <- MCPageSectors
  BioMaxVecs <- MCBioMaxVecs
  Bytenrs <- MCAlignedBytenrs
  Sizes <- MCMultiBioSizes
  Waits <- MCWaits
  IoErrs <- MCIoErrs
SPECIFICATION Spec
INVARIANT ReturnedIoComplete
CHECK_DEADLOCK FALSE
