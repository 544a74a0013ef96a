\* A node of two 4-byte pages read as zeros and written with a 4-byte value
\* of distinct bytes: straddles leave 1, 2 or 3 bytes in the first page.
CONSTANTS
  PageSize <- WidePageSize
  NumPages <- WideNumPages
  EbStart <- NoEbStart
  Len <- WideLen
  Widths <- WideWidths
  ByteBase <- WideBase
  Images <- ZeroImage
  SetValues <- PatternValue
SPECIFICATION Spec
INVARIANT TypeOK
PROPERTY FlatRefinement
