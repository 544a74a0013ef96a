----------------------------- MODULE MC_ValueCodec -----------------------------
(***************************************************************************)
(* A block of two 4-byte pages, read as zeros, in which 4-byte fields   *)
(* are set to a value whose bytes differ (1, 2, 3, 4 in base 5, from the *)
(* least significant), so a byte put in the wrong place shows.  Fields   *)
(* at offsets 1, 2 and 3 straddle the pages with 3, 2 or 1 bytes in the  *)
(* first page, and fields at different offsets overlap each other.       *)
(***************************************************************************)
EXTENDS ValueCodec

WidePageSize == 4
WideNumPages == 2
WideLen == 8
WideWidths == {4}
WideBase == 5
ZeroImage == {[p \in 0..WideNumPages - 1 |-> [b \in 0..WidePageSize - 1 |-> 0]]}
PatternValue(w) == {(1 + 2 * WideBase + 3 * WideBase^2 + 4 * WideBase^3) % WideBase^w}

NoEbStart == 0
=============================================================================
