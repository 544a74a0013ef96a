------------------------------ MODULE ValueCodec ------------------------------
(***************************************************************************)
(* The extent-buffer accessors of src/struct-funcs.c                       *)
(* (DEFINE_APFS_SETGET_BITS): apfs_get_N / apfs_set_N and their token      *)
(* variants apfs_get_token_N / apfs_set_token_N, for N-byte fields of a    *)
(* metadata block kept in NumPages pages of PageSize bytes.  A value that  *)
(* straddles a page boundary is staged through lebytes[].  The token       *)
(* caches the page (kaddr) and the block offset of the page last touched.  *)
(*                                                                         *)
(* The field offset is the member offset ptr + off of the code; every      *)
(* access passes check_setget_bounds(), which the code ASSERTs.            *)
(***************************************************************************)
EXTENDS Naturals

CONSTANTS
  PageSize,   \* PAGE_SIZE, in bytes
  NumPages,   \* pages of the extent buffer
  EbStart,    \* offset_in_page(eb->start)
  Len,        \* eb->len, the node size
  Widths,     \* field widths in bytes: sizeof(u8), sizeof(u16), ...
  ByteBase,   \* bytes range over 0..ByteBase-1
  Images,     \* contents the I/O layer may have read into the pages
  SetValues(_) \* values the callers store in a field of a given width

ASSUME PageSize \in Nat \ {0} /\ NumPages \in Nat \ {0}
\* the two-page split handles any width only when a field spans <= 2 pages
ASSUME \A w \in Widths : w \in 1..PageSize
\* get_eb_page_index() ignores eb->start: a block either starts a page or
\* lies inside one page
ASSUME EbStart = 0 \/ EbStart + Len <= PageSize
ASSUME EbStart + Len <= NumPages * PageSize
ASSUME Images \subseteq [0..NumPages - 1 -> [0..PageSize - 1 -> 0..ByteBase - 1]]

VARIABLES
  pages,   \* pages[i][b]: byte b of eb->pages[i]
  token,   \* struct apfs_map_token: the page kaddr points into, and offset
  call     \* the accessor call last made, with the value set or returned

vars == <<pages, token, call>>

Abs == INSTANCE FlatMemory
         WITH mem <- [o \in 0..Len - 1 |->
                        pages[(EbStart + o) \div PageSize][(EbStart + o) % PageSize]]

Byte == Abs!Byte
Call(fn, w, mo, v) == Abs!Call(fn, w, mo, v)
PageIds == 0..NumPages - 1
InPage == 0..PageSize - 1

(* get_eb_page_index() and get_eb_offset_in_page().                        *)
PageIndex(mo) == mo \div PageSize
OffsetInPage(mo) == (EbStart + mo) % PageSize

(* check_setget_bounds(): the member and its last byte lie inside the eb.  *)
CheckSetgetBounds(mo, size) ==
  /\ ~(mo > Len)
  /\ ~(mo + size > Len)

TokenAt(idx) == [page |-> idx, offset |-> idx * PageSize]

(* Fault variant: the fast path tests only the end of the field.         *)
TokenHitEndOnly(tok, size, mo) ==
  mo + size <= tok.offset + PageSize

(* The token fast path: the field lies in the page range the token holds.  *)
TokenHit(tok, size, mo) ==
  /\ tok.offset <= mo
  /\ mo + size <= tok.offset + PageSize

(* lebytes[] of a field that straddles pages idx and idx + 1.              *)
Straddle(idx, oip, size) ==
  LET part == PageSize - oip
  IN [k \in 0..size - 1 |-> IF k < part THEN pages[idx][oip + k]
                                        ELSE pages[idx + 1][k - part]]

(* Fault variant: the bytes stored are not truncated to 8 bits.          *)
PutLeUntruncated(pg, from, v, k0, n) ==
  [b \in InPage |-> IF b >= from /\ b < from + n
                    THEN v \div ByteBase^(k0 + b - from) ELSE pg[b]]

(* put_unaligned_le of bytes k0..k0+n-1 of v at page bytes from..from+n-1. *)
PutLe(pg, from, v, k0, n) ==
  [b \in InPage |-> IF b >= from /\ b < from + n
                    THEN Abs!LeByte(v, k0 + b - from) ELSE pg[b]]

(* Both pages written by a straddling set.                                 *)
PutStraddle(idx, oip, size, v) ==
  LET part == PageSize - oip
  IN [pages EXCEPT ![idx] = PutLe(@, oip, v, 0, part),
                   ![idx + 1] = PutLe(@, 0, v, part, size - part)]

-----------------------------------------------------------------------------

(* apfs_init_map_token(): the token starts on the first page.              *)
InitMapToken ==
  /\ token' = TokenAt(0)
  /\ UNCHANGED <<pages, call>>

(* apfs_get_N(): one page or the lebytes[] merge of two.                   *)
Get(size, mo) ==
  LET idx == PageIndex(mo)
      oip == OffsetInPage(mo)
  IN /\ CheckSetgetBounds(mo, size)
     /\ call' = Call("get", size, mo,
                      IF oip + size <= PageSize
                      THEN Abs!LeValue(pages[idx], oip, size)
                      ELSE Abs!LeValue(Straddle(idx, oip, size), 0, size))
     /\ UNCHANGED <<pages, token>>

(* apfs_get_token_N(): the cached page if the field lies in it; else the   *)
(* token moves to the field's page, and to the next one on a straddle.     *)
GetToken(size, mo) ==
  LET idx == PageIndex(mo)
      oip == OffsetInPage(mo)
  IN /\ CheckSetgetBounds(mo, size)
     /\ CASE TokenHit(token, size, mo) ->
               /\ call' = Call("get", size, mo, Abs!LeValue(pages[token.page], oip, size))
               /\ UNCHANGED token
          [] oip + size <= PageSize ->
               /\ call' = Call("get", size, mo, Abs!LeValue(pages[idx], oip, size))
               /\ token' = TokenAt(idx)
          [] OTHER ->
               /\ call' = Call("get", size, mo,
                                Abs!LeValue(Straddle(idx, oip, size), 0, size))
               /\ token' = TokenAt(idx + 1)
     /\ UNCHANGED pages

(* apfs_set_N().                                                           *)
Set(size, mo, val) ==
  LET idx == PageIndex(mo)
      oip == OffsetInPage(mo)
  IN /\ CheckSetgetBounds(mo, size)
     /\ pages' = IF oip + size <= PageSize
                 THEN [pages EXCEPT ![idx] = PutLe(@, oip, val, 0, size)]
                 ELSE PutStraddle(idx, oip, size, val)
     /\ call' = Call("set", size, mo, val)
     /\ UNCHANGED token

(* apfs_set_token_N().                                                     *)
SetToken(size, mo, val) ==
  LET idx == PageIndex(mo)
      oip == OffsetInPage(mo)
  IN /\ CheckSetgetBounds(mo, size)
     /\ CASE TokenHit(token, size, mo) ->
               /\ pages' = [pages EXCEPT ![token.page] = PutLe(@, oip, val, 0, size)]
               /\ UNCHANGED token
          [] oip + size <= PageSize ->
               /\ pages' = [pages EXCEPT ![idx] = PutLe(@, oip, val, 0, size)]
               /\ token' = TokenAt(idx)
          [] OTHER ->
               /\ pages' = PutStraddle(idx, oip, size, val)
               /\ token' = TokenAt(idx + 1)
     /\ call' = Call("set", size, mo, val)

-----------------------------------------------------------------------------

(* The I/O layer hands over a populated block; a token is set up.          *)
Init ==
  /\ pages \in Images
  /\ token = TokenAt(0)
  /\ call = Call("none", 0, 0, 0)

Next ==
  \/ InitMapToken
  \/ \E w \in Widths, mo \in 0..Len - 1 :
       \/ Get(w, mo)
       \/ GetToken(w, mo)
       \/ \E v \in SetValues(w) : Set(w, mo, v) \/ SetToken(w, mo, v)

Spec == Init /\ [][Next]_vars

-----------------------------------------------------------------------------

TypeOK ==
  /\ pages \in [PageIds -> [InPage -> Byte]]
  /\ token \in [page : PageIds, offset : Nat]
  /\ call \in [fn : {"none", "get", "set"}, w : Nat, mo : Nat, val : Nat]

(* Round trip and token equivalence: every get, with or without a token,   *)
(* returns the little-endian value of the field's bytes in the block, and  *)
(* every set changes exactly those bytes, whatever accesses went before    *)
(* and wherever they left the token.                                       *)
FlatRefinement == Abs!Spec
=============================================================================
