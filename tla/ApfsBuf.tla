------------------------------- MODULE ApfsBuf -------------------------------
(***************************************************************************)
(* The raw block I/O buffer of src/apfs_buf.c: a caller allocates an       *)
(* apfs_buf, initialises it for one request (byte address, size), fills    *)
(* its page array and submits it.  apfs_buf_ioapply() cuts the request     *)
(* into bios of at most BioMaxVecs pages; every bio completes on its own,  *)
(* concurrently with the submitter, in apfs_buf_bio_end_io().  The         *)
(* submitter holds one count of io_remaining; a completion that sees       *)
(* io_remaining = 1 copies io_errors into error and signals io_wait, on    *)
(* which a synchronous submitter sleeps.                                   *)
(*                                                                         *)
(* Sizes and offsets are in 512-byte sectors: the request address is       *)
(* sector aligned (bno = bytenr >> 9 is exact) and a page holds            *)
(* PageSectors sectors.                                                    *)
(***************************************************************************)
EXTENDS Naturals, Sequences, SequencesExt

CONSTANTS
  PageSectors,  \* PAGE_SIZE / 512
  BioMaxVecs,   \* BIO_MAX_VECS: pages one bio can hold (bio_max_segs)
  Bytenrs,      \* request start addresses, in sectors
  Sizes,        \* request sizes, in sectors (after ALIGN(size, 512))
  Waits,        \* values of the 'wait' argument callers pass
  IoErrs        \* errnos blk_status_to_errno() can give a failed bio

ASSUME PageSectors \in Nat \ {0} /\ BioMaxVecs \in Nat \ {0}
ASSUME Bytenrs \subseteq Nat /\ Sizes \subseteq Nat \ {0}
ASSUME Waits \subseteq BOOLEAN /\ Waits # {}
ASSUME \A e \in IoErrs : e < 0

EIO == -5
ENOMEM == -12

VARIABLES
  pc,            \* where the submitting thread is
  bp,            \* the fields apfs_buf_init() sets: offset, len, page_count, bno
  wait,          \* the 'wait' argument of the current apfs_buf_submit()
  io_remaining,  \* atomic_t io_remaining
  io_errors,     \* first error a bio reported (cmpxchg from 0)
  error,         \* bp->error, what apfs_buf_submit() returns
  done,          \* the count of struct completion io_wait
  loop,          \* locals of apfs_buf_ioapply(): page_index, offset, size,
                 \* sector, total_nr_pages, nr_pages
  cur,           \* sectors added to the bio being built
  bios,          \* bios of the current submit: start, sectors, state, status
  pages,         \* bp->pages: whether the array is allocated, and how many of
                 \* its entries, a prefix, hold a page
  ret            \* value the last apfs_buf_submit() returned

vars == <<pages, pc, bp, wait, io_remaining, io_errors, error, done, loop, cur,
          bios, ret>>

BioStates == {"flight", "dec", "done"}

DivRoundUp(a, b) == (a + b - 1) \div b

(* bio_max_segs(): a bio holds at most BIO_MAX_VECS pages.                 *)
BioMaxSegs(n) == IF n < BioMaxVecs THEN n ELSE BioMaxVecs

-----------------------------------------------------------------------------
(* Caller side: apfs_buf_alloc(), apfs_buf_init(), apfs_buf_alloc_pages(), *)
(* apfs_buf_submit() and apfs_buf_free().                                  *)

Init ==
  /\ pc = "idle"
  /\ bp = [offset |-> 0, len |-> 0, page_count |-> 0, bno |-> 0]
  /\ wait = FALSE
  /\ io_remaining = 0
  /\ io_errors = 0
  /\ error = 0
  /\ done = 0
  /\ loop = [page_index |-> 0, offset |-> 0, size |-> 0, sector |-> 0,
             total |-> 0, nr_pages |-> 0]
  /\ cur = 0
  /\ bios = <<>>
  /\ pages = [array |-> FALSE, filled |-> 0]
  /\ ret = 0

(* apfs_buf_alloc(): kmalloc the buffer and init_completion(io_wait).      *)
BufAlloc ==
  /\ pc = "idle"
  /\ pc' = "alloced"
  /\ done' = 0
  /\ UNCHANGED <<pages, bp, wait, io_remaining, io_errors, error, loop, cur, bios, ret>>

(* apfs_buf_init(): offset in page, length, page count and start sector.   *)
BufInit(bytenr, size) ==
  /\ pc = "alloced"
  /\ pc' = "inited"
  /\ bp' = [offset |-> bytenr % PageSectors, len |-> size,
            page_count |-> DivRoundUp(size, PageSectors), bno |-> bytenr]
  /\ UNCHANGED <<pages, wait, io_remaining, io_errors, error, done, loop, cur, bios, ret>>

(* apfs_buf_alloc_pages(): recompute page_count and kcalloc the page     *)
(* array; if that fails, return -ENOMEM with bp->pages NULL.              *)
BufAllocPageArray ==
  /\ pc = "inited"
  /\ bp' = [bp EXCEPT !.page_count = DivRoundUp(bp.len, PageSectors)]
  /\ \/ pages' = [array |-> TRUE, filled |-> 0] /\ pc' = "filling"
     \/ UNCHANGED pages /\ pc' = "nomem"
  /\ UNCHANGED <<wait, io_remaining, io_errors, error, done, loop, cur, bios, ret>>

(* Fault variant: the loop stops as soon as a call brought a page.      *)
BulkFillAnyProgress(k) ==
  /\ pc = "filling"
  /\ k \in 0..(bp.page_count - pages.filled)
  /\ pages' = [pages EXCEPT !.filled = @ + k]
  /\ pc' = IF k > 0 \/ pages.filled + k = bp.page_count THEN "ready" ELSE "filling"
  /\ UNCHANGED <<bp, wait, io_remaining, io_errors, error, done, loop, cur, bios, ret>>

(* One turn of the bulk filling loop: alloc_pages_bulk_array() puts k    *)
(* pages into the empty entries, in order, and returns how many entries *)
(* hold a page.  All of them: break, return 0.  Otherwise call again,    *)
(* after congestion_wait() if the call brought none.                     *)
BulkFill(k) ==
  /\ pc = "filling"
  /\ k \in 0..(bp.page_count - pages.filled)
  /\ pages' = [pages EXCEPT !.filled = @ + k]
  /\ pc' = IF pages.filled + k = bp.page_count THEN "ready" ELSE "filling"
  /\ UNCHANGED <<bp, wait, io_remaining, io_errors, error, done, loop, cur, bios, ret>>

(* apfs_buf_ioapply() prologue: skip whole pages before the start offset.  *)
IoApplyStart ==
  [page_index |-> bp.offset \div PageSectors,
   offset     |-> bp.offset % PageSectors,
   size       |-> bp.len,
   sector     |-> bp.bno,
   total      |-> bp.page_count,
   nr_pages   |-> 0]

(* Fault variant: the submitter does not take its own count.            *)
BufSubmitNoRef(w) ==
  /\ pc = "ready"
  /\ pc' = "next_chunk"
  /\ wait' = w
  /\ error' = 0
  /\ io_errors' = 0
  /\ io_remaining' = 0
  /\ loop' = IoApplyStart
  /\ bios' = <<>>
  /\ UNCHANGED <<pages, bp, done, cur, ret>>

(* apfs_buf_submit(): clear the errors, take the submitter's count of      *)
(* io_remaining and enter apfs_buf_ioapply().                              *)
BufSubmit(w) ==
  /\ pc = "ready"
  /\ pc' = "next_chunk"
  /\ wait' = w
  /\ error' = 0
  /\ io_errors' = 0
  /\ io_remaining' = 1
  /\ loop' = IoApplyStart
  /\ bios' = <<>>
  /\ UNCHANGED <<pages, bp, done, cur, ret>>

(* apfs_buf_free(): apfs_buf_free_pages() frees the pages of the         *)
(* page_count entries and the array, then the buffer is freed; the       *)
(* caller may start over.                                                 *)
BufFree ==
  /\ pc = "returned"
  /\ pc' = "idle"
  /\ pages' = [array |-> FALSE, filled |-> 0]
  /\ UNCHANGED <<bp, wait, io_remaining, io_errors, error, done, loop, cur,
                 bios, ret>>

-----------------------------------------------------------------------------
(* Submitter inside apfs_buf_ioapply().                                    *)

(* next_chunk: take a count for the new bio and size it.                   *)
NextChunk ==
  /\ pc = "next_chunk"
  /\ pc' = "add_page"
  /\ io_remaining' = io_remaining + 1
  /\ loop' = [loop EXCEPT !.nr_pages = BioMaxSegs(loop.total)]
  /\ cur' = 0
  /\ UNCHANGED <<pages, bp, wait, io_errors, error, done, bios, ret>>

(* One turn of the bio_add_page() loop.  The bio was allocated with        *)
(* nr_pages vectors and the loop adds at most nr_pages pages, so           *)
(* bio_add_page() never returns short and the 'break' is not taken.        *)
AddPage ==
  /\ pc = "add_page"
  /\ loop.size > 0 /\ loop.nr_pages > 0
  /\ LET nbytes == IF PageSectors - loop.offset > loop.size
                   THEN loop.size ELSE PageSectors - loop.offset
     IN /\ cur' = cur + nbytes
        /\ loop' = [loop EXCEPT !.offset = 0,
                                !.sector = @ + nbytes,
                                !.size = @ - nbytes,
                                !.total = @ - 1,
                                !.nr_pages = @ - 1,
                                !.page_index = @ + 1]
  /\ UNCHANGED <<pages, pc, bp, wait, io_remaining, io_errors, error, done, bios, ret>>

(* The loop ends when the request or the bio's vectors run out; a bio      *)
(* with data is submitted, and if data is left the submitter goes back to  *)
(* next_chunk.                                                             *)
SubmitBio ==
  /\ pc = "add_page"
  /\ loop.size = 0 \/ loop.nr_pages = 0
  /\ cur > 0
  /\ bios' = Append(bios, [start |-> loop.sector - cur, sectors |-> cur,
                           state |-> "flight", status |-> 0])
  /\ pc' = IF loop.size > 0 THEN "next_chunk" ELSE "applied"
  /\ UNCHANGED <<pages, bp, wait, io_remaining, io_errors, error, done, loop, cur, ret>>

(* A bio with no data is dropped: its count is returned and the buffer is  *)
(* marked -EIO; apfs_buf_ioapply() returns without another chunk.          *)
EmptyBio ==
  /\ pc = "add_page"
  /\ loop.size = 0 \/ loop.nr_pages = 0
  /\ cur = 0
  /\ io_remaining' = io_remaining - 1
  /\ error' = EIO
  /\ pc' = "applied"
  /\ UNCHANGED <<pages, bp, wait, io_errors, done, loop, cur, bios, ret>>

(* Back in apfs_buf_submit(): a synchronous caller sleeps on io_wait.      *)
WaitForCompletion ==
  /\ pc = "applied"
  /\ wait
  /\ done > 0
  /\ done' = done - 1
  /\ pc' = "waited"
  /\ UNCHANGED <<pages, bp, wait, io_remaining, io_errors, error, loop, cur, bios, ret>>

(* An asynchronous apfs_buf_submit() returns bp->error at once.            *)
SubmitAsync ==
  /\ pc = "applied"
  /\ ~wait
  /\ ret' = error
  /\ pc' = "async"
  /\ UNCHANGED <<pages, bp, wait, io_remaining, io_errors, error, done, loop, cur, bios>>

(* Fault variant: the wait does not block until io_wait is completed.   *)
BufIoWaitNoBlock ==
  /\ pc = "async"
  /\ done' = done - 1
  /\ pc' = "waited"
  /\ UNCHANGED <<pages, bp, wait, io_remaining, io_errors, error, loop, cur, bios, ret>>

(* apfs_buf_iowait(): the owner of an asynchronous submit sleeps on        *)
(* io_wait before it uses the pages.                                       *)
BufIoWait ==
  /\ pc = "async"
  /\ done > 0
  /\ done' = done - 1
  /\ pc' = "waited"
  /\ UNCHANGED <<pages, bp, wait, io_remaining, io_errors, error, loop, cur, bios, ret>>

(* After the wait: return bp->error, read once the sleeper has woken.      *)
ReturnError ==
  /\ pc = "waited"
  /\ ret' = error
  /\ pc' = "returned"
  /\ UNCHANGED <<pages, bp, wait, io_remaining, io_errors, error, done, loop, cur, bios>>

-----------------------------------------------------------------------------
(* apfs_buf_bio_end_io(), run by the block layer for bio i, in two steps:  *)
(* record the status and drop the bio's count; then, if the count read     *)
(* back is 1, publish io_errors as the buffer's error and complete.        *)

EndIoDec(i, status) ==
  /\ bios[i].state = "flight"
  /\ io_errors' = IF status # 0 /\ io_errors = 0 THEN status ELSE io_errors
  /\ io_remaining' = io_remaining - 1
  /\ bios' = [bios EXCEPT ![i].state = "dec", ![i].status = status]
  /\ UNCHANGED <<pages, pc, bp, wait, error, done, loop, cur, ret>>

(* Fault variant: the completion does not publish io_errors.            *)
EndIoCheckNoError(i) ==
  /\ bios[i].state = "dec"
  /\ IF io_remaining = 1
     THEN done' = done + 1
     ELSE UNCHANGED done
  /\ bios' = [bios EXCEPT ![i].state = "done"]
  /\ UNCHANGED <<pages, pc, bp, wait, io_remaining, io_errors, error, loop, cur, ret>>

EndIoCheck(i) ==
  /\ bios[i].state = "dec"
  /\ IF io_remaining = 1
     THEN /\ error' = io_errors
          /\ done' = done + 1
     ELSE UNCHANGED <<pages, error, done>>
  /\ bios' = [bios EXCEPT ![i].state = "done"]
  /\ UNCHANGED <<pages, pc, bp, wait, io_remaining, io_errors, loop, cur, ret>>

-----------------------------------------------------------------------------

Submitter ==
  \/ NextChunk \/ AddPage \/ SubmitBio \/ EmptyBio
  \/ WaitForCompletion \/ SubmitAsync \/ BufIoWait \/ ReturnError

Caller ==
  \/ BufAlloc
  \/ \E b \in Bytenrs, s \in Sizes : BufInit(b, s)
  \/ BufAllocPageArray
  \/ \E w \in Waits : BufSubmit(w)
  \/ BufFree

BioEnd ==
  \E i \in DOMAIN bios :
    \/ \E s \in {0} \cup IoErrs : EndIoDec(i, s)
    \/ EndIoCheck(i)

(* The caller's thread inside the filling loop of apfs_buf_alloc_pages(). *)
Filler == \E k \in 0..bp.page_count : BulkFill(k)

Next == Caller \/ Filler \/ Submitter \/ BioEnd

(* The submitting thread keeps running (and the owner of an asynchronous   *)
(* submit goes on to wait for it) and the block layer completes every bio  *)
(* it was given; the caller is not obliged to issue requests.              *)
Fairness == WF_vars(Submitter) /\ WF_vars(BioEnd)

Spec == Init /\ [][Next]_vars /\ Fairness

-----------------------------------------------------------------------------

TypeOK ==
  /\ pc \in {"idle", "alloced", "inited", "filling", "nomem", "ready", "next_chunk", "add_page",
             "applied", "async", "waited", "returned"}
  /\ bp \in [offset : Nat, len : Nat, page_count : Nat, bno : Nat]
  /\ wait \in BOOLEAN
  /\ io_remaining \in Int
  /\ io_errors \in {0} \cup IoErrs
  /\ error \in {0, EIO} \cup IoErrs
  /\ done \in Nat
  /\ cur \in Nat
  /\ \A i \in DOMAIN bios : bios[i].state \in BioStates
  /\ ret \in {0, EIO} \cup IoErrs
  /\ pages \in [array : BOOLEAN, filled : 0..bp.page_count]

SectorsOf(bs) == FoldLeft(LAMBDA acc, b : acc + b.sectors, 0, bs)

(* Once the wait on io_wait is over, every bio the submit issued has run   *)
(* apfs_buf_bio_end_io(): otherwise the caller reads pages still under     *)
(* I/O and may apfs_buf_free() a buffer a completion will still touch.     *)
ReturnedIoComplete ==
  pc \in {"waited", "returned"} => \A i \in DOMAIN bios : bios[i].state = "done"

(* A wait on the buffer that returns 0 means the whole request was moved:  *)
(* its bios succeeded and cover bp->len sectors from bno on, back to back. *)
SuccessMeansFullTransfer ==
  pc = "returned" /\ ret = 0 =>
    /\ \A i \in DOMAIN bios : bios[i].status = 0
    /\ SectorsOf(bios) = bp.len
    /\ \A i \in DOMAIN bios :
         bios[i].start = bp.bno + SectorsOf(SubSeq(bios, 1, i - 1))

(* Every submit is eventually followed by a return from the wait on       *)
(* io_wait: the completion is signalled by some apfs_buf_bio_end_io().     *)
WaitTerminates == (pc = "applied") ~> (pc = "returned")

(* The two properties above, for requests that start on a page boundary   *)
(* (bp->offset = 0), the case the code is written for.                    *)
AlignedSuccessMeansFullTransfer ==
  bp.offset = 0 => SuccessMeansFullTransfer

AlignedWaitTerminates ==
  (pc = "applied" /\ bp.offset = 0) ~> (pc = "returned")

(* Every page apfs_buf_ioapply() hands to bio_add_page() is an entry of  *)
(* the array that apfs_buf_alloc_pages() filled: bp->pages[page_index] is *)
(* neither past the array nor NULL, for unaligned starts too, where the   *)
(* request needs one page more than page_count counts.                    *)
PagesUsedAllocated ==
  pc = "add_page" /\ loop.size > 0 /\ loop.nr_pages > 0 =>
    pages.array /\ loop.page_index < pages.filled

=============================================================================
