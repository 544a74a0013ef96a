------------------------------ MODULE MC_ApfsBuf ------------------------------
(***************************************************************************)
(* Instances of ApfsBuf for TLC.  A page is two sectors and a bio holds at *)
(* most two pages.                                                         *)
(*                                                                         *)
(* Within the envelope the code is written for (page-aligned requests of   *)
(* at most BIO_MAX_VECS pages: one bio per submit) and beyond it: a        *)
(* request that needs a second bio, and a start address inside a page.     *)
(***************************************************************************)
EXTENDS ApfsBuf

MCPageSectors == 2
MCBioMaxVecs == 2
MCIoErrs == {-5}
MCWaits == {TRUE, FALSE}

\* page-aligned requests of one to four sectors: one bio each
MCAlignedBytenrs == {0, 2}
MCOneBioSizes == {1, 2, 3, 4}

\* a six-sector request needs three pages: two bios
MCMultiBioSizes == {6}

\* page-aligned and unaligned starts together
MCAnyBytenrs == {0, 1, 2}

\* a start address in the middle of a page
MCUnalignedBytenrs == {1}
MCUnalignedSizes == {2}
=============================================================================
