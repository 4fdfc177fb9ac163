------------------------------ MODULE MCPmman ------------------------------
(***************************************************************************)
(* Instances of the page allocator for TLC.  One core: two segments, of 6  *)
(* and 3 pages of 4 bytes, whose bitmaps do not fill their last byte in    *)
(* the same way, and requests that round up to 1 and 2 pages.              *)
(***************************************************************************)
EXTENDS PmmanRefinement

Range(start, end) == [start |-> start, end |-> end]

(* The second range is not page aligned: 33..43 is rounded to 32..44. *)
TwoSegments == {Range(0, 24), Range(33, 43)}
(* The image at the bottom of memory, and a range that overlaps it. *)
TwoReserves == {Range(0, 8), Range(4, 12)}
TwoSizes    == {3, 5}
AllFrames   == 0..10

(* The memory map of main.c: one segment from 0 up, whose pages fill the   *)
(* last byte of the bitmap, with the image at its bottom.                  *)
OneSegment  == {Range(0, 24)}
KernelImage == {Range(0, 8)}

=============================================================================
