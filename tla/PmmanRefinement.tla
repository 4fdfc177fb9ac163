-------------------------- MODULE PmmanRefinement --------------------------
(***************************************************************************)
(* With one core allocating at a time, the bit-by-bit allocator of Pmman   *)
(* implements FrameOwnership: the call takes effect when the scan ends.    *)
(***************************************************************************)
EXTENDS Pmman

CONSTANT Frames   \* the page numbers of every segment

(* The abstract allocator knows every page, and runs as long as any asked  *)
(* for.                                                                    *)
ASSUME FramesAssumption ==
  /\ IsFiniteSet(Frames) /\ Frames \subseteq Int
  /\ \A a \in SegmentArgs : PagesOf(NewSegment(a)) \subseteq Frames
  /\ \A size \in Sizes : NPages(size) <= Cardinality(Frames)

(* The bits the core is about to set, the one after the run included. *)
Claimed(s) ==
  UNION {idx[c] .. LastBit(c) :
           c \in {d \in Cpus : pc[d] \in {"load", "store"} /\ seg[d] = s}}

FreePages(s) ==
  {seglist[s].first + b : b \in 0..(seglist[s].npages - 1) \ (bitmap[s] \cup Claimed(s))}

Abstract == INSTANCE FrameOwnership WITH
  Clients  <- Cpus,
  MaxPages <- Cardinality(Frames),
  segments <- {PagesOf(seglist[s]) : s \in Segs},
  free     <- UNION {FreePages(s) : s \in Segs},
  pending  <- [c \in Cpus |-> IF pc[c] = "scan" THEN npages[c] ELSE 0],
  owner    <- [c \in Cpus |-> UNION {RunPages(g) : g \in {h \in Runs : h.cpu = c}}]

(* Every step of pm_add_segment, pm_reserve and pm_alloc is a step the     *)
(* abstract allocator allows, or is invisible to it: frames are granted    *)
(* whole, consecutive and free, and refused only when there are none.      *)
ImplementsFrameOwnership == Abstract!Spec

(* Nothing granted is granted again, and nothing owned is left free. *)
OwnershipExclusive == Abstract!OwnershipExclusive

=============================================================================
