------------------------------- MODULE Pmman -------------------------------
(***************************************************************************)
(* The physical page allocator, kernel/pmman.c, with the bit operations of *)
(* include/bitstring.h it is built from.                                   *)
(*                                                                         *)
(* CPU 0 builds the segment list and reserves the kernel image while it is *)
(* alone (kernel_entry, main.c:39-41).  After smp_bootstrap every core     *)
(* calls pm_alloc, which takes no lock: its scan tests one bit at a time   *)
(* and bit_set is a load of one byte followed by a store of that byte, so  *)
(* these are separate actions here.                                        *)
(*                                                                         *)
(* Addresses are kept as page numbers: every address the code keeps is     *)
(* rounded to a page by rounddown2 or roundup2, which PageDown and PageUp  *)
(* stand for.  A bitmap is the set of the indices of its set bits.         *)
(***************************************************************************)
EXTENDS Integers, FiniteSets, Sequences

CONSTANTS
  Cpus,          \* the cores that call pm_alloc
  PageSize,      \* PAGESIZE
  BitsPerByte,   \* width of a bitstr_t: 8 in the code
  SegmentArgs,   \* the arguments pm_add_segment may be called with
  ReserveArgs,   \* the arguments pm_reserve may be called with
  Sizes,         \* sizes, in bytes, pm_alloc is called with
  MaxCalls       \* bound: calls of pm_alloc one core makes

PageDown(addr) == addr \div PageSize
PageUp(addr)   == (addr + PageSize - 1) \div PageSize

(* Number of pages a request is rounded to. *)
NPages(size) == PageUp(size)

(* Number of bytes of a bitmap of n bits. *)
bitstr_size(n) == (n + BitsPerByte - 1) \div BitsPerByte

SameByte(i, j) == i \div BitsPerByte = j \div BitsPerByte

ASSUME CpusAssumption == Cpus # {}

ASSUME GeometryAssumption ==
  /\ PageSize \in Nat \ {0}
  /\ BitsPerByte \in Nat \ {0}
  /\ MaxCalls \in Nat

(* No caller asks for an empty run: a size of 0 is outside the contract.   *)
ASSUME SizesAssumption == \A size \in Sizes : NPages(size) \in Nat \ {0}

(* The assertion of pm_add_segment holds of every call. *)
ASSUME SegmentAssumption ==
  \A a \in SegmentArgs :
    /\ PageDown(a.start) \in Int
    /\ PageUp(a.end) \in Int
    /\ PageDown(a.start) < PageUp(a.end)

(* A reservation covers at least one whole page, else last < first in      *)
(* pm_reserve_from: main.c:41 reserves from 0 to _brk_limit, which the     *)
(* linker script aligns to a page.                                         *)
ASSUME ReserveAssumption ==
  \A a \in ReserveArgs :
    /\ PageDown(a.start) \in Int
    /\ PageDown(a.end) \in Int
    /\ PageUp(a.end) \in Int
    /\ PageDown(a.start) < PageDown(a.end)
    /\ PageDown(a.end) <= PageUp(a.end)

-----------------------------------------------------------------------------

VARIABLES
  seglist,   \* the segments: first page and number of pages of each
  bitmap,    \* per segment, the bits set in its bitmap
  reserved,  \* history: the arguments of the calls of pm_reserve done
  phase,     \* "boot", then "smp"; "panic" when pm_reserve has panicked
  pc,        \* where each core is in pm_alloc
  npages,    \* its locals: pages asked for,
  seg,       \*   the segment of TAILQ_FOREACH,
  bit,       \*   the bit being tested (scan) or set (bit_nset),
  count,     \*   the length of the run of clear bits before bit,
  idx,       \*   the first bit of the run found,
  byte,      \*   the bits of the byte bit_set has loaded
  calls,     \* history: calls of pm_alloc per core
  grants     \* history: runs of pages pm_alloc has returned

bootVars  == <<seglist, reserved, phase>>
localVars == <<npages, seg, bit, count, idx, byte>>
vars      == <<seglist, bitmap, reserved, phase, pc, npages, seg, bit,
               count, idx, byte, calls, grants>>

Segs == 1..Len(seglist)

Segment == [first : Int, npages : Nat \ {0}]

TypeOK ==
  /\ seglist \in Seq(Segment)
  /\ bitmap \in [Segs -> SUBSET Nat]
  /\ reserved \subseteq ReserveArgs
  /\ phase \in {"boot", "smp", "panic"}
  /\ pc \in [Cpus -> {"idle", "scan", "load", "store"}]
  /\ npages \in [Cpus -> Nat]
  /\ seg \in [Cpus -> Nat]
  /\ bit \in [Cpus -> Nat]
  /\ count \in [Cpus -> Nat]
  /\ idx \in [Cpus -> Nat]
  /\ byte \in [Cpus -> SUBSET Nat]
  /\ calls \in [Cpus -> 0..MaxCalls]
  /\ grants \subseteq [cpu : Cpus, call : Nat, seg : Nat, idx : Nat, npages : Nat]

(* pm_init, and no call of pm_alloc in progress. *)
Init ==
  /\ seglist = <<>>
  /\ bitmap = [s \in {} |-> {}]
  /\ reserved = {}
  /\ phase = "boot"
  /\ pc = [c \in Cpus |-> "idle"]
  /\ npages = [c \in Cpus |-> 0]
  /\ seg = [c \in Cpus |-> 0]
  /\ bit = [c \in Cpus |-> 0]
  /\ count = [c \in Cpus |-> 0]
  /\ idx = [c \in Cpus |-> 0]
  /\ byte = [c \in Cpus |-> {}]
  /\ calls = [c \in Cpus |-> 0]
  /\ grants = {}

-----------------------------------------------------------------------------
(* Boot: CPU 0 alone.                                                      *)

NewSegment(a) == [first  |-> PageDown(a.start),
                  npages |-> PageUp(a.end) - PageDown(a.start)]

PagesOf(sg) == sg.first .. (sg.first + sg.npages - 1)

(* The caller names memory no segment has yet. *)
pm_add_segment(a) ==
  /\ phase = "boot"
  /\ \A s \in Segs : PagesOf(NewSegment(a)) \cap PagesOf(seglist[s]) = {}
  /\ seglist' = Append(seglist, NewSegment(a))
  /\ bitmap' = [s \in 1..Len(seglist) + 1 |->
                  IF s \in Segs THEN bitmap[s] ELSE {}]
  /\ UNCHANGED <<reserved, phase, pc, localVars, calls, grants>>

(* Variants: without the last page, and one bit too low. *)
ReserveBitsShort(s, a) ==
  (PageDown(a.start) - seglist[s].first) .. (PageDown(a.end) - seglist[s].first - 2)
ReserveBitsLow(s, a) ==
  (PageDown(a.start) - seglist[s].first - 1) .. (PageDown(a.end) - seglist[s].first - 1)

(* The bits first..last pm_reserve_from computes. *)
ReserveBits(s, a) ==
  (PageDown(a.start) - seglist[s].first) .. (PageDown(a.end) - seglist[s].first - 1)

(* pm_reserve_from returns true: the range is inside segment s, all clear. *)
CanReserveFrom(s, a) ==
  /\ PageDown(a.start) >= seglist[s].first
  /\ PageUp(a.end) <= seglist[s].first + seglist[s].npages
  /\ ReserveBits(s, a) \cap bitmap[s] = {}

pm_reserve(a) ==
  /\ phase = "boot"
  /\ \E s \in Segs :
       /\ CanReserveFrom(s, a)
       /\ \A t \in 1..(s - 1) : ~CanReserveFrom(t, a)
       /\ bitmap' = [bitmap EXCEPT ![s] = @ \cup ReserveBits(s, a)]
  /\ reserved' = reserved \cup {a}
  /\ UNCHANGED <<seglist, phase, pc, localVars, calls, grants>>

pm_reserve_panic(a) ==
  /\ phase = "boot"
  /\ \A s \in Segs : ~CanReserveFrom(s, a)
  /\ phase' = "panic"
  /\ UNCHANGED <<seglist, bitmap, reserved, pc, localVars, calls, grants>>

(* kernel_entry goes on to smp_bootstrap. *)
EndBoot ==
  /\ phase = "boot"
  /\ phase' = "smp"
  /\ UNCHANGED <<seglist, bitmap, reserved, pc, localVars, calls, grants>>

-----------------------------------------------------------------------------
(* pm_alloc on core c.                                                     *)

pm_alloc(c, size) ==
  /\ phase = "smp"
  /\ pc[c] = "idle"
  /\ calls[c] < MaxCalls
  /\ pc' = [pc EXCEPT ![c] = "scan"]
  /\ npages' = [npages EXCEPT ![c] = NPages(size)]
  /\ seg' = [seg EXCEPT ![c] = 1]
  /\ bit' = [bit EXCEPT ![c] = 0]
  /\ count' = [count EXCEPT ![c] = 0]
  /\ calls' = [calls EXCEPT ![c] = @ + 1]
  /\ UNCHANGED <<bootVars, bitmap, idx, byte, grants>>

(* Variants: one bit too many, and one too few. *)
ScanGoesTooFar(c) ==
  /\ seg[c] \in Segs
  /\ bit[c] <= seglist[seg[c]].npages
  /\ count[c] < npages[c]

ScanStopsEarly(c) ==
  /\ seg[c] \in Segs
  /\ bit[c] < seglist[seg[c]].npages - 1
  /\ count[c] < npages[c]

(* The condition of the loop of bit_find_nclear. *)
ScanGoesOn(c) ==
  /\ seg[c] \in Segs
  /\ bit[c] < seglist[seg[c]].npages
  /\ count[c] < npages[c]

TestBit(c) ==
  /\ pc[c] = "scan"
  /\ ScanGoesOn(c)
  /\ count' = [count EXCEPT ![c] = IF bit[c] \in bitmap[seg[c]] THEN 0 ELSE @ + 1]
  /\ bit' = [bit EXCEPT ![c] = @ + 1]
  /\ UNCHANGED <<bootVars, bitmap, pc, npages, seg, idx, byte, calls, grants>>

(* A variant that stays on the segment. *)
NextSegmentStuck(c) ==
  /\ pc[c] = "scan"
  /\ seg[c] \in Segs
  /\ ~ScanGoesOn(c)
  /\ count[c] < npages[c]
  /\ bit' = [bit EXCEPT ![c] = 0]
  /\ count' = [count EXCEPT ![c] = 0]
  /\ UNCHANGED <<bootVars, bitmap, pc, npages, seg, idx, byte, calls, grants>>

(* bit_find_nclear returned -1: the next segment. *)
NextSegment(c) ==
  /\ pc[c] = "scan"
  /\ seg[c] \in Segs
  /\ ~ScanGoesOn(c)
  /\ count[c] < npages[c]
  /\ seg' = [seg EXCEPT ![c] = @ + 1]
  /\ bit' = [bit EXCEPT ![c] = 0]
  /\ count' = [count EXCEPT ![c] = 0]
  /\ UNCHANGED <<bootVars, bitmap, pc, npages, idx, byte, calls, grants>>

(* The list is exhausted: pm_alloc returns -1. *)
Fail(c) ==
  /\ pc[c] = "scan"
  /\ seg[c] \notin Segs
  /\ pc' = [pc EXCEPT ![c] = "idle"]
  /\ UNCHANGED <<bootVars, bitmap, localVars, calls, grants>>

(* bit_find_nclear returned bit - count. *)
Found(c) ==
  /\ pc[c] = "scan"
  /\ seg[c] \in Segs
  /\ count[c] >= npages[c]
  /\ idx' = [idx EXCEPT ![c] = bit[c] - count[c]]
  /\ bit' = [bit EXCEPT ![c] = bit[c] - count[c]]
  /\ pc' = [pc EXCEPT ![c] = "load"]
  /\ UNCHANGED <<bootVars, bitmap, npages, seg, count, byte, calls, grants>>

(* Variants of the bound below. *)
LastBitShort(c) == idx[c] + npages[c] - 2
LastBitLong(c)  == idx[c] + npages[c] + 1

(* The bound of bit_nset(seg->bitmap, idx, idx + npages), inclusive. *)
LastBit(c) == idx[c] + npages[c]

LoadByte(c) ==
  /\ pc[c] = "load"
  /\ bit[c] <= LastBit(c)
  /\ byte' = [byte EXCEPT ![c] = {b \in bitmap[seg[c]] : SameByte(b, bit[c])}]
  /\ pc' = [pc EXCEPT ![c] = "store"]
  /\ UNCHANGED <<bootVars, bitmap, npages, seg, bit, count, idx, calls, grants>>

StoreByte(c) ==
  /\ pc[c] = "store"
  /\ bitmap' = [bitmap EXCEPT ![seg[c]] =
                  {b \in @ : ~SameByte(b, bit[c])} \cup byte[c] \cup {bit[c]}]
  /\ bit' = [bit EXCEPT ![c] = @ + 1]
  /\ pc' = [pc EXCEPT ![c] = "load"]
  /\ UNCHANGED <<bootVars, npages, seg, count, idx, byte, calls, grants>>

(* The run pm_alloc of core c has found. *)
RunOf(c) == [cpu |-> c, call |-> calls[c], seg |-> seg[c],
             idx |-> idx[c], npages |-> npages[c]]

Return(c) ==
  /\ pc[c] = "load"
  /\ bit[c] > LastBit(c)
  /\ grants' = grants \cup {RunOf(c)}
  /\ pc' = [pc EXCEPT ![c] = "idle"]
  /\ UNCHANGED <<bootVars, bitmap, localVars, calls>>

AllocStep(c) ==
  \/ TestBit(c)
  \/ NextSegment(c)
  \/ Fail(c)
  \/ Found(c)
  \/ LoadByte(c)
  \/ StoreByte(c)
  \/ Return(c)

Next ==
  \/ \E a \in SegmentArgs : pm_add_segment(a)
  \/ \E a \in ReserveArgs : pm_reserve(a) \/ pm_reserve_panic(a)
  \/ EndBoot
  \/ \E c \in Cpus : \/ \E size \in Sizes : pm_alloc(c, size)
                     \/ AllocStep(c)

Spec == Init /\ [][Next]_vars

(* A core that is in pm_alloc keeps executing it. *)
FairSpec == Spec /\ \A c \in Cpus : WF_vars(AllocStep(c))

-----------------------------------------------------------------------------
(* Runs of pages, by page number.                                          *)

(* The runs promised to callers: returned, or being marked. *)
Runs == grants \cup {RunOf(c) : c \in {d \in Cpus : pc[d] \in {"load", "store"}}}

RunBits(g)  == g.idx .. (g.idx + g.npages - 1)
RunPages(g) == {seglist[g.seg].first + i : i \in RunBits(g)}

(* The whole pages of the ranges pm_reserve was called with. *)
ReservedPages == UNION {PageDown(a.start) .. (PageDown(a.end) - 1) : a \in reserved}

(* No core is ever handed a page of a range pm_reserve was given (the      *)
(* kernel image, its stacks and heap), however many cores race in pm_alloc:*)
(* bit_set loses marks of racing cores, but never one made during boot.    *)
ReservedNeverGranted == \A g \in Runs : RunPages(g) \cap ReservedPages = {}

(* Every run lies inside the segment it was found in (bit_find_nclear's    *)
(* bounds, and bit - count), under any interleaving.                       *)
GrantsInsideSegment ==
  \A g \in Runs : g.seg \in Segs /\ RunBits(g) \subseteq 0..(seglist[g.seg].npages - 1)

Accounted(s, b) ==
  \/ seglist[s].first + b \in ReservedPages
  \/ \E g \in Runs : g.seg = s /\ b \in g.idx .. (g.idx + g.npages)

(* A bit is set only because its page was reserved, is in a run, or is the *)
(* one bit_nset marks after a run: the stale byte a racing core stores     *)
(* brings no other bit with it.                                            *)
MarksAccounted == \A s \in Segs : \A b \in bitmap[s] : Accounted(s, b)

(* As long as one core allocates, no two runs share a page. *)
GrantsDisjoint == \A g, h \in Runs : g # h => RunPages(g) \cap RunPages(h) = {}

(* One core allocating: pm_alloc takes the first run that fits, in the     *)
(* first segment that has one (bit_find_nclear starts at bit 0).           *)
FirstFit ==
  [][\A c \in Cpus : pc[c] = "scan" /\ pc'[c] = "load" =>
       \A s \in 1..seg[c] :
         \A i \in 0..(seglist[s].npages - npages[c]) :
           (s < seg[c] \/ i < idx'[c]) =>
             (i .. (i + npages[c] - 1)) \cap bitmap[s] # {}]_vars

(* pm_alloc always returns, whatever the other cores do to the bitmap. *)
AllocReturns == \A c \in Cpus : pc[c] # "idle" ~> pc[c] = "idle"

=============================================================================
