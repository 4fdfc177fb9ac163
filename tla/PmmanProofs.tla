---------------------------- MODULE PmmanProofs ----------------------------
(***************************************************************************)
(* Proofs about the page allocator, for any segments, any sequence of      *)
(* calls and, but for the theorems that assume OneCore, any number of      *)
(* racing cores.                                                           *)
(***************************************************************************)
EXTENDS PmmanRefinement, FiniteSetTheorems, TLAPS

(* The bits of segment s whose page was reserved. *)
ReservedBits(s) ==
  {i \in 0..(seglist[s].npages - 1) : seglist[s].first + i \in ReservedPages}

(* pm_alloc runs only after boot. *)
BootIdle == phase # "smp" => grants = {} /\ \A c \in Cpus : pc[c] = "idle"

SegmentsDisjoint ==
  \A s, t \in Segs : s # t => PagesOf(seglist[s]) \cap PagesOf(seglist[t]) = {}

ReservedInside == ReservedPages \subseteq UNION {PagesOf(seglist[s]) : s \in Segs}

(* Marks made at boot are never lost. *)
ReservedMarked == \A s \in Segs : ReservedBits(s) \subseteq bitmap[s]

(* A run handed out, or about to be. *)
RunOK(g) ==
  /\ g.seg \in Segs
  /\ g.idx + g.npages <= seglist[g.seg].npages
  /\ RunBits(g) \cap ReservedBits(g.seg) = {}

(* The locals of a core inside bit_find_nclear. *)
ScanOK(c) ==
  /\ seg[c] >= 1
  /\ count[c] <= bit[c]
  /\ count[c] <= npages[c]
  /\ seg[c] \in Segs =>
       /\ bit[c] <= seglist[seg[c]].npages
       /\ ((bit[c] - count[c]) .. (bit[c] - 1)) \cap ReservedBits(seg[c]) = {}

(* The byte a core has loaded still has the marks made at boot. *)
LoadedOK(c) ==
  /\ seg[c] \in Segs
  /\ \A i \in ReservedBits(seg[c]) : SameByte(i, bit[c]) => i \in byte[c]

CoreOK(c) ==
  /\ pc[c] = "scan" => ScanOK(c)
  /\ pc[c] \in {"load", "store"} => RunOK(RunOf(c))
  /\ pc[c] = "store" => LoadedOK(c)

(* The inductive invariant for any number of cores. *)
IInv ==
  /\ TypeOK
  /\ BootIdle
  /\ SegmentsDisjoint
  /\ ReservedInside
  /\ ReservedMarked
  /\ \A c \in Cpus : CoreOK(c)
  /\ \A g \in grants : RunOK(g)

-----------------------------------------------------------------------------
(* Facts about the data.                                                   *)

(* A segment that is added is well typed and not empty. *)
LEMMA NewSegmentType ==
  ASSUME NEW a \in SegmentArgs
  PROVE  NewSegment(a) \in Segment
BY SegmentAssumption DEF NewSegment, Segment

(* So is every segment of the list. *)
LEMMA SegmentType ==
  ASSUME TypeOK, NEW s \in Segs
  PROVE  /\ seglist[s] \in Segment
         /\ seglist[s].first \in Int
         /\ seglist[s].npages \in Nat \ {0}
<1>1. seglist \in Seq(Segment) /\ s \in 1..Len(seglist)
  BY DEF TypeOK, Segs
<1>2. seglist[s] \in Segment
  BY <1>1
<1> QED
  BY <1>2 DEF Segment

(* ReservedPages without UNION. *)
LEMMA ReservedPage ==
  ASSUME NEW p \in Int
  PROVE  p \in ReservedPages <=>
           \E a \in reserved : p \in PageDown(a.start) .. (PageDown(a.end) - 1)
BY DEF ReservedPages

(* pm_reserve adds exactly the pages of its range. *)
LEMMA ReservedPageStep ==
  ASSUME NEW a, reserved' = reserved \cup {a}
  PROVE  ReservedPages' = ReservedPages \cup (PageDown(a.start) .. (PageDown(a.end) - 1))
BY DEF ReservedPages

(* The bits pm_reserve sets are those of its pages, all of them bits of    *)
(* the segment it chose.                                                   *)
LEMMA ReserveBitsInside ==
  ASSUME NEW a \in ReserveArgs, NEW s \in Segs, TypeOK, CanReserveFrom(s, a)
  PROVE  /\ ReserveBits(s, a) \subseteq 0..(seglist[s].npages - 1)
         /\ PageDown(a.start) .. (PageDown(a.end) - 1) \subseteq PagesOf(seglist[s])
         /\ \A i \in Int : i \in ReserveBits(s, a) <=>
              seglist[s].first + i \in PageDown(a.start) .. (PageDown(a.end) - 1)
<1>1. seglist[s].first \in Int /\ seglist[s].npages \in Nat
  BY SegmentType
<1>2. PageDown(a.start) \in Int /\ PageDown(a.end) \in Int
  BY ReserveAssumption
<1>3. /\ PageDown(a.start) >= seglist[s].first
      /\ PageDown(a.end) <= seglist[s].first + seglist[s].npages
  BY <1>1, <1>2, ReserveAssumption DEF CanReserveFrom
<1> QED
  BY <1>1, <1>2, <1>3 DEF ReserveBits, PagesOf

-----------------------------------------------------------------------------
(* Type correctness.                                                       *)

LEMMA TypeStep == IInv /\ [Next]_vars => TypeOK'
<1> SUFFICES ASSUME IInv, [Next]_vars PROVE TypeOK'
  OBVIOUS
<1>0. TypeOK
  BY DEF IInv
<1>r. ASSUME NEW s \in Segs, NEW a \in ReserveArgs, CanReserveFrom(s, a)
      PROVE  ReserveBits(s, a) \subseteq Nat
  <2>1. seglist[s].npages \in Nat
    BY <1>0, SegmentType
  <2> QED
    BY <1>0, <1>r, <2>1, ReserveBitsInside
<1> USE DEF TypeOK
<1>s. seglist' = seglist => Segs' = Segs
  BY DEF Segs
<1>1. ASSUME NEW a \in SegmentArgs, pm_add_segment(a) PROVE TypeOK'
  <2>1. seglist' \in Seq(Segment) /\ Segs' = 1..Len(seglist) + 1
    BY <1>0, <1>1, NewSegmentType DEF pm_add_segment, Segs
  <2>2. bitmap' \in [Segs' -> SUBSET Nat]
    BY <1>0, <1>1, <2>1 DEF pm_add_segment
  <2> QED
    BY <1>0, <1>1, <2>1, <2>2 DEF pm_add_segment, localVars
<1>2. ASSUME NEW a \in ReserveArgs, pm_reserve(a) PROVE TypeOK'
  <2>1. PICK s \in Segs : /\ CanReserveFrom(s, a)
                          /\ bitmap' = [bitmap EXCEPT ![s] = @ \cup ReserveBits(s, a)]
    BY <1>2 DEF pm_reserve
  <2>2. ReserveBits(s, a) \subseteq Nat
    BY <1>2, <2>1, <1>r
  <2>3. bitmap' \in [Segs -> SUBSET Nat]
    BY <1>0, <2>1, <2>2
  <2> QED
    BY <1>0, <1>2, <1>s, <2>3 DEF pm_reserve, localVars
<1>3. ASSUME NEW a \in ReserveArgs, pm_reserve_panic(a) PROVE TypeOK'
  BY <1>0, <1>3, <1>s DEF pm_reserve_panic, localVars
<1>4. CASE EndBoot
  BY <1>0, <1>4, <1>s DEF EndBoot, localVars
<1>5. ASSUME NEW c \in Cpus, NEW size \in Sizes, pm_alloc(c, size) PROVE TypeOK'
  BY <1>0, <1>5, <1>s, SizesAssumption, GeometryAssumption DEF pm_alloc, bootVars
<1>6. ASSUME NEW c \in Cpus, TestBit(c) PROVE TypeOK'
  <2>1. bit' \in [Cpus -> Nat]
    BY <1>0, <1>6 DEF TestBit
  <2>2. count' \in [Cpus -> Nat]
    BY <1>0, <1>6 DEF TestBit
  <2> QED
    BY <1>0, <1>6, <1>s, <2>1, <2>2 DEF TestBit, bootVars
<1>7. ASSUME NEW c \in Cpus, NextSegment(c) PROVE TypeOK'
  BY <1>0, <1>7, <1>s DEF NextSegment, bootVars
<1>8. ASSUME NEW c \in Cpus, Fail(c) PROVE TypeOK'
  BY <1>0, <1>8, <1>s DEF Fail, bootVars, localVars
<1>9. ASSUME NEW c \in Cpus, Found(c) PROVE TypeOK'
  <2>1. bit[c] - count[c] \in Nat
    BY <1>0, <1>9 DEF IInv, CoreOK, ScanOK, Found
  <2> QED
    BY <1>0, <1>9, <1>s, <2>1 DEF Found, bootVars
<1>10. ASSUME NEW c \in Cpus, LoadByte(c) PROVE TypeOK'
  <2>1. seg[c] \in Segs
    BY <1>0, <1>10 DEF IInv, CoreOK, RunOK, RunOf, LoadByte
  <2>2. {b \in bitmap[seg[c]] : SameByte(b, bit[c])} \in SUBSET Nat
    BY <1>0, <2>1
  <2> QED
    BY <1>0, <1>10, <1>s, <2>2 DEF LoadByte, bootVars
<1>11. ASSUME NEW c \in Cpus, StoreByte(c) PROVE TypeOK'
  <2>1. ASSUME NEW B \in SUBSET Nat
        PROVE  {b \in B : ~SameByte(b, bit[c])} \cup byte[c] \cup {bit[c]} \in SUBSET Nat
    BY <1>0
  <2>2. bitmap' \in [Segs -> SUBSET Nat]
    BY <1>0, <1>11, <2>1 DEF StoreByte
  <2> QED
    BY <1>0, <1>11, <1>s, <2>2 DEF StoreByte, bootVars
<1>12. ASSUME NEW c \in Cpus, Return(c) PROVE TypeOK'
  <2>1. RunOf(c) \in [cpu : Cpus, call : Nat, seg : Nat, idx : Nat, npages : Nat]
    BY <1>0, GeometryAssumption DEF RunOf
  <2> QED
    BY <1>0, <1>12, <1>s, <2>1 DEF Return, bootVars, localVars
<1>13. CASE UNCHANGED vars
  BY <1>0, <1>13, <1>s DEF vars
<1> QED
  BY <1>1, <1>2, <1>3, <1>4, <1>5, <1>6, <1>7, <1>8, <1>9, <1>10, <1>11,
     <1>12, <1>13 DEF Next, AllocStep

-----------------------------------------------------------------------------
(* The rest of the invariant.                                              *)

(* What a core knows depends on its own locals, the list and the ranges.   *)
LEMMA CoreFrame ==
  ASSUME IInv, UNCHANGED <<seglist, reserved>>, NEW d \in Cpus,
         npages'[d] = npages[d], seg'[d] = seg[d], bit'[d] = bit[d],
         count'[d] = count[d], idx'[d] = idx[d], byte'[d] = byte[d],
         calls'[d] = calls[d], pc'[d] = pc[d]
  PROVE  CoreOK(d)'
BY DEF IInv, CoreOK, ScanOK, RunOK, RunOf, LoadedOK, ReservedBits, RunBits,
       ReservedPages, Segs, SameByte

(* While segments and reservations stay, what was found stays found. *)
LEMMA RunFrame ==
  ASSUME UNCHANGED <<seglist, reserved>>, NEW g, RunOK(g)
  PROVE  RunOK(g)'
BY DEF RunOK, ReservedBits, RunBits, ReservedPages, Segs

(* The parts about boot are disturbed by boot steps only. *)
LEMMA BootFrame ==
  ASSUME IInv, UNCHANGED <<seglist, reserved>>
  PROVE  /\ SegmentsDisjoint'
         /\ ReservedInside'
         /\ \A s \in Segs : ReservedBits(s)' = ReservedBits(s)
         /\ Segs' = Segs
BY DEF IInv, SegmentsDisjoint, ReservedInside, ReservedBits, ReservedPages,
       PagesOf, Segs

(* During boot no core is in pm_alloc and nothing has been granted. *)
LEMMA BootCores ==
  ASSUME IInv, phase = "boot", UNCHANGED <<pc, grants>>
  PROVE  /\ BootIdle'
         /\ \A c \in Cpus : CoreOK(c)'
         /\ \A g \in grants' : RunOK(g)'
<1>1. grants' = {} /\ \A c \in Cpus : pc'[c] = "idle"
  BY DEF IInv, BootIdle
<1> QED
  BY <1>1 DEF BootIdle, CoreOK

(* pmman_add_segment keeps the invariant. *)
LEMMA AddSegmentStep ==
  ASSUME IInv, NEW a \in SegmentArgs, pm_add_segment(a), TypeOK'
  PROVE  IInv'
<1>0. TypeOK /\ SegmentsDisjoint /\ ReservedInside /\ ReservedMarked
  BY DEF IInv
<1>n. PICK n \in Nat : n = Len(seglist) + 1
  BY <1>0 DEF TypeOK
<1>1. /\ Segs' = Segs \cup {n}
      /\ n \notin Segs
      /\ seglist'[n] = NewSegment(a)
      /\ \A s \in Segs : seglist'[s] = seglist[s]
  BY <1>0, <1>n, NewSegmentType DEF pm_add_segment, Segs, TypeOK
<1>2. \A s \in Segs : bitmap'[s] = bitmap[s]
  BY <1>0, <1>n, <1>1 DEF pm_add_segment, Segs
<1>3. ReservedPages' = ReservedPages
  BY DEF pm_add_segment, ReservedPages
<1>4. SegmentsDisjoint'
  BY <1>0, <1>1 DEF SegmentsDisjoint, pm_add_segment
<1>5. ReservedInside'
  BY <1>0, <1>1, <1>3 DEF ReservedInside, PagesOf
<1>6. ReservedBits(n)' = {}
  <2>1. NewSegment(a).first \in Int /\ NewSegment(a).npages \in Nat
    BY NewSegmentType DEF Segment
  <2>2. ASSUME NEW i \in 0..(NewSegment(a).npages - 1)
        PROVE  NewSegment(a).first + i \in PagesOf(NewSegment(a))
    BY <2>1 DEF PagesOf
  <2>3. PagesOf(NewSegment(a)) \cap ReservedPages = {}
    BY <1>0 DEF pm_add_segment, ReservedInside
  <2> QED
    BY <1>1, <1>3, <2>2, <2>3 DEF ReservedBits
<1>7. ReservedMarked'
  <2>1. \A s \in Segs : ReservedBits(s)' = ReservedBits(s)
    BY <1>1, <1>3 DEF ReservedBits
  <2> QED
    BY <1>0, <1>1, <1>2, <1>6, <2>1 DEF ReservedMarked
<1> QED
  BY <1>4, <1>5, <1>7, BootCores DEF IInv, pm_add_segment

(* pmman_reserve keeps it. *)
LEMMA ReserveStep ==
  ASSUME IInv, NEW a \in ReserveArgs, pm_reserve(a), TypeOK'
  PROVE  IInv'
<1>0. TypeOK /\ SegmentsDisjoint /\ ReservedInside /\ ReservedMarked
  BY DEF IInv
<1> DEFINE range == PageDown(a.start) .. (PageDown(a.end) - 1)
<1>1. PICK s \in Segs : /\ CanReserveFrom(s, a)
                        /\ bitmap' = [bitmap EXCEPT ![s] = @ \cup ReserveBits(s, a)]
  BY DEF pm_reserve
<1>2. ReservedPages' = ReservedPages \cup range
  BY ReservedPageStep DEF pm_reserve
<1>3. /\ range \subseteq PagesOf(seglist[s])
      /\ \A i \in Int : i \in ReserveBits(s, a) <=> seglist[s].first + i \in range
  BY <1>0, <1>1, ReserveBitsInside
<1>4. Segs' = Segs /\ seglist' = seglist
  BY DEF pm_reserve, Segs
<1>5. SegmentsDisjoint'
  BY <1>0, <1>4 DEF SegmentsDisjoint, PagesOf
<1>6. ReservedInside'
  BY <1>0, <1>2, <1>3, <1>4 DEF ReservedInside, PagesOf
<1>7. ReservedMarked'
  <2> SUFFICES ASSUME NEW t \in Segs, NEW i \in ReservedBits(t)'
               PROVE  i \in bitmap'[t]
    BY <1>4 DEF ReservedMarked
  <2>1. /\ seglist[t].first \in Int /\ seglist[t].npages \in Nat
        /\ i \in 0..(seglist[t].npages - 1)
        /\ seglist[t].first + i \in ReservedPages \cup range
    BY <1>0, <1>2, <1>4, SegmentType DEF ReservedBits
  <2>2. bitmap[t] \subseteq bitmap'[t]
    BY <1>0, <1>1 DEF TypeOK
  <2>3. CASE seglist[t].first + i \in ReservedPages
    BY <1>0, <2>1, <2>2, <2>3 DEF ReservedMarked, ReservedBits
  <2>4. CASE seglist[t].first + i \in range
    <3>1. seglist[t].first + i \in PagesOf(seglist[t])
      BY <2>1 DEF PagesOf
    <3>2. t = s
      BY <1>0, <1>3, <2>4, <3>1 DEF SegmentsDisjoint
    <3>3. i \in ReserveBits(s, a)
      BY <1>3, <2>1, <2>4, <3>2
    <3> QED
      BY <1>0, <1>1, <3>2, <3>3 DEF TypeOK
  <2> QED
    BY <2>1, <2>3, <2>4
<1> QED
  BY <1>5, <1>6, <1>7, BootCores DEF IInv, pm_reserve

(* A step of pm_alloc on core c: what is left to show is about c, and that *)
(* no mark made at boot is lost.                                           *)
LEMMA AllocFrame ==
  ASSUME IInv, TypeOK', UNCHANGED bootVars, phase = "smp", NEW c \in Cpus,
         ReservedMarked', CoreOK(c)',
         \A g \in grants' \ grants : RunOK(g),
         \A d \in Cpus \ {c} :
           /\ npages'[d] = npages[d] /\ seg'[d] = seg[d] /\ bit'[d] = bit[d]
           /\ count'[d] = count[d] /\ idx'[d] = idx[d] /\ byte'[d] = byte[d]
           /\ calls'[d] = calls[d] /\ pc'[d] = pc[d]
  PROVE  IInv'
<1>1. UNCHANGED <<seglist, reserved, phase>>
  BY DEF bootVars
<1>2. \A d \in Cpus : CoreOK(d)'
  BY <1>1, CoreFrame
<1>3. \A g \in grants' : RunOK(g)'
  BY <1>1, RunFrame DEF IInv
<1>4. BootIdle'
  BY <1>1 DEF BootIdle
<1> QED
  BY <1>1, <1>2, <1>3, <1>4, BootFrame DEF IInv

(* Where the bitmap does not change, no mark is lost. *)
LEMMA MarkedFrame ==
  ASSUME IInv, UNCHANGED <<seglist, reserved, bitmap>>
  PROVE  ReservedMarked'
BY BootFrame DEF IInv, ReservedMarked

(* The first step of pmman_alloc. *)
LEMMA AllocStarts ==
  ASSUME IInv, NEW c \in Cpus, NEW size \in Sizes, pm_alloc(c, size), TypeOK'
  PROVE  IInv'
<1>0. TypeOK
  BY DEF IInv
<1>1. /\ pc'[c] = "scan" /\ seg'[c] = 1 /\ bit'[c] = 0 /\ count'[c] = 0
      /\ npages'[c] \in Nat
  BY <1>0, SizesAssumption DEF pm_alloc, TypeOK
<1>2. UNCHANGED <<seglist, reserved, bitmap>>
  BY DEF pm_alloc, bootVars
<1>3. \A s \in Segs' : seglist'[s].npages \in Nat
  BY SegmentType, <1>0, <1>2 DEF Segs
<1>4. CoreOK(c)'
  BY <1>1, <1>2, <1>3 DEF CoreOK, ScanOK
<1> QED
  BY <1>0, <1>2, <1>4, AllocFrame, MarkedFrame DEF pm_alloc, TypeOK

(* A bit of the bitmap is tested. *)
LEMMA TestBitStep ==
  ASSUME IInv, NEW c \in Cpus, TestBit(c), TypeOK'
  PROVE  IInv'
<1>0. TypeOK /\ ScanOK(c) /\ ReservedMarked /\ phase = "smp"
  BY DEF IInv, CoreOK, TestBit, BootIdle
<1>1. /\ pc'[c] = "scan"
      /\ seg'[c] = seg[c] /\ npages'[c] = npages[c]
      /\ bit'[c] = bit[c] + 1
      /\ count'[c] = IF bit[c] \in bitmap[seg[c]] THEN 0 ELSE count[c] + 1
      /\ seg[c] \in Segs /\ bit[c] < seglist[seg[c]].npages /\ count[c] < npages[c]
      /\ UNCHANGED <<seglist, reserved, bitmap>>
  BY <1>0 DEF TestBit, ScanGoesOn, bootVars, TypeOK
<1>2. /\ bit[c] \in Nat /\ count[c] \in Nat /\ npages[c] \in Nat /\ seg[c] \in Nat
      /\ seglist[seg[c]].npages \in Nat
  BY <1>0, <1>1, SegmentType DEF TypeOK
<1>3. ReservedBits(seg[c])' = ReservedBits(seg[c])
  BY <1>1 DEF ReservedBits, ReservedPages
<1>4. ScanOK(c)'
  <2>1. CASE bit[c] \in bitmap[seg[c]]
    BY <1>0, <1>1, <1>2, <2>1 DEF ScanOK, Segs
  <2>2. CASE bit[c] \notin bitmap[seg[c]]
    <3>1. bit[c] \notin ReservedBits(seg[c])
      BY <1>0, <1>1, <2>2 DEF ReservedMarked
    <3>2. \A i \in (bit'[c] - count'[c]) .. (bit'[c] - 1) :
             i = bit[c] \/ i \in (bit[c] - count[c]) .. (bit[c] - 1)
      BY <1>1, <1>2, <2>2
    <3> QED
      BY <1>0, <1>1, <1>2, <1>3, <2>2, <3>1, <3>2 DEF ScanOK, Segs
  <2> QED
    BY <2>1, <2>2
<1>5. CoreOK(c)'
  BY <1>1, <1>4 DEF CoreOK
<1> QED
  BY <1>0, <1>1, <1>5, AllocFrame, MarkedFrame DEF TestBit, TypeOK

(* The search goes on in the next segment. *)
LEMMA NextSegmentStep ==
  ASSUME IInv, NEW c \in Cpus, NextSegment(c), TypeOK'
  PROVE  IInv'
<1>0. TypeOK /\ ScanOK(c) /\ phase = "smp"
  BY DEF IInv, CoreOK, NextSegment, BootIdle
<1>1. /\ pc'[c] = "scan" /\ seg'[c] = seg[c] + 1 /\ bit'[c] = 0 /\ count'[c] = 0
      /\ npages'[c] \in Nat /\ seg[c] \in Nat
      /\ UNCHANGED <<seglist, reserved, bitmap>>
  BY <1>0 DEF NextSegment, bootVars, TypeOK
<1>2. \A s \in Segs' : seglist'[s].npages \in Nat
  BY SegmentType, <1>0, <1>1 DEF Segs
<1>3. CoreOK(c)'
  BY <1>0, <1>1, <1>2 DEF CoreOK, ScanOK
<1> QED
  BY <1>0, <1>1, <1>3, AllocFrame, MarkedFrame DEF NextSegment, TypeOK

(* The search fails. *)
LEMMA FailStep ==
  ASSUME IInv, NEW c \in Cpus, Fail(c), TypeOK'
  PROVE  IInv'
<1>0. TypeOK /\ phase = "smp"
  BY DEF IInv, Fail, BootIdle
<1>1. pc'[c] = "idle" /\ UNCHANGED <<seglist, reserved, bitmap>>
  BY <1>0 DEF Fail, bootVars, TypeOK
<1>2. CoreOK(c)'
  BY <1>1 DEF CoreOK
<1> QED
  BY <1>0, <1>1, <1>2, AllocFrame, MarkedFrame DEF Fail, TypeOK, localVars

(* A run of pages is found. *)
LEMMA FoundStep ==
  ASSUME IInv, NEW c \in Cpus, Found(c), TypeOK'
  PROVE  IInv'
<1>0. TypeOK /\ ScanOK(c) /\ phase = "smp"
  BY DEF IInv, CoreOK, Found, BootIdle
<1>1. /\ pc'[c] = "load"
      /\ seg'[c] = seg[c] /\ npages'[c] = npages[c]
      /\ idx'[c] = bit[c] - count[c]
      /\ seg[c] \in Segs /\ count[c] >= npages[c]
      /\ UNCHANGED <<seglist, reserved, bitmap>>
  BY <1>0 DEF Found, bootVars, TypeOK
<1>2. /\ bit[c] \in Nat /\ count[c] \in Nat /\ npages[c] \in Nat
      /\ seglist[seg[c]].npages \in Nat
  BY <1>0, <1>1, SegmentType DEF TypeOK
<1>3. count[c] = npages[c] /\ bit[c] <= seglist[seg[c]].npages
  BY <1>0, <1>1, <1>2 DEF ScanOK
<1>4. RunOK(RunOf(c))'
  <2>1. ReservedBits(seg[c])' = ReservedBits(seg[c]) /\ Segs' = Segs
    BY <1>1 DEF ReservedBits, ReservedPages, Segs
  <2>2. /\ RunOf(c)'.seg = seg[c] /\ RunOf(c)'.idx = bit[c] - count[c]
        /\ RunOf(c)'.npages = npages[c]
    BY <1>1 DEF RunOf
  <2>3. RunBits(RunOf(c))' = (bit[c] - count[c]) .. (bit[c] - 1)
    BY <1>2, <1>3, <2>2 DEF RunBits
  <2> QED
    BY <1>0, <1>1, <1>2, <1>3, <2>1, <2>2, <2>3 DEF RunOK, ScanOK
<1>5. CoreOK(c)'
  BY <1>1, <1>4 DEF CoreOK
<1> QED
  BY <1>0, <1>1, <1>5, AllocFrame, MarkedFrame DEF Found, TypeOK

(* A byte of the bitmap is read. *)
LEMMA LoadByteStep ==
  ASSUME IInv, NEW c \in Cpus, LoadByte(c), TypeOK'
  PROVE  IInv'
<1>0. TypeOK /\ RunOK(RunOf(c)) /\ ReservedMarked /\ phase = "smp"
  BY DEF IInv, CoreOK, LoadByte, BootIdle
<1>1. /\ pc'[c] = "store"
      /\ seg'[c] = seg[c] /\ bit'[c] = bit[c]
      /\ byte'[c] = {b \in bitmap[seg[c]] : SameByte(b, bit[c])}
      /\ UNCHANGED <<seglist, reserved, bitmap>>
      /\ UNCHANGED <<npages, idx, calls>>
  BY <1>0 DEF LoadByte, bootVars, TypeOK
<1>2. RunOK(RunOf(c))'
  BY <1>0, <1>1, RunFrame DEF RunOf
<1>3. LoadedOK(c)'
  BY <1>0, <1>1, BootFrame DEF LoadedOK, ReservedMarked, RunOK, RunOf, SameByte
<1>4. CoreOK(c)'
  BY <1>1, <1>2, <1>3 DEF CoreOK
<1> QED
  BY <1>0, <1>1, <1>4, AllocFrame, MarkedFrame DEF LoadByte, TypeOK

(* It is written back. *)
LEMMA StoreByteStep ==
  ASSUME IInv, NEW c \in Cpus, StoreByte(c), TypeOK'
  PROVE  IInv'
<1>0. TypeOK /\ RunOK(RunOf(c)) /\ LoadedOK(c) /\ ReservedMarked /\ phase = "smp"
  BY DEF IInv, CoreOK, StoreByte, BootIdle
<1>1. /\ pc'[c] = "load"
      /\ seg' = seg /\ npages' = npages /\ idx' = idx /\ calls' = calls
      /\ UNCHANGED <<seglist, reserved>>
  BY <1>0 DEF StoreByte, bootVars, TypeOK
<1>2. /\ \A s \in Segs \ {seg[c]} : bitmap'[s] = bitmap[s]
      /\ bitmap'[seg[c]] = {b \in bitmap[seg[c]] : ~SameByte(b, bit[c])}
                             \cup byte[c] \cup {bit[c]}
  BY <1>0 DEF StoreByte, TypeOK, LoadedOK
<1>3. ReservedMarked'
  BY <1>0, <1>1, <1>2, BootFrame DEF ReservedMarked, LoadedOK
<1>4. RunOK(RunOf(c))'
  BY <1>0, <1>1, RunFrame DEF RunOf
<1>5. CoreOK(c)'
  BY <1>1, <1>4 DEF CoreOK
<1> QED
  BY <1>0, <1>1, <1>3, <1>5, AllocFrame DEF StoreByte, TypeOK

(* pmman_alloc returns. *)
LEMMA ReturnStep ==
  ASSUME IInv, NEW c \in Cpus, Return(c), TypeOK'
  PROVE  IInv'
<1>0. TypeOK /\ RunOK(RunOf(c)) /\ phase = "smp"
  BY DEF IInv, CoreOK, Return, BootIdle
<1>1. /\ pc'[c] = "idle" /\ grants' = grants \cup {RunOf(c)}
      /\ UNCHANGED <<seglist, reserved, bitmap>>
  BY <1>0 DEF Return, bootVars, TypeOK
<1>2. CoreOK(c)'
  BY <1>1 DEF CoreOK
<1> QED
  BY <1>0, <1>1, <1>2, AllocFrame, MarkedFrame DEF Return, TypeOK, localVars

(* Every step keeps the invariant. *)
LEMMA IInvStep == IInv /\ [Next]_vars => IInv'
<1> SUFFICES ASSUME IInv, [Next]_vars PROVE IInv'
  OBVIOUS
<1>0. TypeOK'
  BY TypeStep
<1>1. ASSUME NEW a \in ReserveArgs, pm_reserve_panic(a) PROVE IInv'
  BY <1>0, <1>1, BootFrame, BootCores, MarkedFrame DEF pm_reserve_panic, IInv
<1>2. CASE EndBoot
  BY <1>0, <1>2, BootFrame, BootCores, MarkedFrame DEF EndBoot, IInv
<1>3. CASE UNCHANGED vars
  <2>1. UNCHANGED <<seglist, reserved, bitmap, pc, phase, npages, seg, bit, count,
                    idx, byte, calls, grants>>
    BY <1>3 DEF vars
  <2> QED
    BY <1>0, <2>1, BootFrame, CoreFrame, RunFrame, MarkedFrame DEF IInv, BootIdle
<1> QED
  BY <1>0, <1>1, <1>2, <1>3, AddSegmentStep, ReserveStep, AllocStarts,
     TestBitStep, NextSegmentStep, FailStep, FoundStep, LoadByteStep,
     StoreByteStep, ReturnStep DEF Next, AllocStep

(* The invariant holds in every reachable state. *)
THEOREM Invariant == Spec => []IInv
<1>1. Init => IInv
  BY GeometryAssumption DEF Init, IInv, TypeOK, BootIdle, SegmentsDisjoint,
     ReservedInside, ReservedMarked, CoreOK, ReservedPages, Segs
<1> QED
  BY <1>1, IInvStep, PTL DEF Spec

(* Every reachable state is well typed. *)
THEOREM TypeCorrect == Spec => []TypeOK
BY Invariant, PTL DEF IInv

-----------------------------------------------------------------------------
(* What follows for the callers, under any interleaving of any cores.      *)

LEMMA RunsOK ==
  ASSUME IInv, NEW g \in Runs
  PROVE  RunOK(g) /\ g.idx \in Nat /\ g.npages \in Nat /\ TypeOK
<1>1. CASE g \in grants
  BY <1>1 DEF IInv, TypeOK
<1>2. CASE \E c \in Cpus : pc[c] \in {"load", "store"} /\ g = RunOf(c)
  <2>1. PICK c \in Cpus : pc[c] \in {"load", "store"} /\ g = RunOf(c)
    BY <1>2
  <2>2. g.idx = idx[c] /\ g.npages = npages[c]
    BY <2>1 DEF RunOf
  <2> QED
    BY <2>1, <2>2 DEF IInv, TypeOK, CoreOK
<1> QED
  BY <1>1, <1>2 DEF Runs

(* No core is handed a page pm_reserve was given. *)
THEOREM ReservedSafe == Spec => []ReservedNeverGranted
<1>1. IInv => ReservedNeverGranted
  <2> SUFFICES ASSUME IInv, NEW g \in Runs, NEW i \in RunBits(g)
               PROVE  seglist[g.seg].first + i \notin ReservedPages
    BY DEF ReservedNeverGranted, RunPages
  <2>1. RunOK(g) /\ g.idx \in Nat /\ g.npages \in Nat /\ TypeOK
    BY RunsOK
  <2>2. i \in 0..(seglist[g.seg].npages - 1)
    BY <2>1, SegmentType DEF RunOK, RunBits
  <2> QED
    BY <2>1, <2>2 DEF RunOK, ReservedBits
<1> QED
  BY <1>1, Invariant, PTL

(* Every run handed out lies inside a segment. *)
THEOREM GrantsInside == Spec => []GrantsInsideSegment
<1>1. IInv => GrantsInsideSegment
  <2> SUFFICES ASSUME IInv, NEW g \in Runs
               PROVE  g.seg \in Segs /\ RunBits(g) \subseteq 0..(seglist[g.seg].npages - 1)
    BY DEF GrantsInsideSegment
  <2>1. RunOK(g) /\ g.idx \in Nat /\ g.npages \in Nat /\ TypeOK
    BY RunsOK
  <2> QED
    BY <2>1, SegmentType DEF RunOK, RunBits
<1> QED
  BY <1>1, Invariant, PTL

-----------------------------------------------------------------------------
(* Where marks come from.                                                  *)

(* bit_nset is between its bounds, and what it loaded is accounted for. *)
MarkingOK(c) ==
  /\ pc[c] \in {"load", "store"} => idx[c] <= bit[c]
  /\ pc[c] = "store" => /\ bit[c] <= LastBit(c)
                        /\ \A b \in byte[c] : Accounted(seg[c], b)

MInv == MarksAccounted /\ \A c \in Cpus : MarkingOK(c)

(* A run promised stays promised: it is returned as it was found. *)
LEMMA RunsGrow ==
  ASSUME IInv, [Next]_vars
  PROVE  Runs \subseteq Runs'
<1> SUFFICES ASSUME NEW g \in Runs PROVE g \in Runs'
  OBVIOUS
<1>0. TypeOK /\ BootIdle
  BY DEF IInv
<1>1. CASE g \in grants
  BY <1>1 DEF Next, AllocStep, vars, Runs, pm_add_segment, pm_reserve,
     pm_reserve_panic, EndBoot, pm_alloc, TestBit, NextSegment, Fail, Found,
     LoadByte, StoreByte, Return
<1>2. ASSUME NEW d \in Cpus, pc[d] \in {"load", "store"}, g = RunOf(d)
      PROVE  g \in Runs'
  <2>1. phase = "smp"
    BY <1>0, <1>2 DEF BootIdle
  <2>2. ASSUME g = RunOf(d)', pc'[d] \in {"load", "store"} PROVE g \in Runs'
    BY <2>2 DEF Runs
  <2>3. CASE Return(d)
    BY <1>2, <2>3 DEF Return, Runs
  <2>4. CASE UNCHANGED vars
    BY <1>2, <2>2, <2>4 DEF vars, RunOf
  <2>5. ASSUME NEW c \in Cpus, NEW size \in Sizes, pm_alloc(c, size)
        PROVE  g \in Runs'
    BY <1>0, <1>2, <2>2, <2>5 DEF pm_alloc, RunOf, TypeOK
  <2>6. ASSUME NEW c \in Cpus, TestBit(c) \/ NextSegment(c) \/ Fail(c) \/ Found(c)
        PROVE  g \in Runs'
    <3>1. c # d
      BY <1>2, <2>6 DEF TestBit, NextSegment, Fail, Found
    <3>2. /\ calls' = calls /\ seg'[d] = seg[d] /\ idx'[d] = idx[d]
          /\ npages'[d] = npages[d] /\ pc'[d] = pc[d]
      BY <1>0, <2>6, <3>1 DEF TestBit, NextSegment, Fail, Found, localVars, TypeOK
    <3> QED
      BY <1>2, <2>2, <3>2 DEF RunOf
  <2>7. ASSUME NEW c \in Cpus, LoadByte(c) \/ StoreByte(c) PROVE g \in Runs'
    <3>1. pc'[d] \in {"load", "store"} /\ UNCHANGED <<calls, seg, idx, npages>>
      BY <1>0, <1>2, <2>7 DEF LoadByte, StoreByte, TypeOK
    <3> QED
      BY <1>2, <2>2, <3>1 DEF RunOf
  <2>8. ASSUME NEW c \in Cpus, c # d, Return(c) PROVE g \in Runs'
    <3>1. pc'[d] = pc[d] /\ UNCHANGED <<calls, seg, idx, npages>>
      BY <1>0, <2>8 DEF Return, localVars, TypeOK
    <3> QED
      BY <1>2, <2>2, <3>1 DEF RunOf
  <2> QED
    BY <2>1, <2>3, <2>4, <2>5, <2>6, <2>7, <2>8
    DEF Next, AllocStep, pm_add_segment, pm_reserve, pm_reserve_panic, EndBoot
<1> QED
  BY <1>1, <1>2 DEF Runs

(* So what is accounted for stays so. *)
LEMMA AccountedGrows ==
  ASSUME IInv, [Next]_vars, NEW s \in Segs, NEW b, Accounted(s, b)
  PROVE  Accounted(s, b)' /\ seglist'[s] = seglist[s] /\ s \in Segs'
<1>0. TypeOK
  BY DEF IInv
<1>1. ReservedPages \subseteq ReservedPages'
  <2>1. reserved \subseteq reserved'
    BY DEF Next, AllocStep, vars, bootVars, pm_add_segment, pm_reserve,
       pm_reserve_panic, EndBoot, pm_alloc, TestBit, NextSegment, Fail, Found,
       LoadByte, StoreByte, Return
  <2> QED
    BY <2>1 DEF ReservedPages
<1>2. seglist'[s] = seglist[s] /\ s \in Segs'
  <2>1. CASE \E a \in SegmentArgs : pm_add_segment(a)
    BY <1>0, <2>1, NewSegmentType DEF pm_add_segment, TypeOK, Segs
  <2>2. CASE seglist' = seglist
    BY <2>2 DEF Segs
  <2> QED
    BY <2>1, <2>2 DEF Next, AllocStep, vars, bootVars, pm_reserve,
       pm_reserve_panic, EndBoot, pm_alloc, TestBit, NextSegment, Fail, Found,
       LoadByte, StoreByte, Return
<1> QED
  BY <1>1, <1>2, RunsGrow DEF Accounted

(* Cores that did not move, and that hold a byte of an existing segment.   *)
LEMMA MarkingFrame ==
  ASSUME IInv, [Next]_vars, NEW d \in Cpus, MarkingOK(d),
         seg'[d] = seg[d], bit'[d] = bit[d], idx'[d] = idx[d],
         npages'[d] = npages[d], byte'[d] = byte[d], pc'[d] = pc[d]
  PROVE  MarkingOK(d)'
<1>1. pc[d] = "store" => seg[d] \in Segs
  BY DEF IInv, CoreOK, LoadedOK
<1> QED
  BY <1>1, AccountedGrows DEF MarkingOK, LastBit

(* A step that writes no bitmap leaves every mark accounted for. *)
LEMMA MarksFrame ==
  ASSUME IInv, MInv, [Next]_vars, UNCHANGED <<seglist, bitmap>>
  PROVE  MarksAccounted'
<1>1. \A s \in Segs : \A b \in bitmap[s] : Accounted(s, b)
  BY DEF MInv, MarksAccounted, Accounted
<1>2. \A s \in Segs' : \A b \in bitmap'[s] : Accounted(s, b)'
  BY <1>1, AccountedGrows DEF Segs
<1> QED
  BY <1>2 DEF MarksAccounted, Accounted

(* Every step keeps what is said of the marks. *)
LEMMA MInvStep ==
  ASSUME IInv, MInv, [Next]_vars
  PROVE  MInv'
<1>0. /\ TypeOK /\ BootIdle /\ \A c \in Cpus : MarkingOK(c) /\ CoreOK(c)
      /\ \A s \in Segs : \A b \in bitmap[s] : Accounted(s, b)
  BY DEF IInv, MInv, MarksAccounted, Accounted
<1>1. ASSUME NEW a \in SegmentArgs, pm_add_segment(a) PROVE MInv'
  <2>1. \A c \in Cpus : MarkingOK(c)'
    BY <1>0, <1>1, MarkingFrame DEF pm_add_segment, localVars
  <2>2. \A s \in Segs' : \A b \in bitmap'[s] : s \in Segs /\ b \in bitmap[s]
    BY <1>0, <1>1, NewSegmentType DEF pm_add_segment, TypeOK, Segs
  <2> QED
    BY <1>0, <2>1, <2>2, AccountedGrows DEF MInv, MarksAccounted, Accounted
<1>2. ASSUME NEW a \in ReserveArgs, pm_reserve(a) PROVE MInv'
  <2>1. \A c \in Cpus : MarkingOK(c)'
    BY <1>0, <1>2, MarkingFrame DEF pm_reserve, localVars
  <2>2. PICK s \in Segs : /\ CanReserveFrom(s, a)
                          /\ bitmap' = [bitmap EXCEPT ![s] = @ \cup ReserveBits(s, a)]
    BY <1>2 DEF pm_reserve
  <2>3. \A i \in ReserveBits(s, a) : seglist[s].first + i \in ReservedPages'
    <3>1. /\ seglist[s].first \in Int
          /\ PageDown(a.start) \in Int /\ PageDown(a.end) \in Int
      BY <1>0, <1>2, SegmentType, ReserveAssumption
    <3>2. \A i \in ReserveBits(s, a) : i \in Int
      BY <3>1 DEF ReserveBits
    <3>3. \A i \in ReserveBits(s, a) :
             seglist[s].first + i \in PageDown(a.start) .. (PageDown(a.end) - 1)
      BY <1>0, <1>2, <2>2, <3>2, ReserveBitsInside
    <3> QED
      BY <1>2, <3>3, ReservedPageStep DEF pm_reserve
  <2>4. \A i \in ReserveBits(s, a) : Accounted(s, i)'
    BY <1>2, <2>3 DEF Accounted, pm_reserve
  <2>5. \A t \in Segs : \A b \in bitmap'[t] :
           b \in bitmap[t] \/ (t = s /\ b \in ReserveBits(s, a))
    BY <1>0, <2>2 DEF TypeOK
  <2>6. \A t \in Segs' : \A b \in bitmap'[t] : Accounted(t, b)'
    BY <1>0, <1>2, <2>4, <2>5, AccountedGrows DEF pm_reserve, Segs
  <2> QED
    BY <2>1, <2>6 DEF MInv, MarksAccounted, Accounted
<1>3. ASSUME UNCHANGED <<seglist, bitmap, localVars, pc>> PROVE MInv'
  BY <1>0, <1>3, MarkingFrame, MarksFrame DEF MInv, localVars
<1>4. ASSUME NEW c \in Cpus, UNCHANGED <<seglist, bitmap>>, MarkingOK(c)',
             \A d \in Cpus \ {c} :
               /\ seg'[d] = seg[d] /\ bit'[d] = bit[d] /\ idx'[d] = idx[d]
               /\ npages'[d] = npages[d] /\ byte'[d] = byte[d] /\ pc'[d] = pc[d]
      PROVE  MInv'
  BY <1>0, <1>4, MarkingFrame, MarksFrame DEF MInv
<1>5. ASSUME NEW c \in Cpus, NEW size \in Sizes, pm_alloc(c, size) PROVE MInv'
  BY <1>0, <1>4, <1>5 DEF pm_alloc, bootVars, MarkingOK, TypeOK
<1>6. ASSUME NEW c \in Cpus, TestBit(c) \/ NextSegment(c) PROVE MInv'
  BY <1>0, <1>4, <1>6 DEF TestBit, NextSegment, bootVars, MarkingOK, TypeOK
<1>7. ASSUME NEW c \in Cpus, Fail(c) \/ Return(c) PROVE MInv'
  BY <1>0, <1>4, <1>7 DEF Fail, Return, bootVars, localVars, MarkingOK, TypeOK
<1>8. ASSUME NEW c \in Cpus, Found(c) PROVE MInv'
  <2>1. /\ pc'[c] = "load" /\ idx'[c] = bit[c] - count[c] /\ bit'[c] = bit[c] - count[c]
        /\ bit[c] \in Nat /\ count[c] \in Nat
    BY <1>0, <1>8 DEF Found, TypeOK
  <2>2. MarkingOK(c)'
    BY <2>1 DEF MarkingOK
  <2> QED
    BY <1>0, <1>4, <1>8, <2>2 DEF Found, bootVars, TypeOK
<1>9. ASSUME NEW c \in Cpus, LoadByte(c) PROVE MInv'
  <2>1. /\ pc'[c] = "store" /\ idx' = idx /\ bit' = bit /\ npages' = npages /\ seg' = seg
        /\ byte'[c] \subseteq bitmap[seg[c]] /\ bit[c] <= LastBit(c)
        /\ seg[c] \in Segs /\ idx[c] <= bit[c]
    BY <1>0, <1>9 DEF LoadByte, TypeOK, CoreOK, RunOK, RunOf, MarkingOK
  <2>2. \A b \in byte'[c] : Accounted(seg[c], b)'
    BY <1>0, <2>1, AccountedGrows
  <2>3. MarkingOK(c)'
    BY <2>1, <2>2 DEF MarkingOK, LastBit
  <2> QED
    BY <1>0, <1>4, <1>9, <2>3 DEF LoadByte, bootVars, TypeOK
<1>10. ASSUME NEW c \in Cpus, StoreByte(c) PROVE MInv'
  <2>1. /\ pc'[c] = "load" /\ bit'[c] = bit[c] + 1
        /\ idx' = idx /\ npages' = npages /\ seg' = seg /\ byte' = byte
        /\ idx[c] <= bit[c] /\ bit[c] <= LastBit(c)
        /\ \A b \in byte[c] : Accounted(seg[c], b)
        /\ seg[c] \in Segs /\ idx[c] \in Nat /\ bit[c] \in Nat /\ npages[c] \in Nat
        /\ UNCHANGED <<seglist>>
    BY <1>0, <1>10 DEF StoreByte, TypeOK, CoreOK, LoadedOK, MarkingOK, bootVars
  <2>2. Accounted(seg[c], bit[c])
    <3>1. RunOf(c) \in Runs
      BY <1>10 DEF StoreByte, Runs
    <3> QED
      BY <2>1, <3>1 DEF Accounted, RunOf, LastBit
  <2>3. \A s \in Segs : \A b \in bitmap'[s] :
           b \in bitmap[s] \/ (s = seg[c] /\ (b \in byte[c] \/ b = bit[c]))
    BY <1>0, <1>10 DEF StoreByte, TypeOK
  <2>4. \A s \in Segs' : \A b \in bitmap'[s] : Accounted(s, b)'
    BY <1>0, <2>1, <2>2, <2>3, AccountedGrows DEF Segs
  <2>5. MarkingOK(c)'
    BY <2>1 DEF MarkingOK
  <2>6. \A d \in Cpus \ {c} : MarkingOK(d)'
    BY <1>0, <1>10, <2>1, MarkingFrame DEF StoreByte, TypeOK
  <2> QED
    BY <2>4, <2>5, <2>6 DEF MInv, MarksAccounted, Accounted
<1> QED
  BY <1>1, <1>2, <1>3, <1>5, <1>6, <1>7, <1>8, <1>9, <1>10
  DEF Next, AllocStep, pm_reserve_panic, EndBoot, vars, localVars

(* A stale byte brings no mark that has no owner. *)
THEOREM MarksHaveOwners == Spec => []MarksAccounted
<1>1. Init => MInv
  BY DEF Init, MInv, MarksAccounted, MarkingOK, Segs
<1>2. IInv /\ MInv /\ [Next]_vars => MInv'
  BY MInvStep
<1>3. MInv => MarksAccounted
  BY DEF MInv
<1> QED
  BY <1>1, <1>2, <1>3, Invariant, PTL DEF Spec

-----------------------------------------------------------------------------
(* One core allocating at a time.                                          *)

OneCore == \A c, d \in Cpus : c = d

GrantsMarked == \A g \in grants : RunBits(g) \subseteq bitmap[g.seg]

DisjointBits(g, h) == g.seg = h.seg => RunBits(g) \cap RunBits(h) = {}

GrantsApart == \A g, h \in grants : g # h => DisjointBits(g, h)

(* The run scanned is clear; the run found is in no grant, and is marked   *)
(* up to bit; the byte loaded is up to date.                               *)
AloneOK(c) ==
  /\ pc[c] = "scan" /\ seg[c] \in Segs =>
       ((bit[c] - count[c]) .. (bit[c] - 1)) \cap bitmap[seg[c]] = {}
  /\ pc[c] \in {"load", "store"} =>
       /\ \A g \in grants : DisjointBits(RunOf(c), g)
       /\ idx[c] .. (bit[c] - 1) \subseteq bitmap[seg[c]]
  /\ pc[c] = "store" =>
       byte[c] = {b \in bitmap[seg[c]] : SameByte(b, bit[c])}

AInv == GrantsMarked /\ GrantsApart /\ \A c \in Cpus : AloneOK(c)

(* While core 0 sets up the segments nobody allocates. *)
LEMMA BootAlone ==
  ASSUME IInv, phase = "boot", UNCHANGED <<pc, grants>>
  PROVE  AInv'
<1>1. grants' = {} /\ \A c \in Cpus : pc'[c] = "idle"
  BY DEF IInv, BootIdle
<1> QED
  BY <1>1 DEF AInv, GrantsMarked, GrantsApart, AloneOK

(* Every step keeps what is said of the allocations. *)
LEMMA AInvStep ==
  ASSUME OneCore, IInv, AInv, [Next]_vars
  PROVE  AInv'
<1>0. /\ TypeOK /\ GrantsMarked /\ GrantsApart
      /\ \A c \in Cpus : AloneOK(c) /\ CoreOK(c)
      /\ \A g \in grants : RunOK(g)
  BY DEF IInv, AInv
<1>1. CASE \/ \E a \in SegmentArgs : pm_add_segment(a)
           \/ \E a \in ReserveArgs : pm_reserve(a) \/ pm_reserve_panic(a)
           \/ EndBoot
  BY <1>1, BootAlone DEF pm_add_segment, pm_reserve, pm_reserve_panic, EndBoot
<1>2. CASE UNCHANGED vars
  <2>1. GrantsMarked' /\ GrantsApart'
    BY <1>0, <1>2 DEF vars, GrantsMarked, GrantsApart, DisjointBits, RunBits
  <2>2. \A c \in Cpus : AloneOK(c)'
    BY <1>0, <1>2 DEF vars, AloneOK, DisjointBits, RunBits, RunOf, Segs, SameByte
  <2> QED
    BY <2>1, <2>2 DEF AInv
<1>3. ASSUME NEW c \in Cpus, UNCHANGED <<bitmap, grants>>, AloneOK(c)'
      PROVE  AInv'
  <2>1. \A d \in Cpus : AloneOK(d)'
    BY <1>3 DEF OneCore
  <2>2. GrantsMarked' /\ GrantsApart'
    BY <1>0, <1>3 DEF GrantsMarked, GrantsApart, DisjointBits, RunBits
  <2> QED
    BY <2>1, <2>2 DEF AInv
<1>4. ASSUME NEW c \in Cpus, NEW size \in Sizes, pm_alloc(c, size) PROVE AInv'
  BY <1>0, <1>3, <1>4 DEF pm_alloc, AloneOK, TypeOK
<1>5. ASSUME NEW c \in Cpus, TestBit(c) PROVE AInv'
  <2>1. /\ pc'[c] = "scan" /\ seg'[c] = seg[c] /\ Segs' = Segs
        /\ bit'[c] = bit[c] + 1
        /\ count'[c] = IF bit[c] \in bitmap[seg[c]] THEN 0 ELSE count[c] + 1
        /\ bit[c] \in Nat /\ count[c] \in Nat
        /\ UNCHANGED <<bitmap, grants>>
    BY <1>0, <1>5 DEF TestBit, bootVars, TypeOK, Segs
  <2>2. AloneOK(c)'
    <3>1. ((bit[c] - count[c]) .. (bit[c] - 1)) \cap bitmap[seg[c]] = {}
      BY <1>0, <1>5 DEF TestBit, ScanGoesOn, AloneOK
    <3>2. CASE bit[c] \in bitmap[seg[c]]
      BY <2>1, <3>2 DEF AloneOK
    <3>3. CASE bit[c] \notin bitmap[seg[c]]
      <4>1. \A i \in (bit'[c] - count'[c]) .. (bit'[c] - 1) :
               i = bit[c] \/ i \in (bit[c] - count[c]) .. (bit[c] - 1)
        BY <2>1, <3>3
      <4> QED
        BY <2>1, <3>1, <3>3, <4>1 DEF AloneOK
    <3> QED
      BY <3>2, <3>3
  <2> QED
    BY <1>3, <2>1, <2>2
<1>6. ASSUME NEW c \in Cpus, NextSegment(c) PROVE AInv'
  <2>1. /\ pc'[c] = "scan" /\ bit'[c] = 0 /\ count'[c] = 0
        /\ UNCHANGED <<bitmap, grants>>
    BY <1>0, <1>6 DEF NextSegment, TypeOK
  <2>2. AloneOK(c)'
    BY <2>1 DEF AloneOK
  <2> QED
    BY <1>3, <2>1, <2>2
<1>7. ASSUME NEW c \in Cpus, Fail(c) PROVE AInv'
  BY <1>0, <1>3, <1>7 DEF Fail, AloneOK, TypeOK
<1>8. ASSUME NEW c \in Cpus, Found(c) PROVE AInv'
  <2>1. /\ pc'[c] = "load" /\ seg'[c] = seg[c] /\ npages'[c] = npages[c]
        /\ idx'[c] = bit[c] - count[c] /\ bit'[c] = bit[c] - count[c]
        /\ bit[c] \in Nat /\ count[c] \in Nat /\ npages[c] \in Nat
        /\ count[c] = npages[c]
        /\ ((bit[c] - count[c]) .. (bit[c] - 1)) \cap bitmap[seg[c]] = {}
        /\ UNCHANGED <<bitmap, grants>>
    BY <1>0, <1>8 DEF Found, TypeOK, AloneOK, CoreOK, ScanOK
  <2>2. /\ RunOf(c)'.seg = seg[c]
        /\ RunBits(RunOf(c))' = (bit[c] - count[c]) .. (bit[c] - 1)
    BY <2>1 DEF RunOf, RunBits
  <2>3. \A g \in grants' : DisjointBits(RunOf(c), g)'
    BY <1>0, <2>1, <2>2 DEF DisjointBits, GrantsMarked, RunBits
  <2>4. idx'[c] .. (bit'[c] - 1) = {}
    BY <2>1
  <2>5. AloneOK(c)'
    BY <2>1, <2>3, <2>4 DEF AloneOK
  <2> QED
    BY <1>3, <2>1, <2>5
<1>9. ASSUME NEW c \in Cpus, LoadByte(c) PROVE AInv'
  <2>1. /\ pc'[c] = "store" /\ UNCHANGED <<bitmap, grants, seg, idx, npages, bit, calls>>
        /\ byte'[c] = {b \in bitmap[seg[c]] : SameByte(b, bit[c])}
    BY <1>0, <1>9 DEF LoadByte, TypeOK
  <2>2. AloneOK(c)'
    BY <1>0, <1>9, <2>1 DEF AloneOK, LoadByte, DisjointBits, RunOf, RunBits, SameByte
  <2> QED
    BY <1>3, <2>1, <2>2
<1>10. ASSUME NEW c \in Cpus, StoreByte(c) PROVE AInv'
  <2>1. /\ pc'[c] = "load" /\ UNCHANGED <<grants, seg, idx, npages, calls, seglist>>
        /\ bit'[c] = bit[c] + 1 /\ bit[c] \in Nat /\ idx[c] \in Nat
        /\ seg[c] \in Segs
        /\ byte[c] = {b \in bitmap[seg[c]] : SameByte(b, bit[c])}
    BY <1>0, <1>10 DEF StoreByte, TypeOK, AloneOK, CoreOK, LoadedOK, bootVars
  <2>2. bitmap' = [bitmap EXCEPT ![seg[c]] = @ \cup {bit[c]}]
    BY <1>0, <1>10, <2>1 DEF StoreByte, TypeOK
  <2>3. GrantsMarked' /\ GrantsApart'
    BY <1>0, <2>1, <2>2 DEF GrantsMarked, GrantsApart, DisjointBits, RunBits, TypeOK,
       RunOK
  <2>4. idx[c] .. (bit[c] - 1) \subseteq bitmap[seg[c]]
    BY <1>0, <1>10 DEF StoreByte, AloneOK
  <2>5. idx'[c] .. (bit'[c] - 1) \subseteq bitmap'[seg[c]]
    BY <1>0, <2>1, <2>2, <2>4 DEF TypeOK
  <2>6. AloneOK(c)'
    BY <1>0, <1>10, <2>1, <2>5 DEF AloneOK, StoreByte, DisjointBits, RunOf, RunBits
  <2> QED
    BY <2>3, <2>6 DEF AInv, OneCore
<1>11. ASSUME NEW c \in Cpus, Return(c) PROVE AInv'
  <2>1. /\ pc'[c] = "idle" /\ grants' = grants \cup {RunOf(c)}
        /\ bitmap' = bitmap
        /\ bit[c] > idx[c] + npages[c]
        /\ bit[c] \in Nat /\ idx[c] \in Nat /\ npages[c] \in Nat
        /\ \A g \in grants : DisjointBits(RunOf(c), g)
        /\ idx[c] .. (bit[c] - 1) \subseteq bitmap[seg[c]]
    BY <1>0, <1>11 DEF Return, TypeOK, AloneOK, LastBit
  <2>2. RunBits(RunOf(c)) \subseteq bitmap[RunOf(c).seg]
    BY <2>1 DEF RunOf, RunBits
  <2>3. GrantsMarked' /\ GrantsApart'
    BY <1>0, <2>1, <2>2 DEF GrantsMarked, GrantsApart, DisjointBits, RunBits
  <2>4. AloneOK(c)'
    BY <2>1 DEF AloneOK
  <2> QED
    BY <2>3, <2>4 DEF AInv, OneCore
<1> QED
  BY <1>1, <1>2, <1>4, <1>5, <1>6, <1>7, <1>8, <1>9, <1>10, <1>11
  DEF Next, AllocStep

(* With one core allocating, no two runs share a page. *)
THEOREM GrantsNeverOverlap ==
  ASSUME OneCore
  PROVE  Spec => []GrantsDisjoint
<1>1. Init => AInv
  BY DEF Init, AInv, GrantsMarked, GrantsApart, AloneOK
<1>2. IInv /\ AInv /\ [Next]_vars => AInv'
  BY AInvStep
<1>3. IInv /\ AInv => GrantsDisjoint
  <2> SUFFICES ASSUME IInv, AInv, NEW g \in Runs, NEW h \in Runs, g # h
               PROVE  RunPages(g) \cap RunPages(h) = {}
    BY DEF GrantsDisjoint
  <2>0. TypeOK /\ SegmentsDisjoint
    BY DEF IInv
  <2>1. DisjointBits(g, h)
    <3>1. CASE g \in grants /\ h \in grants
      BY <3>1 DEF AInv, GrantsApart
    <3>2. ASSUME NEW c \in Cpus, pc[c] \in {"load", "store"}, NEW f \in grants
          PROVE  DisjointBits(RunOf(c), f) /\ DisjointBits(f, RunOf(c))
      BY <3>2 DEF AInv, AloneOK, DisjointBits
    <3>3. ASSUME NEW c \in Cpus, NEW d \in Cpus PROVE RunOf(c) = RunOf(d)
      BY DEF OneCore
    <3> QED
      BY <3>1, <3>2, <3>3 DEF Runs
  <2>2. /\ g.seg \in Segs /\ h.seg \in Segs
        /\ \A i \in RunBits(g) : i \in 0..(seglist[g.seg].npages - 1)
        /\ \A i \in RunBits(h) : i \in 0..(seglist[h.seg].npages - 1)
    BY RunsOK, SegmentType DEF RunOK, RunBits
  <2>3. SUFFICES ASSUME NEW i \in RunBits(g), NEW j \in RunBits(h),
                        seglist[g.seg].first + i = seglist[h.seg].first + j
                 PROVE  FALSE
    BY DEF RunPages
  <2>4. /\ seglist[g.seg].first + i \in PagesOf(seglist[g.seg])
        /\ seglist[h.seg].first + j \in PagesOf(seglist[h.seg])
        /\ seglist[g.seg].first \in Int
    BY <2>0, <2>2, SegmentType DEF PagesOf
  <2>5. g.seg = h.seg
    BY <2>0, <2>2, <2>3, <2>4 DEF SegmentsDisjoint
  <2>6. i = j
    BY <2>2, <2>3, <2>4, <2>5
  <2> QED
    BY <2>1, <2>3, <2>5, <2>6 DEF DisjointBits
<1> QED
  BY <1>1, <1>2, <1>3, Invariant, PTL DEF Spec

-----------------------------------------------------------------------------
(* Nothing that fits is passed over.                                       *)

(* No n consecutive bits of segment s are clear. *)
NoFit(s, n) ==
  \A i \in 0..(seglist[s].npages - n) : (i .. (i + n - 1)) \cap bitmap[s] # {}

(* What the scan has left behind holds no run that fits. *)
ScannedOK(c) ==
  pc[c] = "scan" =>
    /\ npages[c] > 0
    /\ \A s \in Segs : s < seg[c] => NoFit(s, npages[c])
    /\ seg[c] \in Segs =>
         \A i \in 0..(seglist[seg[c]].npages - npages[c]) :
           i < bit[c] - count[c] => (i .. (i + npages[c] - 1)) \cap bitmap[seg[c]] # {}

(* One core: as long as it scans, the bitmap stays as it is. *)
LEMMA ScannedStep ==
  ASSUME OneCore, IInv, \A c \in Cpus : ScannedOK(c), [Next]_vars
  PROVE  \A c \in Cpus : ScannedOK(c)'
<1>0. TypeOK /\ BootIdle /\ \A c \in Cpus : CoreOK(c)
  BY DEF IInv
<1>1. CASE \/ \E a \in SegmentArgs : pm_add_segment(a)
           \/ \E a \in ReserveArgs : pm_reserve(a) \/ pm_reserve_panic(a)
           \/ EndBoot
  <2>1. \A c \in Cpus : pc'[c] = "idle"
    BY <1>0, <1>1 DEF BootIdle, pm_add_segment, pm_reserve, pm_reserve_panic, EndBoot
  <2> QED
    BY <2>1 DEF ScannedOK
<1>2. CASE UNCHANGED vars
  BY <1>2 DEF vars, ScannedOK, NoFit, Segs
<1>3. ASSUME NEW c \in Cpus, ScannedOK(c)' PROVE \A d \in Cpus : ScannedOK(d)'
  BY <1>3 DEF OneCore
<1>4. ASSUME NEW c \in Cpus, pc'[c] # "scan" PROVE \A d \in Cpus : ScannedOK(d)'
  BY <1>3, <1>4 DEF ScannedOK
<1>5. ASSUME NEW c \in Cpus, NEW size \in Sizes, pm_alloc(c, size)
      PROVE  \A d \in Cpus : ScannedOK(d)'
  <2>1. /\ npages'[c] > 0 /\ seg'[c] = 1 /\ bit'[c] - count'[c] = 0
    BY <1>0, <1>5, SizesAssumption DEF pm_alloc, TypeOK
  <2>2. ScannedOK(c)'
    BY <2>1 DEF ScannedOK, Segs
  <2> QED
    BY <1>3, <2>2
<1>6. ASSUME NEW c \in Cpus, TestBit(c) PROVE \A d \in Cpus : ScannedOK(d)'
  <2>1. /\ pc[c] = "scan" /\ seg'[c] = seg[c] /\ npages'[c] = npages[c]
        /\ bit'[c] = bit[c] + 1
        /\ count'[c] = IF bit[c] \in bitmap[seg[c]] THEN 0 ELSE count[c] + 1
        /\ seg[c] \in Segs /\ count[c] < npages[c]
        /\ bit[c] \in Nat /\ count[c] \in Nat /\ npages[c] \in Nat
        /\ UNCHANGED <<bitmap, seglist>>
    BY <1>0, <1>6 DEF TestBit, ScanGoesOn, bootVars, TypeOK
  <2>2. /\ npages[c] > 0
        /\ \A s \in Segs : s < seg[c] => NoFit(s, npages[c])
        /\ \A i \in 0..(seglist[seg[c]].npages - npages[c]) :
             i < bit[c] - count[c] => (i .. (i + npages[c] - 1)) \cap bitmap[seg[c]] # {}
    BY <2>1 DEF ScannedOK
  <2>3. \A i \in 0..(seglist[seg[c]].npages - npages[c]) :
          i < bit'[c] - count'[c] => (i .. (i + npages[c] - 1)) \cap bitmap[seg[c]] # {}
    <3>1. CASE bit[c] \notin bitmap[seg[c]]
      BY <2>1, <2>2, <3>1
    <3>2. CASE bit[c] \in bitmap[seg[c]]
      <4> SUFFICES ASSUME NEW i \in 0..(seglist[seg[c]].npages - npages[c]), i <= bit[c],
                          i >= bit[c] - count[c]
                   PROVE  bit[c] \in i .. (i + npages[c] - 1)
        BY <2>1, <2>2, <3>2
      <4> QED
        BY <2>1
    <3> QED
      BY <3>1, <3>2
  <2>4. ScannedOK(c)'
    BY <2>1, <2>2, <2>3 DEF ScannedOK, NoFit, Segs
  <2> QED
    BY <1>3, <2>4
<1>7. ASSUME NEW c \in Cpus, NextSegment(c) PROVE \A d \in Cpus : ScannedOK(d)'
  <2>0. /\ seg[c] \in Segs /\ seg[c] \in Nat /\ bit[c] \in Nat /\ count[c] \in Nat
        /\ npages[c] \in Nat
    BY <1>0, <1>7 DEF NextSegment, TypeOK
  <2>5. seglist[seg[c]].npages \in Nat
    BY <1>0, <2>0, SegmentType
  <2>6. bit[c] >= seglist[seg[c]].npages /\ count[c] < npages[c]
    BY <1>7, <2>0, <2>5 DEF NextSegment, ScanGoesOn
  <2>1. /\ pc[c] = "scan" /\ seg'[c] = seg[c] + 1 /\ npages'[c] = npages[c]
        /\ bit'[c] = 0 /\ count'[c] = 0 /\ seg[c] \in Segs /\ count[c] < npages[c]
        /\ bit[c] >= seglist[seg[c]].npages
        /\ seg[c] \in Nat /\ bit[c] \in Nat /\ count[c] \in Nat /\ npages[c] \in Nat
        /\ seglist[seg[c]].npages \in Nat
        /\ UNCHANGED <<bitmap, seglist>>
    BY <1>0, <1>7, <2>0, <2>5, <2>6 DEF NextSegment, bootVars, TypeOK
  <2>2. NoFit(seg[c], npages[c])
    BY <2>1 DEF ScannedOK, NoFit
  <2>3. \A s \in Segs : s < seg'[c] => NoFit(s, npages[c])
    BY <2>1, <2>2 DEF ScannedOK, Segs
  <2>4. ScannedOK(c)'
    BY <2>1, <2>3 DEF ScannedOK, NoFit, Segs
  <2> QED
    BY <1>3, <2>4
<1>8. ASSUME NEW c \in Cpus,
             Fail(c) \/ Found(c) \/ LoadByte(c) \/ StoreByte(c) \/ Return(c)
      PROVE  \A d \in Cpus : ScannedOK(d)'
  BY <1>0, <1>4, <1>8 DEF Fail, Found, LoadByte, StoreByte, Return, TypeOK
<1> QED
  BY <1>1, <1>2, <1>5, <1>6, <1>7, <1>8 DEF Next, AllocStep

(* The invariant of one core allocating at a time. *)
SInv == IInv /\ MInv /\ AInv /\ \A c \in Cpus : ScannedOK(c)

(* It holds of every state of one core. *)
THEOREM OneCoreInvariant ==
  ASSUME OneCore
  PROVE  Spec => []SInv
<1> DEFINE S == MInv /\ AInv /\ \A c \in Cpus : ScannedOK(c)
<1>1. Init => S
  BY DEF Init, MInv, MarksAccounted, MarkingOK, Segs, AInv, GrantsMarked, GrantsApart, AloneOK,
     ScannedOK
<1>2. IInv /\ S /\ [Next]_vars => S'
  BY MInvStep, AInvStep, ScannedStep
<1>3. SInv <=> IInv /\ S
  BY DEF SInv
<1> QED
  BY <1>1, <1>2, <1>3, Invariant, PTL DEF Spec

(* pm_alloc takes the first run that fits, in the first segment that has   *)
(* one.                                                                    *)
THEOREM FirstFitTaken ==
  ASSUME OneCore
  PROVE  Spec => FirstFit
<1> DEFINE A == \A c \in Cpus : pc[c] = "scan" /\ pc'[c] = "load" =>
       \A s \in 1..seg[c] :
         \A i \in 0..(seglist[s].npages - npages[c]) :
           (s < seg[c] \/ i < idx'[c]) =>
             (i .. (i + npages[c] - 1)) \cap bitmap[s] # {}
<1>1. ASSUME SInv, [Next]_vars PROVE [A]_vars
  <2>0. TypeOK
    BY <1>1 DEF SInv, IInv
  <2>1. SUFFICES ASSUME Next, NEW c \in Cpus, pc[c] = "scan", pc'[c] = "load"
                 PROVE  \A s \in 1..seg[c] :
                          \A i \in 0..(seglist[s].npages - npages[c]) :
                            (s < seg[c] \/ i < idx'[c]) =>
                              (i .. (i + npages[c] - 1)) \cap bitmap[s] # {}
    BY <1>1
  <2>2. Found(c)
    <3>1. ASSUME NEW d \in Cpus PROVE d = c
      BY <1>1 DEF OneCore
    <3> QED
      BY <2>0, <2>1, <3>1 DEF Next, AllocStep, pm_add_segment, pm_reserve, pm_reserve_panic, EndBoot,
         pm_alloc, TestBit, NextSegment, Fail, LoadByte, StoreByte, Return, TypeOK
  <2>3. seg[c] \in Segs /\ idx'[c] = bit[c] - count[c] /\ seg[c] \in Nat
    BY <2>0, <2>2 DEF Found, TypeOK
  <2> QED
    BY <1>1, <2>1, <2>3 DEF SInv, ScannedOK, NoFit, Segs
<1>2. FirstFit <=> [][A]_vars
  BY DEF FirstFit
<1> QED
  BY <1>1, <1>2, OneCoreInvariant, PTL DEF Spec

-----------------------------------------------------------------------------
(* One core implements FrameOwnership: what the abstract allocator sees.   *)

SegmentSets == {PagesOf(seglist[s]) : s \in Segs}
Free        == UNION {FreePages(s) : s \in Segs}
Pending     == [c \in Cpus |-> IF pc[c] = "scan" THEN npages[c] ELSE 0]
Owner       == [c \in Cpus |-> UNION {RunPages(g) : g \in {h \in Runs : h.cpu = c}}]

(* Every page of a segment is a frame. *)
Framed == \A s \in Segs : PagesOf(seglist[s]) \subseteq Frames

(* The bits claimed are those of the core's run and the one after it. *)
LEMMA ClaimedBits ==
  ASSUME OneCore, NEW c \in Cpus
  PROVE  \A s : Claimed(s) = IF pc[c] \in {"load", "store"} /\ seg[c] = s
                             THEN idx[c] .. LastBit(c) ELSE {}
<1>1. ASSUME NEW s, pc[c] \in {"load", "store"} /\ seg[c] = s
      PROVE  Claimed(s) = idx[c] .. LastBit(c)
  <2>1. {d \in Cpus : pc[d] \in {"load", "store"} /\ seg[d] = s} = {c}
    BY <1>1 DEF OneCore
  <2> QED
    BY <2>1 DEF Claimed
<1>2. ASSUME NEW s, ~(pc[c] \in {"load", "store"} /\ seg[c] = s)
      PROVE  Claimed(s) = {}
  <2>1. {d \in Cpus : pc[d] \in {"load", "store"} /\ seg[d] = s} = {}
    BY <1>2 DEF OneCore
  <2> QED
    BY <2>1 DEF Claimed
<1> QED
  BY <1>1, <1>2

(* A page of a segment is free if its bit is clear and not claimed. *)
LEMMA FreePage ==
  ASSUME IInv, NEW s \in Segs, NEW b \in 0..(seglist[s].npages - 1)
  PROVE  seglist[s].first + b \in Free <=> b \notin bitmap[s] /\ b \notin Claimed(s)
<1>0. TypeOK /\ SegmentsDisjoint
  BY DEF IInv
<1>1. seglist[s].first \in Int /\ seglist[s].npages \in Nat
  BY <1>0, SegmentType
<1>2. ASSUME b \notin bitmap[s], b \notin Claimed(s) PROVE seglist[s].first + b \in Free
  BY <1>2 DEF Free, FreePages
<1>3. ASSUME seglist[s].first + b \in Free PROVE b \notin bitmap[s] /\ b \notin Claimed(s)
  <2>0. PICK t \in Segs : seglist[s].first + b \in FreePages(t)
    BY <1>3 DEF Free
  <2>1. PICK d \in 0..(seglist[t].npages - 1) :
          /\ seglist[s].first + b = seglist[t].first + d
          /\ d \notin bitmap[t] /\ d \notin Claimed(t)
    BY <2>0 DEF FreePages
  <2>2. seglist[t].first \in Int /\ seglist[t].npages \in Nat
    BY <1>0, SegmentType
  <2>3. /\ seglist[s].first + b \in PagesOf(seglist[s])
        /\ seglist[t].first + d \in PagesOf(seglist[t])
    BY <1>1, <2>2 DEF PagesOf
  <2>4. t = s
    BY <1>0, <2>1, <2>3 DEF SegmentsDisjoint
  <2>5. d = b
    BY <1>1, <2>1, <2>2, <2>4
  <2> QED
    BY <2>1, <2>4, <2>5
<1> QED
  BY <1>2, <1>3

(* What is free is a page of a segment. *)
LEMMA FreeInSegment ==
  ASSUME NEW p \in Free
  PROVE  \E s \in Segs : \E b \in 0..(seglist[s].npages - 1) : p = seglist[s].first + b
BY DEF Free, FreePages

(* A page of a segment is its first one plus a bit. *)
LEMMA PageBit ==
  ASSUME TypeOK, NEW s \in Segs
  PROVE  \A p : p \in PagesOf(seglist[s]) <=>
                  \E b \in 0..(seglist[s].npages - 1) : p = seglist[s].first + b
<1>1. seglist[s].first \in Int /\ seglist[s].npages \in Nat
  BY SegmentType
<1>2. ASSUME NEW p \in PagesOf(seglist[s])
      PROVE  \E b \in 0..(seglist[s].npages - 1) : p = seglist[s].first + b
  <2>1. p - seglist[s].first \in 0..(seglist[s].npages - 1)
        /\ p = seglist[s].first + (p - seglist[s].first)
    BY <1>1 DEF PagesOf
  <2> QED
    BY <2>1
<1> QED
  BY <1>1, <1>2 DEF PagesOf

(* Steps the abstract allocator does not see. *)
LEMMA Unseen ==
  ASSUME UNCHANGED seglist, Runs' = Runs, Pending' = Pending,
         \A s \in Segs : FreePages(s)' = FreePages(s)
  PROVE  UNCHANGED <<SegmentSets, Free, Pending, Owner>>
<1>1. Segs' = Segs
  BY DEF Segs
<1>2. SegmentSets' = SegmentSets
  BY <1>1 DEF SegmentSets
<1>3. Free' = Free
  BY <1>1 DEF Free
<1>4. Owner' = Owner
  BY DEF Owner, RunPages
<1> QED
  BY <1>2, <1>3, <1>4

(* The frames known stay known. *)
LEMMA FramedStep ==
  ASSUME IInv, Framed, [Next]_vars PROVE Framed'
<1>0. TypeOK
  BY DEF IInv
<1>1. CASE \E a \in SegmentArgs : pm_add_segment(a)
  <2>1. PICK a \in SegmentArgs : pm_add_segment(a)
    BY <1>1
  <2>2. PICK n \in Nat : n = Len(seglist) + 1
    BY <1>0 DEF TypeOK
  <2>3. /\ Segs' = Segs \cup {n} /\ seglist'[n] = NewSegment(a)
        /\ \A s \in Segs : seglist'[s] = seglist[s]
    BY <1>0, <2>1, <2>2, NewSegmentType DEF pm_add_segment, Segs, TypeOK
  <2> QED
    BY <2>3, FramesAssumption DEF Framed
<1>2. CASE seglist' = seglist
  BY <1>2 DEF Framed, Segs
<1> QED
  BY <1>1, <1>2 DEF Next, AllocStep, vars, bootVars, pm_reserve, pm_reserve_panic, EndBoot, pm_alloc,
     TestBit, NextSegment, Fail, Found, LoadByte, StoreByte, Return

(* The actions of the abstract allocator, over what it sees of this one. *)
LEMMA AddFramesMapped ==
  ASSUME NEW fs, fs \cap UNION SegmentSets = {}, SegmentSets' = SegmentSets \cup {fs},
         Free' = Free \cup fs, Pending' = Pending, Owner' = Owner
  PROVE  Abstract!AddFrames(fs)
BY DEF Abstract!AddFrames, SegmentSets, Free, Pending, Owner

(* A page reserved is one withdrawn. *)
LEMMA WithdrawMapped ==
  ASSUME NEW fs, fs \subseteq Free, Free' = Free \ fs,
         SegmentSets' = SegmentSets, Pending' = Pending, Owner' = Owner
  PROVE  Abstract!Withdraw(fs)
BY DEF Abstract!Withdraw, SegmentSets, Free, Pending, Owner

(* A call that begins is a request. *)
LEMMA RequestMapped ==
  ASSUME NEW c, NEW n, Pending[c] = 0, Pending' = [Pending EXCEPT ![c] = n],
         SegmentSets' = SegmentSets, Free' = Free, Owner' = Owner
  PROVE  Abstract!Request(c, n)
BY DEF Abstract!Request, SegmentSets, Free, Pending, Owner

(* n consecutive free pages of one segment, from page f on. *)
Fit(f, n) ==
  /\ f .. (f + n - 1) \subseteq Free
  /\ \E sg \in SegmentSets : f .. (f + n - 1) \subseteq sg

(* A call that found its pages is granted them. *)
LEMMA GrantMapped ==
  ASSUME NEW c, NEW f, Pending[c] > 0, Fit(f, Pending[c]),
         Pending' = [Pending EXCEPT ![c] = 0],
         Owner' = [Owner EXCEPT ![c] = @ \cup (f .. (f + Pending[c] - 1))],
         \/ Free' = Free \ (f .. (f + Pending[c] - 1))
         \/ Free' = Free \ ((f .. (f + Pending[c] - 1)) \cup {f + Pending[c]}),
         SegmentSets' = SegmentSets
  PROVE  Abstract!Grant(c, f)
BY DEF Abstract!Grant, Abstract!Fits, Fit, SegmentSets, Free, Pending, Owner

(* A call that found none is refused. *)
LEMMA RefuseMapped ==
  ASSUME NEW c, Pending[c] > 0, \A f \in Frames : ~Fit(f, Pending[c]),
         Pending' = [Pending EXCEPT ![c] = 0],
         SegmentSets' = SegmentSets, Free' = Free, Owner' = Owner
  PROVE  Abstract!Refuse(c)
BY DEF Abstract!Refuse, Abstract!Fits, Fit, SegmentSets, Free, Pending, Owner

(* Every other step changes nothing the owners see. *)
LEMMA StutterMapped ==
  ASSUME UNCHANGED <<SegmentSets, Free, Pending, Owner>>
  PROVE  UNCHANGED Abstract!vars
BY DEF Abstract!vars, SegmentSets, Free, Pending, Owner

(* During boot nothing is asked for, claimed or owned. *)
LEMMA BootSeen ==
  ASSUME IInv, phase = "boot", UNCHANGED <<pc, grants>>
  PROVE  /\ Runs = {} /\ Runs' = {} /\ Owner' = Owner /\ Pending' = Pending
         /\ \A s : Claimed(s) = {} /\ Claimed(s)' = {}
<1>1. grants = {} /\ \A c \in Cpus : pc[c] = "idle"
  BY DEF IInv, BootIdle
<1>2. {c \in Cpus : pc[c] \in {"load", "store"}} = {} /\ {c \in Cpus : pc'[c] \in {"load", "store"}} = {}
  BY <1>1
<1>3. Runs = {} /\ Runs' = {}
  BY <1>1, <1>2 DEF Runs
<1>4. \A s : Claimed(s) = {} /\ Claimed(s)' = {}
  BY <1>1 DEF Claimed
<1>5. Pending' = Pending
  BY <1>1 DEF Pending
<1>6. Owner' = Owner
  BY <1>3 DEF Owner
<1> QED
  BY <1>3, <1>4, <1>5, <1>6

(* pm_add_segment adds frames. *)
LEMMA AddSeen ==
  ASSUME IInv, NEW a \in SegmentArgs, pm_add_segment(a)
  PROVE  \E lo, hi \in Frames : lo <= hi /\ Abstract!AddFrames(lo .. hi)
<1>0. TypeOK
  BY DEF IInv
<1> DEFINE lo == PageDown(a.start)
           hi == PageUp(a.end) - 1
<1>1. NewSegment(a).first = lo /\ NewSegment(a).npages = hi + 1 - lo /\ lo \in Int /\ hi \in Int /\ lo <= hi
  BY SegmentAssumption DEF NewSegment
<1>2. PagesOf(NewSegment(a)) = lo .. hi
  BY <1>1 DEF PagesOf
<1>3. lo \in Frames /\ hi \in Frames
  BY <1>1, <1>2, FramesAssumption
<1>4. PICK n \in Nat : n = Len(seglist) + 1
  BY <1>0 DEF TypeOK
<1>5. /\ Segs' = Segs \cup {n} /\ seglist'[n] = NewSegment(a) /\ n \notin Segs
      /\ \A s \in Segs : seglist'[s] = seglist[s]
  BY <1>0, <1>4, NewSegmentType DEF pm_add_segment, Segs, TypeOK
<1>6. bitmap'[n] = {} /\ \A s \in Segs : bitmap'[s] = bitmap[s]
  BY <1>0, <1>4, <1>5 DEF pm_add_segment, Segs
<1>7. /\ Runs = {} /\ Runs' = {} /\ Owner' = Owner /\ Pending' = Pending
      /\ \A s : Claimed(s) = {} /\ Claimed(s)' = {}
  BY BootSeen DEF pm_add_segment
<1>8. \A s \in Segs : FreePages(s)' = FreePages(s)
  BY <1>5, <1>6, <1>7 DEF FreePages
<1>9. FreePages(n)' = lo .. hi
  <2>1. FreePages(n)' = {lo + b : b \in 0..(hi + 1 - lo - 1)}
    BY <1>1, <1>5, <1>6, <1>7 DEF FreePages
  <2>2. ASSUME NEW p \in lo .. hi PROVE p \in {lo + b : b \in 0..(hi + 1 - lo - 1)}
    <3>1. p - lo \in 0..(hi + 1 - lo - 1) /\ p = lo + (p - lo)
      BY <1>1
    <3> QED
      BY <3>1
  <2>3. {lo + b : b \in 0..(hi + 1 - lo - 1)} \subseteq lo .. hi
    BY <1>1
  <2> QED
    BY <2>1, <2>2, <2>3
<1>10. Free' = Free \cup (lo .. hi)
  BY <1>5, <1>8, <1>9 DEF Free
<1>11. SegmentSets' = SegmentSets \cup {lo .. hi}
  BY <1>2, <1>5 DEF SegmentSets, PagesOf
<1>12. (lo .. hi) \cap UNION SegmentSets = {}
  BY <1>2 DEF pm_add_segment, SegmentSets
<1>13. Abstract!AddFrames(lo .. hi)
  BY <1>7, <1>10, <1>11, <1>12, AddFramesMapped
<1> QED
  BY <1>1, <1>3, <1>13

(* pm_reserve withdraws frames. *)
LEMMA ReserveSeen ==
  ASSUME IInv, Framed, NEW a \in ReserveArgs, pm_reserve(a)
  PROVE  \E lo, hi \in Frames : lo <= hi /\ Abstract!Withdraw(lo .. hi)
<1>0. TypeOK
  BY DEF IInv
<1> DEFINE lo == PageDown(a.start)
           hi == PageDown(a.end) - 1
<1>1. lo \in Int /\ hi \in Int /\ lo <= hi
  BY ReserveAssumption
<1>2. PICK s \in Segs : /\ CanReserveFrom(s, a)
                        /\ bitmap' = [bitmap EXCEPT ![s] = @ \cup ReserveBits(s, a)]
  BY DEF pm_reserve
<1>3. /\ ReserveBits(s, a) \subseteq 0..(seglist[s].npages - 1)
      /\ lo .. hi \subseteq PagesOf(seglist[s])
      /\ \A i \in Int : i \in ReserveBits(s, a) <=> seglist[s].first + i \in lo .. hi
      /\ ReserveBits(s, a) \cap bitmap[s] = {}
      /\ seglist[s].first \in Int /\ seglist[s].npages \in Nat
  BY <1>0, <1>2, ReserveBitsInside, SegmentType DEF CanReserveFrom
<1>4. lo \in Frames /\ hi \in Frames
  BY <1>1, <1>3 DEF Framed
<1>5. /\ Runs = {} /\ Runs' = {} /\ Owner' = Owner /\ Pending' = Pending
      /\ \A t : Claimed(t) = {} /\ Claimed(t)' = {}
  BY BootSeen DEF pm_reserve
<1>6. seglist' = seglist /\ Segs' = Segs
  BY DEF pm_reserve, Segs
<1>7. \A t \in Segs : t # s => FreePages(t)' = FreePages(t)
  BY <1>0, <1>2, <1>5, <1>6 DEF FreePages, TypeOK
<1>8. FreePages(s)' = FreePages(s) \ (lo .. hi)
  <2>1. bitmap'[s] = bitmap[s] \cup ReserveBits(s, a)
    BY <1>0, <1>2 DEF TypeOK
  <2>2. \A b \in 0..(seglist[s].npages - 1) :
          b \in ReserveBits(s, a) <=> seglist[s].first + b \in lo .. hi
    BY <1>3
  <2>3. FreePages(s) = {seglist[s].first + b : b \in 0..(seglist[s].npages - 1) \ bitmap[s]}
    BY <1>5 DEF FreePages
  <2>4. FreePages(s)' = {seglist[s].first + b :
                            b \in 0..(seglist[s].npages - 1) \ (bitmap[s] \cup ReserveBits(s, a))}
    BY <1>5, <1>6, <2>1 DEF FreePages
  <2> HIDE DEF lo, hi
  <2> QED
    BY <2>2, <2>3, <2>4
<1>9. \A t \in Segs : t # s => FreePages(t) \cap (lo .. hi) = {}
  <2> SUFFICES ASSUME NEW t \in Segs, t # s, NEW p \in FreePages(t) PROVE p \notin lo .. hi
    OBVIOUS
  <2>1. p \in PagesOf(seglist[t])
    BY <1>0, PageBit DEF FreePages
  <2> QED
    BY <1>3, <2>1 DEF IInv, SegmentsDisjoint
<1>10. Free' = Free \ (lo .. hi)
  <2> HIDE DEF lo, hi
  <2> QED
    BY <1>6, <1>7, <1>8, <1>9 DEF Free
<1>11. lo .. hi \subseteq Free
  <2> SUFFICES ASSUME NEW p \in lo .. hi PROVE p \in Free
    OBVIOUS
  <2>1. PICK b \in 0..(seglist[s].npages - 1) : p = seglist[s].first + b
    BY <1>0, <1>3, PageBit
  <2>2. b \in ReserveBits(s, a)
    BY <1>3, <2>1
  <2> QED
    BY <1>3, <1>5, <2>1, <2>2, FreePage
<1>12. SegmentSets' = SegmentSets
  BY <1>6 DEF SegmentSets
<1>13. Abstract!Withdraw(lo .. hi)
  BY <1>5, <1>10, <1>11, <1>12, WithdrawMapped
<1> QED
  BY <1>1, <1>4, <1>13

(* A core that is not marking has promised nothing yet. *)
LEMMA NotMarking ==
  ASSUME OneCore, NEW c \in Cpus, pc[c] \notin {"load", "store"}
  PROVE  Runs = grants /\ \A s : Claimed(s) = {}
<1>1. {d \in Cpus : pc[d] \in {"load", "store"}} = {}
  BY DEF OneCore
<1>2. Runs = grants
  BY <1>1 DEF Runs
<1>3. \A s : Claimed(s) = {}
  BY ClaimedBits
<1> QED
  BY <1>2, <1>3

(* A core that is marking has promised its run. *)
LEMMA Marking ==
  ASSUME OneCore, NEW c \in Cpus, pc[c] \in {"load", "store"}
  PROVE  /\ Runs = grants \cup {RunOf(c)}
         /\ \A s : Claimed(s) = IF seg[c] = s THEN idx[c] .. LastBit(c) ELSE {}
<1>1. {d \in Cpus : pc[d] \in {"load", "store"}} = {c}
  BY DEF OneCore
<1>2. Runs = grants \cup {RunOf(c)}
  BY <1>1 DEF Runs
<1> QED
  BY <1>2, ClaimedBits

(* The pages free follow the bits. *)
LEMMA FreeFrame ==
  ASSUME UNCHANGED seglist, NEW s,
         bitmap'[s] \cup Claimed(s)' = bitmap[s] \cup Claimed(s)
  PROVE  FreePages(s)' = FreePages(s)
BY DEF FreePages

(* A call asks for a run. *)
LEMMA RequestSeen ==
  ASSUME OneCore, IInv, NEW c \in Cpus, NEW size \in Sizes, pm_alloc(c, size)
  PROVE  \E n \in 1..Cardinality(Frames) : Abstract!Request(c, n)
<1>0. TypeOK
  BY DEF IInv
<1>1. NPages(size) \in 1..Cardinality(Frames)
  <2>1. Cardinality(Frames) \in Nat
    BY FramesAssumption, FS_CardinalityType
  <2> QED
    BY <2>1, FramesAssumption, SizesAssumption
<1>2. /\ pc[c] = "idle" /\ pc'[c] = "scan" /\ npages'[c] = NPages(size)
      /\ UNCHANGED <<seglist, bitmap, grants>>
  BY <1>0 DEF pm_alloc, bootVars, TypeOK
<1>3. Runs = grants /\ \A s : Claimed(s) = {}
  BY <1>2, NotMarking
<1>4. Runs' = grants' /\ \A s : Claimed(s)' = {}
  <2>1. {d \in Cpus : pc'[d] \in {"load", "store"}} = {}
    BY <1>2 DEF OneCore
  <2> QED
    BY <1>2, <2>1 DEF Runs, Claimed
<1>5. Pending[c] = 0 /\ Pending' = [Pending EXCEPT ![c] = NPages(size)]
  BY <1>2 DEF Pending, OneCore
<1>6. \A s : FreePages(s)' = FreePages(s)
  BY <1>2, <1>3, <1>4, FreeFrame
<1>7. SegmentSets' = SegmentSets /\ Free' = Free /\ Owner' = Owner
  BY <1>2, <1>3, <1>4, <1>6 DEF SegmentSets, Free, Owner, Segs, RunPages
<1> QED
  BY <1>1, <1>5, <1>7, RequestMapped

(* A call that fails is refused: nothing in the list fits. *)
LEMMA RefuseSeen ==
  ASSUME OneCore, IInv, NEW c \in Cpus, ScannedOK(c), Fail(c)
  PROVE  Abstract!Refuse(c)
<1>0. TypeOK /\ SegmentsDisjoint /\ ScanOK(c)
  BY DEF IInv, CoreOK, Fail
<1>1. /\ pc[c] = "scan" /\ pc'[c] = "idle" /\ seg[c] \notin Segs
      /\ UNCHANGED <<seglist, bitmap, grants>>
  BY <1>0 DEF Fail, bootVars, TypeOK
<1> DEFINE n == npages[c]
<1>2. n \in Nat /\ n > 0 /\ \A s \in Segs : NoFit(s, n)
  <2>1. n \in Nat /\ n > 0
    BY <1>0, <1>1 DEF TypeOK, ScannedOK
  <2>2. \A s \in Segs : s < seg[c]
    <3>1. seglist \in Seq(Segment) /\ seg[c] \in Nat /\ seg[c] >= 1
      BY <1>0 DEF TypeOK, ScanOK
    <3> QED
      BY <1>1, <3>1 DEF Segs
  <2> QED
    BY <1>1, <2>1, <2>2 DEF ScannedOK
<1>3. Runs = grants /\ \A s : Claimed(s) = {}
  BY <1>1, NotMarking
<1>4. Runs' = grants' /\ \A s : Claimed(s)' = {}
  <2>1. {d \in Cpus : pc'[d] \in {"load", "store"}} = {}
    BY <1>1 DEF OneCore
  <2> QED
    BY <1>1, <2>1 DEF Runs, Claimed
<1>5. Pending[c] = n /\ Pending' = [Pending EXCEPT ![c] = 0]
  BY <1>1 DEF Pending, OneCore
<1>6. \A s : FreePages(s)' = FreePages(s)
  BY <1>1, <1>3, <1>4, FreeFrame
<1>7. SegmentSets' = SegmentSets /\ Free' = Free /\ Owner' = Owner
  BY <1>1, <1>3, <1>4, <1>6 DEF SegmentSets, Free, Owner, Segs, RunPages
<1>8. ASSUME NEW f \in Frames, Fit(f, n) PROVE FALSE
  <2>1. PICK s \in Segs : f .. (f + n - 1) \subseteq PagesOf(seglist[s])
    BY <1>8 DEF Fit, SegmentSets
  <2>2. /\ f \in Int /\ seglist[s].first \in Int /\ seglist[s].npages \in Nat
    BY <1>0, FramesAssumption, SegmentType
  <2> DEFINE i == f - seglist[s].first
  <2>3. f \in f .. (f + n - 1) /\ f + n - 1 \in f .. (f + n - 1)
    BY <1>2, <2>2
  <2>4. i \in 0..(seglist[s].npages - n)
    BY <1>2, <2>1, <2>2, <2>3 DEF PagesOf
  <2>5. PICK b \in i .. (i + n - 1) : b \in bitmap[s]
    BY <1>2, <2>4 DEF NoFit
  <2>6. /\ b \in 0..(seglist[s].npages - 1)
        /\ seglist[s].first + b \in f .. (f + n - 1)
    BY <1>2, <2>2, <2>4, <2>5
  <2>7. seglist[s].first + b \in Free
    BY <1>8, <2>6 DEF Fit
  <2> QED
    BY <2>5, <2>6, <2>7, FreePage
<1> QED
  BY <1>2, <1>5, <1>7, <1>8, RefuseMapped

(* The scan that finds a run is the grant: the run is free until then, and *)
(* the bit after it is lost with it if it is one of the segment.           *)
LEMMA GrantSeen ==
  ASSUME OneCore, IInv, Framed, NEW c \in Cpus, AloneOK(c), ScannedOK(c), Found(c)
  PROVE  \E f \in Frames : Abstract!Grant(c, f)
<1>0. TypeOK /\ SegmentsDisjoint /\ ScanOK(c)
  BY DEF IInv, CoreOK, Found
<1>a. /\ pc[c] = "scan" /\ seg[c] \in Segs /\ npages[c] \in Nat /\ npages[c] > 0
      /\ bit[c] \in Nat /\ count[c] \in Nat /\ count[c] <= bit[c] /\ count[c] = npages[c]
  BY <1>0 DEF TypeOK, ScanOK, ScannedOK, Found
<1>b. seglist[seg[c]].first \in Int /\ seglist[seg[c]].npages \in Nat
  BY <1>0, <1>a, SegmentType
<1>c. bit[c] <= seglist[seg[c]].npages
  BY <1>0, <1>a DEF ScanOK
<1>d. PICK s \in Segs, n \in Nat, i \in Nat, f \in Int :
        s = seg[c] /\ n = npages[c] /\ i = bit[c] - count[c] /\ f = seglist[s].first + i
  BY <1>a, <1>b
<1> DEFINE run == f .. (f + n - 1)
<1>1. /\ pc[c] = "scan" /\ pc'[c] = "load" /\ seg[c] = s /\ seg'[c] = s /\ idx'[c] = i
      /\ npages'[c] = n /\ calls' = calls /\ npages[c] = n
      /\ UNCHANGED <<seglist, bitmap, grants>>
  BY <1>0, <1>a, <1>d DEF Found, bootVars, TypeOK
<1>2. /\ n > 0 /\ seglist[s].first \in Int /\ seglist[s].npages \in Nat
      /\ f = seglist[s].first + i
      /\ i + n = bit[c] /\ i + n <= seglist[s].npages
  BY <1>a, <1>b, <1>c, <1>d
<1>3. (i .. (i + n - 1)) \cap bitmap[s] = {}
  <2>1. ((bit[c] - count[c]) .. (bit[c] - 1)) \cap bitmap[s] = {}
    BY <1>1 DEF AloneOK
  <2> QED
    BY <1>2, <1>d, <2>1
<1>4. Runs = grants /\ \A t : Claimed(t) = {}
  BY <1>1, NotMarking
<1>5. /\ Runs' = grants \cup {RunOf(c)'}
      /\ \A t : Claimed(t)' = IF t = s THEN i .. (i + n) ELSE {}
  <2>1. {d \in Cpus : pc'[d] \in {"load", "store"}} = {c}
    BY <1>1 DEF OneCore
  <2>2. Runs' = grants \cup {RunOf(c)'}
    BY <1>1, <2>1 DEF Runs
  <2>3. ASSUME NEW t, t = s PROVE Claimed(t)' = i .. (i + n)
    <3>1. {d \in Cpus : pc'[d] \in {"load", "store"} /\ seg'[d] = t} = {c}
      BY <1>1, <2>3 DEF OneCore
    <3> QED
      BY <1>1, <3>1 DEF Claimed, LastBit
  <2>4. ASSUME NEW t, t # s PROVE Claimed(t)' = {}
    <3>1. {d \in Cpus : pc'[d] \in {"load", "store"} /\ seg'[d] = t} = {}
      BY <1>1, <2>4 DEF OneCore
    <3> QED
      BY <3>1 DEF Claimed
  <2> QED
    BY <2>2, <2>3, <2>4
<1>6. Pending[c] = n /\ Pending' = [Pending EXCEPT ![c] = 0]
  BY <1>1 DEF Pending, OneCore
<1>7. SegmentSets' = SegmentSets
  BY <1>1 DEF SegmentSets, Segs
<1>8. PICK r : r = RunOf(c)'
  OBVIOUS
<1>9. RunPages(r)' = run /\ r.cpu = c
  <2>0. r.seg = s /\ r.idx = i /\ r.npages = n /\ r.cpu = c
    BY <1>1, <1>8 DEF RunOf
  <2>1. RunPages(r)' = {seglist[s].first + b : b \in i .. (i + n - 1)}
    BY <1>1, <2>0 DEF RunPages, RunBits
  <2>2. ASSUME NEW p \in run PROVE p \in {seglist[s].first + b : b \in i .. (i + n - 1)}
    <3>1. p - seglist[s].first \in i .. (i + n - 1) /\ p = seglist[s].first + (p - seglist[s].first)
      BY <1>2
    <3> QED
      BY <3>1
  <2>3. {seglist[s].first + b : b \in i .. (i + n - 1)} \subseteq run
    BY <1>2
  <2> QED
    BY <2>0, <2>1, <2>2, <2>3
<1>16. Owner' = [Owner EXCEPT ![c] = @ \cup run]
  <2>2. \A g \in grants : RunPages(g)' = RunPages(g)
    BY <1>1 DEF RunPages
  <2>3. \A d \in Cpus : d = c
    BY DEF OneCore
  <2>4. Owner[c] = UNION {RunPages(g) : g \in {h \in grants : h.cpu = c}}
    BY <1>4 DEF Owner
  <2>6. Owner'[c] = Owner[c] \cup run
    <3>1. \A p : p \in Owner'[c] <=> \E g \in Runs' : g.cpu = c /\ p \in RunPages(g)'
      BY DEF Owner
    <3>2. \A p : p \in Owner[c] <=> \E g \in grants : g.cpu = c /\ p \in RunPages(g)
      BY <2>4
    <3>3. Runs' = grants \cup {r}
      BY <1>5, <1>8
    <3> HIDE DEF run
    <3>4. \A p : p \in Owner'[c] <=> p \in Owner[c] \/ p \in run
      BY <2>2, <3>1, <3>2, <3>3, <1>9
    <3> QED
      BY <3>4
  <2>7. DOMAIN Owner = Cpus /\ DOMAIN Owner' = Cpus /\ Owner = [d \in Cpus |-> Owner[d]]
        /\ Owner' = [d \in Cpus |-> Owner'[d]]
    BY DEF Owner
  <2> HIDE DEF run
  <2> QED
    BY <2>3, <2>6, <2>7
<1>10. run \subseteq Free /\ run \subseteq PagesOf(seglist[s])
  <2> SUFFICES ASSUME NEW p \in run PROVE p \in Free /\ p \in PagesOf(seglist[s])
    OBVIOUS
  <2>1. PICK b \in i .. (i + n - 1) : p = seglist[s].first + b
    <3>1. p - seglist[s].first \in i .. (i + n - 1) /\ p = seglist[s].first + (p - seglist[s].first)
      BY <1>2
    <3> QED
      BY <3>1
  <2>2. b \in 0..(seglist[s].npages - 1) /\ b \notin bitmap[s] /\ b \notin Claimed(s)
    BY <1>2, <1>3, <1>4
  <2>3. p \in Free
    BY <1>1, <2>1, <2>2, FreePage
  <2>4. p \in PagesOf(seglist[s])
    BY <1>0, <1>1, <2>1, <2>2, PageBit
  <2> QED
    BY <2>3, <2>4
<1>11. f \in Frames
  <2>1. f \in run
    BY <1>2
  <2> QED
    BY <1>1, <1>10, <2>1 DEF Framed
<1>12. Fit(f, n)
  BY <1>1, <1>10 DEF Fit, SegmentSets
<1>13. \A t \in Segs : t # s => FreePages(t)' = FreePages(t)
  BY <1>1, <1>4, <1>5, FreeFrame
<1> DEFINE lost == (f .. (f + n)) \cap PagesOf(seglist[s])
<1>14. FreePages(s)' = FreePages(s) \ lost
  <2>1. FreePages(s) = {seglist[s].first + b : b \in 0..(seglist[s].npages - 1) \ bitmap[s]}
    BY <1>4 DEF FreePages
  <2>2. FreePages(s)' = {seglist[s].first + b :
                            b \in 0..(seglist[s].npages - 1) \ (bitmap[s] \cup (i .. (i + n)))}
    BY <1>1, <1>5 DEF FreePages
  <2>3. \A b \in 0..(seglist[s].npages - 1) : b \in i .. (i + n) <=> seglist[s].first + b \in lost
    BY <1>2 DEF PagesOf
  <2> HIDE DEF lost
  <2> QED
    BY <2>1, <2>2, <2>3
<1>15. \A t \in Segs : t # s => FreePages(t) \cap PagesOf(seglist[s]) = {}
  <2> SUFFICES ASSUME NEW t \in Segs, t # s, NEW p \in FreePages(t) PROVE p \notin PagesOf(seglist[s])
    OBVIOUS
  <2>1. p \in PagesOf(seglist[t])
    BY <1>0, PageBit DEF FreePages
  <2> QED
    BY <1>0, <1>1, <2>1 DEF SegmentsDisjoint
<1>17. Free' = Free \ lost
  <2>1. Segs' = Segs
    BY <1>1 DEF Segs
  <2>2. \A t \in Segs : t # s => FreePages(t) \cap lost = {}
    BY <1>15
  <2> HIDE DEF lost
  <2> QED
    BY <1>1, <1>13, <1>14, <2>1, <2>2 DEF Free
<1>18. lost = run \/ lost = run \cup {f + n}
  <2>1. CASE i + n = seglist[s].npages
    <3>1. lost = run
      BY <1>2, <2>1 DEF PagesOf
    <3> QED
      BY <3>1
  <2>2. CASE i + n < seglist[s].npages
    <3>1. \A p : p \in lost <=> p \in f .. (f + n)
      BY <1>2, <2>2 DEF PagesOf
    <3>2. \A p : p \in f .. (f + n) <=> p \in run \/ p = f + n
      BY <1>2
    <3>3. lost = run \cup {f + n}
      <4> HIDE DEF lost, run
      <4> QED
        BY <3>1, <3>2
    <3> QED
      BY <3>3
  <2> QED
    BY <1>2, <2>1, <2>2
<1> HIDE DEF lost
<1>19. Abstract!Grant(c, f)
  <2>1. run = f .. (f + n - 1)
    BY DEF run
  <2> QED
    BY <1>2, <1>6, <1>7, <1>12, <1>16, <1>17, <1>18, <2>1, GrantMapped
<1> QED
  BY <1>11, <1>19

(* The other steps of a call are not seen. *)
LEMMA ScanUnseen ==
  ASSUME OneCore, IInv, NEW c \in Cpus, TestBit(c) \/ NextSegment(c)
  PROVE  UNCHANGED <<SegmentSets, Free, Pending, Owner>>
<1>1. /\ pc[c] = "scan" /\ UNCHANGED <<pc, npages, seglist, bitmap, grants>>
  BY DEF TestBit, NextSegment, bootVars
<1>2. Runs = grants /\ \A s : Claimed(s) = {}
  BY <1>1, NotMarking
<1>3. Runs' = grants' /\ \A s : Claimed(s)' = {}
  <2>1. {d \in Cpus : pc'[d] \in {"load", "store"}} = {}
    BY <1>1 DEF OneCore
  <2> QED
    BY <1>1, <2>1 DEF Runs, Claimed
<1>4. \A s \in Segs : FreePages(s)' = FreePages(s)
  BY <1>1, <1>2, <1>3, FreeFrame
<1>5. Pending' = Pending
  BY <1>1 DEF Pending
<1> QED
  BY <1>1, <1>2, <1>3, <1>4, <1>5, Unseen

(* Marking a page in the bitmap is not seen before the return. *)
LEMMA MarkUnseen ==
  ASSUME OneCore, IInv, NEW c \in Cpus, AloneOK(c), MarkingOK(c), LoadByte(c) \/ StoreByte(c)
  PROVE  UNCHANGED <<SegmentSets, Free, Pending, Owner>>
<1>0. TypeOK
  BY DEF IInv
<1>1. /\ pc[c] \in {"load", "store"} /\ pc'[c] \in {"load", "store"}
      /\ UNCHANGED <<npages, seg, idx, calls, seglist, grants>>
  BY <1>0 DEF LoadByte, StoreByte, bootVars, TypeOK
<1>2. /\ Runs = grants \cup {RunOf(c)}
      /\ \A s : Claimed(s) = IF seg[c] = s THEN idx[c] .. LastBit(c) ELSE {}
  BY <1>1, Marking
<1>3. Runs' = Runs /\ \A s : Claimed(s)' = Claimed(s)
  <2>1. \A d \in Cpus : pc[d] \in {"load", "store"} /\ pc'[d] \in {"load", "store"}
    BY <1>1 DEF OneCore
  <2> QED
    BY <1>1, <2>1 DEF Runs, RunOf, Claimed, LastBit
<1>4. \A s \in Segs : bitmap'[s] \cup Claimed(s)' = bitmap[s] \cup Claimed(s)
  <2>1. CASE LoadByte(c)
    BY <1>3, <2>1 DEF LoadByte
  <2>2. CASE StoreByte(c)
    <3>1. /\ pc[c] = "store" /\ seg[c] \in Segs
          /\ byte[c] = {b \in bitmap[seg[c]] : SameByte(b, bit[c])}
          /\ bit[c] \in idx[c] .. LastBit(c)
      BY <1>0, <2>2 DEF StoreByte, AloneOK, MarkingOK, IInv, CoreOK, LoadedOK, TypeOK, LastBit
    <3>2. bitmap' = [bitmap EXCEPT ![seg[c]] = @ \cup {bit[c]}]
      BY <1>0, <2>2, <3>1 DEF StoreByte, TypeOK
    <3> QED
      BY <1>0, <1>2, <1>3, <3>1, <3>2 DEF TypeOK
  <2> QED
    BY <1>1, <2>1, <2>2 DEF LoadByte, StoreByte
<1>5. \A s \in Segs : FreePages(s)' = FreePages(s)
  BY <1>1, <1>4, FreeFrame
<1>6. Pending' = Pending
  BY <1>1 DEF Pending, OneCore
<1> QED
  BY <1>1, <1>3, <1>5, <1>6, Unseen

(* The return after a mark. *)
LEMMA ReturnUnseen ==
  ASSUME OneCore, IInv, NEW c \in Cpus, AloneOK(c), Return(c)
  PROVE  UNCHANGED <<SegmentSets, Free, Pending, Owner>>
<1>0. TypeOK
  BY DEF IInv
<1>1. /\ pc[c] = "load" /\ pc'[c] = "idle" /\ grants' = grants \cup {RunOf(c)}
      /\ UNCHANGED <<npages, seg, idx, calls, seglist, bitmap>> /\ bit[c] > LastBit(c)
      /\ bit[c] \in Nat /\ idx[c] \in Nat /\ npages[c] \in Nat /\ seg[c] \in Segs
  BY <1>0 DEF Return, bootVars, localVars, TypeOK, IInv, CoreOK, RunOK, RunOf
<1>2. /\ Runs = grants \cup {RunOf(c)}
      /\ \A s : Claimed(s) = IF seg[c] = s THEN idx[c] .. LastBit(c) ELSE {}
  BY <1>1, Marking
<1>3. Runs' = grants' /\ \A s : Claimed(s)' = {}
  <2>1. {d \in Cpus : pc'[d] \in {"load", "store"}} = {}
    BY <1>1 DEF OneCore
  <2> QED
    BY <2>1 DEF Runs, Claimed
<1>4. idx[c] .. LastBit(c) \subseteq bitmap[seg[c]]
  BY <1>1 DEF AloneOK, LastBit
<1>5. \A s \in Segs : FreePages(s)' = FreePages(s)
  BY <1>1, <1>2, <1>3, <1>4, FreeFrame
<1>6. Pending' = Pending
  BY <1>1 DEF Pending, OneCore
<1> QED
  BY <1>1, <1>2, <1>3, <1>5, <1>6, Unseen

(* With one core allocating, every step of the allocator is one of the     *)
(* abstract allocator, or is not seen by it: pages are granted whole, free *)
(* and for ever, and refused only when no run of that length is free.      *)
THEOREM OneCoreImplements ==
  ASSUME OneCore
  PROVE  Spec => ImplementsFrameOwnership
<1>1. Init => Framed
  BY DEF Init, Framed, Segs
<1>2. Init => Abstract!Init
  <2> SUFFICES ASSUME Init PROVE Abstract!Init
    OBVIOUS
  <2>1. Segs = {} /\ Runs = {} /\ \A c \in Cpus : pc[c] = "idle"
    BY DEF Init, Segs, Runs
  <2>2. SegmentSets = {} /\ Free = {}
    BY <2>1 DEF SegmentSets, Free
  <2>3. Pending = [c \in Cpus |-> 0]
    BY <2>1 DEF Pending
  <2>4. Owner = [c \in Cpus |-> {}]
    BY <2>1 DEF Owner
  <2> QED
    BY <2>2, <2>3, <2>4 DEF Abstract!Init, SegmentSets, Free, Pending, Owner
<1>3. IInv /\ Framed /\ [Next]_vars => Framed'
  BY FramedStep
<1>4. ASSUME SInv, Framed, [Next]_vars PROVE [Abstract!Next]_(Abstract!vars)
  <2>0. IInv /\ \A c \in Cpus : AloneOK(c) /\ MarkingOK(c) /\ ScannedOK(c)
    BY <1>4 DEF SInv, AInv, MInv
  <2>1. ASSUME NEW a \in SegmentArgs, pm_add_segment(a) PROVE Abstract!Next
    BY <2>0, <2>1, AddSeen DEF Abstract!Next
  <2>2. ASSUME NEW a \in ReserveArgs, pm_reserve(a) PROVE Abstract!Next
    BY <1>4, <2>0, <2>2, ReserveSeen DEF Abstract!Next
  <2>3. CASE (\E a \in ReserveArgs : pm_reserve_panic(a)) \/ EndBoot
    <3>1. phase = "boot" /\ UNCHANGED <<pc, grants, seglist, bitmap>>
      BY <2>3 DEF pm_reserve_panic, EndBoot
    <3>2. /\ Runs = {} /\ Runs' = {} /\ Pending' = Pending
          /\ \A s : Claimed(s) = {} /\ Claimed(s)' = {}
      BY <2>0, <3>1, BootSeen
    <3>3. \A s \in Segs : FreePages(s)' = FreePages(s)
      BY <3>1, <3>2, FreeFrame
    <3> QED
      BY <3>1, <3>2, <3>3, Unseen, StutterMapped
  <2>4. ASSUME NEW c \in Cpus, NEW size \in Sizes, pm_alloc(c, size) PROVE Abstract!Next
    BY <2>0, <2>4, RequestSeen DEF Abstract!Next
  <2>5. ASSUME NEW c \in Cpus, TestBit(c) \/ NextSegment(c) PROVE UNCHANGED Abstract!vars
    BY <2>0, <2>5, ScanUnseen, StutterMapped
  <2>6. ASSUME NEW c \in Cpus, Fail(c) PROVE Abstract!Next
    BY <2>0, <2>6, RefuseSeen DEF Abstract!Next
  <2>7. ASSUME NEW c \in Cpus, Found(c) PROVE Abstract!Next
    BY <1>4, <2>0, <2>7, GrantSeen DEF Abstract!Next
  <2>8. ASSUME NEW c \in Cpus, LoadByte(c) \/ StoreByte(c) PROVE UNCHANGED Abstract!vars
    BY <2>0, <2>8, MarkUnseen, StutterMapped
  <2>9. ASSUME NEW c \in Cpus, Return(c) PROVE UNCHANGED Abstract!vars
    BY <2>0, <2>9, ReturnUnseen, StutterMapped
  <2>10. CASE UNCHANGED vars
    <3>1. UNCHANGED <<pc, npages, seg, idx, calls, grants, seglist, bitmap>>
      BY <2>10 DEF vars
    <3>2. Runs' = Runs /\ Pending' = Pending /\ \A s : FreePages(s)' = FreePages(s)
      BY <3>1 DEF Runs, RunOf, Pending, FreePages, Claimed, LastBit
    <3> QED
      BY <3>1, <3>2, Unseen, StutterMapped
  <2> QED
    BY <1>4, <2>1, <2>2, <2>3, <2>4, <2>5, <2>6, <2>7, <2>8, <2>9, <2>10 DEF Next, AllocStep
<1>5. SInv => IInv
  BY DEF SInv
<1> QED
  BY <1>1, <1>2, <1>3, <1>4, <1>5, OneCoreInvariant, PTL
  DEF Spec, ImplementsFrameOwnership, Abstract!Spec

(* Two owners never share a page, and what is owned is not free. *)
THEOREM OwnershipIsExclusive ==
  ASSUME OneCore
  PROVE  Spec => []OwnershipExclusive
<1>1. ASSUME SInv, NEW c \in Cpus, NEW p \in Owner[c] PROVE p \notin Free
  <2>0. TypeOK /\ IInv /\ GrantsMarked
    BY <1>1 DEF SInv, IInv, AInv
  <2>1. PICK g \in Runs : p \in RunPages(g)
    BY <1>1 DEF Owner
  <2>2. PICK b \in RunBits(g) : p = seglist[g.seg].first + b
    BY <2>1 DEF RunPages
  <2>3. RunOK(g) /\ g.idx \in Nat /\ g.npages \in Nat
    BY <2>0, RunsOK
  <2>4. g.seg \in Segs /\ b \in 0..(seglist[g.seg].npages - 1)
    BY <2>0, <2>3, SegmentType DEF RunOK, RunBits
  <2>5. b \in bitmap[g.seg] \/ b \in Claimed(g.seg)
    <3>1. CASE g \in grants
      BY <2>0, <3>1 DEF GrantsMarked
    <3>2. ASSUME NEW d \in Cpus, pc[d] \in {"load", "store"}, g = RunOf(d)
          PROVE  b \in Claimed(g.seg)
      <4>1. g.seg = seg[d] /\ b \in idx[d] .. (idx[d] + npages[d] - 1)
        BY <3>2 DEF RunOf, RunBits
      <4>2. b \in idx[d] .. LastBit(d)
        BY <2>0, <3>2, <4>1 DEF LastBit, TypeOK
      <4> QED
        BY <3>2, <4>1, <4>2, Marking
    <3> QED
      BY <3>1, <3>2 DEF Runs
  <2> QED
    BY <2>0, <2>2, <2>4, <2>5, FreePage
<1>2. ASSUME SInv PROVE OwnershipExclusive
  <2>1. \A c, d \in Cpus : c = d
    BY DEF OneCore
  <2>2. \A c \in Cpus : Owner[c] \cap Free = {}
    BY <1>1, <1>2
  <2> QED
    BY <2>1, <2>2 DEF OwnershipExclusive, Abstract!OwnershipExclusive, Owner, Free
<1> QED
  BY <1>2, OneCoreInvariant, PTL

=============================================================================
