---------------------------- MODULE KheapProofs ----------------------------
(***************************************************************************)
(* Proofs about Kheap: for any number of cores and any sizes, racing calls *)
(* of sbrk leave every block below the break, the blocks core 0 took       *)
(* before it woke the others keep what it wrote there, and a heap as large *)
(* as the sum of all blocks is never exhausted.                            *)
(***************************************************************************)
EXTENDS Kheap, FiniteSetTheorems, TLAPS

PcSet == {Idle, Done, Halted} \cup [at : Steps, kind : Kinds]

Typing ==
  /\ ptr \in Nat
  /\ end \in Nat
  /\ pc \in [Cores -> PcSet]
  /\ loaded \in [Cores -> Nat]
  /\ \A b \in blocks : b.core \in Cores /\ b.base \in Nat /\ b.size \in Nat

(* What a core has loaded was the break once, and the break only grows. *)
LoadedOK == \A c \in Cores : loaded[c] <= ptr

IBreak == Typing /\ LoadedOK /\ BreakAboveBlocks

(* Every kind of block has a size. *)
LEMMA SizeIsNat == \A kind \in Kinds : SizeOf(kind) \in Nat
<1> SUFFICES ASSUME NEW kind \in Kinds PROVE SizeOf(kind) \in Nat
  OBVIOUS
<1> DEFINE bytes == CASE kind = "dev"     -> DevBytes
                      [] kind = "cons"    -> ConsBytes
                      [] kind = "segment" -> SegBytes + bitstr_size(NPages)
<1>1. bitstr_size(NPages) \in Nat
  BY HeapAssumption DEF bitstr_size
<1>2. bytes \in Nat
  BY <1>1, HeapAssumption DEF Kinds
<1> HIDE DEF bytes
<1>3. Roundup(bytes, 8) \in Nat
  BY <1>2 DEF Roundup
<1> QED
  BY <1>3 DEF SizeOf, bytes

(* The block a core is allocating. *)
LEMMA KindOfStep ==
  ASSUME Typing, NEW c \in Cores, pc[c].at \in Steps
  PROVE  pc[c].kind \in Kinds /\ SizeOf(pc[c].kind) \in Nat
<1>1. pc[c] \in PcSet
  BY DEF Typing
<1>2. pc[c].kind \in Kinds
  BY <1>1 DEF PcSet, Idle, Done, Halted, Steps
<1> QED
  BY <1>2, SizeIsNat

(* A core goes on to one of the places there are. *)
LEMMA GotoTyped ==
  ASSUME Typing, NEW c \in Cores, NEW step \in Steps, NEW kind \in Kinds, Goto(c, step, kind)
  PROVE  pc' \in [Cores -> PcSet]
  BY DEF Typing, Goto, PcSet

(* The break at the start. *)
LEMMA InitBreak == Init => IBreak
<1> SUFFICES ASSUME Init PROVE IBreak
  OBVIOUS
<1>1. pc \in [Cores -> PcSet]
  BY DEF Init, PcSet, Steps, Kinds
<1> QED
  BY <1>1, HeapAssumption DEF Init, IBreak, Typing, LoadedOK, BreakAboveBlocks

(* Every step keeps what is said of the break. *)
LEMMA StepBreak == IBreak /\ [Next]_vars => IBreak'
<1> SUFFICES ASSUME IBreak, [Next]_vars PROVE IBreak'
  OBVIOUS
<1> USE DEF IBreak
<1>1. ASSUME NEW c \in Cores, StartCore(c) PROVE IBreak'
  <2>1. pc' \in [Cores -> PcSet]
    BY <1>1, GotoTyped DEF StartCore, Steps, Kinds
  <2> QED
    BY <1>1, <2>1 DEF StartCore, Typing, LoadedOK, BreakAboveBlocks
<1>2. ASSUME NEW c \in Cores, Load(c) PROVE IBreak'
  <2>1. pc' \in [Cores -> PcSet]
    BY <1>2, KindOfStep, GotoTyped DEF Load, At, Steps
  <2>2. Typing'
    BY <1>2, <2>1 DEF Load, Typing
  <2>3. LoadedOK'
    BY <1>2 DEF Load, Typing, LoadedOK
  <2> QED
    BY <1>2, <2>2, <2>3 DEF Load, BreakAboveBlocks
<1>3. ASSUME NEW c \in Cores, AssertFails(c) PROVE IBreak'
  <2>1. pc' \in [Cores -> PcSet]
    BY <1>3 DEF AssertFails, Typing, PcSet
  <2> QED
    BY <1>3, <2>1 DEF AssertFails, Typing, LoadedOK, BreakAboveBlocks
<1>4. ASSUME NEW c \in Cores, Add(c) PROVE IBreak'
  <2> DEFINE size == SizeOf(pc[c].kind)
  <2>1. pc[c].kind \in Kinds /\ size \in Nat
    BY <1>4, KindOfStep DEF Add, At, Steps
  <2>2. pc' \in [Cores -> PcSet]
    BY <1>4, <2>1, GotoTyped DEF Add, Steps
  <2>3. /\ ptr' = ptr + size
        /\ blocks' = blocks \cup {BlockOf(c)}
        /\ UNCHANGED <<end, loaded>>
    BY <1>4 DEF Add
  <2>4. BlockOf(c) = [core |-> c, kind |-> pc[c].kind, base |-> loaded[c], size |-> size]
    BY DEF BlockOf, Block
  <2> HIDE DEF size
  <2>5. loaded[c] \in Nat /\ loaded[c] <= ptr
    BY DEF Typing, LoadedOK
  <2>6. Typing' /\ LoadedOK'
    BY <2>1, <2>2, <2>3, <2>4, <2>5 DEF Typing, LoadedOK
  <2>7. ASSUME NEW b \in blocks' PROVE b.base + b.size <= ptr'
    <3>1. CASE b \in blocks
      BY <3>1, <2>1, <2>3 DEF BreakAboveBlocks, Typing
    <3>2. CASE b = BlockOf(c)
      BY <3>2, <2>1, <2>3, <2>4, <2>5 DEF Typing
    <3> QED
      BY <2>3, <3>1, <3>2
  <2> QED
    BY <2>6, <2>7 DEF BreakAboveBlocks
<1>5. ASSUME NEW c \in Cores, Zero(c) PROVE IBreak'
  <2>1. pc' \in [Cores -> PcSet]
    BY <1>5, KindOfStep, GotoTyped DEF Zero, At, Steps
  <2> QED
    BY <1>5, <2>1 DEF Zero, Typing, LoadedOK, BreakAboveBlocks
<1>6. ASSUME NEW c \in Cores, Fill(c) PROVE IBreak'
  <2>1. pc[c].kind \in Kinds
    BY <1>6, KindOfStep DEF Fill, At, Steps
  <2>2. pc' \in [Cores -> PcSet]
    <3>1. CASE pc[c].kind = "dev"
      BY <1>6, <3>1, GotoTyped DEF Fill, Steps, Kinds
    <3>2. CASE pc[c].kind = "cons"
      BY <1>6, <3>2, GotoTyped DEF Fill, Steps, Kinds
    <3>3. CASE pc[c].kind = "segment"
      BY <1>6, <3>3 DEF Fill, Typing, PcSet
    <3> QED
      BY <2>1, <3>1, <3>2, <3>3 DEF Kinds
  <2> QED
    BY <1>6, <2>2 DEF Fill, Typing, LoadedOK, BreakAboveBlocks
<1>7. ASSUME NEW c \in Cores, ConsInit(c) PROVE IBreak'
  <2>1. pc' \in [Cores -> PcSet]
    <3>1. CASE c = 0
      BY <1>7, <3>1, GotoTyped DEF ConsInit, Steps, Kinds
    <3>2. CASE c # 0
      BY <1>7, <3>2 DEF ConsInit, Typing, PcSet
    <3> QED
      BY <3>1, <3>2
  <2> QED
    BY <1>7, <2>1 DEF ConsInit, Typing, LoadedOK, BreakAboveBlocks
<1>8. CASE UNCHANGED vars
  BY <1>8 DEF vars, Typing, LoadedOK, BreakAboveBlocks
<1> QED
  BY <1>1, <1>2, <1>3, <1>4, <1>5, <1>6, <1>7, <1>8 DEF Next

(* No core loaded more than the break, and no block reaches over it. *)
THEOREM BreakInvariant == Spec => []IBreak
  BY InitBreak, StepBreak, PTL DEF Spec

(* However many cores take blocks at once, no addition to the break is     *)
(* lost: what is taken next lies above every block returned.               *)
THEOREM BreakIsAbove == Spec => []BreakAboveBlocks
  BY BreakInvariant, PTL DEF IBreak

-----------------------------------------------------------------------------
(* The blocks core 0 took: nobody else takes any before it is done, and    *)
(* everything taken later lies above them.                                 *)

Boot == {b \in blocks : b.core = 0}
Below(b, address) == b.base + b.size <= address
Writing(c) == pc[c].at \in {"zero", "fill"}

OthersWait ==
  pc[0] # Done => /\ \A c \in Others : pc[c] = Idle
                  /\ \A d \in blocks : d.core = 0

BootBelow ==
  \A b \in Boot :
    /\ \A c \in Others : pc[c].at \in Steps \ {"load"} => Below(b, loaded[c])
    /\ \A d \in blocks : d.core # 0 => Below(b, d.base)
    /\ pc[0].at = "add" => Below(b, loaded[0])

BootApart == \A b \in Boot, d \in Boot : b = d \/ ~Overlap(b, d)

WritesOwn ==
  \A c \in Cores :
    /\ Writing(c) => BlockOf(c) \in blocks
    /\ pc[c].kind = "cons" => \E b \in blocks : b.core = c /\ b.kind = "dev"
    /\ pc[c].at = "init" => pc[c].kind = "cons"

BootWhole == \A b \in Boot : b \in whole \/ (Writing(0) /\ b = BlockOf(0))

IBoot == OthersWait /\ BootBelow /\ BootApart /\ WritesOwn /\ BootWhole

(* Core 0 is one of the cores. *)
LEMMA ZeroIsCore == 0 \in Cores /\ Others = Cores \ {0}
  BY HeapAssumption DEF Cores, Others

(* A write above all boot blocks, or into one of them, takes no other boot *)
(* block out of the whole ones.                                            *)
LEMMA SparedBoot ==
  ASSUME IBreak, IBoot, NEW w, w \in blocks, NEW b \in Boot, b \in whole
  PROVE  b \in Spared(w)
<1>1. /\ b.base \in Nat /\ b.size \in Nat
      /\ w.base \in Nat /\ w.size \in Nat
  BY DEF IBreak, Typing, Boot
<1>2. w = b \/ ~Overlap(w, b)
  <2>1. CASE w.core = 0
    BY <2>1 DEF IBoot, BootApart, Boot
  <2>2. CASE w.core # 0
    BY <1>1, <2>2 DEF IBoot, BootBelow, Below, Overlap
  <2> QED
    BY <2>1, <2>2
<1> QED
  BY <1>2 DEF Spared

(* The invariant of the boot at the start. *)
LEMMA InitBoot == Init => IBoot
<1> SUFFICES ASSUME Init PROVE IBoot
  OBVIOUS
<1>1. \A c \in Others : pc[c] = Idle
  BY ZeroIsCore DEF Init
<1>2. \A c \in Cores : ~Writing(c) /\ pc[c].kind # "cons" /\ pc[c].at # "init"
  BY DEF Init, Writing, Idle
<1> QED
  BY <1>1, <1>2 DEF Init, IBoot, OthersWait, BootBelow, BootApart, WritesOwn, BootWhole, Boot

(* A block that ends below another has no byte in common with it. *)
LEMMA OverlapMeans ==
  ASSUME NEW b, NEW d, Below(b, d.base), b.base \in Nat, b.size \in Nat,
         d.base \in Nat, d.size \in Nat
  PROVE  ~Overlap(b, d) /\ ~Overlap(d, b)
  BY DEF Below, Overlap

(* Every step keeps the invariant of the boot. *)
LEMMA StepBoot == IBreak /\ IBoot /\ [Next]_vars => IBoot'
<1> SUFFICES ASSUME IBreak, IBoot, [Next]_vars PROVE IBoot'
  OBVIOUS
<1>0. /\ 0 \in Cores /\ Others = Cores \ {0}
      /\ DOMAIN pc = Cores /\ DOMAIN loaded = Cores
  BY ZeroIsCore DEF IBreak, Typing
<1> USE <1>0
<1>1. ASSUME NEW c \in Cores, StartCore(c) PROVE IBoot'
  <2>1. /\ pc[0] = Done /\ c # 0 /\ pc' = [pc EXCEPT ![c] = [at |-> "load", kind |-> "dev"]]
        /\ UNCHANGED <<loaded, blocks, whole>>
    BY <1>1 DEF StartCore, At, Done, Goto
  <2>2. pc'[0] = Done
    BY <2>1
  <2>3. OthersWait' /\ BootApart' /\ BootBelow'
    BY <2>1, <2>2 DEF IBoot, OthersWait, BootApart, BootBelow, Boot, Below, Overlap
  <2>4. WritesOwn'
    BY <2>1 DEF IBoot, WritesOwn, Writing, BlockOf
  <2>5. BootWhole'
    BY <2>1 DEF IBoot, BootWhole, Boot, Writing, BlockOf
  <2> QED
    BY <2>3, <2>4, <2>5 DEF IBoot
<1>2. ASSUME NEW c \in Cores, Load(c) PROVE IBoot'
  <2>1. /\ pc[c].at = "load" /\ loaded' = [loaded EXCEPT ![c] = ptr]
        /\ pc' = [pc EXCEPT ![c] = [at |-> "add", kind |-> pc[c].kind]]
        /\ UNCHANGED <<ptr, blocks, whole>>
    BY <1>2 DEF Load, At, Goto
  <2>2. pc'[0] = Done <=> pc[0] = Done
    BY <2>1 DEF Done
  <2>3. OthersWait'
    BY <2>1, <2>2 DEF IBoot, OthersWait, Idle
  <2>4. BootBelow'
    BY <2>1 DEF IBreak, BreakAboveBlocks, IBoot, BootBelow, Boot, Below
  <2>5. BootApart'
    BY <2>1 DEF IBoot, BootApart, Boot, Overlap
  <2>6. WritesOwn'
    BY <2>1 DEF IBoot, WritesOwn, Writing, BlockOf
  <2>7. BootWhole'
    BY <2>1 DEF IBoot, BootWhole, Boot, Writing, BlockOf
  <2> QED
    BY <2>3, <2>4, <2>5, <2>6, <2>7 DEF IBoot
<1>3. ASSUME NEW c \in Cores, AssertFails(c) PROVE IBoot'
  <2>1. /\ pc[c].at = "add" /\ pc' = [pc EXCEPT ![c] = Halted]
        /\ UNCHANGED <<loaded, blocks, whole>>
    BY <1>3 DEF AssertFails, At
  <2>2. pc'[0] = Done <=> pc[0] = Done
    BY <2>1 DEF Done, Halted
  <2>3. OthersWait'
    BY <2>1, <2>2 DEF IBoot, OthersWait, Idle
  <2>4. BootBelow'
    BY <2>1 DEF IBoot, BootBelow, Boot, Below, Halted, Steps
  <2>5. BootApart'
    BY <2>1 DEF IBoot, BootApart, Boot, Overlap
  <2>6. WritesOwn'
    BY <2>1 DEF IBoot, WritesOwn, Writing, BlockOf, Halted
  <2>7. BootWhole'
    BY <2>1 DEF IBoot, BootWhole, Boot, Writing, BlockOf
  <2> QED
    BY <2>3, <2>4, <2>5, <2>6, <2>7 DEF IBoot
<1>4. ASSUME NEW c \in Cores, Add(c) PROVE IBoot'
  <2> DEFINE b0 == BlockOf(c)
  <2>1. /\ pc[c].at = "add" /\ blocks' = blocks \cup {b0}
        /\ pc' = [pc EXCEPT ![c] = [at |-> "zero", kind |-> pc[c].kind]]
        /\ UNCHANGED <<loaded, whole>>
    BY <1>4 DEF Add, At, Goto
  <2>2. /\ b0.core = c /\ b0.kind = pc[c].kind /\ b0.base = loaded[c] /\ b0.base \in Nat
        /\ b0.size \in Nat
    <3>1. SizeOf(pc[c].kind) \in Nat
      BY <2>1, KindOfStep DEF IBreak, Steps
    <3> QED
      BY <3>1 DEF BlockOf, Block, IBreak, Typing
  <2>3. b0 = BlockOf(c)'
    BY <2>1 DEF BlockOf
  <2>4. pc'[0] = Done <=> pc[0] = Done
    BY <2>1 DEF Done
  <2> HIDE DEF b0
  <2>5. OthersWait'
    BY <2>1, <2>2, <2>4 DEF IBoot, OthersWait, Idle
  <2>6. BootBelow'
    <3>1. CASE c = 0
      <4>1. pc[0] # Done
        BY <2>1, <3>1 DEF Done
      <4>2. \A e \in Others : pc[e] = Idle /\ pc'[e] = Idle
        BY <2>1, <3>1, <4>1 DEF IBoot, OthersWait
      <4>3. \A d \in blocks' : d.core = 0
        BY <2>1, <2>2, <3>1, <4>1 DEF IBoot, OthersWait
      <4>4. pc'[0].at = "zero"
        BY <2>1, <3>1
      <4> QED
        BY <4>2, <4>3, <4>4 DEF BootBelow, Idle, Steps
    <3>2. CASE c # 0
      <4>1. Boot' = Boot
        BY <2>1, <2>2, <3>2 DEF Boot
      <4>2. \A b \in Boot : Below(b, loaded[c])
        BY <2>1, <3>2 DEF IBoot, BootBelow, Steps
      <4> QED
        BY <2>1, <2>2, <3>2, <4>1, <4>2 DEF IBoot, BootBelow, Below, Steps
    <3> QED
      BY <3>1, <3>2
  <2>7. BootApart'
    <3>1. CASE c = 0
      <4>1. \A b \in Boot : Below(b, b0.base)
        BY <2>1, <2>2, <3>1 DEF IBoot, BootBelow
      <4>2. \A b \in Boot : b.base \in Nat /\ b.size \in Nat
        BY DEF IBreak, Typing, Boot
      <4>3. \A b \in Boot : ~Overlap(b, b0) /\ ~Overlap(b0, b)
        BY <2>2, <4>1, <4>2, OverlapMeans
      <4>4. Boot' = Boot \cup {b0}
        BY <2>1, <2>2, <3>1 DEF Boot
      <4> QED
        BY <4>3, <4>4 DEF IBoot, BootApart, Overlap
    <3>2. CASE c # 0
      BY <2>1, <2>2, <3>2 DEF IBoot, BootApart, Boot, Overlap
    <3> QED
      BY <3>1, <3>2
  <2>8. WritesOwn'
    <3>1. ASSUME NEW d \in Cores, d # c PROVE pc'[d] = pc[d] /\ BlockOf(d)' = BlockOf(d)
      BY <2>1, <3>1 DEF BlockOf
    <3>2. pc'[c] = [at |-> "zero", kind |-> pc[c].kind]
      BY <2>1
    <3> QED
      BY <2>1, <2>3, <3>1, <3>2 DEF IBoot, WritesOwn, Writing
  <2>9. BootWhole'
    <3>1. CASE c = 0
      <4>1. ~Writing(0) /\ Writing(0)'
        BY <2>1, <3>1 DEF Writing
      <4>2. \A b \in Boot' : b \in Boot \/ b = b0
        BY <2>1 DEF Boot
      <4> QED
        BY <2>1, <2>3, <3>1, <4>1, <4>2 DEF IBoot, BootWhole
    <3>2. CASE c # 0
      BY <2>1, <2>2, <3>2 DEF IBoot, BootWhole, Boot, Writing, BlockOf
    <3> QED
      BY <3>1, <3>2
  <2> QED
    BY <2>5, <2>6, <2>7, <2>8, <2>9 DEF IBoot
<1>5. ASSUME NEW c \in Cores, Zero(c) PROVE IBoot'
  <2> DEFINE w == BlockOf(c)
  <2>1. /\ pc[c].at = "zero" /\ whole' = Spared(w)
        /\ pc' = [pc EXCEPT ![c] = [at |-> "fill", kind |-> pc[c].kind]]
        /\ UNCHANGED <<loaded, blocks>>
    BY <1>5 DEF Zero, At, Goto
  <2>2. w \in blocks /\ w = BlockOf(c)'
    BY <2>1 DEF IBoot, WritesOwn, Writing, BlockOf
  <2> HIDE DEF w
  <2>3. pc'[0] = Done <=> pc[0] = Done
    BY <2>1 DEF Done
  <2>4. OthersWait'
    BY <2>1, <2>3 DEF IBoot, OthersWait, Idle
  <2>5. BootBelow'
    BY <2>1 DEF IBoot, BootBelow, Boot, Below, Steps
  <2>6. BootApart'
    BY <2>1 DEF IBoot, BootApart, Boot, Overlap
  <2>7. WritesOwn'
    <3>1. ASSUME NEW d \in Cores, d # c PROVE pc'[d] = pc[d] /\ BlockOf(d)' = BlockOf(d)
      BY <2>1, <3>1 DEF BlockOf
    <3>2. pc'[c] = [at |-> "fill", kind |-> pc[c].kind]
      BY <2>1
    <3> QED
      BY <2>1, <2>2, <3>1, <3>2 DEF IBoot, WritesOwn, Writing
  <2>8. BootWhole'
    <3>1. Boot' = Boot
      BY <2>1 DEF Boot
    <3>2. \A b \in Boot : b \in whole => b \in whole'
      BY <2>1, <2>2, SparedBoot
    <3>3. Writing(0) => Writing(0)' /\ BlockOf(0)' = BlockOf(0)
      BY <2>1 DEF Writing, BlockOf
    <3> QED
      BY <3>1, <3>2, <3>3 DEF IBoot, BootWhole
  <2> QED
    BY <2>4, <2>5, <2>6, <2>7, <2>8 DEF IBoot
<1>6. ASSUME NEW c \in Cores, Fill(c) PROVE IBoot'
  <2> DEFINE w == BlockOf(c)
  <2>1. /\ pc[c].at = "fill" /\ whole' = Spared(w) \cup {w}
        /\ UNCHANGED <<loaded, blocks>>
    BY <1>6 DEF Fill, At
  <2>2. w \in blocks /\ w.core = c /\ w.kind = pc[c].kind
    BY <2>1 DEF IBoot, WritesOwn, Writing, BlockOf, Block
  <2>3. PICK next : /\ pc' = [pc EXCEPT ![c] = next]
                    /\ \/ next = [at |-> "load", kind |-> "cons"] /\ pc[c].kind = "dev"
                       \/ next = [at |-> "init", kind |-> "cons"] /\ pc[c].kind = "cons"
                       \/ next = Done
    <3>1. pc[c].kind \in Kinds
      BY <2>1, KindOfStep DEF IBreak, Steps
    <3> QED
      BY <1>6, <3>1 DEF Fill, Goto, Kinds
  <2> HIDE DEF w
  <2>4. \A d \in Cores \ {c} : pc'[d] = pc[d]
    BY <2>3
  <2>5. pc'[c] = next /\ next.at \in {"load", "init", "done"}
    BY <2>3 DEF Done
  <2>6. OthersWait'
    <3>1. CASE c = 0
      BY <2>1, <2>4, <3>1 DEF IBoot, OthersWait, Done
    <3>2. CASE c # 0
      BY <2>1, <2>4, <3>2 DEF IBoot, OthersWait, Idle
    <3> QED
      BY <3>1, <3>2
  <2>7. BootBelow'
    BY <2>1, <2>4, <2>5 DEF IBoot, BootBelow, Boot, Below, Steps
  <2>8. BootApart'
    BY <2>1 DEF IBoot, BootApart, Boot, Overlap
  <2>9. WritesOwn'
    <3>1. ASSUME NEW d \in Cores, d # c PROVE pc'[d] = pc[d] /\ BlockOf(d)' = BlockOf(d)
      BY <2>1, <2>4, <3>1 DEF BlockOf
    <3>2. ~Writing(c)' /\ (pc'[c].at = "init" => pc'[c].kind = "cons")
      BY <2>3, <2>5 DEF Writing, Done
    <3>3. pc'[c].kind = "cons" => \E b \in blocks : b.core = c /\ b.kind = "dev"
      BY <2>2, <2>3, <2>5 DEF IBoot, WritesOwn, Done
    <3> QED
      BY <2>1, <3>1, <3>2, <3>3 DEF IBoot, WritesOwn, Writing
  <2>10. BootWhole'
    <3>1. Boot' = Boot
      BY <2>1 DEF Boot
    <3>2. w \in whole' /\ \A b \in Boot : b \in whole => b \in whole'
      BY <2>1, <2>2, SparedBoot
    <3>3. CASE c = 0
      BY <3>1, <3>2, <3>3 DEF IBoot, BootWhole, w
    <3>4. CASE c # 0
      <4>1. Writing(0) => Writing(0)' /\ BlockOf(0)' = BlockOf(0)
        BY <2>1, <2>4, <3>4 DEF Writing, BlockOf
      <4> QED
        BY <3>1, <3>2, <4>1 DEF IBoot, BootWhole
    <3> QED
      BY <3>3, <3>4
  <2> QED
    BY <2>6, <2>7, <2>8, <2>9, <2>10 DEF IBoot
<1>7. ASSUME NEW c \in Cores, ConsInit(c) PROVE IBoot'
  <2> DEFINE w == DeviceOf(c)
  <2>1. /\ pc[c].at = "init" /\ whole' = Spared(w)
        /\ UNCHANGED <<loaded, blocks>>
    BY <1>7 DEF ConsInit, At
  <2>2. w \in blocks
    BY <2>1 DEF IBoot, WritesOwn, DeviceOf
  <2>3. PICK next : /\ pc' = [pc EXCEPT ![c] = next]
                    /\ \/ c = 0 /\ next = [at |-> "load", kind |-> "segment"]
                       \/ c # 0 /\ next = Done
    BY <1>7 DEF ConsInit, Goto
  <2> HIDE DEF w
  <2>4. \A d \in Cores \ {c} : pc'[d] = pc[d]
    BY <2>3
  <2>5. /\ pc'[c] = next /\ next.at \in {"load", "done"} /\ next.kind # "cons"
        /\ c = 0 => next # Done
    BY <2>3 DEF Done
  <2>6. OthersWait'
    <3>1. CASE c = 0
      BY <2>1, <2>4, <3>1 DEF IBoot, OthersWait, Done
    <3>2. CASE c # 0
      BY <2>1, <2>4, <3>2 DEF IBoot, OthersWait, Idle
    <3> QED
      BY <3>1, <3>2
  <2>7. BootBelow'
    BY <2>1, <2>4, <2>5 DEF IBoot, BootBelow, Boot, Below, Steps
  <2>8. BootApart'
    BY <2>1 DEF IBoot, BootApart, Boot, Overlap
  <2>9. WritesOwn'
    <3>1. ASSUME NEW d \in Cores, d # c PROVE pc'[d] = pc[d] /\ BlockOf(d)' = BlockOf(d)
      BY <2>1, <2>4, <3>1 DEF BlockOf
    <3>2. ~Writing(c)' /\ pc'[c].at # "init" /\ pc'[c].kind # "cons"
      BY <2>5 DEF Writing
    <3> QED
      BY <2>1, <3>1, <3>2 DEF IBoot, WritesOwn, Writing
  <2>10. BootWhole'
    <3>1. Boot' = Boot
      BY <2>1 DEF Boot
    <3>2. \A b \in Boot : b \in whole => b \in whole'
      BY <2>1, <2>2, SparedBoot
    <3>3. Writing(0) => c # 0 /\ Writing(0)' /\ BlockOf(0)' = BlockOf(0)
      BY <2>1, <2>4 DEF Writing, BlockOf
    <3> QED
      BY <3>1, <3>2, <3>3 DEF IBoot, BootWhole
  <2> QED
    BY <2>6, <2>7, <2>8, <2>9, <2>10 DEF IBoot
<1>8. CASE UNCHANGED vars
  BY <1>8 DEF vars, IBoot, OthersWait, BootBelow, BootApart, WritesOwn, BootWhole, Boot, Below,
     Overlap, Writing, BlockOf
<1> QED
  BY <1>1, <1>2, <1>3, <1>4, <1>5, <1>6, <1>7, <1>8 DEF Next

(* Both hold in every state. *)
THEOREM BootInvariant == Spec => [](IBreak /\ IBoot)
<1>1. Init => IBreak /\ IBoot
  BY InitBreak, InitBoot
<1>2. IBreak /\ IBoot /\ [Next]_vars => (IBreak /\ IBoot)'
  BY StepBreak, StepBoot
<1> QED
  BY <1>1, <1>2, PTL DEF Spec

(* Whatever the other cores take from the heap, and however their calls    *)
(* race, they never write into what core 0 took before it woke them: its   *)
(* console and the bitmap of the page allocator.                           *)
THEOREM BootBlocksKept == Spec => []BootBlocksWhole
<1>1. IBreak /\ IBoot => BootBlocksWhole
  BY DEF IBoot, BootWhole, Boot, BootBlocksWhole, Writing, BlockOf, Block
<1> QED
  BY <1>1, BootInvariant, PTL

-----------------------------------------------------------------------------
(* How far the break moves: by the size of a device for every core that    *)
(* has taken one, of a console for every core that has, and of the segment *)
(* when core 0 has taken that.                                             *)

TookDev(c)  == pc[c] # Idle /\ (pc[c].kind = "dev" => Writing(c))
TookCons(c) ==
  \/ pc[c] = Done \/ pc[c].kind = "segment"
  \/ pc[c].kind = "cons" /\ pc[c].at \in {"zero", "fill", "init"}
TookSegment(c) == c = 0 /\ (pc[c] = Done \/ (pc[c].kind = "segment" /\ Writing(c)))

Devs     == {c \in Cores : TookDev(c)}
Conses   == {c \in Cores : TookCons(c)}
Segments == {c \in Cores : TookSegment(c)}

Sum(kind, S) == SizeOf(kind) * Cardinality(S)
Taken == Sum("dev", Devs) + Sum("cons", Conses) + Sum("segment", Segments)

NobodyHalted == \A c \in Cores : pc[c] # Halted
SegmentOfBoot == \A c \in Cores : pc[c].kind = "segment" => c = 0
IHeap == SegmentOfBoot /\ (end = BoardEnd => NobodyHalted /\ ptr = Taken)

(* What the linker script and the sizes of the board give: the blocks of   *)
(* all cores fit below state.end.                                          *)
HeapHolds == NCores * (SizeOf("dev") + SizeOf("cons")) + SizeOf("segment") <= BoardEnd

(* There are NCores cores. *)
LEMMA CoresFinite == IsFiniteSet(Cores) /\ Cardinality(Cores) = NCores
  BY FS_Interval, HeapAssumption DEF Cores

(* Every set of cores is finite. *)
LEMMA SetSizes ==
  ASSUME NEW S \in SUBSET Cores
  PROVE  IsFiniteSet(S) /\ Cardinality(S) \in Nat /\ Cardinality(S) <= NCores
  BY CoresFinite, FS_Subset, FS_CardinalityType

(* A core that takes a block it did not have moves the sum by its size.    *)
LEMMA SumGrows ==
  ASSUME NEW kind \in Kinds, NEW S \in SUBSET Cores, NEW c \in Cores, c \notin S
  PROVE  Sum(kind, S \cup {c}) = Sum(kind, S) + SizeOf(kind)
<1> DEFINE n == Cardinality(S)  size == SizeOf(kind)
<1>1. n \in Nat /\ size \in Nat /\ Cardinality(S \cup {c}) = n + 1
  BY SetSizes, FS_AddElement, SizeIsNat
<1> HIDE DEF n, size
<1>2. size * (n + 1) = size * n + size
  BY <1>1
<1> QED
  BY <1>1, <1>2 DEF Sum, n, size

(* What a set of cores has taken is at most what "limit" of them take.     *)
LEMMA SumBelow ==
  ASSUME NEW kind \in Kinds, NEW S \in SUBSET Cores, NEW limit \in Nat, Cardinality(S) <= limit
  PROVE  Sum(kind, S) \in Nat /\ Sum(kind, S) <= limit * SizeOf(kind)
<1> DEFINE n == Cardinality(S)  size == SizeOf(kind)
<1>1. n \in Nat /\ size \in Nat /\ n <= limit
  BY SetSizes, SizeIsNat
<1> HIDE DEF n, size
<1>2. size * n \in Nat /\ size * n <= limit * size
  BY <1>1
<1> QED
  BY <1>2 DEF Sum, n, size

(* The blocks of a kind take no more than one for every core. *)
LEMMA SumsAreBelow ==
  /\ Sum("dev", Devs) \in Nat /\ Sum("dev", Devs) <= NCores * SizeOf("dev")
  /\ Sum("cons", Conses) \in Nat /\ Sum("cons", Conses) <= NCores * SizeOf("cons")
  /\ Sum("segment", Segments) \in Nat /\ Sum("segment", Segments) <= SizeOf("segment")
<1>1. Devs \subseteq Cores /\ Conses \subseteq Cores /\ Segments \subseteq Cores
  BY DEF Devs, Conses, Segments
<1>2. Cardinality(Segments) <= 1
  <2>1. Segments \subseteq {0}
    BY DEF Segments, TookSegment
  <2>2. IsFiniteSet({0}) /\ Cardinality({0}) = 1
    BY FS_Singleton
  <2> QED
    BY <2>1, <2>2, FS_Subset
<1>3. SizeOf("segment") \in Nat /\ NCores \in Nat
  BY SizeIsNat, HeapAssumption DEF Kinds
<1>4. 1 * SizeOf("segment") = SizeOf("segment")
  BY <1>3
<1> QED
  BY <1>1, <1>2, <1>3, <1>4, SetSizes, SumBelow DEF Kinds

(* The call of a core at "add" fits: it has read the break or less, and    *)
(* its own block is not in the sum yet.                                    *)
LEMMA AddFits ==
  ASSUME HeapHolds, IBreak, IHeap, end = BoardEnd, NEW c \in Cores, At(c, "add")
  PROVE  Fits(c)
<1> DEFINE dev == SizeOf("dev")  cons == SizeOf("cons")  sg == SizeOf("segment")
           D == Sum("dev", Devs)  C == Sum("cons", Conses)  G == Sum("segment", Segments)
<1>1. dev \in Nat /\ cons \in Nat /\ sg \in Nat /\ NCores \in Nat
  BY SizeIsNat, HeapAssumption DEF Kinds
<1>2. pc[c].kind \in Kinds
  BY KindOfStep DEF IBreak, At, Steps
<1>3. loaded[c] \in Nat /\ loaded[c] <= D + C + G
  BY DEF IBreak, Typing, LoadedOK, IHeap, Taken
<1>4. /\ Devs \subseteq Cores /\ Conses \subseteq Cores /\ Segments \subseteq Cores
      /\ pc[c].at = "add" /\ pc[c] # Done
  BY DEF Devs, Conses, Segments, At, Done
<1>5. /\ D \in Nat /\ D <= NCores * dev
      /\ C \in Nat /\ C <= NCores * cons
      /\ G \in Nat /\ G <= sg
  BY SumsAreBelow
<1>6. D + C + G + SizeOf(pc[c].kind) <= NCores * dev + NCores * cons + sg
  <2>1. CASE pc[c].kind = "dev"
    <3>1. c \notin Devs
      BY <1>4, <2>1 DEF Devs, TookDev, Writing
    <3>2. Sum("dev", Devs \cup {c}) = D + dev
      BY <1>4, <3>1, SumGrows DEF Kinds
    <3>3. Sum("dev", Devs \cup {c}) <= NCores * dev
      BY <1>1, <1>4, SetSizes, SumBelow DEF Kinds
    <3> HIDE DEF D, C, G
    <3> QED
      BY <1>1, <1>5, <2>1, <3>2, <3>3
  <2>2. CASE pc[c].kind = "cons"
    <3>1. c \notin Conses
      BY <1>4, <2>2 DEF Conses, TookCons
    <3>2. Sum("cons", Conses \cup {c}) = C + cons
      BY <1>4, <3>1, SumGrows DEF Kinds
    <3>3. Sum("cons", Conses \cup {c}) <= NCores * cons
      BY <1>1, <1>4, SetSizes, SumBelow DEF Kinds
    <3> HIDE DEF D, C, G
    <3> QED
      BY <1>1, <1>5, <2>2, <3>2, <3>3
  <2>3. CASE pc[c].kind = "segment"
    <3>1. c = 0
      BY <2>3 DEF IHeap, SegmentOfBoot
    <3>2. Segments = {}
      BY <1>4, <3>1 DEF Segments, TookSegment, Writing
    <3>3. G = 0
      BY <1>1, <3>2, FS_EmptySet DEF Sum
    <3> HIDE DEF D, C, G
    <3> QED
      BY <1>1, <1>5, <2>3, <3>3
  <2> QED
    BY <1>2, <2>1, <2>2, <2>3 DEF Kinds
<1>7. NCores * dev + NCores * cons + sg <= BoardEnd
  <2>1. NCores * (dev + cons) = NCores * dev + NCores * cons
    BY <1>1
  <2> QED
    BY <2>1 DEF HeapHolds
<1>8. SizeOf(pc[c].kind) \in Nat /\ BoardEnd \in Nat
  BY <1>2, SizeIsNat, HeapAssumption
<1> HIDE DEF D, C, G
<1>9. loaded[c] + SizeOf(pc[c].kind) <= BoardEnd
  BY <1>1, <1>3, <1>5, <1>6, <1>7, <1>8
<1> QED
  BY <1>9 DEF Fits

(* The invariant of the heap at the start. *)
LEMMA InitHeap == Init => IHeap
<1> SUFFICES ASSUME Init PROVE IHeap
  OBVIOUS
<1>1. \A c \in Cores : pc[c] = Idle \/ pc[c] = [at |-> "load", kind |-> "dev"]
  BY DEF Init
<1>2. Devs = {} /\ Conses = {} /\ Segments = {}
  BY <1>1 DEF Devs, Conses, Segments, TookDev, TookCons, TookSegment, Writing, Idle, Done
<1>3. Taken = 0
  BY <1>2, SizeIsNat, FS_EmptySet DEF Taken, Sum, Kinds
<1> QED
  BY <1>1, <1>3 DEF Init, IHeap, SegmentOfBoot, NobodyHalted, Idle, Halted

(* A step of one core to a place where it has taken the same blocks moves  *)
(* nothing.                                                                *)
LEMMA SameTaken ==
  ASSUME NEW c \in Cores, pc \in [Cores -> PcSet],
         pc' = [pc EXCEPT ![c] = pc'[c]],
         TookDev(c)' = TookDev(c), TookCons(c)' = TookCons(c), TookSegment(c)' = TookSegment(c)
  PROVE  Taken' = Taken
<1>1. ASSUME NEW d \in Cores
      PROVE  /\ TookDev(d)' <=> TookDev(d)
             /\ TookCons(d)' <=> TookCons(d)
             /\ TookSegment(d)' <=> TookSegment(d)
  <2>1. CASE d = c
    BY <2>1
  <2>2. CASE d # c
    <3>1. pc'[d] = pc[d]
      BY <2>2
    <3> QED
      BY <3>1 DEF TookDev, TookCons, TookSegment, Writing
  <2> QED
    BY <2>1, <2>2
<1>2. Devs' = Devs /\ Conses' = Conses /\ Segments' = Segments
  BY <1>1 DEF Devs, Conses, Segments
<1> QED
  BY <1>2 DEF Taken, Sum

(* Every step keeps the invariant of the heap. *)
LEMMA StepHeap ==
  ASSUME HeapHolds, IBreak, IBoot, IHeap, [Next]_vars
  PROVE  IHeap'
<1>0. /\ pc \in [Cores -> PcSet] /\ 0 \in Cores
      /\ SegmentOfBoot
  BY ZeroIsCore DEF IBreak, Typing, IHeap
<1> DEFINE Quiet(c) == /\ TookDev(c)' = TookDev(c) /\ TookCons(c)' = TookCons(c)
                       /\ TookSegment(c)' = TookSegment(c)
<1>1. ASSUME NEW c \in Cores, NEW next, pc' = [pc EXCEPT ![c] = next], next # Halted,
             next.kind = "segment" => c = 0, Quiet(c), UNCHANGED <<ptr, end>>
      PROVE  IHeap'
  <2>1. pc'[c] = next /\ \A d \in Cores \ {c} : pc'[d] = pc[d]
    BY <1>0, <1>1
  <2>2. Taken' = Taken
    BY <1>0, <1>1, <2>1, SameTaken
  <2> QED
    BY <1>0, <1>1, <2>1, <2>2 DEF IHeap, SegmentOfBoot, NobodyHalted
<1>2. ASSUME NEW c \in Cores, StartCore(c) PROVE IHeap'
  <2> DEFINE next == [at |-> "load", kind |-> "dev"]
  <2>1. pc[c].at = "off" /\ pc' = [pc EXCEPT ![c] = next] /\ UNCHANGED <<ptr, end>>
    BY <1>2 DEF StartCore, At, Goto
  <2>2. pc[c] = Idle /\ pc'[c] = next /\ next # Halted
    BY <1>0, <2>1 DEF PcSet, Steps, Done, Halted
  <2>3. Quiet(c)
    BY <2>2 DEF TookDev, TookCons, TookSegment, Writing, Idle, Done
  <2> QED
    BY <1>1, <2>1, <2>2, <2>3
<1>3. ASSUME NEW c \in Cores, Load(c) PROVE IHeap'
  <2> DEFINE next == [at |-> "add", kind |-> pc[c].kind]
  <2>1. pc[c].at = "load" /\ pc' = [pc EXCEPT ![c] = next] /\ UNCHANGED <<ptr, end>>
    BY <1>3 DEF Load, At, Goto
  <2>2. pc'[c] = next /\ next # Halted /\ (next.kind = "segment" => c = 0)
    BY <1>0, <2>1 DEF SegmentOfBoot, Halted
  <2>3. Quiet(c)
    BY <2>1, <2>2 DEF TookDev, TookCons, TookSegment, Writing, Idle, Done
  <2> QED
    BY <1>1, <2>1, <2>2, <2>3
<1>4. ASSUME NEW c \in Cores, AssertFails(c) PROVE IHeap'
  <2>1. end # BoardEnd /\ end' = end /\ pc' = [pc EXCEPT ![c] = Halted]
    BY <1>4, AddFits DEF AssertFails
  <2> QED
    BY <1>0, <2>1 DEF IHeap, SegmentOfBoot, Halted
<1>5. ASSUME NEW c \in Cores, Add(c) PROVE IHeap'
  <2> DEFINE next == [at |-> "zero", kind |-> pc[c].kind]  kind == pc[c].kind
  <2>1. /\ pc[c].at = "add" /\ pc' = [pc EXCEPT ![c] = next]
        /\ ptr' = ptr + SizeOf(kind) /\ end' = end
    BY <1>5 DEF Add, At, Goto
  <2>2. pc'[c] = next /\ next # Halted /\ \A d \in Cores \ {c} : pc'[d] = pc[d]
    BY <1>0, <2>1 DEF Halted
  <2>3. kind \in Kinds
    BY <2>1, KindOfStep DEF IBreak, Steps
  <2>4. SegmentOfBoot'
    BY <1>0, <2>2 DEF SegmentOfBoot
  <2>5. \A d \in Cores \ {c} : /\ TookDev(d)' <=> TookDev(d)
                               /\ TookCons(d)' <=> TookCons(d)
                               /\ TookSegment(d)' <=> TookSegment(d)
    BY <2>2 DEF TookDev, TookCons, TookSegment, Writing
  <2>6. /\ TookDev(c)' /\ (TookDev(c) <=> kind # "dev")
        /\ TookCons(c)' <=> kind # "dev"
        /\ TookCons(c) <=> kind = "segment"
        /\ TookSegment(c)' <=> kind = "segment"
        /\ ~TookSegment(c)
    BY <1>0, <2>1, <2>2, <2>3 DEF TookDev, TookCons, TookSegment, Writing, Idle, Done, Kinds,
       SegmentOfBoot
  <2>7. /\ Devs' = IF kind = "dev" THEN Devs \cup {c} ELSE Devs
        /\ Conses' = IF kind = "cons" THEN Conses \cup {c} ELSE Conses
        /\ Segments' = IF kind = "segment" THEN Segments \cup {c} ELSE Segments
    BY <2>3, <2>5, <2>6 DEF Devs, Conses, Segments, Kinds
  <2>8. /\ kind = "dev" => Sum("dev", Devs \cup {c}) = Sum("dev", Devs) + SizeOf(kind)
        /\ kind = "cons" => Sum("cons", Conses \cup {c}) = Sum("cons", Conses) + SizeOf(kind)
        /\ kind = "segment" =>
             Sum("segment", Segments \cup {c}) = Sum("segment", Segments) + SizeOf(kind)
    <3>1. /\ Devs \subseteq Cores /\ Conses \subseteq Cores /\ Segments \subseteq Cores
          /\ kind = "dev" => c \notin Devs
          /\ kind = "cons" => c \notin Conses
          /\ c \notin Segments
      BY <2>6 DEF Devs, Conses, Segments
    <3> QED
      BY <2>3, <3>1, SumGrows
  <2>9. Taken' = Taken + SizeOf(kind)
    <3>1. /\ Sum("dev", Devs)' = Sum("dev", Devs')
          /\ Sum("cons", Conses)' = Sum("cons", Conses')
          /\ Sum("segment", Segments)' = Sum("segment", Segments')
      BY DEF Sum
    <3>2. SizeOf(kind) \in Nat
      BY <2>3, SizeIsNat
    <3> QED
      BY <2>3, <2>7, <2>8, <3>1, <3>2, SumsAreBelow DEF Taken, Kinds
  <2> QED
    BY <2>1, <2>2, <2>4, <2>9 DEF IHeap, NobodyHalted
<1>6. ASSUME NEW c \in Cores, Zero(c) PROVE IHeap'
  <2> DEFINE next == [at |-> "fill", kind |-> pc[c].kind]
  <2>1. pc[c].at = "zero" /\ pc' = [pc EXCEPT ![c] = next] /\ UNCHANGED <<ptr, end>>
    BY <1>6 DEF Zero, At, Goto
  <2>2. pc'[c] = next /\ next # Halted /\ (next.kind = "segment" => c = 0)
    BY <1>0, <2>1 DEF SegmentOfBoot, Halted
  <2>3. Quiet(c)
    BY <2>1, <2>2 DEF TookDev, TookCons, TookSegment, Writing, Idle, Done
  <2> QED
    BY <1>1, <2>1, <2>2, <2>3
<1>7. ASSUME NEW c \in Cores, Fill(c) PROVE IHeap'
  <2>1. pc[c].at = "fill" /\ UNCHANGED <<ptr, end>>
    BY <1>7 DEF Fill, At
  <2>2. PICK next : /\ pc' = [pc EXCEPT ![c] = next]
                    /\ \/ next = [at |-> "load", kind |-> "cons"] /\ pc[c].kind = "dev"
                       \/ next = [at |-> "init", kind |-> "cons"] /\ pc[c].kind = "cons"
                       \/ next = Done /\ pc[c].kind = "segment"
    <3>1. pc[c].kind \in Kinds
      BY <2>1, KindOfStep DEF IBreak, Steps
    <3> QED
      BY <1>7, <3>1 DEF Fill, Goto, Kinds
  <2>3. pc'[c] = next /\ next # Halted /\ next.kind # "segment"
    BY <1>0, <2>2 DEF Halted, Done
  <2>4. Quiet(c)
    BY <1>0, <2>1, <2>2, <2>3 DEF TookDev, TookCons, TookSegment, Writing, Idle, Done,
       SegmentOfBoot
  <2> QED
    BY <1>1, <2>1, <2>2, <2>3, <2>4
<1>8. ASSUME NEW c \in Cores, ConsInit(c) PROVE IHeap'
  <2>1. pc[c].at = "init" /\ pc[c].kind = "cons" /\ UNCHANGED <<ptr, end>>
    BY <1>8 DEF ConsInit, At, IBoot, WritesOwn
  <2>2. PICK next : /\ pc' = [pc EXCEPT ![c] = next]
                    /\ \/ c = 0 /\ next = [at |-> "load", kind |-> "segment"]
                       \/ c # 0 /\ next = Done
    BY <1>8 DEF ConsInit, Goto
  <2>3. pc'[c] = next /\ next # Halted /\ (next.kind = "segment" => c = 0)
    BY <1>0, <2>2 DEF Halted, Done
  <2>4. Quiet(c)
    BY <2>1, <2>2, <2>3 DEF TookDev, TookCons, TookSegment, Writing, Idle, Done
  <2> QED
    BY <1>1, <2>1, <2>2, <2>3, <2>4
<1>9. CASE UNCHANGED vars
  <2>1. Devs' = Devs /\ Conses' = Conses /\ Segments' = Segments
    BY <1>9 DEF vars, Devs, Conses, Segments, TookDev, TookCons, TookSegment, Writing
  <2> QED
    BY <1>9, <2>1 DEF vars, IHeap, SegmentOfBoot, NobodyHalted, Taken, Sum
<1> HIDE DEF Quiet
<1> QED
  BY <1>2, <1>3, <1>4, <1>5, <1>6, <1>7, <1>8, <1>9 DEF Next

(* On a heap that has room for the blocks of every core, which sizes and   *)
(* linker script of the board give (4 * (64 + 40) + 32296 <= 32768), no    *)
(* call of sbrk fails its assertion, in whatever order the cores make      *)
(* theirs: nobody takes a block twice and no addition is counted twice.    *)
THEOREM HeapSuffices ==
  ASSUME HeapHolds
  PROVE  Spec => []HeapIsBigEnough
<1>1. Init => IHeap
  BY InitHeap
<1>2. IBreak /\ IBoot /\ IHeap /\ [Next]_vars => IHeap'
  BY StepHeap
<1>3. IHeap => HeapIsBigEnough
  BY DEF IHeap, NobodyHalted, HeapIsBigEnough
<1> QED
  BY <1>1, <1>2, <1>3, BootInvariant, PTL DEF Spec

=============================================================================
