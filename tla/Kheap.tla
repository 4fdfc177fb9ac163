------------------------------- MODULE Kheap -------------------------------
(***************************************************************************)
(* The kernel heap: sbrk (klibc/sbrk.c) and the three blocks taken from    *)
(* it: the device and the console of every core (make_gfx_cons in          *)
(* kernel/gfx_cons.c, cons_init in kernel/cons.c) and, on core 0, the      *)
(* memory segment with its bitmap (pm_add_segment in kernel/pmman.c).      *)
(*                                                                         *)
(* sbrk reads the break, tests it, and adds to it atomically, in separate  *)
(* steps.  Core 0 takes its blocks alone (kernel_entry before              *)
(* smp_bootstrap); the others all take theirs in smp_intro, at any time.   *)
(* What memory holds is abstracted to the set of the blocks whose fields   *)
(* are as their core wrote them: a write into the words of another block   *)
(* takes that block out.                                                   *)
(***************************************************************************)
EXTENDS Integers, FiniteSets

CONSTANTS
  NCores,     \* cores, numbered from 0
  HeapEnds,   \* the values state.end may have, counted from _bss_end
  BoardEnd,   \* the one the linker script gives it: 32768
  NPages,     \* pages of the segment of kernel_entry
  DevBytes,   \* sizeof(cons_dev_t)
  ConsBytes,  \* sizeof(cons_t)
  SegBytes    \* sizeof(pm_segment_t)

Cores  == 0..(NCores - 1)
Others == Cores \ {0}

ASSUME HeapAssumption ==
  /\ NCores \in Nat \ {0}
  /\ HeapEnds \subseteq Nat /\ BoardEnd \in HeapEnds /\ NPages \in Nat
  /\ DevBytes \in Nat \ {0} /\ ConsBytes \in Nat \ {0} /\ SegBytes \in Nat \ {0}

VARIABLES
  ptr,      \* state.ptr, counted from _bss_end
  end,      \* state.end
  pc,       \* where each core is
  loaded,   \* the break each core has read
  whole,    \* the blocks that hold what their core wrote
  blocks    \* every block sbrk has returned

vars == <<ptr, end, pc, loaded, whole, blocks>>

(* bytes in a bitstring of nbits bits; a variant with a wrong shift.       *)
bitstr_size_wrong(nbits) == (nbits + 7) \div 4
bitstr_size(nbits) == (nbits + 7) \div 8

Roundup(x, y) == ((x + y - 1) \div y) * y

Kinds == {"dev", "cons", "segment"}
SizeOf(kind) ==
  Roundup(CASE kind = "dev"     -> DevBytes
            [] kind = "cons"    -> ConsBytes
            [] kind = "segment" -> SegBytes + bitstr_size(NPages), 8)


Idle == [at |-> "off", kind |-> "none"]
Done == [at |-> "done", kind |-> "none"]
Halted == [at |-> "halted", kind |-> "none"]
Steps == {"load", "add", "zero", "fill", "init"}
At(c, step) == pc[c].at = step
Goto(c, step, kind) ==
  pc' = [pc EXCEPT ![c] = [at |-> step, kind |-> kind]]

Block(c, kind, base) == [core |-> c, kind |-> kind, base |-> base, size |-> SizeOf(kind)]
Overlap(b, d) == b.base < d.base + d.size /\ d.base < b.base + b.size

(* What stays whole when block b is written into. *)
Spared(b) == {d \in whole : d = b \/ ~Overlap(b, d)}

BlockOf(c) == Block(c, pc[c].kind, loaded[c])

TypeOK ==
  /\ ptr \in Nat
  /\ end \in HeapEnds
  /\ pc \in [Cores -> {Idle, Done, Halted} \cup [at : Steps, kind : Kinds]]
  /\ loaded \in [Cores -> Nat]
  /\ blocks \subseteq [core : Cores, kind : Kinds, base : Nat, size : Nat]
  /\ whole \subseteq blocks

Init ==
  /\ ptr = 0
  /\ end \in HeapEnds
  /\ pc = [c \in Cores |-> IF c = 0 THEN [at |-> "load", kind |-> "dev"] ELSE Idle]
  /\ loaded = [c \in Cores |-> 0]
  /\ whole = {}
  /\ blocks = {}

(* smp_bootstrap runs once kernel_entry has set up the page allocator. *)
StartCore(c) ==
  /\ At(c, "off")
  /\ pc[0] = Done
  /\ Goto(c, "load", "dev")
  /\ UNCHANGED <<ptr, end, loaded, whole, blocks>>

(* uint8_t *ptr = state.ptr *)
Load(c) ==
  /\ At(c, "load")
  /\ loaded' = [loaded EXCEPT ![c] = ptr]
  /\ Goto(c, "add", pc[c].kind)
  /\ UNCHANGED <<ptr, end, whole, blocks>>

Fits(c) == loaded[c] + SizeOf(pc[c].kind) <= end

(* The assertion fails: the core gets no further, whether __assert can     *)
(* still print or, without a console, faults.                              *)
AssertFails(c) ==
  /\ At(c, "add")
  /\ ~Fits(c)
  /\ pc' = [pc EXCEPT ![c] = Halted]
  /\ UNCHANGED <<ptr, end, loaded, whole, blocks>>

(* A variant that stores the sum of the value read before. *)
AddByStore(c) ==
  /\ At(c, "add")
  /\ Fits(c)
  /\ ptr' = loaded[c] + SizeOf(pc[c].kind)
  /\ blocks' = blocks \cup {BlockOf(c)}
  /\ Goto(c, "zero", pc[c].kind)
  /\ UNCHANGED <<end, loaded, whole>>

(* A variant that takes the block before it moves the break past it. *)
AddNothing(c) ==
  /\ At(c, "add")
  /\ Fits(c)
  /\ blocks' = blocks \cup {BlockOf(c)}
  /\ Goto(c, "zero", pc[c].kind)
  /\ UNCHANGED <<ptr, end, loaded, whole>>

(* state.ptr += size is one atomic addition; the block is the one read.    *)
Add(c) ==
  /\ At(c, "add")
  /\ Fits(c)
  /\ ptr' = ptr + SizeOf(pc[c].kind)
  /\ blocks' = blocks \cup {BlockOf(c)}
  /\ Goto(c, "zero", pc[c].kind)
  /\ UNCHANGED <<end, loaded, whole>>

(* bzero(ptr, size) *)
Zero(c) ==
  /\ At(c, "zero")
  /\ whole' = Spared(BlockOf(c))
  /\ Goto(c, "fill", pc[c].kind)
  /\ UNCHANGED <<ptr, end, loaded, blocks>>

(* The caller writes the fields.  A core then takes its next block, and    *)
(* cons_init follows the console: it stores cn in the core's pcpu.         *)
Fill(c) ==
  LET kind == pc[c].kind IN
  /\ At(c, "fill")
  /\ whole' = Spared(BlockOf(c)) \cup {BlockOf(c)}
  /\ CASE kind = "dev"     -> Goto(c, "load", "cons")
       [] kind = "cons"    -> Goto(c, "init", "cons")
       [] kind = "segment" -> pc' = [pc EXCEPT ![c] = Done]
  /\ UNCHANGED <<ptr, end, loaded, blocks>>

DeviceOf(c) == CHOOSE b \in blocks : b.core = c /\ b.kind = "dev"

(* cn->init(cn->dev): gfx_cons_init writes the size and the cursor.        *)
ConsInit(c) ==
  /\ At(c, "init")
  /\ whole' = Spared(DeviceOf(c))
  /\ IF c = 0 THEN Goto(c, "load", "segment") ELSE pc' = [pc EXCEPT ![c] = Done]
  /\ UNCHANGED <<ptr, end, loaded, blocks>>

Next ==
  \E c \in Cores :
    \/ StartCore(c)
    \/ Load(c)
    \/ AssertFails(c)
    \/ Add(c)
    \/ Zero(c)
    \/ Fill(c)
    \/ ConsInit(c)

Spec == Init /\ [][Next]_vars

-----------------------------------------------------------------------------

(* Racing calls lose no addition: the break has moved by the size of every *)
(* block returned, so that what comes later lies above all of them.        *)
BreakAboveBlocks == \A b \in blocks : b.base + b.size <= ptr

(* The heap of the linker script holds the consoles of all cores and the   *)
(* bitmap of the board's memory: there no core fails the assertion.        *)
HeapIsBigEnough == end = BoardEnd => \A c \in Cores : pc[c] # Halted

(* What core 0 took before it woke the others stays as it wrote it: its    *)
(* console and the bitmap of the page allocator are out of their reach.    *)
BootBlocksWhole ==
  \A b \in blocks :
    b.core = 0 => b \in whole \/ (b.kind = pc[0].kind /\ pc[0].at \in {"zero", "fill"})

=============================================================================
