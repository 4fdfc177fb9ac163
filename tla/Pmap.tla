-------------------------------- MODULE Pmap --------------------------------
(***************************************************************************)
(* The kernel's page table and its faults: pmap.c, the data aborts of      *)
(* exc.c, vm_alloc (demo.c) and the calls demo_pmap and pages_alloc make,  *)
(* on cores that share the last-level table and have a TLB each.           *)
(*                                                                         *)
(* Every core takes one page from vm_alloc and enters, removes, loads and  *)
(* stores there in any order.  The pages of vm_alloc lie in the first 2 MB *)
(* of the kernel, all of which have an entry in the last-level table, so   *)
(* get_pte stops at level 3 with a valid entry or an invalid one.  A TLB   *)
(* caches valid entries with the access flag, whenever it likes; its walks *)
(* see the table as it was last written.  The referenced and the modified  *)
(* bit are kept by software: a page entered by demo_pmap starts without    *)
(* access flag and read-only, and its faults set the bits.                 *)
(***************************************************************************)
EXTENDS Integers, FiniteSets

CONSTANTS
  Cpus,     \* the cores that use the kernel's pages
  Frames,   \* the frames pm_alloc can grant
  Values,   \* what a word can hold
  NoValue   \* what a failing load returns

ASSUME PmapAssumption ==
  /\ IsFiniteSet(Cpus) /\ Cpus # {}
  /\ Values # {} /\ NoValue \notin Values

VARIABLES
  next_addr,   \* the static variable of vm_alloc, in pages
  l3,          \* the entries of the last-level table
  tlb,         \* the entry each core has cached for its page
  mem,         \* the word at the start of each frame
  free,        \* the frames pm_alloc has not granted
  page,        \* the page of each core, 0 when it has none
  pc,          \* where each core is
  read,        \* the value of next_addr it has read
  access,      \* the access it is making, with the faults it has taken
  content,     \* history: what a load of its page should return
  used,        \* history: its page was accessed since its bit was cleared
  written,     \* history: its page was stored to since it was entered, or
               \* "unknown" after its modified bit was cleared
  shared       \* history: another core was given the same page

vars == <<next_addr, l3, tlb, mem, free, page, pc, read, access,
          content, used, written, shared>>
vmVars  == <<next_addr, page, read, shared>>
history == <<content, used, written>>

Pages   == 1..Cardinality(Cpus)
NoEntry == [valid |-> FALSE]
Entry   == [valid : {TRUE}, frame : Frames, af : BOOLEAN, ro : BOOLEAN,
            dbm : BOOLEAN, sw_rw : BOOLEAN]
NoAccess == [kind |-> "none"]
Accesses(n) == [kind : {"load"}, faults : n] \cup
               [kind : {"store"}, value : Values, faults : n]
MaxFaults == 3   \* faults are counted up to here

TypeOK ==
  /\ next_addr \in 0..Cardinality(Cpus)
  /\ l3 \in [Pages -> Entry \cup {NoEntry}]
  /\ tlb \in [Cpus -> Entry \cup {NoEntry}]
  /\ mem \in [Frames -> Values]
  /\ free \subseteq Frames
  /\ page \in [Cpus -> Pages \cup {0}]
  /\ pc \in [Cpus -> {"idle", "vmStore", "access", "flush"}]
  /\ read \in [Cpus -> 0..Cardinality(Cpus)]
  /\ access \in [Cpus -> Accesses(0..MaxFaults) \cup {NoAccess}]
  /\ content \in [Cpus -> Values \cup {NoValue}]
  /\ used \in [Cpus -> BOOLEAN] /\ shared \in [Cpus -> BOOLEAN]
  /\ written \in [Cpus -> {"no", "yes", "unknown"}]

Init ==
  /\ next_addr = 0
  /\ l3 = [v \in Pages |-> NoEntry]
  /\ tlb = [c \in Cpus |-> NoEntry]
  /\ mem \in [Frames -> Values]
  /\ free = Frames
  /\ page = [c \in Cpus |-> 0]
  /\ pc = [c \in Cpus |-> "idle"]
  /\ read = [c \in Cpus |-> 0]
  /\ access = [c \in Cpus |-> NoAccess]
  /\ content = [c \in Cpus |-> NoValue]
  /\ used = [c \in Cpus |-> FALSE]
  /\ written = [c \in Cpus |-> "no"]
  /\ shared = [c \in Cpus |-> FALSE]

Idle(c) == pc[c] = "idle" /\ page[c] # 0
Goto(c, label) == pc' = [pc EXCEPT ![c] = label]
Note(h, c, x) == [h EXCEPT ![c] = x]

-----------------------------------------------------------------------------
(* next_addr += size; return next_addr.                                    *)

VmLoad(c) ==
  /\ pc[c] = "idle" /\ page[c] = 0
  /\ read' = [read EXCEPT ![c] = next_addr]
  /\ Goto(c, "vmStore")
  /\ UNCHANGED <<next_addr, l3, tlb, mem, free, page, access, history, shared>>

VmStore(c) ==
  LET v == read[c] + 1
      others == {d \in Cpus \ {c} : page[d] = v} IN
  /\ pc[c] = "vmStore"
  /\ next_addr' = v
  /\ page' = [page EXCEPT ![c] = v]
  /\ read' = [read EXCEPT ![c] = 0]
  /\ shared' = [d \in Cpus |-> shared[d] \/ d \in others \/ (d = c /\ others # {})]
  /\ Goto(c, "idle")
  /\ UNCHANGED <<l3, tlb, mem, free, access, history>>

-----------------------------------------------------------------------------
(* The operations of pmap.c.                                               *)

(* The entry get_pte finds for the page of a core. *)
get_pte(c) == l3[page[c]]

(* *entry = e; then table_invalidate_entry. *)
Write(c, e) ==
  /\ l3' = [l3 EXCEPT ![page[c]] = e]
  /\ Goto(c, "flush")
  /\ UNCHANGED <<vmVars, tlb, mem>>

(* The flags of demo_pmap, and those of the callers of pages_alloc. *)
Tracked(f) == [valid |-> TRUE, frame |-> f, af |-> FALSE, ro |-> TRUE,
               dbm |-> FALSE, sw_rw |-> TRUE]
Plain(f)   == [valid |-> TRUE, frame |-> f, af |-> TRUE, ro |-> FALSE,
               dbm |-> FALSE, sw_rw |-> FALSE]

(* pm_alloc, which is one step here (see Pmman), and pmap_kenter. *)
pmap_kenter(c) ==
  /\ Idle(c)
  /\ \E f \in free :
       /\ free' = free \ {f}
       /\ Write(c, Tracked(f)) \/ Write(c, Plain(f))
       /\ content' = Note(content, c, mem[f])
  /\ used' = Note(used, c, FALSE)
  /\ written' = Note(written, c, "no")
  /\ UNCHANGED access

pmap_kremove(c) ==
  /\ Idle(c)
  /\ Write(c, NoEntry)
  /\ content' = Note(content, c, NoValue)
  /\ used' = Note(used, c, FALSE)
  /\ written' = Note(written, c, "no")
  /\ UNCHANGED <<free, access>>

pmap_clear_referenced(c) ==
  /\ Idle(c)
  /\ Write(c, IF get_pte(c).valid THEN [get_pte(c) EXCEPT !.af = FALSE] ELSE get_pte(c))
  /\ used' = Note(used, c, FALSE)
  /\ UNCHANGED <<free, access, content, written>>

(* The page stays writable: stores after this are not noticed. *)
pmap_clear_modified(c) ==
  /\ Idle(c)
  /\ Write(c, IF get_pte(c).valid THEN [get_pte(c) EXCEPT !.dbm = FALSE] ELSE get_pte(c))
  /\ written' = Note(written, c, "unknown")
  /\ UNCHANGED <<free, access, content, used>>

(* A variant that invalidates nothing. *)
FlushNothing(c) ==
  /\ pc[c] = "flush"
  /\ Goto(c, IF access[c] = NoAccess THEN "idle" ELSE "access")
  /\ UNCHANGED <<vmVars, l3, tlb, mem, free, access, history>>

(* table_invalidate_entry: TLBI VMALLE1 empties the TLB of this core, and  *)
(* of no other.  Then the caller goes on, or the faulting access is made   *)
(* again.                                                                  *)
table_invalidate_entry(c) ==
  /\ pc[c] = "flush"
  /\ tlb' = [tlb EXCEPT ![c] = NoEntry]
  /\ Goto(c, IF access[c] = NoAccess THEN "idle" ELSE "access")
  /\ UNCHANGED <<vmVars, l3, mem, free, access, history>>

-----------------------------------------------------------------------------
(* Loads and stores.                                                       *)

(* load_word and store_word. *)
Begin(c) ==
  /\ Idle(c)
  /\ \E a \in Accesses({0}) : access' = [access EXCEPT ![c] = a]
  /\ Goto(c, "access")
  /\ UNCHANGED <<vmVars, l3, tlb, mem, free, history>>

(* The translation the core uses. *)
Translation(c) == IF tlb[c].valid THEN tlb[c] ELSE get_pte(c)

End(c) ==
  /\ Goto(c, "idle")
  /\ access' = [access EXCEPT ![c] = NoAccess]

(* A translation fault, with on_fault set: the handler skips the access. *)
TranslationFault(c) ==
  /\ pc[c] = "access"
  /\ ~Translation(c).valid
  /\ End(c)
  /\ UNCHANGED <<vmVars, l3, tlb, mem, free, history>>

(* The handler returns to the access, which is made again. *)
OneFaultMore(a) == [a EXCEPT !.faults = IF @ < MaxFaults THEN @ + 1 ELSE @]
Again(c) ==
  /\ access' = [access EXCEPT ![c] = OneFaultMore(@)]
  /\ UNCHANGED <<free, history>>

(* A variant that does not set the access flag. *)
AccessFaultIdle(c) ==
  /\ pc[c] = "access"
  /\ Translation(c).valid /\ ~Translation(c).af
  /\ Write(c, get_pte(c))
  /\ Again(c)

pmap_data_abort_access_fault(c) ==
  /\ pc[c] = "access"
  /\ Translation(c).valid /\ ~Translation(c).af
  /\ Write(c, IF get_pte(c).valid THEN [get_pte(c) EXCEPT !.af = TRUE] ELSE get_pte(c))
  /\ Again(c)

PermissionFault(c) ==
  /\ pc[c] = "access" /\ access[c].kind = "store"
  /\ Translation(c).valid /\ Translation(c).af /\ Translation(c).ro

(* A variant that forgets the modified bit. *)
ModifyFaultForgets(c) ==
  /\ PermissionFault(c)
  /\ Write(c, IF get_pte(c).valid THEN [get_pte(c) EXCEPT !.ro = FALSE] ELSE get_pte(c))
  /\ Again(c)

pmap_data_abort_modify_fault(c) ==
  /\ PermissionFault(c)
  /\ Write(c, IF get_pte(c).valid
              THEN [get_pte(c) EXCEPT !.ro = @ /\ ~get_pte(c).sw_rw, !.dbm = TRUE]
              ELSE get_pte(c))
  /\ Again(c)

Loads(c) ==
  /\ pc[c] = "access" /\ access[c].kind = "load"
  /\ Translation(c).valid /\ Translation(c).af
  /\ used' = Note(used, c, TRUE)
  /\ End(c)
  /\ UNCHANGED <<vmVars, l3, tlb, mem, free, content, written>>

Stores(c) ==
  /\ pc[c] = "access" /\ access[c].kind = "store"
  /\ Translation(c).valid /\ Translation(c).af /\ ~Translation(c).ro
  /\ mem' = [mem EXCEPT ![Translation(c).frame] = access[c].value]
  /\ content' = Note(content, c, access[c].value)
  /\ used' = Note(used, c, TRUE)
  /\ written' = Note(written, c, IF written[c] = "no" THEN "yes" ELSE written[c])
  /\ End(c)
  /\ UNCHANGED <<vmVars, l3, tlb, free>>

(* The TLB takes in the entry of the core's page, or drops it. *)
Cache(c) ==
  /\ page[c] # 0 /\ ~tlb[c].valid
  /\ get_pte(c).valid /\ get_pte(c).af
  /\ tlb' = [tlb EXCEPT ![c] = get_pte(c)]
  /\ UNCHANGED <<vmVars, pc, l3, mem, free, access, history>>

Evict(c) ==
  /\ tlb[c].valid
  /\ tlb' = [tlb EXCEPT ![c] = NoEntry]
  /\ UNCHANGED <<vmVars, pc, l3, mem, free, access, history>>

-----------------------------------------------------------------------------

Vm(c)    == VmLoad(c) \/ VmStore(c)
Table(c) == \/ pmap_kenter(c) \/ pmap_kremove(c) \/ table_invalidate_entry(c)
            \/ pmap_clear_referenced(c) \/ pmap_clear_modified(c)
Fault(c) == \/ TranslationFault(c)
            \/ pmap_data_abort_access_fault(c) \/ pmap_data_abort_modify_fault(c)

Next == \E c \in Cpus : \/ Vm(c) \/ Table(c) \/ Fault(c)
                        \/ Begin(c) \/ Loads(c) \/ Stores(c)
                        \/ Cache(c) \/ Evict(c)

Spec == Init /\ [][Next]_vars

-----------------------------------------------------------------------------

Private(c) == page[c] # 0 /\ ~shared[c]

(* What a load of its page returns to a core now. *)
Loaded(c) == IF Translation(c).valid THEN mem[Translation(c).frame] ELSE NoValue

(* On a page no other core was given, an access under way finds what was   *)
(* stored last through this mapping, and fails when the page is not        *)
(* mapped: no stale translation is used after pmap_kenter, pmap_kremove or *)
(* a fault.                                                                *)
LoadReturnsStored ==
  \A c \in Cpus : pc[c] = "access" /\ Private(c) => Loaded(c) = content[c]

TrackedPage(c) == Private(c) /\ pc[c] = "idle" /\ get_pte(c).valid /\ get_pte(c).sw_rw

ReferencedIffUsed == \A c \in Cpus : TrackedPage(c) => (get_pte(c).af <=> used[c])

ModifiedIffWritten ==
  \A c \in Cpus : TrackedPage(c) /\ written[c] # "unknown" =>
    (get_pte(c).dbm <=> written[c] = "yes")

(* The emulated bits tell what was done with a page: pmap_is_referenced is *)
(* true of it exactly when it was accessed since it was entered or the bit *)
(* was cleared, and pmap_is_modified exactly when it was stored to, as     *)
(* long as that bit was not cleared.                                       *)
BitsTellUse == ReferencedIffUsed /\ ModifiedIffWritten

(* A load takes at most one fault and a store two: every handler removes   *)
(* the cause of its fault, so no access is made again for ever.            *)
FaultsOnceEach ==
  \A c \in Cpus : Private(c) /\ access[c] # NoAccess =>
    access[c].faults <= (IF access[c].kind = "store" THEN 2 ELSE 1)

=============================================================================
