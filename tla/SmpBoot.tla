------------------------------ MODULE SmpBoot ------------------------------
(***************************************************************************)
(* Bringing up the secondary cores: smp_bootstrap and smp_intro            *)
(* (kernel/smp.c), cpu_wait and arm64_init (kernel/rpi.c) and the ARM      *)
(* local mailboxes (kernel/mbox.c).                                        *)
(*                                                                         *)
(* Core 0 sends every other core its entry point through mailbox 3 and its *)
(* stack through mailbox 1 and then repeats WFE, SEV until all of them     *)
(* have set their bit in its own mailbox 3.  A mailbox is a word that is   *)
(* written by OR (SET register) and by AND NOT (CLR register): it is kept  *)
(* as the set of the values or-ed into it.  WFE returns when the event     *)
(* register of the core is set, and clears it; the architecture also lets  *)
(* it return for no reason.                                                *)
(*                                                                         *)
(* Pages are counted from 0; pm_alloc is one step here, which is sound     *)
(* because only core 0 allocates until the others run (see Pmman).         *)
(***************************************************************************)
EXTENDS Integers, FiniteSets

CONSTANTS
  NCores,       \* BCM2836_NCPUS
  ImagePages,   \* pages below _brk_limit, reserved at boot
  MappedPages   \* pages page_table_fill_leaves maps from 0 up

Cores       == 0..(NCores - 1)
Secondaries == 1..(NCores - 1)

ASSUME CoresAssumption == NCores \in Nat \ {0, 1}

(* _stack_size is one page and pm_alloc takes one page more than it is     *)
(* asked for; page_table_fill_leaves maps 6 pages above the image for the  *)
(* 3 stacks of a machine of 4 cores.                                       *)
ASSUME PagesAssumption ==
  /\ ImagePages \in Nat
  /\ MappedPages \in Nat
  /\ MappedPages >= ImagePages + 2 * (NCores - 1)

VARIABLES
  pc,         \* where each core is
  event,      \* the event register of each core
  mbox,       \* the mailboxes used, per core and mailbox number
  to,         \* core 0: the core it sends to or allocates for
  cleared,    \* core 0 is between the two writes of mbox_send
  used,       \* pages marked in the bitmap of the page allocator
  stack,      \* core 0: the pages s1, s2, s3
  entryGot,   \* what each core read as its entry point
  stackGot,   \* and as its stack
  tables      \* the page tables have been filled

vars == <<pc, event, mbox, to, cleared, used, stack, entryGot, stackGot, tables>>
core0Vars == <<to, cleared, used, stack, tables>>

(* The mailboxes of smp_bootstrap, cpu_wait and smp_intro. *)
EntryBox  == 3
StackBox  == 1
ReportBox == 3

Boxes == {1, 3}

EntryOf(c)  == [kind |-> "entry", core |-> c]
StackAt(p)  == [kind |-> "stack", page |-> p]
ReportOf(c) == [kind |-> "report", core |-> c]

EntryPoints == {EntryOf(c) : c \in Secondaries}
Reports     == {ReportOf(c) : c \in Secondaries}
Message     == EntryPoints \cup Reports \cup {StackAt(p) : p \in used}

Core0Pc == {"init", "kernel", "sendEntry", "allocDummy", "allocStack",
            "sendStack", "wfe", "sev", "poll", "clear", "demo"}
SecondaryPc == {"waitEntry", "readEntry", "ackEntry", "waitStack", "readStack",
                "ackStack", "mmu", "intro", "report", "demo"}

TypeOK ==
  /\ pc \in [Cores -> Core0Pc \cup SecondaryPc]
  /\ event \in [Cores -> BOOLEAN]
  /\ mbox \in [Cores -> [Boxes -> SUBSET Message]]
  /\ to \in Secondaries
  /\ cleared \in BOOLEAN
  /\ used \in SUBSET Nat
  /\ stack \in [Secondaries -> used \cup {0}]
  /\ entryGot \in [Secondaries -> SUBSET Message]
  /\ stackGot \in [Secondaries -> SUBSET Message]
  /\ tables \in BOOLEAN

(* Every core enters arm64_init; the event registers of the others are in  *)
(* an unknown state, that of core 0 is set by its exception returns.       *)
Init ==
  /\ pc = [c \in Cores |-> IF c = 0 THEN "init" ELSE "waitEntry"]
  /\ event \in {e \in [Cores -> BOOLEAN] : e[0]}
  /\ mbox = [c \in Cores |-> [b \in Boxes |-> {}]]
  /\ to = 1
  /\ cleared = FALSE
  /\ used = 0..(ImagePages - 1)
  /\ stack = [c \in Secondaries |-> 0]
  /\ entryGot = [c \in Secondaries |-> {}]
  /\ stackGot = [c \in Secondaries |-> {}]
  /\ tables = FALSE

Goto(c, label) == pc' = [pc EXCEPT ![c] = label]

-----------------------------------------------------------------------------
(* Core 0.                                                                 *)

(* A variant that leaves the tables to later. *)
FillTablesLate ==
  /\ pc[0] = "init"
  /\ Goto(0, "kernel")
  /\ UNCHANGED <<event, mbox, core0Vars, entryGot, stackGot>>

(* page_table_fill_inner_nodes and page_table_fill_leaves. *)
FillTables ==
  /\ pc[0] = "init"
  /\ tables' = TRUE
  /\ Goto(0, "kernel")
  /\ UNCHANGED <<event, mbox, to, cleared, used, stack, entryGot, stackGot>>

(* kernel_entry up to smp_bootstrap: the screen, the console and the page  *)
(* allocator of core 0.                                                    *)
EnterKernel ==
  /\ pc[0] = "kernel"
  /\ Goto(0, "sendEntry")
  /\ UNCHANGED <<event, mbox, core0Vars, entryGot, stackGot>>

(* mbox_send(to, box, message): two writes. *)
SendClr(label, box) ==
  /\ pc[0] = label
  /\ ~cleared
  /\ mbox' = [mbox EXCEPT ![to][box] = {}]
  /\ cleared' = TRUE
  /\ UNCHANGED <<pc, event, to, used, stack, entryGot, stackGot, tables>>

(* The three calls in a row, then the next statement. *)
ForNextCore(label) ==
  IF to < NCores - 1 THEN to' = to + 1 /\ UNCHANGED pc
                     ELSE to' = 1 /\ Goto(0, label)

SendSet(label, box, message, next) ==
  /\ pc[0] = label
  /\ cleared
  /\ mbox' = [mbox EXCEPT ![to][box] = @ \cup {message}]
  /\ cleared' = FALSE
  /\ ForNextCore(next)
  /\ UNCHANGED <<event, used, stack, entryGot, stackGot, tables>>

SendEntry ==
  \/ SendClr("sendEntry", EntryBox)
  \/ SendSet("sendEntry", EntryBox, EntryOf(to), "allocDummy")

(* pm_alloc(_stack_size) returns p: the first clear page, and bit_nset     *)
(* marks the page after it as well.                                        *)
PmAlloc(p) ==
  /\ p \notin used
  /\ \A q \in 0..(p - 1) : q \in used
  /\ used' = used \cup {p, p + 1}

(* The pages p may be: there is a clear page right above the marked ones.  *)
Candidates == {p + 1 : p \in used} \cup {0}

(* A variant without the call of smp.c:60. *)
NoDummy ==
  /\ pc[0] = "allocDummy"
  /\ Goto(0, "allocStack")
  /\ UNCHANGED <<event, mbox, core0Vars, entryGot, stackGot>>

AllocDummy ==
  /\ pc[0] = "allocDummy"
  /\ \E p \in Candidates : PmAlloc(p)
  /\ Goto(0, "allocStack")
  /\ UNCHANGED <<event, mbox, to, cleared, stack, entryGot, stackGot, tables>>

AllocStack ==
  /\ pc[0] = "allocStack"
  /\ \E p \in Candidates : /\ PmAlloc(p)
                           /\ stack' = [stack EXCEPT ![to] = p]
  /\ ForNextCore("sendStack")
  /\ UNCHANGED <<event, mbox, cleared, entryGot, stackGot, tables>>

(* A variant that sends everyone the first stack. *)
SendFirstStack ==
  \/ SendClr("sendStack", StackBox)
  \/ SendSet("sendStack", StackBox, StackAt(stack[1]), "wfe")

SendStack ==
  \/ SendClr("sendStack", StackBox)
  \/ SendSet("sendStack", StackBox, StackAt(stack[to]), "wfe")

(* WFE on core c: with its event register set, or for no reason. *)
Wfe(c, label, next) ==
  /\ pc[c] = label
  /\ event[c]
  /\ event' = [event EXCEPT ![c] = FALSE]
  /\ Goto(c, next)
  /\ UNCHANGED <<mbox, core0Vars, entryGot, stackGot>>

(* A variant that does not set the event register of the core itself. *)
SevOthers ==
  /\ pc[0] = "sev"
  /\ event' = [c \in Cores |-> c # 0 \/ event[c]]
  /\ Goto(0, "poll")
  /\ UNCHANGED <<mbox, core0Vars, entryGot, stackGot>>

Sev ==
  /\ pc[0] = "sev"
  /\ event' = [c \in Cores |-> TRUE]
  /\ Goto(0, "poll")
  /\ UNCHANGED <<mbox, core0Vars, entryGot, stackGot>>

(* What ends the loop of smp_bootstrap. *)
AllReported == mbox[0][ReportBox] = Reports

Poll ==
  /\ pc[0] = "poll"
  /\ Goto(0, IF AllReported THEN "clear" ELSE "wfe")
  /\ UNCHANGED <<event, mbox, core0Vars, entryGot, stackGot>>

ClearReports ==
  /\ pc[0] = "clear"
  /\ mbox' = [mbox EXCEPT ![0][ReportBox] = {}]
  /\ Goto(0, "demo")
  /\ UNCHANGED <<event, core0Vars, entryGot, stackGot>>

Core0 ==
  \/ FillTables
  \/ EnterKernel
  \/ SendEntry
  \/ AllocDummy
  \/ AllocStack
  \/ SendStack
  \/ Wfe(0, "wfe", "sev")
  \/ Sev
  \/ Poll
  \/ ClearReports

-----------------------------------------------------------------------------
(* The other cores.                                                        *)

ReadEntry(c) ==
  /\ pc[c] = "readEntry"
  /\ entryGot' = [entryGot EXCEPT ![c] = mbox[c][EntryBox]]
  /\ Goto(c, IF mbox[c][EntryBox] = {} THEN "waitEntry" ELSE "ackEntry")
  /\ UNCHANGED <<event, mbox, core0Vars, stackGot>>

(* A 1 written to the mailbox clears the bit: the value read is cleared. *)
AckEntry(c) ==
  /\ pc[c] = "ackEntry"
  /\ mbox' = [mbox EXCEPT ![c][EntryBox] = @ \ entryGot[c]]
  /\ Goto(c, "waitStack")
  /\ UNCHANGED <<event, core0Vars, entryGot, stackGot>>

ReadStack(c) ==
  /\ pc[c] = "readStack"
  /\ stackGot' = [stackGot EXCEPT ![c] = mbox[c][StackBox]]
  /\ Goto(c, IF mbox[c][StackBox] = {} THEN "waitStack" ELSE "ackStack")
  /\ UNCHANGED <<event, mbox, core0Vars, entryGot>>

AckStack(c) ==
  /\ pc[c] = "ackStack"
  /\ mbox' = [mbox EXCEPT ![c][StackBox] = @ \ stackGot[c]]
  /\ Goto(c, "mmu")
  /\ UNCHANGED <<event, core0Vars, entryGot, stackGot>>

(* The rest of arm64_init: the MMU is on, the core drops to EL1 (exception *)
(* returns set its event register) and boot.S branches to its entry point. *)
EnableMmu(c) ==
  /\ pc[c] = "mmu"
  /\ event' = [event EXCEPT ![c] = TRUE]
  /\ Goto(c, "intro")
  /\ UNCHANGED <<mbox, core0Vars, entryGot, stackGot>>

(* smp_intro: pcpu_init and cons_bootstrap, then the report. *)
Introduce(c) ==
  /\ pc[c] = "intro"
  /\ Goto(c, "report")
  /\ UNCHANGED <<event, mbox, core0Vars, entryGot, stackGot>>

Report(c) ==
  /\ pc[c] = "report"
  /\ mbox' = [mbox EXCEPT ![0][ReportBox] = @ \cup {ReportOf(c)}]
  /\ Goto(c, "demo")
  /\ UNCHANGED <<event, core0Vars, entryGot, stackGot>>

Secondary(c) ==
  \/ Wfe(c, "waitEntry", "readEntry")
  \/ ReadEntry(c)
  \/ AckEntry(c)
  \/ Wfe(c, "waitStack", "readStack")
  \/ ReadStack(c)
  \/ AckStack(c)
  \/ EnableMmu(c)
  \/ Introduce(c)
  \/ Report(c)

(* WFE may return although no event is pending. *)
SpuriousWake(c, label, next) ==
  /\ pc[c] = label
  /\ Goto(c, next)
  /\ UNCHANGED <<event, mbox, core0Vars, entryGot, stackGot>>

SpuriousWakes ==
  \/ SpuriousWake(0, "wfe", "sev")
  \/ \E c \in Secondaries : \/ SpuriousWake(c, "waitEntry", "readEntry")
                           \/ SpuriousWake(c, "waitStack", "readStack")

Next ==
  \/ Core0
  \/ \E c \in Secondaries : Secondary(c)
  \/ SpuriousWakes

Spec == Init /\ [][Next]_vars

(* Every core keeps executing instructions; WFE returns on an event. *)
FairSpec == Spec /\ WF_vars(Core0) /\ \A c \in Secondaries : WF_vars(Secondary(c))

-----------------------------------------------------------------------------

LeftWait(c) == pc[c] \in {"mmu", "intro", "report", "demo"}

(* A core leaves cpu_wait with the entry point and the stack core 0 chose  *)
(* for it, each read whole: never another core's, never two values or-ed   *)
(* together, never a zero seen between the two writes of mbox_send.        *)
RightMessages ==
  \A c \in Secondaries : LeftWait(c) =>
    entryGot[c] = {EntryOf(c)} /\ stackGot[c] = {StackAt(stack[c])}

(* The stack of a core grows down from the page it was given, so it lies   *)
(* in the page below: one that no other core has, that is not part of the  *)
(* kernel image, that pm_alloc can no longer hand out and that is mapped.  *)
StackPage(c) == stack[c] - 1

StacksPrivate ==
  \A c \in Secondaries : LeftWait(c) =>
    /\ StackPage(c) \in used
    /\ StackPage(c) \in ImagePages..(MappedPages - 1)
    /\ \A d \in Secondaries \ {c} : StackPage(c) \notin {StackPage(d), stack[d]}

(* No core turns its MMU on before core 0 has filled the page tables. *)
MmuAfterTables == \A c \in Secondaries : LeftWait(c) => tables

(* Core 0 goes on to its demo only when every other core has its console   *)
(* and has reported.                                                       *)
AllReadyAfterLoop ==
  pc[0] \in {"clear", "demo"} => \A c \in Secondaries : pc[c] = "demo"

(* When all have started no mailbox holds a value a later reader could     *)
(* take for its own.                                                       *)
MailboxesDrained ==
  (\A c \in Cores : pc[c] = "demo") => \A c \in Cores, b \in Boxes : mbox[c][b] = {}

(* Every core starts: no SEV is missed, whatever the cores are doing when  *)
(* it is sent.                                                             *)
AllCoresStart == <>[](\A c \in Cores : pc[c] = "demo")

=============================================================================
