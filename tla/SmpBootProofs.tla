--------------------------- MODULE SmpBootProofs ---------------------------
(***************************************************************************)
(* Proofs that the secondary cores start safely, for any number of cores.  *)
(***************************************************************************)
EXTENDS SmpBoot, TLAPS

AfterStacks == {"wfe", "sev", "poll", "clear", "demo"}

(* How far core 0 is. *)
EntrySent(c) ==
  /\ pc[0] \notin {"init", "kernel"}
  /\ pc[0] = "sendEntry" => c < to
StackAllocated(c) ==
  \/ pc[0] \in AfterStacks \cup {"sendStack"}
  \/ pc[0] = "allocStack" /\ c < to
StackSent(c) ==
  \/ pc[0] \in AfterStacks
  \/ pc[0] = "sendStack" /\ c < to

(* Number of calls of pm_alloc core 0 has made. *)
Allocated == IF pc[0] \in {"init", "kernel", "sendEntry", "allocDummy"} THEN 0
             ELSE IF pc[0] = "allocStack" THEN to ELSE NCores

AllMessages == EntryPoints \cup Reports \cup {StackAt(p) : p \in Nat}

Typing ==
  /\ pc \in [Cores -> Core0Pc \cup SecondaryPc]
  /\ pc[0] \in Core0Pc
  /\ \A c \in Secondaries : pc[c] \in SecondaryPc
  /\ event \in [Cores -> BOOLEAN]
  /\ mbox \in [Cores -> [Boxes -> SUBSET AllMessages]]
  /\ to \in Secondaries
  /\ cleared \in BOOLEAN
  /\ tables \in BOOLEAN
  /\ stack \in [Secondaries -> Nat]
  /\ entryGot \in [Secondaries -> SUBSET AllMessages]
  /\ stackGot \in [Secondaries -> SUBSET AllMessages]

(* Core 0 walks through the other cores from 1 up, for each loop. *)
Core0OK ==
  /\ pc[0] \in {"init", "kernel", "allocDummy"} => to = 1
  /\ pc[0] # "init" => tables
  /\ pc[0] \in {"clear", "demo"} => \A c \in Secondaries : pc[c] = "demo"

(* The pages pm_alloc has marked so far are the first ones.                *)
PagesOK ==
  /\ used = 0..(ImagePages + 2 * Allocated - 1)
  /\ \A c \in Secondaries : stack[c] = IF StackAllocated(c) THEN ImagePages + 2 * c ELSE 0

(* A mailbox of a secondary holds the message meant for it, or nothing.    *)
MailOK(c) ==
  /\ mbox[c][3] \subseteq (IF EntrySent(c) THEN {EntryOf(c)} ELSE {})
  /\ mbox[c][1] \subseteq (IF StackSent(c) THEN {StackAt(stack[c])} ELSE {})

(* What a secondary holds, by how far it is. *)
HeldOK(c) ==
  /\ pc[c] \notin {"waitEntry", "readEntry"} =>
       EntrySent(c) /\ entryGot[c] = {EntryOf(c)}
  /\ pc[c] \notin {"waitEntry", "readEntry", "ackEntry"} => mbox[c][3] = {}
  /\ pc[c] = "ackStack" \/ LeftWait(c) =>
       StackSent(c) /\ stackGot[c] = {StackAt(stack[c])}
  /\ LeftWait(c) => mbox[c][1] = {}

(* Core 0's own mailbox: reports of cores that are in their demo. *)
ReportsOK ==
  /\ mbox[0][3] \subseteq {ReportOf(c) : c \in {d \in Secondaries : pc[d] = "demo"}}
  /\ mbox[0][1] = {}
  /\ pc[0] = "demo" => mbox[0][3] = {}

IInv ==
  /\ Typing
  /\ Core0OK
  /\ PagesOK
  /\ ReportsOK
  /\ \A c \in Secondaries : MailOK(c) /\ HeldOK(c)

-----------------------------------------------------------------------------

(* Core 0 and the others. *)
LEMMA CoreFacts ==
  /\ 0 \in Cores /\ 0 \notin Secondaries
  /\ \A c \in Secondaries : c \in Cores /\ c # 0 /\ c \in Nat /\ c < NCores
  /\ 1 \in Secondaries /\ 1 \in Boxes /\ 3 \in Boxes
  /\ \A c \in Secondaries : c < NCores - 1 => c + 1 \in Secondaries
  /\ \A c \in Secondaries : c >= NCores - 1 => c = NCores - 1
  /\ NCores \in Nat
BY CoresAssumption DEF Cores, Secondaries, Boxes

(* A step of a secondary core leaves core 0 and what it has sent alone.    *)
SecondaryLocal(c) ==
  /\ UNCHANGED <<to, cleared, used, stack, tables>>
  /\ \A d \in Cores \ {c} : pc'[d] = pc[d]
  /\ pc[c] # "demo" /\ pc'[c] \in SecondaryPc
  /\ \A d \in Secondaries \ {c} : /\ entryGot'[d] = entryGot[d]
                                  /\ stackGot'[d] = stackGot[d]

(* A step of a secondary core leaves the other cores as they were. *)
LEMMA SecondaryFrame ==
  ASSUME IInv, Typing', NEW c \in Secondaries, SecondaryLocal(c),
         \A d \in Secondaries \ {c} : mbox'[d] = mbox[d],
         ReportsOK', MailOK(c)', HeldOK(c)'
  PROVE  IInv'
<1>1. pc'[0] = pc[0] /\ UNCHANGED <<to, cleared, used, stack, tables>>
  BY CoreFacts DEF SecondaryLocal
<1>2. /\ \A d \in Secondaries : EntrySent(d)' = EntrySent(d)
      /\ \A d \in Secondaries : StackAllocated(d)' = StackAllocated(d)
      /\ \A d \in Secondaries : StackSent(d)' = StackSent(d)
      /\ Allocated' = Allocated
  BY <1>1 DEF EntrySent, StackAllocated, StackSent, Allocated
<1>3. Core0OK'
  BY <1>1, CoreFacts DEF IInv, Core0OK, SecondaryLocal
<1>4. PagesOK'
  BY <1>1, <1>2 DEF IInv, PagesOK
<1>5. ASSUME NEW d \in Secondaries PROVE MailOK(d)' /\ HeldOK(d)'
  <2>1. CASE d = c
    BY <2>1
  <2>2. CASE d # c
    <3>1. /\ mbox'[d] = mbox[d] /\ pc'[d] = pc[d] /\ stack'[d] = stack[d]
          /\ entryGot'[d] = entryGot[d] /\ stackGot'[d] = stackGot[d]
      BY <1>1, <2>2, CoreFacts DEF SecondaryLocal
    <3> QED
      BY <1>2, <3>1 DEF IInv, MailOK, HeldOK, LeftWait
  <2> QED
    BY <2>1, <2>2
<1> QED
  BY <1>3, <1>4, <1>5 DEF IInv

(* A step of core 0 that does not touch the mailboxes of the others.       *)
LEMMA Core0Frame ==
  ASSUME IInv, Typing', UNCHANGED <<entryGot, stackGot>>,
         \A d \in Secondaries : pc'[d] = pc[d] /\ mbox'[d] = mbox[d],
         \A d \in Secondaries : EntrySent(d) => EntrySent(d)',
         \A d \in Secondaries : StackSent(d) => StackSent(d)' /\ stack'[d] = stack[d],
         Core0OK', PagesOK', ReportsOK'
  PROVE  IInv'
<1>1. ASSUME NEW d \in Secondaries PROVE MailOK(d)' /\ HeldOK(d)'
  BY DEF IInv, MailOK, HeldOK, LeftWait
<1> QED
  BY <1>1 DEF IInv

(* The steps of a secondary core.                                          *)

LEMMA PcTyping ==
  ASSUME IInv, NEW c \in Secondaries, NEW label \in SecondaryPc,
         pc' = [pc EXCEPT ![c] = label]
  PROVE  /\ pc' \in [Cores -> Core0Pc \cup SecondaryPc]
         /\ pc'[0] \in Core0Pc
         /\ \A d \in Secondaries : pc'[d] \in SecondaryPc
BY CoreFacts DEF IInv, Typing

(* A secondary core waits for an event. *)
LEMMA WfeSecondary ==
  ASSUME IInv, NEW c \in Secondaries,
         \/ Wfe(c, "waitEntry", "readEntry")
         \/ Wfe(c, "waitStack", "readStack")
         \/ SpuriousWake(c, "waitEntry", "readEntry")
         \/ SpuriousWake(c, "waitStack", "readStack")
  PROVE  IInv'
<1>1. /\ \/ pc[c] = "waitEntry" /\ pc'[c] = "readEntry"
         \/ pc[c] = "waitStack" /\ pc'[c] = "readStack"
      /\ pc' = [pc EXCEPT ![c] = pc'[c]]
      /\ UNCHANGED <<mbox, to, cleared, used, stack, tables, entryGot, stackGot>>
      /\ event' \in [Cores -> BOOLEAN]
  BY CoreFacts DEF IInv, Typing, Wfe, SpuriousWake, Goto, core0Vars
<1>2. Typing'
  BY <1>1, CoreFacts DEF IInv, Typing, SecondaryPc
<1>3. SecondaryLocal(c)
  BY <1>1, CoreFacts DEF SecondaryLocal, IInv, Typing, SecondaryPc
<1>4. ReportsOK'
  BY <1>1, CoreFacts DEF IInv, ReportsOK, Typing
<1>5. MailOK(c)' /\ HeldOK(c)'
  BY <1>1, CoreFacts DEF IInv, MailOK, HeldOK, LeftWait, EntrySent, StackSent, Typing
<1> QED
  BY <1>1, <1>2, <1>3, <1>4, <1>5, SecondaryFrame

(* A core reads its mailbox. *)
LEMMA ReadSteps ==
  ASSUME IInv, NEW c \in Secondaries, ReadEntry(c) \/ ReadStack(c)
  PROVE  IInv'
<1>1. /\ pc' = [pc EXCEPT ![c] = pc'[c]]
      /\ pc[c] \in {"readEntry", "readStack"}
      /\ pc'[c] \in {"waitEntry", "ackEntry", "waitStack", "ackStack"}
      /\ UNCHANGED <<event, mbox, to, cleared, used, stack, tables>>
      /\ entryGot' = [entryGot EXCEPT ![c] = entryGot'[c]]
      /\ stackGot' = [stackGot EXCEPT ![c] = stackGot'[c]]
      /\ \/ /\ pc[c] = "readEntry" /\ stackGot'[c] = stackGot[c]
            /\ entryGot'[c] = mbox[c][3]
            /\ pc'[c] = IF mbox[c][3] = {} THEN "waitEntry" ELSE "ackEntry"
         \/ /\ pc[c] = "readStack" /\ entryGot'[c] = entryGot[c]
            /\ stackGot'[c] = mbox[c][1]
            /\ pc'[c] = IF mbox[c][1] = {} THEN "waitStack" ELSE "ackStack"
  BY CoreFacts DEF IInv, Typing, ReadEntry, ReadStack, Goto, core0Vars, EntryBox, StackBox
<1>2. Typing'
  <2>1. mbox[c][3] \in SUBSET AllMessages /\ mbox[c][1] \in SUBSET AllMessages
    BY CoreFacts DEF IInv, Typing
  <2>2. entryGot'[c] \in SUBSET AllMessages /\ stackGot'[c] \in SUBSET AllMessages
    BY <1>1, <2>1 DEF IInv, Typing
  <2>3. /\ entryGot' \in [Secondaries -> SUBSET AllMessages]
        /\ stackGot' \in [Secondaries -> SUBSET AllMessages]
    BY <1>1, <2>2 DEF IInv, Typing
  <2>4. pc'[c] \in SecondaryPc
    BY <1>1 DEF SecondaryPc
  <2> QED
    BY <1>1, <2>3, <2>4, PcTyping DEF IInv, Typing
<1>3. SecondaryLocal(c)
  BY <1>1, CoreFacts DEF SecondaryLocal, IInv, Typing, SecondaryPc
<1>4. ReportsOK'
  BY <1>1, CoreFacts DEF IInv, ReportsOK, Typing
<1>5. /\ EntrySent(c)' = EntrySent(c) /\ StackSent(c)' = StackSent(c)
      /\ mbox'[c] = mbox[c] /\ stack'[c] = stack[c]
  BY <1>1, CoreFacts DEF EntrySent, StackSent, IInv, Typing
<1>6. MailOK(c)' /\ HeldOK(c)'
  BY <1>1, <1>5 DEF IInv, MailOK, HeldOK, LeftWait
<1> QED
  BY <1>1, <1>2, <1>3, <1>4, <1>6, SecondaryFrame

(* It acknowledges the message. *)
LEMMA AckSteps ==
  ASSUME IInv, NEW c \in Secondaries, AckEntry(c) \/ AckStack(c)
  PROVE  IInv'
<1>0. /\ AckEntry(c) => entryGot[c] = {EntryOf(c)}
      /\ AckStack(c) => stackGot[c] = {StackAt(stack[c])}
      /\ mbox[c] \in [Boxes -> SUBSET AllMessages]
      /\ pc \in [Cores -> Core0Pc \cup SecondaryPc]
  BY CoreFacts DEF IInv, Typing, HeldOK, AckEntry, AckStack
<1>1. PICK b \in Boxes :
        /\ \/ b = 3 /\ pc[c] = "ackEntry" /\ pc'[c] = "waitStack" /\ entryGot[c] = {EntryOf(c)}
           \/ b = 1 /\ pc[c] = "ackStack" /\ pc'[c] = "mmu" /\ stackGot[c] = {StackAt(stack[c])}
        /\ pc' = [pc EXCEPT ![c] = pc'[c]]
        /\ mbox' = [mbox EXCEPT ![c][b] = @ \ (IF b = 3 THEN entryGot[c] ELSE stackGot[c])]
        /\ UNCHANGED <<event, to, cleared, used, stack, tables, entryGot, stackGot>>
  <2>1. CASE AckEntry(c)
    <3> 3 \in Boxes
      BY CoreFacts
    <3> WITNESS 3 \in Boxes
    <3> QED
      BY <1>0, <2>1, CoreFacts DEF AckEntry, Goto, core0Vars, EntryBox
  <2>2. CASE AckStack(c)
    <3> 1 \in Boxes
      BY CoreFacts
    <3> WITNESS 1 \in Boxes
    <3>1. stackGot[c] = {StackAt(stack[c])} /\ pc[c] = "ackStack"
      BY <1>0, <2>2 DEF AckStack
    <3>2. pc' = [pc EXCEPT ![c] = "mmu"] /\ pc'[c] = "mmu"
      BY <1>0, <2>2, CoreFacts DEF AckStack, Goto
    <3>3. mbox' = [mbox EXCEPT ![c][1] = @ \ stackGot[c]]
      BY <2>2 DEF AckStack, StackBox
    <3>4. UNCHANGED <<event, to, cleared, used, stack, tables, entryGot, stackGot>>
      BY <2>2 DEF AckStack, core0Vars
    <3>5. pc' = [pc EXCEPT ![c] = pc'[c]]
      BY <3>2
    <3> QED
      BY <3>1, <3>2, <3>3, <3>4, <3>5
  <2> QED
    BY <2>1, <2>2
<1>2. /\ mbox'[c][b] = {}
      /\ \A a \in Boxes \ {b} : mbox'[c][a] = mbox[c][a]
      /\ \A d \in Cores \ {c} : mbox'[d] = mbox[d]
  BY <1>1, CoreFacts DEF IInv, Typing, MailOK
<1>3. Typing'
  <2>1. [mbox[c] EXCEPT ![b] = @ \ (IF b = 3 THEN entryGot[c] ELSE stackGot[c])]
          \in [Boxes -> SUBSET AllMessages]
    BY <1>0
  <2>2. mbox' \in [Cores -> [Boxes -> SUBSET AllMessages]]
    BY <1>1, <2>1, CoreFacts DEF IInv, Typing
  <2>3. pc'[c] \in SecondaryPc
    BY <1>1 DEF SecondaryPc
  <2> QED
    BY <1>1, <2>2, <2>3, PcTyping DEF IInv, Typing
<1>4. SecondaryLocal(c)
  BY <1>1, CoreFacts DEF SecondaryLocal, IInv, Typing, SecondaryPc
<1>5. ReportsOK'
  BY <1>1, <1>2, CoreFacts DEF IInv, ReportsOK, Typing
<1>6. EntrySent(c)' = EntrySent(c) /\ StackSent(c)' = StackSent(c)
  BY <1>1, CoreFacts DEF EntrySent, StackSent, IInv, Typing
<1>7. MailOK(c)' /\ HeldOK(c)'
  BY <1>1, <1>2, <1>6, CoreFacts DEF IInv, MailOK, HeldOK, LeftWait
<1> QED
  BY <1>1, <1>2, <1>3, <1>4, <1>5, <1>7, CoreFacts, SecondaryFrame

(* It enables the MMU and says hello. *)
LEMMA StartSteps ==
  ASSUME IInv, NEW c \in Secondaries, EnableMmu(c) \/ Introduce(c)
  PROVE  IInv'
<1>1. /\ pc[c] \in {"mmu", "intro"} /\ pc'[c] \in {"intro", "report"}
      /\ pc' = [pc EXCEPT ![c] = pc'[c]]
      /\ event' \in [Cores -> BOOLEAN]
      /\ UNCHANGED <<mbox, to, cleared, used, stack, tables, entryGot, stackGot>>
  BY CoreFacts DEF IInv, Typing, EnableMmu, Introduce, Goto, core0Vars
<1>2. Typing'
  BY <1>1, CoreFacts DEF IInv, Typing, SecondaryPc
<1>3. SecondaryLocal(c)
  BY <1>1, CoreFacts DEF SecondaryLocal, IInv, Typing, SecondaryPc
<1>4. ReportsOK'
  BY <1>1, CoreFacts DEF IInv, ReportsOK, Typing
<1>5. MailOK(c)' /\ HeldOK(c)'
  BY <1>1, CoreFacts DEF IInv, MailOK, HeldOK, LeftWait, EntrySent, StackSent, Typing
<1> QED
  BY <1>1, <1>2, <1>3, <1>4, <1>5, SecondaryFrame

(* It reports to core 0. *)
LEMMA ReportStep ==
  ASSUME IInv, NEW c \in Secondaries, Report(c)
  PROVE  IInv'
<1>1. /\ pc[c] = "report" /\ pc'[c] = "demo"
      /\ pc' = [pc EXCEPT ![c] = "demo"]
      /\ mbox' = [mbox EXCEPT ![0][3] = @ \cup {ReportOf(c)}]
      /\ UNCHANGED <<event, to, cleared, used, stack, tables, entryGot, stackGot>>
  BY CoreFacts DEF IInv, Typing, Report, Goto, core0Vars, ReportBox
<1>2. /\ mbox'[0][3] = mbox[0][3] \cup {ReportOf(c)} /\ mbox'[0][1] = mbox[0][1]
      /\ \A d \in Secondaries : mbox'[d] = mbox[d]
  BY <1>1, CoreFacts DEF IInv, Typing
<1>3. Typing'
  <2>1. ReportOf(c) \in AllMessages
    BY DEF AllMessages, Reports
  <2>2. mbox' \in [Cores -> [Boxes -> SUBSET AllMessages]]
    BY <1>1, <2>1, CoreFacts DEF IInv, Typing
  <2>3. pc'[c] \in SecondaryPc
    BY <1>1 DEF SecondaryPc
  <2> QED
    BY <1>1, <2>2, <2>3, PcTyping DEF IInv, Typing
<1>4. SecondaryLocal(c)
  BY <1>1, CoreFacts DEF SecondaryLocal, IInv, Typing, SecondaryPc
<1>5. ReportsOK'
  <2>1. pc[0] # "demo"
    BY <1>1 DEF IInv, Core0OK
  <2> QED
    BY <1>1, <1>2, <2>1, CoreFacts DEF IInv, ReportsOK, Typing
<1>6. MailOK(c)' /\ HeldOK(c)'
  BY <1>1, <1>2, CoreFacts DEF IInv, MailOK, HeldOK, LeftWait, EntrySent, StackSent, Typing
<1> QED
  BY <1>1, <1>2, <1>3, <1>4, <1>5, <1>6, SecondaryFrame

(* The steps of core 0.                                                    *)

LEMMA Core0PcTyping ==
  ASSUME IInv, NEW label \in Core0Pc, pc' = [pc EXCEPT ![0] = label]
  PROVE  /\ pc' \in [Cores -> Core0Pc \cup SecondaryPc]
         /\ pc'[0] = label
         /\ \A d \in Secondaries : pc'[d] \in SecondaryPc /\ pc'[d] = pc[d]
BY CoreFacts DEF IInv, Typing

(* Steps that only move core 0 on. *)
LEMMA PlainSteps ==
  ASSUME IInv,
         \/ FillTables \/ EnterKernel \/ Sev \/ Poll
         \/ Wfe(0, "wfe", "sev") \/ SpuriousWake(0, "wfe", "sev")
  PROVE  IInv'
<1>1. PICK label \in Core0Pc :
        /\ pc' = [pc EXCEPT ![0] = label]
        /\ \/ pc[0] = "init" /\ label = "kernel" /\ tables'
           \/ pc[0] = "kernel" /\ label = "sendEntry" /\ tables' = tables
           \/ /\ pc[0] \in {"wfe", "sev", "poll"} /\ tables' = tables
              /\ \/ label \in {"wfe", "sev", "poll"}
                 \/ label = "clear" /\ mbox[0][3] = Reports
        /\ event' \in [Cores -> BOOLEAN]
        /\ UNCHANGED <<mbox, to, cleared, used, stack, entryGot, stackGot>>
  <2> SUFFICES \E label \in {"kernel", "sendEntry", "wfe", "sev", "poll", "clear"} :
        /\ pc' = [pc EXCEPT ![0] = label]
        /\ \/ pc[0] = "init" /\ label = "kernel" /\ tables'
           \/ pc[0] = "kernel" /\ label = "sendEntry" /\ tables' = tables
           \/ /\ pc[0] \in {"wfe", "sev", "poll"} /\ tables' = tables
              /\ \/ label \in {"wfe", "sev", "poll"}
                 \/ label = "clear" /\ mbox[0][3] = Reports
        /\ event' \in [Cores -> BOOLEAN]
        /\ UNCHANGED <<mbox, to, cleared, used, stack, entryGot, stackGot>>
    BY DEF Core0Pc
  <2> USE CoreFacts DEF IInv, Typing, Goto, core0Vars
  <2>1. CASE FillTables
    BY <2>1 DEF FillTables
  <2>2. CASE EnterKernel
    BY <2>2 DEF EnterKernel
  <2>3. CASE Sev
    BY <2>3 DEF Sev
  <2>4. CASE Poll
    BY <2>4 DEF Poll, AllReported, ReportBox
  <2>5. CASE Wfe(0, "wfe", "sev") \/ SpuriousWake(0, "wfe", "sev")
    BY <2>5 DEF Wfe, SpuriousWake
  <2> QED
    BY <2>1, <2>2, <2>3, <2>4, <2>5
<1>2. pc'[0] = label /\ \A d \in Secondaries : pc'[d] = pc[d]
  BY <1>1, Core0PcTyping
<1>3. Typing'
  <2>1. tables' \in BOOLEAN
    BY <1>1 DEF IInv, Typing
  <2> QED
    BY <1>1, <2>1, Core0PcTyping DEF IInv, Typing
<1>4. Core0OK'
  <2>1. ASSUME mbox[0][3] = Reports, NEW c \in Secondaries PROVE pc[c] = "demo"
    <3>1. ReportOf(c) \in mbox[0][3]
      BY <2>1 DEF Reports
    <3>2. PICK d \in Secondaries : pc[d] = "demo" /\ ReportOf(c) = ReportOf(d)
      BY <3>1 DEF IInv, ReportsOK
    <3>3. ReportOf(c).core = c /\ ReportOf(d).core = d
      BY DEF ReportOf
    <3> QED
      BY <3>2, <3>3
  <2> QED
    BY <1>1, <1>2, <2>1 DEF IInv, Core0OK
<1>5. /\ \A d \in Secondaries : EntrySent(d) => EntrySent(d)'
      /\ \A d \in Secondaries : StackAllocated(d)' = StackAllocated(d)
      /\ \A d \in Secondaries : StackSent(d)' = StackSent(d)
      /\ Allocated' = Allocated
  BY <1>1, <1>2, CoreFacts DEF EntrySent, StackAllocated, StackSent, Allocated, AfterStacks,
     IInv, Core0OK
<1>6. PagesOK'
  BY <1>1, <1>5 DEF IInv, PagesOK
<1>7. ReportsOK'
  BY <1>1, <1>2 DEF IInv, ReportsOK
<1> QED
  BY <1>1, <1>2, <1>3, <1>4, <1>5, <1>6, <1>7, Core0Frame

(* Core 0 clears the reports. *)
LEMMA ClearReportsStep ==
  ASSUME IInv, ClearReports
  PROVE  IInv'
<1>1. /\ pc[0] = "clear" /\ pc' = [pc EXCEPT ![0] = "demo"]
      /\ mbox' = [mbox EXCEPT ![0][3] = {}]
      /\ UNCHANGED <<event, to, cleared, used, stack, tables, entryGot, stackGot>>
  BY DEF ClearReports, Goto, core0Vars, ReportBox
<1>2. /\ mbox'[0][3] = {} /\ mbox'[0][1] = mbox[0][1]
      /\ \A d \in Secondaries : mbox'[d] = mbox[d]
      /\ mbox' \in [Cores -> [Boxes -> SUBSET AllMessages]]
  BY <1>1, CoreFacts DEF IInv, Typing
<1>3. /\ "demo" \in Core0Pc
      /\ pc'[0] = "demo" /\ \A d \in Secondaries : pc'[d] = pc[d]
  BY <1>1, Core0PcTyping DEF Core0Pc
<1>4. Typing'
  BY <1>1, <1>2, <1>3, Core0PcTyping DEF IInv, Typing
<1>5. Core0OK' /\ ReportsOK'
  BY <1>1, <1>2, <1>3 DEF IInv, Core0OK, ReportsOK
<1>6. /\ \A d \in Secondaries : EntrySent(d) => EntrySent(d)'
      /\ \A d \in Secondaries : StackAllocated(d)' = StackAllocated(d)
      /\ \A d \in Secondaries : StackSent(d)' = StackSent(d)
      /\ Allocated' = Allocated
  BY <1>1, <1>3 DEF EntrySent, StackAllocated, StackSent, Allocated, AfterStacks
<1>7. PagesOK'
  BY <1>1, <1>6 DEF IInv, PagesOK
<1> QED
  BY <1>1, <1>2, <1>3, <1>4, <1>5, <1>6, <1>7, Core0Frame

(* The pages pm_alloc may return: the marked ones are the first n.         *)
LEMMA AllocatesNext ==
  ASSUME NEW n \in Nat, used = 0..(n - 1), NEW p \in Candidates, PmAlloc(p)
  PROVE  p = n /\ used' = 0..(n + 1)
<1>1. p \in Nat
  BY DEF Candidates
<1>2. p >= n
  BY <1>1 DEF PmAlloc
<1>3. p <= n
  BY <1>1 DEF Candidates
<1>4. p = n
  BY <1>1, <1>2, <1>3
<1> QED
  BY <1>4 DEF PmAlloc

(* Core 0 allocates the page below a stack. *)
LEMMA AllocDummyStep ==
  ASSUME IInv, AllocDummy
  PROVE  IInv'
<1>1. /\ pc[0] = "allocDummy" /\ pc' = [pc EXCEPT ![0] = "allocStack"]
      /\ UNCHANGED <<event, mbox, to, cleared, stack, tables, entryGot, stackGot>>
  BY DEF AllocDummy, Goto
<1>2. /\ "allocStack" \in Core0Pc
      /\ pc'[0] = "allocStack" /\ \A d \in Secondaries : pc'[d] = pc[d]
  BY <1>1, Core0PcTyping DEF Core0Pc
<1>3. used = 0..(ImagePages - 1) /\ to = 1
  BY <1>1, PagesAssumption DEF IInv, PagesOK, Allocated, Core0OK
<1>4. used' = 0..(ImagePages + 1)
  BY <1>3, PagesAssumption, AllocatesNext DEF AllocDummy
<1>5. Typing'
  BY <1>1, <1>2, Core0PcTyping DEF IInv, Typing
<1>6. Core0OK' /\ ReportsOK'
  BY <1>1, <1>2 DEF IInv, Core0OK, ReportsOK
<1>7. /\ \A d \in Secondaries : EntrySent(d) => EntrySent(d)'
      /\ \A d \in Secondaries : ~StackAllocated(d) /\ ~StackAllocated(d)'
      /\ \A d \in Secondaries : ~StackSent(d)
      /\ Allocated' = 1
  BY <1>1, <1>2, <1>3, CoreFacts
     DEF EntrySent, StackAllocated, StackSent, Allocated, AfterStacks, Secondaries
<1>8. PagesOK'
  BY <1>1, <1>4, <1>7, PagesAssumption DEF IInv, PagesOK
<1> QED
  BY <1>1, <1>2, <1>5, <1>6, <1>7, <1>8, Core0Frame

(* What ForNextCore does to pc and to. *)
Advances(from, label) ==
  \/ /\ to < NCores - 1 /\ to' = to + 1 /\ pc' = [pc EXCEPT ![0] = from]
     /\ pc'[0] = from
  \/ /\ to = NCores - 1 /\ to' = 1 /\ pc' = [pc EXCEPT ![0] = label]
     /\ pc'[0] = label

(* The loop goes on to the next core. *)
LEMMA ForNextCoreAdvances ==
  ASSUME IInv, NEW from \in Core0Pc, NEW label \in Core0Pc, pc[0] = from, ForNextCore(label)
  PROVE  /\ Advances(from, label) /\ to' \in Secondaries
         /\ pc' \in [Cores -> Core0Pc \cup SecondaryPc]
         /\ pc'[0] \in {from, label}
         /\ \A d \in Secondaries : pc'[d] \in SecondaryPc /\ pc'[d] = pc[d]
<1>0. to \in Secondaries /\ pc \in [Cores -> Core0Pc \cup SecondaryPc]
  BY DEF IInv, Typing
<1>1. CASE to < NCores - 1
  <2>1. to' = to + 1 /\ pc' = [pc EXCEPT ![0] = from]
    BY <1>0, <1>1, CoreFacts DEF ForNextCore
  <2> QED
    BY <1>0, <1>1, <2>1, CoreFacts, Core0PcTyping DEF Advances
<1>2. CASE ~(to < NCores - 1)
  <2>1. to' = 1 /\ pc' = [pc EXCEPT ![0] = label] /\ to = NCores - 1
    BY <1>0, <1>2, CoreFacts DEF ForNextCore, Goto
  <2> QED
    BY <1>0, <2>1, CoreFacts, Core0PcTyping DEF Advances
<1> QED
  BY <1>1, <1>2

(* Core 0 allocates a stack. *)
LEMMA AllocStackStep ==
  ASSUME IInv, AllocStack
  PROVE  IInv'
<1>1. /\ pc[0] = "allocStack" /\ ForNextCore("sendStack")
      /\ UNCHANGED <<event, mbox, cleared, tables, entryGot, stackGot>>
  BY DEF AllocStack
<1>2. /\ Advances("allocStack", "sendStack") /\ to' \in Secondaries
      /\ pc' \in [Cores -> Core0Pc \cup SecondaryPc]
      /\ pc'[0] \in {"allocStack", "sendStack"}
      /\ \A d \in Secondaries : pc'[d] \in SecondaryPc /\ pc'[d] = pc[d]
  <2>1. "allocStack" \in Core0Pc /\ "sendStack" \in Core0Pc
    BY DEF Core0Pc
  <2> QED
    BY <1>1, <2>1, ForNextCoreAdvances
<1>3. to \in Secondaries /\ to \in Nat /\ to < NCores /\ ImagePages \in Nat
  BY CoreFacts, PagesAssumption DEF IInv, Typing
<1>4. used = 0..(ImagePages + 2 * to - 1)
  BY <1>1 DEF IInv, PagesOK, Allocated
<1>5. PICK p \in Candidates : PmAlloc(p) /\ stack' = [stack EXCEPT ![to] = p]
  BY DEF AllocStack
<1>6. p = ImagePages + 2 * to /\ used' = 0..(ImagePages + 2 * to + 1)
  <2> DEFINE n == ImagePages + 2 * to
  <2>1. n \in Nat /\ used = 0..(n - 1)
    BY <1>3, <1>4
  <2> HIDE DEF n
  <2>2. p = n /\ used' = 0..(n + 1)
    BY <1>5, <2>1, AllocatesNext
  <2> QED
    BY <2>2 DEF n
<1>7. /\ stack' \in [Secondaries -> Nat]
      /\ stack'[to] = ImagePages + 2 * to
      /\ \A d \in Secondaries \ {to} : stack'[d] = stack[d]
  BY <1>3, <1>5, <1>6 DEF IInv, Typing
<1>8. /\ \A d \in Secondaries : EntrySent(d)' = EntrySent(d)
      /\ \A d \in Secondaries : ~StackSent(d)
      /\ \A d \in Secondaries : StackAllocated(d)' <=> d <= to
      /\ \A d \in Secondaries : StackAllocated(d) <=> d < to
      /\ Allocated' = to + 1
  BY <1>1, <1>2, <1>3, CoreFacts
     DEF Advances, EntrySent, StackSent, StackAllocated, Allocated, AfterStacks
<1>9. Typing'
  BY <1>1, <1>2, <1>7 DEF IInv, Typing, Core0Pc
<1>10. Core0OK' /\ ReportsOK'
  BY <1>1, <1>2 DEF IInv, Core0OK, ReportsOK
<1>11. PagesOK'
  <2>1. used' = 0..(ImagePages + 2 * (to + 1) - 1)
    BY <1>3, <1>6
  <2>2. ASSUME NEW d \in Secondaries
        PROVE  stack'[d] = IF StackAllocated(d)' THEN ImagePages + 2 * d ELSE 0
    <3>1. stack[d] = IF StackAllocated(d) THEN ImagePages + 2 * d ELSE 0
      BY DEF IInv, PagesOK
    <3>2. CASE d = to
      BY <1>3, <1>7, <1>8, <3>2
    <3>3. CASE d # to
      BY <1>3, <1>7, <1>8, <3>1, <3>3, CoreFacts
    <3> QED
      BY <3>2, <3>3
  <2> QED
    BY <1>8, <2>1, <2>2 DEF PagesOK
<1> QED
  BY <1>1, <1>2, <1>8, <1>9, <1>10, <1>11, Core0Frame

(* The first write of mbox_send empties a mailbox.                         *)
LEMMA SendClrStep ==
  ASSUME IInv, NEW label, NEW box \in Boxes, SendClr(label, box)
  PROVE  IInv'
<1>1. /\ mbox' = [mbox EXCEPT ![to][box] = {}] /\ cleared'
      /\ UNCHANGED <<pc, event, to, used, stack, entryGot, stackGot, tables>>
  BY DEF SendClr
<1>2. to \in Secondaries /\ to \in Cores /\ to # 0
  BY CoreFacts DEF IInv, Typing
<1>3. /\ mbox'[0] = mbox[0]
      /\ \A d \in Secondaries, b \in Boxes : mbox'[d][b] \in {{}, mbox[d][b]}
      /\ mbox' \in [Cores -> [Boxes -> SUBSET AllMessages]]
  BY <1>1, <1>2, CoreFacts DEF IInv, Typing
<1>4. Typing' /\ Core0OK' /\ PagesOK' /\ ReportsOK'
  <2>1. Typing'
    BY <1>1, <1>3 DEF IInv, Typing
  <2>2. Core0OK' /\ ReportsOK'
    BY <1>1, <1>3 DEF IInv, Core0OK, ReportsOK
  <2>3. PagesOK'
    BY <1>1 DEF IInv, PagesOK, Allocated, StackAllocated
  <2> QED
    BY <2>1, <2>2, <2>3
<1>5. ASSUME NEW d \in Secondaries PROVE MailOK(d)' /\ HeldOK(d)'
  <2>1. EntrySent(d)' = EntrySent(d) /\ StackSent(d)' = StackSent(d)
    BY <1>1 DEF EntrySent, StackSent
  <2>2. mbox'[d][3] \in {{}, mbox[d][3]} /\ mbox'[d][1] \in {{}, mbox[d][1]}
    BY <1>3, CoreFacts
  <2> QED
    BY <1>1, <2>1, <2>2 DEF IInv, MailOK, HeldOK, LeftWait
<1> QED
  BY <1>4, <1>5 DEF IInv

(* The second write: the mailbox holds the message and nothing else.       *)
LEMMA SendEntrySetStep ==
  ASSUME IInv, SendSet("sendEntry", EntryBox, EntryOf(to), "allocDummy")
  PROVE  IInv'
<1>1. /\ pc[0] = "sendEntry" /\ ForNextCore("allocDummy") /\ cleared' = FALSE
      /\ mbox' = [mbox EXCEPT ![to][3] = @ \cup {EntryOf(to)}]
      /\ UNCHANGED <<event, used, stack, entryGot, stackGot, tables>>
  BY DEF SendSet, EntryBox
<1>2. /\ Advances("sendEntry", "allocDummy") /\ to' \in Secondaries
      /\ pc' \in [Cores -> Core0Pc \cup SecondaryPc]
      /\ pc'[0] \in {"sendEntry", "allocDummy"}
      /\ \A d \in Secondaries : pc'[d] \in SecondaryPc /\ pc'[d] = pc[d]
  <2>1. "sendEntry" \in Core0Pc /\ "allocDummy" \in Core0Pc
    BY DEF Core0Pc
  <2> QED
    BY <1>1, <2>1, ForNextCoreAdvances
<1>3. to \in Secondaries /\ to \in Cores /\ to # 0 /\ to \in Nat
  BY CoreFacts DEF IInv, Typing
<1>4. /\ \A d \in Secondaries : EntrySent(d) <=> d < to
      /\ \A d \in Secondaries : EntrySent(d)' <=> d <= to
      /\ \A d \in Secondaries : ~StackSent(d) /\ ~StackSent(d)'
      /\ \A d \in Secondaries : StackAllocated(d)' = StackAllocated(d)
      /\ Allocated' = Allocated
  BY <1>1, <1>2, <1>3, CoreFacts
     DEF Advances, EntrySent, StackSent, StackAllocated, Allocated, AfterStacks
<1>5. /\ \A d \in Cores \ {to} : mbox'[d] = mbox[d]
      /\ mbox'[to][3] = mbox[to][3] \cup {EntryOf(to)} /\ mbox'[to][1] = mbox[to][1]
      /\ mbox' \in [Cores -> [Boxes -> SUBSET AllMessages]]
  <2>1. EntryOf(to) \in AllMessages
    BY <1>3 DEF AllMessages, EntryPoints
  <2> QED
    BY <1>1, <1>3, <2>1, CoreFacts DEF IInv, Typing
<1>6. Typing'
  BY <1>1, <1>2, <1>5 DEF IInv, Typing, Core0Pc
<1>7. Core0OK'
  BY <1>1, <1>2, <1>3 DEF IInv, Core0OK, Advances
<1>8. ReportsOK'
  BY <1>1, <1>2, <1>3, <1>5, CoreFacts DEF IInv, ReportsOK
<1>9. PagesOK'
  BY <1>1, <1>4 DEF IInv, PagesOK
<1>10. ASSUME NEW d \in Secondaries PROVE MailOK(d)' /\ HeldOK(d)'
  <2>1. CASE d = to
    <3>1. pc[d] \in {"waitEntry", "readEntry"} /\ mbox[d][3] = {}
      BY <1>3, <1>4, <2>1 DEF IInv, HeldOK, MailOK
    <3>2. mbox'[d][3] = {EntryOf(d)} /\ mbox'[d][1] = {} /\ EntrySent(d)'
      BY <1>3, <1>4, <1>5, <2>1, <3>1 DEF IInv, MailOK
    <3> QED
      BY <1>2, <3>1, <3>2 DEF MailOK, HeldOK, LeftWait
  <2>2. CASE d # to
    <3>1. mbox'[d] = mbox[d]
      BY <1>5, <2>2, CoreFacts
    <3>2. EntrySent(d) => EntrySent(d)'
      <4>1. d < to => d <= to
        BY <1>3, CoreFacts
      <4> QED
        BY <1>4, <4>1
    <3> QED
      BY <1>1, <1>2, <1>4, <3>1, <3>2 DEF IInv, MailOK, HeldOK, LeftWait
  <2> QED
    BY <2>1, <2>2
<1> QED
  BY <1>6, <1>7, <1>8, <1>9, <1>10 DEF IInv

(* Core 0 sends the address of the stack. *)
LEMMA SendStackSetStep ==
  ASSUME IInv, SendSet("sendStack", StackBox, StackAt(stack[to]), "wfe")
  PROVE  IInv'
<1>1. /\ pc[0] = "sendStack" /\ ForNextCore("wfe") /\ cleared' = FALSE
      /\ mbox' = [mbox EXCEPT ![to][1] = @ \cup {StackAt(stack[to])}]
      /\ UNCHANGED <<event, used, stack, entryGot, stackGot, tables>>
  BY DEF SendSet, StackBox
<1>2. /\ Advances("sendStack", "wfe") /\ to' \in Secondaries
      /\ pc' \in [Cores -> Core0Pc \cup SecondaryPc]
      /\ pc'[0] \in {"sendStack", "wfe"}
      /\ \A d \in Secondaries : pc'[d] \in SecondaryPc /\ pc'[d] = pc[d]
  <2>1. "sendStack" \in Core0Pc /\ "wfe" \in Core0Pc
    BY DEF Core0Pc
  <2> QED
    BY <1>1, <2>1, ForNextCoreAdvances
<1>3. to \in Secondaries /\ to \in Cores /\ to # 0 /\ to \in Nat
  BY CoreFacts DEF IInv, Typing
<1>4. /\ \A d \in Secondaries : StackSent(d) <=> d < to
      /\ \A d \in Secondaries : StackSent(d)' <=> d <= to
      /\ \A d \in Secondaries : EntrySent(d)' = EntrySent(d)
      /\ \A d \in Secondaries : StackAllocated(d)' = StackAllocated(d)
      /\ Allocated' = Allocated
  BY <1>1, <1>2, <1>3, CoreFacts
     DEF Advances, EntrySent, StackSent, StackAllocated, Allocated, AfterStacks
<1>5. /\ \A d \in Cores \ {to} : mbox'[d] = mbox[d]
      /\ mbox'[to][1] = mbox[to][1] \cup {StackAt(stack[to])} /\ mbox'[to][3] = mbox[to][3]
      /\ mbox' \in [Cores -> [Boxes -> SUBSET AllMessages]]
  <2>1. stack[to] \in Nat
    BY <1>3 DEF IInv, Typing
  <2>2. StackAt(stack[to]) \in AllMessages
    BY <2>1 DEF AllMessages
  <2> QED
    BY <1>1, <1>3, <2>2, CoreFacts DEF IInv, Typing
<1>6. Typing'
  BY <1>1, <1>2, <1>5 DEF IInv, Typing, Core0Pc
<1>7. Core0OK'
  BY <1>1, <1>2 DEF IInv, Core0OK
<1>8. ReportsOK'
  BY <1>1, <1>2, <1>3, <1>5, CoreFacts DEF IInv, ReportsOK
<1>9. PagesOK'
  BY <1>1, <1>4 DEF IInv, PagesOK
<1>10. ASSUME NEW d \in Secondaries PROVE MailOK(d)' /\ HeldOK(d)'
  <2>0. EntrySent(d)' = EntrySent(d) /\ pc'[d] = pc[d] /\ stack'[d] = stack[d]
    BY <1>1, <1>2, <1>4
  <2>1. CASE d = to
    <3>1. ~(pc[d] = "ackStack" \/ LeftWait(d)) /\ mbox[d][1] = {}
      BY <1>3, <1>4, <2>1 DEF IInv, HeldOK, MailOK
    <3>2. mbox'[d][1] = {StackAt(stack[d])} /\ mbox'[d][3] = mbox[d][3] /\ StackSent(d)'
      BY <1>3, <1>4, <1>5, <2>1, <3>1
    <3> QED
      BY <1>1, <2>0, <3>1, <3>2 DEF IInv, MailOK, HeldOK, LeftWait
  <2>2. CASE d # to
    <3>1. mbox'[d] = mbox[d] /\ (StackSent(d) => StackSent(d)')
      BY <1>3, <1>4, <1>5, <2>2, CoreFacts
    <3> QED
      BY <1>1, <2>0, <3>1 DEF IInv, MailOK, HeldOK, LeftWait
  <2> QED
    BY <2>1, <2>2
<1> QED
  BY <1>6, <1>7, <1>8, <1>9, <1>10 DEF IInv

-----------------------------------------------------------------------------

(* The invariant at the start. *)
LEMMA IInvInit == Init => IInv
<1> SUFFICES ASSUME Init PROVE IInv
  OBVIOUS
<1>1. Typing
  BY CoreFacts DEF Init, Typing, Core0Pc, SecondaryPc
<1>2. Core0OK /\ ReportsOK
  BY CoreFacts DEF Init, Core0OK, ReportsOK
<1>3. PagesOK
  BY CoreFacts, PagesAssumption DEF Init, PagesOK, StackAllocated, Allocated, AfterStacks
<1>4. ASSUME NEW c \in Secondaries PROVE MailOK(c) /\ HeldOK(c)
  BY CoreFacts DEF Init, MailOK, HeldOK, LeftWait
<1> QED
  BY <1>1, <1>2, <1>3, <1>4 DEF IInv

(* Every step keeps the invariant. *)
LEMMA IInvStep == IInv /\ [Next]_vars => IInv'
<1> SUFFICES ASSUME IInv, [Next]_vars PROVE IInv'
  OBVIOUS
<1>1. CASE FillTables \/ EnterKernel \/ Sev \/ Poll \/ Wfe(0, "wfe", "sev")
  BY <1>1, PlainSteps
<1>2. CASE SendEntry \/ SendStack
  <2>1. EntryBox \in Boxes /\ StackBox \in Boxes
    BY DEF EntryBox, StackBox, Boxes
  <2> QED
    BY <1>2, <2>1, SendClrStep, SendEntrySetStep, SendStackSetStep DEF SendEntry, SendStack
<1>3. CASE AllocDummy
  BY <1>3, AllocDummyStep
<1>4. CASE AllocStack
  BY <1>4, AllocStackStep
<1>5. CASE ClearReports
  BY <1>5, ClearReportsStep
<1>6. ASSUME NEW c \in Secondaries, Secondary(c) PROVE IInv'
  BY <1>6, WfeSecondary, ReadSteps, AckSteps, StartSteps, ReportStep DEF Secondary
<1>7. CASE SpuriousWakes
  <2>1. CASE SpuriousWake(0, "wfe", "sev")
    BY <2>1, PlainSteps
  <2>2. ASSUME NEW c \in Secondaries,
               \/ SpuriousWake(c, "waitEntry", "readEntry")
               \/ SpuriousWake(c, "waitStack", "readStack")
        PROVE  IInv'
    BY <2>2, WfeSecondary
  <2> QED
    BY <1>7, <2>1, <2>2 DEF SpuriousWakes
<1>8. CASE UNCHANGED vars
  BY <1>8 DEF vars, IInv, Typing, Core0OK, PagesOK, ReportsOK, MailOK, HeldOK, LeftWait,
     EntrySent, StackSent, StackAllocated, Allocated
<1> QED
  BY <1>1, <1>2, <1>3, <1>4, <1>5, <1>6, <1>7, <1>8 DEF Next, Core0

(* IInv holds in every reachable state.                                    *)
THEOREM Invariant == Spec => []IInv
BY IInvInit, IInvStep, PTL DEF Spec

(* Every core leaves cpu_wait with its own entry point and stack.          *)
THEOREM MessagesRight == Spec => []RightMessages
<1>1. IInv => RightMessages
  BY DEF IInv, HeldOK, RightMessages, LeftWait
<1> QED
  BY <1>1, Invariant, PTL

(* The page below the one handed out, where the stack of a core lies, is   *)
(* marked, mapped, outside the image and nobody else's.                    *)
THEOREM StacksArePrivate == Spec => []StacksPrivate
<1>1. IInv => StacksPrivate
  <2> SUFFICES ASSUME IInv, NEW c \in Secondaries, LeftWait(c)
               PROVE  /\ StackPage(c) \in used
                      /\ StackPage(c) \in ImagePages..(MappedPages - 1)
                      /\ \A d \in Secondaries \ {c} :
                           StackPage(c) \notin {StackPage(d), stack[d]}
    BY DEF StacksPrivate
  <2>0. /\ NCores \in Nat /\ c \in Nat /\ c >= 1 /\ c <= NCores - 1
        /\ ImagePages \in Nat /\ MappedPages \in Nat
        /\ MappedPages >= ImagePages + 2 * (NCores - 1)
    BY CoresAssumption, PagesAssumption DEF Secondaries
  <2>1. StackSent(c)
    BY DEF IInv, HeldOK
  <2>2. pc[0] \in AfterStacks \cup {"sendStack"}
    BY <2>1 DEF StackSent
  <2>3. /\ used = 0..(ImagePages + 2 * NCores - 1)
        /\ \A d \in Secondaries : stack[d] = ImagePages + 2 * d
    BY <2>2 DEF IInv, PagesOK, StackAllocated, Allocated, AfterStacks
  <2>4. StackPage(c) = ImagePages + 2 * c - 1
    <3>1. stack[c] = ImagePages + 2 * c
      BY <2>3
    <3> QED
      BY <3>1, <2>0 DEF StackPage
  <2>5. StackPage(c) \in used /\ StackPage(c) \in ImagePages..(MappedPages - 1)
    BY <2>0, <2>3, <2>4
  <2>6. ASSUME NEW d \in Secondaries \ {c}
        PROVE  StackPage(c) \notin {StackPage(d), stack[d]}
    <3>1. d \in Secondaries /\ d \in Nat /\ d # c
      BY <2>6, CoreFacts
    <3>2. stack[d] = ImagePages + 2 * d
      BY <2>3, <3>1
    <3>3. StackPage(d) = ImagePages + 2 * d - 1
      BY <2>0, <3>1, <3>2 DEF StackPage
    <3> QED
      BY <2>0, <2>4, <3>1, <3>2, <3>3
  <2> QED
    BY <2>5, <2>6
<1> QED
  BY <1>1, Invariant, PTL

(* The page tables are complete before a core turns its MMU on.            *)
THEOREM TablesFirst == Spec => []MmuAfterTables
<1>1. IInv => MmuAfterTables
  BY DEF IInv, Core0OK, HeldOK, EntrySent, MmuAfterTables, LeftWait
<1> QED
  BY <1>1, Invariant, PTL

(* The loop of smp_bootstrap ends only when all cores are in their demo.   *)
THEOREM LoopWaitsForAll == Spec => []AllReadyAfterLoop
<1>1. IInv => AllReadyAfterLoop
  BY DEF IInv, Core0OK, AllReadyAfterLoop
<1> QED
  BY <1>1, Invariant, PTL

(* After the start no mailbox holds a left-over message.                   *)
THEOREM NothingLeftOver == Spec => []MailboxesDrained
<1>1. IInv => MailboxesDrained
  <2> SUFFICES ASSUME IInv, \A c \in Cores : pc[c] = "demo",
                      NEW c \in Cores, NEW b \in Boxes
               PROVE  mbox[c][b] = {}
    BY DEF MailboxesDrained
  <2>1. b = 1 \/ b = 3
    BY DEF Boxes
  <2>2. CASE c = 0
    BY <2>1, <2>2 DEF IInv, ReportsOK
  <2>3. CASE c # 0
    <3>1. c \in Secondaries
      BY <2>3, CoresAssumption DEF Cores, Secondaries
    <3> QED
      BY <2>1, <3>1 DEF IInv, HeldOK, LeftWait
  <2> QED
    BY <2>2, <2>3
<1> QED
  BY <1>1, Invariant, PTL

=============================================================================
