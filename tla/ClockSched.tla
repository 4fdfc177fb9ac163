----------------------------- MODULE ClockSched -----------------------------
(***************************************************************************)
(* The two threads of core 1 and the timer interrupt that switches them:   *)
(* smp_demo_clock and demo_clock (kernel/smp.c, demo.c), clock_irq         *)
(* (clock.c), the EL1 interrupt entry (evec.S), exc_irq and                *)
(* next_ctx_stack (irq.c), and the masking of interrupts with a nesting    *)
(* count around every character (cpu.h, cons.c).                           *)
(*                                                                         *)
(* A thread owns a stack of activations: level 1 is the thread, the levels *)
(* above it are interrupt handlers.  The handler saves the activation it   *)
(* interrupts in a trap frame, named here by thread and level; it leaves   *)
(* through the frame next_ctx_stack returns, which abandons its own        *)
(* activation.  A frame keeps its contents after it was left, so that      *)
(* leaving through an old frame is possible in the model as on the core.   *)
(* Registers are abstracted to the point of the program and the mask bit.  *)
(***************************************************************************)
EXTENDS Integers, FiniteSets

CONSTANTS
  MaxLevel,     \* bound on the levels of a stack
  SpsrAtReset   \* what SPSR_EL1 may hold when no exception was taken yet

ASSUME ClockAssumption ==
  /\ MaxLevel \in Nat /\ MaxLevel >= 2
  /\ SpsrAtReset \subseteq {"open", "masked", "el0"}

Threads == {"main", "worker"}
Levels  == 1..MaxLevel

VARIABLES
  current,    \* the thread whose stack the core is on
  level,      \* the level reached on each stack
  act,        \* the activations on each stack
  frame,      \* the trap frames on each stack
  schedule,   \* pcpu()->schedule
  sp,         \* the frame the handler leaves through
  leaving,    \* it is between next_ctx_stack and eret
  masked,     \* PSTATE.I and PSTATE.F
  nest,       \* pcpu()->td_idnest
  due,        \* the counter has reached the compare value
  local,      \* the timer interrupt is enabled in the core's controller
  handler,    \* clock_irq is registered
  ticks,      \* its lowest bit
  switch_to   \* pcpu()->switch_to

vars == <<current, level, act, frame, schedule, sp, leaving, masked, nest,
          due, local, handler, ticks, switch_to>>
stacks == <<current, level, act, frame, sp, leaving>>
timer  == <<due, local, handler, ticks>>

PutcPoints == {"mask", "count", "draw", "drawn", "uncount", "test"}
BootPoints == {"create", "compare", "register", "local"}
ThreadPoints == {"delay", "format", "flush", "block"}
HandlerPoints == {"begin", "dispatch", "switchTo", "next", "pick"}
Points == PutcPoints \cup BootPoints \cup ThreadPoints \cup HandlerPoints

Activation == [at : Points, ret : Points, idx : -1..1]
Starts(point, ret) == [at |-> point, ret |-> ret, idx |-> -1]

(* A frame is on a stack, or in the page ctx_create fills: level 0.        *)
FrameLevels == 0..MaxLevel
FramePointer == [thread : Threads, level : FrameLevels]
NoFrame == [thread |-> "none", level |-> -1]
FrameAt(t, l) == [thread |-> t, level |-> l]
Saved(a, spsr) == [act |-> a, spsr |-> spsr]

TypeOK ==
  /\ current \in Threads
  /\ level \in [Threads -> Levels]
  /\ act \in [Threads -> [Levels -> Activation]]
  /\ frame \in [Threads -> [FrameLevels -> [act : Activation, spsr : {"open", "masked", "el0"}]]]
  /\ schedule \in [0..1 -> FramePointer \cup {NoFrame}]
  /\ sp \in FramePointer \cup {NoFrame}
  /\ leaving \in {"no", "end", "eret", "panic"}
  /\ masked \in BOOLEAN
  /\ nest \in 0..MaxLevel
  /\ due \in BOOLEAN /\ local \in BOOLEAN /\ handler \in BOOLEAN
  /\ ticks \in 0..1
  /\ switch_to \in -1..1

(* After smp_intro: its printf has left interrupts masked, because         *)
(* pcpu_init starts the count at 1.  arm_irq_enable comes next.            *)
Init ==
  /\ current = "main"
  /\ level = [t \in Threads |-> 1]
  /\ act = [t \in Threads |-> [l \in Levels |->
              IF t = "main" /\ l = 1 THEN Starts("uncount", "create")
                                     ELSE Starts("delay", "delay")]]
  /\ frame = [t \in Threads |-> [l \in FrameLevels |-> Saved(Starts("delay", "delay"), "open")]]
  /\ schedule = [i \in 0..1 |-> NoFrame]
  /\ sp = NoFrame
  /\ leaving = "no"
  /\ masked = TRUE
  /\ nest = 1
  /\ due = FALSE
  /\ local = FALSE
  /\ handler = FALSE
  /\ ticks = 0
  /\ switch_to = -1

Top == act[current][level[current]]
At(point) == leaving = "no" /\ Top.at = point
Become(a) == act' = [act EXCEPT ![current][level[current]] = a]
Goto(point) ==
  /\ Become([Top EXCEPT !.at = point])
  /\ UNCHANGED <<current, level, frame, sp, leaving>>

-----------------------------------------------------------------------------
(* cons_putc: arm_irq_disable, the console's putc, arm_irq_enable.         *)

(* A variant that only counts. *)
NoMask ==
  /\ At("mask")
  /\ Goto("count")
  /\ UNCHANGED <<masked, nest, schedule, timer, switch_to>>

Mask ==
  /\ At("mask")
  /\ masked' = TRUE
  /\ Goto("count")
  /\ UNCHANGED <<nest, schedule, timer, switch_to>>

Count ==
  /\ At("count")
  /\ nest' = nest + 1
  /\ Goto("draw")
  /\ UNCHANGED <<masked, schedule, timer, switch_to>>

(* gfx_cons_putc reads the cursor, draws, and moves the cursor. *)
Draw ==
  /\ At("draw")
  /\ Goto("drawn")
  /\ UNCHANGED <<masked, nest, schedule, timer, switch_to>>

Drawn ==
  /\ At("drawn")
  /\ Goto("uncount")
  /\ UNCHANGED <<masked, nest, schedule, timer, switch_to>>

Uncount ==
  /\ At("uncount")
  /\ nest' = nest - 1
  /\ Goto("test")
  /\ UNCHANGED <<masked, schedule, timer, switch_to>>

(* A variant that enables interrupts whatever the count. *)
TestNothing ==
  /\ At("test")
  /\ masked' = FALSE
  /\ Goto(Top.ret)
  /\ UNCHANGED <<nest, schedule, timer, switch_to>>

Test ==
  /\ At("test")
  /\ masked' = (masked /\ nest # 0)
  /\ Goto(Top.ret)
  /\ UNCHANGED <<nest, schedule, timer, switch_to>>

Putc == Mask \/ Count \/ Draw \/ Drawn \/ Uncount \/ Test

-----------------------------------------------------------------------------
(* The threads.                                                            *)

(* A variant of the order of clock_init. *)
EnableFirst(point) ==
  CASE point = "create"   -> "compare"
    [] point = "compare"  -> "local"
    [] point = "local"    -> "register"
    [] point = "register" -> "delay"

BootNext(point) ==
  CASE point = "create"   -> "compare"
    [] point = "compare"  -> "register"
    [] point = "register" -> "local"
    [] point = "local"    -> "delay"

(* ctx_create: the frame of a thread that has not run yet.  ctx_push takes *)
(* its SPSR from SPSR_EL1, which nothing on this core has set.             *)
Create ==
  /\ At("create")
  /\ \E spsr \in SpsrAtReset :
       frame' = [frame EXCEPT !["worker"][0] = Saved(Starts("delay", "delay"), spsr)]
  /\ schedule' = [i \in 0..1 |-> FrameAt("worker", 0)]
  /\ Become(Starts(BootNext("create"), "delay"))
  /\ UNCHANGED <<current, level, sp, leaving, masked, nest, timer, switch_to>>

(* clock_init: the first compare value, the handler, the controller. *)
Compare ==
  /\ At("compare")
  /\ due' = FALSE
  /\ Goto(BootNext("compare"))
  /\ UNCHANGED <<masked, nest, schedule, local, handler, ticks, switch_to>>

Register ==
  /\ At("register")
  /\ handler' = TRUE
  /\ Goto(BootNext("register"))
  /\ UNCHANGED <<masked, nest, schedule, due, local, ticks, switch_to>>

EnableLocal ==
  /\ At("local")
  /\ local' = TRUE
  /\ Goto(BootNext("local"))
  /\ UNCHANGED <<masked, nest, schedule, due, handler, ticks, switch_to>>

Boot == Create \/ Compare \/ Register \/ EnableLocal

(* The loop of demo_clock and of program3: delay, then vprintf, which puts *)
(* one or more characters and ends with cons_flush.                        *)
Delay ==
  /\ At("delay")
  /\ Become(Starts("mask", "format"))
  /\ UNCHANGED <<current, level, frame, sp, leaving, masked, nest, schedule, timer, switch_to>>

Format ==
  /\ At("format")
  /\ \/ Become(Starts("mask", "format"))
     \/ Become(Starts("flush", "format"))
  /\ UNCHANGED <<current, level, frame, sp, leaving, masked, nest, schedule, timer, switch_to>>

(* gfx_cons_flush reads the cursor and draws a block there, interrupts on. *)
Flush ==
  /\ At("flush")
  /\ Goto("block")
  /\ UNCHANGED <<masked, nest, schedule, timer, switch_to>>

DrawBlock ==
  /\ At("block")
  /\ Goto("delay")
  /\ UNCHANGED <<masked, nest, schedule, timer, switch_to>>

ThreadSteps == Boot \/ Delay \/ Format \/ Flush \/ DrawBlock

-----------------------------------------------------------------------------
(* The timer and its interrupt.                                            *)

Tick ==
  /\ ~due
  /\ due' = TRUE
  /\ UNCHANGED <<stacks, masked, nest, schedule, local, handler, ticks, switch_to>>

(* The core masks interrupts and enters handle_el1h_irq, which saves the   *)
(* registers in a frame.                                                   *)
TimerIrq ==
  /\ leaving = "no"
  /\ ~masked /\ due /\ local
  /\ level[current] < MaxLevel
  /\ masked' = TRUE
  /\ frame' = [frame EXCEPT ![current][level[current]] = Saved(Top, "open")]
  /\ level' = [level EXCEPT ![current] = @ + 1]
  /\ act' = [act EXCEPT ![current][level[current] + 1] = Starts("begin", "begin")]
  /\ UNCHANGED <<current, sp, leaving, nest, schedule, timer, switch_to>>

(* A variant without the call of irq_free_zone_begin. *)
NoFreeZone ==
  /\ At("begin")
  /\ Goto("dispatch")
  /\ UNCHANGED <<masked, nest, schedule, timer, switch_to>>

FreeZoneBegin ==
  /\ At("begin")
  /\ nest' = nest + 1
  /\ Goto("dispatch")
  /\ UNCHANGED <<masked, schedule, timer, switch_to>>

(* A variant that lets the timer interrupt only once. *)
ClockIrqOnce ==
  /\ At("dispatch")
  /\ due' = FALSE
  /\ local' = FALSE
  /\ ticks' = (ticks + 1) % 2
  /\ Become([Top EXCEPT !.at = "mask", !.ret = "switchTo"])
  /\ UNCHANGED <<current, level, frame, sp, leaving, masked, nest, schedule, handler, switch_to>>

(* exc_irq finds the timer pending and calls clock_irq, which moves the    *)
(* compare value ahead; its printf and that of next_ctx_stack are one      *)
(* character each.                                                         *)
ClockIrq ==
  /\ At("dispatch")
  /\ due' = FALSE
  /\ ticks' = (ticks + 1) % 2
  /\ Become([Top EXCEPT !.at = "mask", !.ret = "switchTo"])
  /\ UNCHANGED <<current, level, frame, sp, leaving, masked, nest, schedule, local, handler,
                 switch_to>>

(* A variant that always chooses the same thread. *)
SwitchToOne ==
  /\ At("switchTo")
  /\ switch_to' = 1
  /\ Goto("next")
  /\ UNCHANGED <<masked, nest, schedule, timer>>

SwitchTo ==
  /\ At("switchTo")
  /\ switch_to' = ticks
  /\ Goto("next")
  /\ UNCHANGED <<masked, nest, schedule, timer>>

(* next_ctx_stack reads switch_to, prints, then uses what it has read. *)
NextCtx ==
  /\ At("next")
  /\ Become([at |-> "mask", ret |-> "pick", idx |-> switch_to])
  /\ UNCHANGED <<current, level, frame, sp, leaving, masked, nest, schedule, timer, switch_to>>

MyFrame == FrameAt(current, level[current] - 1)

Pick ==
  /\ At("pick")
  /\ IF Top.idx < 0
     THEN sp' = MyFrame /\ UNCHANGED schedule
     ELSE /\ schedule' = [schedule EXCEPT ![(Top.idx + 1) % 2] = MyFrame]
          /\ sp' = schedule'[Top.idx]
  /\ leaving' = "end"
  /\ UNCHANGED <<current, level, act, frame, masked, nest, timer, switch_to>>

FreeZoneEnd ==
  /\ leaving = "end"
  /\ nest' = nest - 1
  /\ leaving' = "eret"
  /\ UNCHANGED <<current, level, act, frame, sp, masked, schedule, timer, switch_to>>

(* The level that goes on when a frame is left. *)
Resumed(f) == IF f.level = 0 THEN 1 ELSE f.level

(* restore_registers and eret: the activation saved in the frame goes on.  *)
(* At EL0 a thread of the kernel faults at once, and do_el0_sync panics.   *)
Eret ==
  LET t == sp.thread
      l == Resumed(sp) IN
  /\ leaving = "eret"
  /\ current' = t
  /\ level' = [level EXCEPT ![t] = l]
  /\ act' = [act EXCEPT ![t][l] = frame[t][sp.level].act]
  /\ masked' = (frame[t][sp.level].spsr = "masked")
  /\ leaving' = IF frame[t][sp.level].spsr = "el0" THEN "panic" ELSE "no"
  /\ UNCHANGED <<frame, sp, nest, schedule, timer, switch_to>>

HandlerSteps ==
  FreeZoneBegin \/ ClockIrq \/ SwitchTo \/ NextCtx \/ Pick \/ FreeZoneEnd \/ Eret

-----------------------------------------------------------------------------

Next == Putc \/ ThreadSteps \/ Tick \/ TimerIrq \/ HandlerSteps

Spec == Init /\ [][Next]_vars

InHandler == level[current] > 1 \/ leaving # "no"
ThreadRuns(t) == current = t /\ ~InHandler /\ (Putc \/ ThreadSteps)

(* Time passes and a handler runs to its end.  A pending interrupt is      *)
(* taken while the core is unmasked, most of the time; a thread gets to    *)
(* run between two ticks, which are a second apart.                        *)
FairSpec ==
  /\ Spec
  /\ WF_vars(Tick)
  /\ WF_vars(InHandler /\ (Putc \/ HandlerSteps))
  /\ SF_vars(TimerIrq)
  /\ \A t \in Threads : SF_vars(ThreadRuns(t))

-----------------------------------------------------------------------------

(* Interrupts are on only when the count is zero, so that nothing that     *)
(* disables them twice is interrupted after it enables them once.          *)
UnmaskedOnlyAtZero == leaving # "panic" /\ ~masked => nest = 0

(* A handler is never interrupted: irq_free_zone_begin keeps the           *)
(* arm_irq_enable in its printf from unmasking before the frame is left.   *)
HandlerNotInterrupted == InHandler => masked /\ level[current] <= 2

(* The cursor of the console is read and moved by one activation at a      *)
(* time, whichever thread or handler it belongs to.                        *)
Live(t, l) == l <= level[t] /\ (t # current => l < level[t] \/ level[t] = 1)
OneAtTheCursor ==
  Cardinality({p \in [thread : Threads, level : Levels] : /\ Live(p.thread, p.level)
                                    /\ act[p.thread][p.level].at = "drawn"}) <= 1

(* When the timer interrupts, its handler is registered.                   *)
DispatchFindsHandler == leaving = "no" /\ Top.at = "dispatch" => handler /\ due

(* A thread goes on exactly where it was stopped: no frame is left twice   *)
(* and none is lost, over any number of switches.                          *)
ResumeWhereStopped ==
  [][Eret => act'[current'][level'[current']] = act[sp.thread][Resumed(sp)]]_vars

(* Both threads go on printing for ever. *)
BothPrint == \A t \in Threads : []<>(current = t /\ level[t] = 1 /\ act[t][1].at = "drawn")

=============================================================================
