----------------------------- MODULE UserSwitch -----------------------------
(***************************************************************************)
(* Core 0 going to EL0 and back: ctx_us_save_switch_restore                *)
(* (kernel/ctx_switch.S and ctx_switch.h), the loop of demo_uart, the      *)
(* program of userspace_demo.c and its system calls (exc.c), with the      *)
(* receive interrupt of the UART (uart.c) at any point where the core has  *)
(* interrupts on.                                                          *)
(*                                                                         *)
(* ELR_EL1 and SPSR_EL1 are written by the switch, which ends in ERET, and *)
(* by the hardware when it takes an interrupt; the handler restores what   *)
(* the hardware wrote for the interrupted code.  The kernel stack is       *)
(* counted in slots above the stack pointer.  A handler runs masked to its *)
(* end, so an interrupt is one step.                                       *)
(***************************************************************************)
EXTENDS Integers, Sequences

CONSTANTS
  Keys,       \* what may be typed: digits, "\n" and other characters
  Trigger,    \* characters in the FIFO that raise the receive interrupt
  FifoSize,   \* characters the FIFO holds
  MaxTyped,   \* bound on the characters typed
  MaxDepth    \* bound on the slots pushed on the kernel stack

ASSUME UserAssumption ==
  /\ Keys \subseteq (0..9) \cup {-1, -2}
  /\ Trigger \in Nat \ {0} /\ FifoSize \in Nat
  /\ MaxTyped \in Nat /\ MaxDepth \in Nat

Newline  == -1
OtherKey == -2

VARIABLES
  pc,       \* where core 0 is
  irqMasked, \* PSTATE.I
  elr,      \* where ERET would go
  spsr,     \* and in which state: level and mask
  new,      \* SPSR in the context of the user program
  x8,       \* a copy of SPSR_EL1
  depth,    \* slots pushed on the kernel stack
  old,      \* the stack pointer saved in ctx_old
  x0,       \* the user's register, "none" when nothing was read
  num,      \* the number being read
  fifo,     \* characters received
  typed,    \* characters typed so far
  hit       \* an interrupt has hit the switch after it set ELR_EL1

userVars == <<pc, irqMasked, elr, spsr, new, x8, depth, old, x0, num, fifo, typed, hit>>
switchRegs == <<elr, spsr, new, x8, depth, old>>
input == <<fifo, typed>>

KernelPc == {"loop", "push", "save", "saved", "setElr", "load", "loaded", "readSpsr",
             "writeSpsr", "pushOld", "eret", "pop", "reload", "reloaded"}
UserPc   == {"uRead", "uWrite", "uExit"}
SvcPc    == {"svcRead", "svcWrite", "svcExit"}

State(el, mask) == [el |-> el, mask |-> mask]
States == [el : {0, 1}, mask : BOOLEAN]

UserTypeOK ==
  /\ pc \in KernelPc \cup UserPc \cup SvcPc \cup {"panic"}
  /\ irqMasked \in BOOLEAN
  /\ elr \in KernelPc \cup UserPc
  /\ spsr \in States /\ new \in States /\ x8 \in States
  /\ depth \in Nat /\ old \in Nat
  /\ x0 \in Int /\ num \in Int
  /\ fifo \in Seq(Keys) /\ Len(fifo) <= FifoSize
  /\ typed \in 0..MaxTyped
  /\ hit \in BOOLEAN

(* In demo_uart, after the printf of smp_bootstrap: interrupts are masked. *)
UserInit ==
  /\ pc = "loop"
  /\ irqMasked = TRUE
  /\ elr = "loop"
  /\ spsr \in States
  /\ new = State(1, TRUE)
  /\ x8 = State(1, TRUE)
  /\ depth = 0
  /\ old = 0
  /\ x0 = 0
  /\ num = -1
  /\ fifo = <<>>
  /\ typed = 0
  /\ hit = FALSE

Step(from, to) == pc = from /\ pc' = to

-----------------------------------------------------------------------------
(* From the loop to EL0.                                                   *)

(* The printf of the loop: td_idnest is 1, so it leaves interrupts masked. *)
Prompt ==
  /\ Step("loop", "push")
  /\ irqMasked' = TRUE
  /\ UNCHANGED <<switchRegs, x0, num, input, hit>>

(* ctx_us_push. *)
PushContext ==
  /\ Step("push", "save")
  /\ new' = spsr
  /\ UNCHANGED <<irqMasked, elr, spsr, x8, depth, old, x0, num, input, hit>>

(* CTX_SAVE masks interrupts, stores the context and unmasks them. *)
SaveMask ==
  /\ Step("save", "saved")
  /\ irqMasked' = TRUE
  /\ UNCHANGED <<switchRegs, x0, num, input, hit>>

(* A variant that saves the stack pointer as it is after the push. *)
SaveLate ==
  /\ Step("saved", "setElr")
  /\ old' = depth + 1
  /\ irqMasked' = FALSE
  /\ UNCHANGED <<elr, spsr, new, x8, depth, x0, num, input, hit>>

Save ==
  /\ Step("saved", "setElr")
  /\ old' = depth
  /\ irqMasked' = FALSE
  /\ UNCHANGED <<elr, spsr, new, x8, depth, x0, num, input, hit>>

SetElr ==
  /\ Step("setElr", "load")
  /\ elr' = "uRead"
  /\ hit' = FALSE
  /\ UNCHANGED <<irqMasked, spsr, new, x8, depth, old, x0, num, input>>

(* LOAD_CTX(NEW). *)
LoadMask ==
  /\ Step("load", "loaded")
  /\ irqMasked' = TRUE
  /\ UNCHANGED <<switchRegs, x0, num, input, hit>>

Load ==
  /\ Step("loaded", "readSpsr")
  /\ spsr' = new
  /\ irqMasked' = FALSE
  /\ UNCHANGED <<elr, new, x8, depth, old, x0, num, input, hit>>

ReadSpsr ==
  /\ Step("readSpsr", "writeSpsr")
  /\ x8' = spsr
  /\ UNCHANGED <<irqMasked, elr, spsr, new, depth, old, x0, num, input, hit>>

(* A variant that keeps the mode that was saved. *)
KeepMode ==
  /\ Step("writeSpsr", "pushOld")
  /\ spsr' = x8
  /\ UNCHANGED <<irqMasked, elr, new, x8, depth, old, x0, num, input, hit>>

WriteSpsr ==
  /\ Step("writeSpsr", "pushOld")
  /\ spsr' = [x8 EXCEPT !.el = 0]
  /\ UNCHANGED <<irqMasked, elr, new, x8, depth, old, x0, num, input, hit>>

(* STR OLD, [sp, #-16]!; x0 is loaded from the new context.  An interrupt  *)
(* right before it makes ERET come back here, again and again.             *)
PushOld ==
  /\ depth < MaxDepth
  /\ Step("pushOld", "eret")
  /\ depth' = depth + 1
  /\ x0' = 0
  /\ UNCHANGED <<irqMasked, elr, spsr, new, x8, old, num, input, hit>>

(* ERET to EL0 at a kernel address ends in do_el0_sync, which panics. *)
EretToUser ==
  /\ pc = "eret"
  /\ pc' = IF spsr.el = 0 /\ elr \notin UserPc THEN "panic" ELSE elr
  /\ irqMasked' = spsr.mask
  /\ UNCHANGED <<switchRegs, x0, num, input, hit>>

Switch == \/ Prompt \/ PushContext \/ SaveMask \/ Save \/ SetElr \/ LoadMask \/ Load
          \/ ReadSpsr \/ WriteSpsr \/ PushOld \/ EretToUser

-----------------------------------------------------------------------------
(* The user program and the system calls.                                  *)

(* SVC: the hardware fills ELR_EL1 and SPSR_EL1 and masks; the registers   *)
(* are saved in a frame on the kernel stack.                               *)
Svc(from, next, to) ==
  /\ Step(from, to)
  /\ elr' = next
  /\ spsr' = State(0, irqMasked)
  /\ irqMasked' = TRUE
  /\ depth' = depth + 1
  /\ num' = -1
  /\ UNCHANGED <<new, x8, old, x0, input, hit>>

SvcReturn ==
  /\ pc' = elr
  /\ irqMasked' = spsr.mask
  /\ depth' = depth - 1

(* svc 1: characters up to a newline or to one that is no digit; only the  *)
(* latter way out stores the number in x0.                                 *)
ReadDigit ==
  /\ pc = "svcRead"
  /\ fifo # <<>> /\ Head(fifo) \in 0..9
  /\ num' = (IF num = -1 THEN 0 ELSE num) * 10 + Head(fifo)
  /\ fifo' = Tail(fifo)
  /\ UNCHANGED <<pc, irqMasked, switchRegs, x0, typed, hit>>

ReadEnds ==
  /\ pc = "svcRead"
  /\ fifo # <<>> /\ Head(fifo) \in {Newline, OtherKey}
  /\ fifo' = Tail(fifo)
  /\ x0' = IF Head(fifo) = OtherKey THEN num ELSE x0
  /\ SvcReturn
  /\ UNCHANGED <<elr, spsr, new, x8, old, num, typed, hit>>

(* svc 2 prints x0. *)
Write ==
  /\ pc = "svcWrite"
  /\ SvcReturn
  /\ UNCHANGED <<elr, spsr, new, x8, old, x0, num, input, hit>>

(* svc 0: the frame's ELR becomes its LR, which is the label 1 in          *)
(* ctx_us_save_switch_restore, and its mode EL1h; a variant leaves the mode. *)
ExitInEl0 ==
  /\ pc = "svcExit"
  /\ pc' = "panic"
  /\ UNCHANGED <<irqMasked, switchRegs, x0, num, input, hit>>

Exit ==
  /\ pc = "svcExit"
  /\ pc' = "pop"
  /\ irqMasked' = spsr.mask
  /\ depth' = depth - 1
  /\ UNCHANGED <<elr, spsr, new, x8, old, x0, num, input, hit>>

User == \/ Svc("uRead", "uWrite", "svcRead")
        \/ Svc("uWrite", "uExit", "svcWrite")
        \/ Svc("uExit", "uExit", "svcExit")
        \/ ReadDigit \/ ReadEnds \/ Write \/ Exit

-----------------------------------------------------------------------------
(* Back in the kernel: LDR OLD, [sp], #16; LOAD_CTX(OLD); RET.             *)

PopOld ==
  /\ Step("pop", "reload")
  /\ depth' = depth - 1
  /\ UNCHANGED <<irqMasked, elr, spsr, new, x8, old, x0, num, input, hit>>

ReloadMask ==
  /\ Step("reload", "reloaded")
  /\ irqMasked' = TRUE
  /\ UNCHANGED <<switchRegs, x0, num, input, hit>>

Reload ==
  /\ Step("reloaded", "loop")
  /\ depth' = old
  /\ irqMasked' = FALSE
  /\ UNCHANGED <<elr, spsr, new, x8, old, x0, num, input, hit>>

Return == PopOld \/ ReloadMask \/ Reload

-----------------------------------------------------------------------------
(* The UART.                                                               *)

Type(key) ==
  /\ typed < MaxTyped
  /\ typed' = typed + 1
  /\ fifo' = IF Len(fifo) < FifoSize THEN Append(fifo, key) ELSE fifo
  /\ UNCHANGED <<pc, irqMasked, switchRegs, x0, num, hit>>

(* pl011_irq takes one character.  Taken in EL1, the handler leaves the    *)
(* address and the state of the code it interrupted in ELR_EL1, SPSR_EL1;  *)
(* next_ctx_stack stays on this stack, as switch_to is -1 on core 0.       *)
UartIrq ==
  /\ ~irqMasked
  /\ Len(fifo) >= Trigger
  /\ pc \in KernelPc \cup UserPc
  /\ fifo' = Tail(fifo)
  /\ elr' = pc
  /\ spsr' = State(IF pc \in UserPc THEN 0 ELSE 1, FALSE)
  /\ hit' = (hit \/ pc \in {"load", "readSpsr", "writeSpsr", "pushOld", "eret"})
  /\ UNCHANGED <<pc, irqMasked, new, x8, depth, old, x0, num, typed>>

-----------------------------------------------------------------------------

Core == Switch \/ User \/ Return
UserNext == Core \/ (\E key \in Keys : Type(key)) \/ UartIrq

UserSpec == UserInit /\ [][UserNext]_userVars

(* The core executes instructions. *)
FairUserSpec == UserSpec /\ WF_userVars(Core)

-----------------------------------------------------------------------------

(* ctx_switch.S:105 and 109: ERET goes to the user program, in EL0.        *)
EntersUser == pc = "eret" => elr = "uRead" /\ spsr.el = 0

(* The only interrupts that divert the switch are those between the        *)
(* write of ELR_EL1 and its ERET: the others may come at any point.        *)
EntersUserUnlessHit == pc = "eret" /\ ~hit => elr = "uRead" /\ spsr.el = 0

(* Whatever was pushed on the way, demo_uart goes on with the stack it     *)
(* left: however often the program is run, the kernel stack does not grow. *)
StackRestored == pc = "loop" => depth = 0

(* A program that exits gets back to the loop of demo_uart.                *)
ExitReturns == (pc = "svcExit") ~> (pc = "loop")

=============================================================================
