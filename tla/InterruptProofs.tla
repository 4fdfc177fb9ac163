--------------------------- MODULE InterruptProofs ---------------------------
(***************************************************************************)
(* Proofs about the two cores that take interrupts while they work: core 1 *)
(* with its two threads and their timer (ClockSched), and core 0 on its    *)
(* way to EL0 and back with the receive interrupt of the UART (UserSwitch).*)
(* The modules share no variable; each theorem is about one of them.       *)
(*                                                                         *)
(* Core 1, for every bound on the levels of a stack: the timer interrupts  *)
(* a thread only where interrupts are on and the nesting count is zero,    *)
(* its handler is never interrupted, and every switch resumes the other    *)
(* thread exactly where it was stopped.  The proofs assume what the model  *)
(* checker's instance assumes as well: SPSR_EL1 does not name EL0 when     *)
(* ctx_push copies it for a thread that has not run yet.                   *)
(*                                                                         *)
(* Core 0, for any keys, FIFO and number of characters typed: a switch     *)
(* that no interrupt has hit enters the program in EL0, and the kernel     *)
(* stack is balanced around it.                                            *)
(***************************************************************************)
EXTENDS ClockSched, UserSwitch, FiniteSetTheorems, TLAPS

-----------------------------------------------------------------------------
(* Core 1: ClockSched.                                                     *)

Typing ==
  /\ current \in Threads
  /\ level \in [Threads -> 1..2]
  /\ act \in [Threads -> [Levels -> Activation]]
  /\ frame \in [Threads -> [FrameLevels -> [act : Activation, spsr : {"open", "masked", "el0"}]]]
  /\ schedule \in [0..1 -> FramePointer \cup {NoFrame}]
  /\ ticks \in 0..1
  /\ switch_to \in -1..1
  /\ masked \in BOOLEAN

(* Where the running activation is: a thread is in its loop, in the boot   *)
(* of the core or in a putc of these; a handler between its entry and      *)
(* next_ctx_stack, in a putc of clock_irq or of next_ctx_stack.            *)
InThread ==
  /\ Top.at \in PutcPoints \cup ThreadPoints \cup BootPoints
  /\ Top.ret \in {"create", "format", "delay"}
  /\ local => Top.at \in PutcPoints \cup ThreadPoints /\ Top.ret \in {"format", "delay"}

InIrq ==
  /\ local
  /\ Top.at \in HandlerPoints \cup PutcPoints
  /\ Top.at \in PutcPoints => Top.ret \in {"switchTo", "pick"}
  /\ Top.at = "pick" => Top.idx = ticks
  /\ Top.at \in PutcPoints /\ Top.ret = "pick" => Top.idx = ticks
  /\ Top.at = "next" => switch_to = ticks
  /\ Top.at \in {"begin", "dispatch"} => due

Where ==
  /\ leaving \in {"no", "end", "eret"}
  /\ leaving # "no" => level[current] = 2
  /\ level[current] = 1 => InThread
  /\ level[current] = 2 => InIrq

(* The count is one for a handler that has called irq_free_zone_begin, and *)
(* one more inside a putc.                                                 *)
Drawing == Top.at \in {"draw", "drawn", "uncount"}
Counted ==
  /\ leaving = "eret" => nest = 0
  /\ leaving = "end" => nest = 1
  /\ leaving = "no" =>
       nest = (IF level[current] = 2 /\ Top.at # "begin" THEN 1 ELSE 0)
              + (IF Drawing THEN 1 ELSE 0)

MaskHolds == level[current] = 2 \/ Top.at \in PutcPoints \ {"mask"} => masked

Booting ==
  /\ local => handler
  /\ ~local =>
       /\ current = "main" /\ level["main"] = 1 /\ level["worker"] = 1
       /\ act["worker"][1] = Starts("delay", "delay")
       /\ Top.at \in {"uncount", "test"} \cup BootPoints
       /\ Top.at \in {"uncount", "test"} => Top.ret = "create"
       /\ Top.at \in BootPoints \ {"create"} =>
            /\ \A i \in 0..1 : schedule[i] = FrameAt("worker", 0)
            /\ frame["worker"][0].act = Starts("delay", "delay")
            /\ frame["worker"][0].spsr \in {"open", "masked"}
            /\ Top.ret = "delay"
       /\ Top.at = "local" => handler

(* A frame that holds where its thread was stopped, with interrupts on and *)
(* outside of any putc.                                                    *)
Resting(f) ==
  LET saved == frame[f.thread][f.level] IN
  /\ saved.act = act[f.thread][1]
  /\ saved.act.at \in ThreadPoints \cup {"mask"}
  /\ saved.act.ret \in {"format", "delay"}
  /\ saved.spsr \in {"open", "masked"}

Other == IF current = "main" THEN "worker" ELSE "main"
Waits(f) == f \in {FrameAt(Other, 0), FrameAt(Other, 1)} /\ Resting(f)

(* The entry of the schedule that the next switch takes: clock_irq turns   *)
(* the lowest bit of ticks.                                                *)
Turned == level[current] = 2 /\ Top.at \notin {"begin", "dispatch"}
NextEntry == IF Turned THEN ticks ELSE 1 - ticks

Switching ==
  local =>
    /\ leaving = "no" => Waits(schedule[NextEntry])
    /\ leaving # "no" => Waits(sp) /\ schedule[1 - ticks] = FrameAt(current, 1)
    /\ level[current] = 2 => Resting(FrameAt(current, 1))

IClock == Typing /\ Where /\ Counted /\ MaskHolds /\ Booting /\ Switching

-----------------------------------------------------------------------------

(* Activations have levels 1 and 2, frames also 0. *)
LEMMA LevelsAre == 1 \in Levels /\ 2 \in Levels /\ 0 \in FrameLevels /\ 1 \in FrameLevels
  BY ClockAssumption DEF Levels, FrameLevels

(* What Become does to the stacks. *)
LEMMA BecomeMeans ==
  ASSUME Typing, NEW a \in Activation, Become(a), UNCHANGED <<current, level>>
  PROVE  /\ act' \in [Threads -> [Levels -> Activation]]
         /\ Top' = a
         /\ act'[Other][1] = act[Other][1]
         /\ level[current] = 2 => act'[current][1] = act[current][1]
<1>1. level[current] \in 1..2 /\ level[current] \in Levels /\ Other \in Threads /\ Other # current
  BY LevelsAre DEF Typing, Other, Threads
<1>2. act' = [act EXCEPT ![current] = [act[current] EXCEPT ![level[current]] = a]]
  BY DEF Become
<1>3. act[current] \in [Levels -> Activation] /\ current \in Threads
  BY DEF Typing
<1>4. act'[current] = [act[current] EXCEPT ![level[current]] = a] /\ act'[Other] = act[Other]
  BY <1>1, <1>2, <1>3 DEF Typing
<1>5. act'[current][level[current]] = a
  BY <1>1, <1>3, <1>4
<1>6. level[current] = 2 => act'[current][1] = act[current][1]
  BY <1>1, <1>3, <1>4, LevelsAre
<1>7. act' \in [Threads -> [Levels -> Activation]]
  BY <1>1, <1>2, <1>3 DEF Typing
<1> QED
  BY <1>4, <1>5, <1>6, <1>7 DEF Top

(* A step of the running activation disturbs neither the frames nor the    *)
(* stopped activations.                                                    *)
LEMMA SwitchKept ==
  ASSUME Typing, Switching, leaving = "no", NEW a \in Activation, Become(a),
         UNCHANGED <<current, level, frame, sp, leaving, schedule, ticks, local>>,
         level[current] = 2 =>
           (Top.at \in {"begin", "dispatch"} <=> a.at \in {"begin", "dispatch"})
  PROVE  Switching'
<1>1. /\ Top' = a /\ act'[Other][1] = act[Other][1]
      /\ level[current] = 2 => act'[current][1] = act[current][1]
  BY BecomeMeans
<1>2. NextEntry' = NextEntry /\ Other' = Other
  BY <1>1 DEF NextEntry, Turned, Other
<1>3. ASSUME NEW f, Waits(f) PROVE Waits(f)'
  BY <1>1, <1>2, <1>3 DEF Waits, Resting, FrameAt
<1>4. level[current] = 2 /\ Resting(FrameAt(current, 1)) => Resting(FrameAt(current, 1))'
  BY <1>1 DEF Resting, FrameAt
<1> QED
  BY <1>2, <1>3, <1>4 DEF Switching

(* A thread has one activation or two, its own and that of an interrupt. *)
LEMMA TopTyped == Typing => Top \in Activation /\ level[current] \in 1..2 /\ level[current] \in Levels
  BY LevelsAre DEF Typing, Top

(* The invariant holds at the start. *)
LEMMA InitClock == Init => IClock
<1> SUFFICES ASSUME Init PROVE IClock
  OBVIOUS
<1>1. /\ current = "main" /\ local = FALSE /\ handler = FALSE /\ masked = TRUE /\ nest = 1
      /\ leaving = "no" /\ level["main"] = 1 /\ level["worker"] = 1 /\ level[current] = 1
      /\ ticks = 0 /\ switch_to = -1
  BY DEF Init, Threads
<1>2. Starts("uncount", "create") \in Activation /\ Starts("delay", "delay") \in Activation
  BY DEF Starts, Activation, Points, PutcPoints, BootPoints, ThreadPoints
<1>3. Top = Starts("uncount", "create") /\ act["worker"][1] = Starts("delay", "delay")
  BY <1>1, LevelsAre DEF Init, Top, Threads
<1>4. Typing
  <2>1. act \in [Threads -> [Levels -> Activation]]
    BY <1>2 DEF Init
  <2>2. frame \in [Threads -> [FrameLevels -> [act : Activation, spsr : {"open", "masked", "el0"}]]]
    BY <1>2 DEF Init, Saved
  <2> QED
    BY <1>1, <2>1, <2>2 DEF Init, Typing, Threads
<1>5. Top.at = "uncount" /\ Top.ret = "create"
  BY <1>3 DEF Starts
<1>6. Where /\ Counted /\ MaskHolds
  BY <1>1, <1>5 DEF Where, InThread, Counted, Drawing, MaskHolds, PutcPoints
<1>7. Booting /\ Switching
  BY <1>1, <1>3, <1>5 DEF Booting, Switching, BootPoints
<1> QED
  BY <1>4, <1>6, <1>7 DEF IClock

(* What Goto changes: the running thread and its place only. *)
LEMMA GotoMeans ==
  ASSUME Typing, NEW point \in Points, Goto(point)
  PROVE  /\ Become([Top EXCEPT !.at = point]) /\ [Top EXCEPT !.at = point] \in Activation
         /\ UNCHANGED <<current, level, frame, sp, leaving>>
         /\ act' \in [Threads -> [Levels -> Activation]]
         /\ Top'.at = point /\ Top'.ret = Top.ret /\ Top'.idx = Top.idx
         /\ act'[Other][1] = act[Other][1]
<1> DEFINE a == [Top EXCEPT !.at = point]
<1>1. Become(a) /\ UNCHANGED <<current, level, frame, sp, leaving>>
  BY DEF Goto
<1>2. Top \in Activation
  BY TopTyped
<1>3. a \in Activation /\ a.at = point /\ a.ret = Top.ret /\ a.idx = Top.idx
  BY <1>2 DEF Activation
<1> HIDE DEF a
<1>4. /\ act' \in [Threads -> [Levels -> Activation]] /\ Top' = a
      /\ act'[Other][1] = act[Other][1]
  BY <1>1, <1>3, BecomeMeans
<1> QED
  BY <1>1, <1>3, <1>4 DEF a

(* Steps within cons_putc and within a thread's loop. *)
LEMMA PutcStep == IClock /\ Putc => IClock'
<1> SUFFICES ASSUME IClock, Putc PROVE IClock'
  OBVIOUS
<1> USE DEF IClock
<1>0. Top \in Activation /\ level[current] \in 1..2 /\ leaving = "no" /\ Top.at \in PutcPoints
  BY TopTyped DEF Putc, Mask, Count, Draw, Drawn, Uncount, Test, At, PutcPoints
<1>1. PICK point \in Points :
        /\ Goto(point)
        /\ \/ Top.at = "mask"    /\ point = "count"   /\ masked' = TRUE   /\ nest' = nest
           \/ Top.at = "count"   /\ point = "draw"    /\ masked' = masked /\ nest' = nest + 1
           \/ Top.at = "draw"    /\ point = "drawn"   /\ masked' = masked /\ nest' = nest
           \/ Top.at = "drawn"   /\ point = "uncount" /\ masked' = masked /\ nest' = nest
           \/ Top.at = "uncount" /\ point = "test"    /\ masked' = masked /\ nest' = nest - 1
           \/ Top.at = "test"    /\ point = Top.ret   /\ nest' = nest
              /\ masked' = (masked /\ nest # 0)
  <2>1. Top.ret \in Points /\ PutcPoints \subseteq Points
    BY <1>0 DEF Activation, Points
  <2>2. CASE Mask
    BY <2>1, <2>2 DEF Mask, At, PutcPoints
  <2>3. CASE Count
    BY <2>1, <2>3 DEF Count, At, PutcPoints
  <2>4. CASE Draw
    BY <2>1, <2>4 DEF Draw, At, PutcPoints
  <2>5. CASE Drawn
    BY <2>1, <2>5 DEF Drawn, At, PutcPoints
  <2>6. CASE Uncount
    BY <2>1, <2>6 DEF Uncount, At, PutcPoints
  <2>7. CASE Test
    BY <2>1, <2>7 DEF Test, At
  <2> QED
    BY <2>2, <2>3, <2>4, <2>5, <2>6, <2>7 DEF Putc
<1>2. UNCHANGED <<schedule, due, local, handler, ticks, switch_to>>
  BY DEF Putc, Mask, Count, Draw, Drawn, Uncount, Test, timer
<1>3. /\ Become([Top EXCEPT !.at = point]) /\ [Top EXCEPT !.at = point] \in Activation
      /\ UNCHANGED <<current, level, frame, sp, leaving>>
      /\ act' \in [Threads -> [Levels -> Activation]]
      /\ Top'.at = point /\ Top'.ret = Top.ret /\ Top'.idx = Top.idx
      /\ act'[Other][1] = act[Other][1]
  BY <1>1, GotoMeans
<1>4. Typing'
  BY <1>1, <1>2, <1>3 DEF Typing
<1>5. Where'
  BY <1>0, <1>1, <1>2, <1>3
     DEF Where, InThread, InIrq, PutcPoints, ThreadPoints, BootPoints, HandlerPoints, Booting
<1>6. Counted'
  BY <1>0, <1>1, <1>2, <1>3
     DEF Where, InThread, InIrq, PutcPoints, ThreadPoints, BootPoints, HandlerPoints, Counted, Drawing
<1>7. MaskHolds'
  <2>1. CASE Top.at = "test"
    <3>1. point \notin PutcPoints \ {"mask"}
      BY <1>0, <1>1, <2>1 DEF Where, InThread, InIrq, PutcPoints
    <3>2. level[current] = 2 => nest # 0 /\ masked
      BY <1>0, <2>1 DEF Counted, Drawing, MaskHolds
    <3>3. masked' = (masked /\ nest # 0)
      BY <1>1, <2>1
    <3> QED
      BY <1>3, <3>1, <3>2, <3>3 DEF MaskHolds
  <2>2. CASE Top.at # "test"
    <3>1. masked' = TRUE \/ (masked' = masked /\ Top.at \in PutcPoints \ {"mask"})
      BY <1>1, <2>2 DEF PutcPoints
    <3> QED
      BY <3>1 DEF MaskHolds
  <2> QED
    BY <2>1, <2>2
<1>8. Booting'
  BY <1>0, <1>1, <1>2, <1>3 DEF Booting, PutcPoints, BootPoints, Other
<1>9. Switching'
  <2>1. level[current] = 2 => point \notin {"begin", "dispatch"}
    BY <1>0, <1>1 DEF Where, InIrq
  <2>2. [Top EXCEPT !.at = point].at = point
    BY <1>0 DEF Activation
  <2> QED
    BY <1>0, <1>2, <1>3, <2>1, <2>2, SwitchKept DEF PutcPoints
<1> QED
  BY <1>4, <1>5, <1>6, <1>7, <1>8, <1>9

(* A thread starts with what SPSR_EL1 holds, which the reset of the core   *)
(* leaves at an EL1 value.                                                 *)
ResetAtEl1 == SpsrAtReset \subseteq {"open", "masked"}

(* The steps of main before its loop. *)
LEMMA BootStep == ResetAtEl1 /\ IClock /\ Boot => IClock'
<1> SUFFICES ASSUME ResetAtEl1, IClock, Boot PROVE IClock'
  OBVIOUS
<1> USE DEF IClock
<1>0. /\ Top \in Activation /\ leaving = "no" /\ Top.at \in BootPoints
      /\ local = FALSE /\ current = "main" /\ level["main"] = 1 /\ level["worker"] = 1
      /\ level[current] = 1 /\ Other = "worker"
  <2>1. Top \in Activation /\ leaving = "no" /\ Top.at \in BootPoints /\ level[current] \in 1..2
    BY TopTyped DEF Boot, Create, Compare, Register, EnableLocal, At, BootPoints
  <2>2. level[current] = 1 /\ ~local
    BY <2>1 DEF Where, InThread, InIrq, BootPoints, HandlerPoints, PutcPoints, ThreadPoints
  <2> QED
    BY <2>1, <2>2 DEF Booting, Other, Where
<1>1. CASE Create
  <2> DEFINE a == Starts("compare", "delay")
             start == Starts("delay", "delay")
  <2>1. a \in Activation /\ a.at = "compare" /\ a.ret = "delay" /\ start \in Activation
    BY DEF Starts, Activation, Points, PutcPoints, BootPoints, ThreadPoints
  <2>2. PICK mode \in SpsrAtReset :
          frame' = [frame EXCEPT !["worker"][0] = Saved(start, mode)]
    BY <1>1 DEF Create
  <2>3. /\ schedule' = [i \in 0..1 |-> FrameAt("worker", 0)]
        /\ Become(a) /\ Top.at = "create"
        /\ UNCHANGED <<current, level, sp, leaving, masked, nest, local, ticks, handler, due,
                       switch_to>>
    BY <1>1 DEF Create, BootNext, timer, At
  <2> HIDE DEF a
  <2>4. Top' = a /\ act' \in [Threads -> [Levels -> Activation]]
        /\ act'["worker"][1] = act["worker"][1]
    BY <1>0, <2>1, <2>3, BecomeMeans
  <2>5. /\ frame' \in [Threads -> [FrameLevels -> [act : Activation, spsr : {"open", "masked", "el0"}]]]
        /\ frame'["worker"][0] = Saved(start, mode)
    <3>1. Saved(start, mode) \in [act : Activation, spsr : {"open", "masked", "el0"}]
      BY <2>1 DEF Saved, ResetAtEl1
    <3>2. frame' = [frame EXCEPT !["worker"] = [frame["worker"] EXCEPT ![0] = Saved(start, mode)]]
      BY <2>2
    <3>3. frame["worker"] \in [FrameLevels -> [act : Activation, spsr : {"open", "masked", "el0"}]]
      BY DEF Typing, Threads
    <3> QED
      BY <3>1, <3>2, <3>3, LevelsAre DEF Typing, Threads
  <2>6. frame'["worker"][0].act = start /\ frame'["worker"][0].spsr \in {"open", "masked"}
    BY <2>5 DEF Saved, ResetAtEl1
  <2>7. FrameAt("worker", 0) \in FramePointer
    BY LevelsAre DEF FrameAt, FramePointer, Threads
  <2>8. Typing'
    BY <2>3, <2>4, <2>5, <2>7 DEF Typing
  <2>9. Where' /\ MaskHolds'
    BY <1>0, <2>1, <2>3, <2>4 DEF Where, InThread, MaskHolds, BootPoints, PutcPoints
  <2>10. Counted'
    BY <1>0, <2>1, <2>3, <2>4 DEF Counted, Drawing
  <2>11. Booting'
    BY <1>0, <2>1, <2>3, <2>4, <2>6 DEF Booting, BootPoints
  <2> QED
    BY <1>0, <2>3, <2>8, <2>9, <2>10, <2>11 DEF Switching
<1>2. CASE Compare \/ Register \/ EnableLocal
  <2>1. PICK point \in Points :
          /\ Goto(point)
          /\ UNCHANGED <<masked, nest, schedule, ticks, switch_to>>
          /\ \/ Top.at = "compare"  /\ point = "register" /\ local' = local /\ handler' = handler
             \/ Top.at = "register" /\ point = "local"    /\ local' = local /\ handler' = TRUE
             \/ Top.at = "local"    /\ point = "delay"    /\ local' = TRUE  /\ handler' = handler
    <3>1. {"register", "local", "delay"} \subseteq Points
      BY DEF Points, BootPoints, ThreadPoints
    <3>2. BootNext("compare") = "register" /\ BootNext("register") = "local"
          /\ BootNext("local") = "delay"
      BY DEF BootNext
    <3>3. CASE Compare
      BY <3>1, <3>2, <3>3 DEF Compare, At
    <3>4. CASE Register
      BY <3>1, <3>2, <3>4 DEF Register, At
    <3>5. CASE EnableLocal
      BY <3>1, <3>2, <3>5 DEF EnableLocal, At
    <3> QED
      BY <1>2, <3>3, <3>4, <3>5
  <2>2. /\ UNCHANGED <<current, level, frame, sp, leaving>>
        /\ act' \in [Threads -> [Levels -> Activation]]
        /\ Top'.at = point /\ Top'.ret = Top.ret
        /\ act'["worker"][1] = act["worker"][1]
    BY <1>0, <2>1, GotoMeans
  <2>3. Typing'
    BY <2>1, <2>2 DEF Typing
  <2>4. /\ \A i \in 0..1 : schedule[i] = FrameAt("worker", 0)
        /\ frame["worker"][0].act = Starts("delay", "delay")
        /\ frame["worker"][0].spsr \in {"open", "masked"}
        /\ act["worker"][1] = Starts("delay", "delay")
        /\ Top.at = "local" => handler
    BY <1>0, <2>1 DEF Booting, BootPoints
  <2>5. Top.ret = "delay"
    BY <1>0, <2>1 DEF Booting, BootPoints
  <2>6. Where' /\ MaskHolds'
    BY <1>0, <2>1, <2>2, <2>5
       DEF Where, InThread, MaskHolds, BootPoints, PutcPoints, ThreadPoints
  <2>7. Counted'
    BY <1>0, <2>1, <2>2 DEF Counted, Drawing
  <2>8. Booting'
    BY <1>0, <2>1, <2>2, <2>4, <2>5 DEF Booting, BootPoints
  <2>9. Switching'
    <3>1. schedule'[NextEntry'] = FrameAt("worker", 0)
      BY <2>1, <2>4 DEF NextEntry, Typing
    <3>2. Resting(FrameAt("worker", 0))'
      BY <2>2, <2>4 DEF Resting, FrameAt, Starts, ThreadPoints
    <3>3. Other' = "worker" /\ leaving' = "no" /\ level'[current'] = 1
      BY <1>0, <2>2 DEF Other
    <3> QED
      BY <3>1, <3>2, <3>3 DEF Switching, Waits
  <2> QED
    BY <2>3, <2>6, <2>7, <2>8, <2>9
<1> QED
  BY <1>1, <1>2 DEF Boot

(* The steps of the threads. *)
LEMMA LoopStep == IClock /\ (Delay \/ Format \/ Flush \/ DrawBlock) => IClock'
<1> SUFFICES ASSUME IClock, Delay \/ Format \/ Flush \/ DrawBlock PROVE IClock'
  OBVIOUS
<1> USE DEF IClock
<1>0. /\ Top \in Activation /\ leaving = "no" /\ Top.at \in ThreadPoints
      /\ level[current] = 1 /\ local
  <2>1. Top \in Activation /\ leaving = "no" /\ Top.at \in ThreadPoints /\ level[current] \in 1..2
    BY TopTyped DEF Delay, Format, Flush, DrawBlock, At, ThreadPoints
  <2> QED
    BY <2>1 DEF Where, InIrq, Booting, BootPoints, HandlerPoints, PutcPoints, ThreadPoints
<1>1. PICK a \in Activation :
        /\ Become(a) /\ a.at \in ThreadPoints \cup {"mask"} /\ a.ret \in {"format", "delay"}
        /\ UNCHANGED <<current, level, frame, sp, leaving, masked, nest, schedule, due, local,
                       handler, ticks, switch_to>>
  <2>1. Starts("mask", "format") \in Activation /\ Starts("flush", "format") \in Activation
    BY DEF Starts, Activation, Points, PutcPoints, ThreadPoints
  <2>2. CASE Delay
    BY <2>1, <2>2 DEF Delay, timer, Starts, ThreadPoints
  <2>3. CASE Format
    BY <2>1, <2>3 DEF Format, timer, Starts, ThreadPoints
  <2>4. ASSUME NEW point \in {"block", "delay"}, Goto(point),
               UNCHANGED <<masked, nest, schedule, timer, switch_to>>
        PROVE  \E a \in Activation :
                 /\ Become(a) /\ a.at \in ThreadPoints \cup {"mask"} /\ a.ret \in {"format", "delay"}
                 /\ UNCHANGED <<current, level, frame, sp, leaving, masked, nest, schedule, due,
                                local, handler, ticks, switch_to>>
    <3> DEFINE a == [Top EXCEPT !.at = point]
    <3>1. point \in Points
      BY DEF Points, ThreadPoints
    <3>2. Become(a) /\ a \in Activation /\ UNCHANGED <<current, level, frame, sp, leaving>>
      BY <2>4, <3>1, GotoMeans
    <3>3. a.at = point /\ a.ret = Top.ret /\ Top.ret \in {"format", "delay"}
      BY <1>0 DEF Activation, Where, InThread
    <3> QED
      BY <2>4, <3>2, <3>3 DEF timer, ThreadPoints
  <2>5. CASE Flush
    BY <2>4, <2>5 DEF Flush
  <2>6. CASE DrawBlock
    BY <2>4, <2>6 DEF DrawBlock
  <2> QED
    BY <2>2, <2>3, <2>5, <2>6
<1>2. Top' = a /\ act' \in [Threads -> [Levels -> Activation]]
  BY <1>1, BecomeMeans
<1>3. Typing'
  BY <1>1, <1>2 DEF Typing
<1>4. Where' /\ MaskHolds'
  BY <1>0, <1>1, <1>2 DEF Where, InThread, MaskHolds, PutcPoints, ThreadPoints
<1>5. Counted' /\ Booting'
  BY <1>0, <1>1, <1>2 DEF Counted, Drawing, Booting, ThreadPoints
<1>6. Switching'
  BY <1>0, <1>1, SwitchKept
<1> QED
  BY <1>3, <1>4, <1>5, <1>6

(* The timer expires. *)
LEMMA TickStep == IClock /\ Tick => IClock'
<1> SUFFICES ASSUME IClock, Tick PROVE IClock'
  OBVIOUS
<1>1. /\ due' = TRUE
      /\ UNCHANGED <<current, level, act, frame, sp, leaving, masked, nest, schedule, local,
                     handler, ticks, switch_to>>
  BY DEF Tick, stacks
<1>2. Top' = Top /\ NextEntry' = NextEntry /\ Other' = Other
  BY <1>1 DEF Top, NextEntry, Turned, Other
<1>3. Typing' /\ Counted' /\ MaskHolds' /\ Booting'
  BY <1>1, <1>2 DEF IClock, Typing, Counted, Drawing, MaskHolds, Booting
<1>4. Where'
  BY <1>1, <1>2 DEF IClock, Where, InThread, InIrq
<1>5. Switching'
  BY <1>1, <1>2 DEF IClock, Switching, Waits, Resting
<1> QED
  BY <1>3, <1>4, <1>5 DEF IClock

(* The interrupt comes where the count is zero and outside of any putc,    *)
(* and the frame keeps where.                                              *)
LEMMA TimerIrqStep == IClock /\ TimerIrq => IClock'
<1> SUFFICES ASSUME IClock, TimerIrq PROVE IClock'
  OBVIOUS
<1> USE DEF IClock
<1>0. /\ leaving = "no" /\ ~masked /\ due /\ local /\ masked' = TRUE
      /\ UNCHANGED <<current, sp, leaving, nest, schedule, due, local, handler, ticks, switch_to>>
  BY DEF TimerIrq, timer
<1>1. /\ Top \in Activation /\ level[current] = 1 /\ Top = act[current][1]
      /\ current \in Threads /\ Other \in Threads /\ Other # current
  BY <1>0, TopTyped DEF MaskHolds, Top, Typing, Other, Threads
<1>2. Top.at \in ThreadPoints \cup {"mask"} /\ Top.ret \in {"format", "delay"}
  BY <1>0, <1>1 DEF Where, InThread, MaskHolds, PutcPoints, ThreadPoints
<1> DEFINE Frames == [act : Activation, spsr : {"open", "masked", "el0"}]
           begin == Starts("begin", "begin")
<1>3. /\ frame' = [frame EXCEPT ![current] = [frame[current] EXCEPT ![1] = Saved(Top, "open")]]
      /\ act' = [act EXCEPT ![current] = [act[current] EXCEPT ![2] = begin]]
      /\ level' = [level EXCEPT ![current] = 2]
  BY <1>1 DEF TimerIrq
<1>4. /\ frame[current] \in [FrameLevels -> Frames] /\ Saved(Top, "open") \in Frames
      /\ act[current] \in [Levels -> Activation] /\ begin \in Activation
  BY <1>1 DEF Typing, Saved, Starts, Activation, Points, HandlerPoints
<1>5. /\ frame' \in [Threads -> [FrameLevels -> Frames]]
      /\ act' \in [Threads -> [Levels -> Activation]]
      /\ level' \in [Threads -> 1..2]
  BY <1>1, <1>3, <1>4, LevelsAre DEF Typing
<1>6. /\ frame'[current][1] = Saved(Top, "open") /\ frame'[Other] = frame[Other]
      /\ act'[current][1] = Top /\ act'[current][2] = begin /\ act'[Other] = act[Other]
      /\ level'[current] = 2
  BY <1>1, <1>3, <1>4, LevelsAre DEF Typing
<1> HIDE DEF begin, Frames
<1>7. Top' = begin /\ Top'.at = "begin" /\ Other' = Other
  BY <1>0, <1>6 DEF Top, Other, begin, Starts
<1>8. Typing'
  BY <1>0, <1>5 DEF Typing, Frames
<1>9. Where' /\ MaskHolds'
  BY <1>0, <1>6, <1>7 DEF Where, InIrq, MaskHolds, HandlerPoints, PutcPoints
<1>10. Counted'
  <2>1. nest = 0
    BY <1>0, <1>1, <1>2 DEF Counted, Drawing, ThreadPoints
  <2> QED
    BY <1>0, <1>6, <1>7, <2>1 DEF Counted, Drawing
<1>11. Booting'
  BY <1>0 DEF Booting
<1>12. Switching'
  <2>1. NextEntry' = 1 - ticks /\ NextEntry = 1 - ticks
    BY <1>0, <1>1, <1>6, <1>7 DEF NextEntry, Turned
  <2>2. Waits(schedule[NextEntry])'
    BY <1>0, <1>6, <1>7, <2>1 DEF Switching, Waits, Resting, FrameAt
  <2>3. Resting(FrameAt(current, 1))'
    BY <1>0, <1>2, <1>6 DEF Resting, FrameAt, Saved
  <2> QED
    BY <1>0, <2>2, <2>3 DEF Switching
<1> QED
  BY <1>8, <1>9, <1>10, <1>11, <1>12

(* The steps of the handler of the timer. *)
LEMMA HandlerStep == IClock /\ (FreeZoneBegin \/ ClockIrq \/ SwitchTo \/ NextCtx) => IClock'
<1> SUFFICES ASSUME IClock, FreeZoneBegin \/ ClockIrq \/ SwitchTo \/ NextCtx PROVE IClock'
  OBVIOUS
<1> USE DEF IClock
<1>0. /\ Top \in Activation /\ leaving = "no" /\ Top.at \in {"begin", "dispatch", "switchTo", "next"}
      /\ level[current] = 2 /\ local /\ masked /\ current \in Threads
  <2>1. Top \in Activation /\ leaving = "no" /\ Top.at \in {"begin", "dispatch", "switchTo", "next"}
        /\ level[current] \in 1..2
    BY TopTyped DEF FreeZoneBegin, ClockIrq, SwitchTo, NextCtx, At
  <2>2. level[current] = 2
    BY <2>1 DEF Where, InThread, BootPoints, PutcPoints, ThreadPoints
  <2> QED
    BY <2>1, <2>2 DEF Where, InIrq, MaskHolds, Typing
<1>1. PICK a \in Activation :
        /\ Become(a)
        /\ UNCHANGED <<current, level, frame, sp, leaving, masked, schedule, local, handler>>
        /\ \/ /\ Top.at = "begin" /\ a.at = "dispatch" /\ nest' = nest + 1
              /\ UNCHANGED <<due, ticks, switch_to>>
           \/ /\ Top.at = "dispatch" /\ a.at = "mask" /\ a.ret = "switchTo"
              /\ ticks' = (ticks + 1) % 2 /\ UNCHANGED <<nest, switch_to>>
           \/ /\ Top.at = "switchTo" /\ a.at = "next" /\ switch_to' = ticks
              /\ UNCHANGED <<nest, ticks, due>>
           \/ /\ Top.at = "next" /\ a.at = "mask" /\ a.ret = "pick" /\ a.idx = switch_to
              /\ UNCHANGED <<nest, ticks, due, switch_to>>
  <2> DEFINE to(point) == [Top EXCEPT !.at = point]
  <2>1. ASSUME NEW point \in {"dispatch", "next"}, Goto(point)
        PROVE  /\ Become(to(point)) /\ to(point) \in Activation /\ to(point).at = point
               /\ UNCHANGED <<current, level, frame, sp, leaving>>
    <3>1. point \in Points
      BY DEF Points, HandlerPoints
    <3> QED
      BY <1>0, <2>1, <3>1, GotoMeans DEF Activation
  <2>2. CASE FreeZoneBegin
    <3>1. Goto("dispatch")
      BY <2>2 DEF FreeZoneBegin
    <3> QED
      BY <2>1, <2>2, <3>1 DEF FreeZoneBegin, At, timer
  <2>3. CASE ClockIrq
    <3> DEFINE a == [Top EXCEPT !.at = "mask", !.ret = "switchTo"]
    <3>1. a \in Activation /\ a.at = "mask" /\ a.ret = "switchTo"
      BY <1>0 DEF Activation, Points, PutcPoints, HandlerPoints
    <3> QED
      BY <2>3, <3>1 DEF ClockIrq, At
  <2>4. CASE SwitchTo
    <3>1. Goto("next")
      BY <2>4 DEF SwitchTo
    <3> QED
      BY <2>1, <2>4, <3>1 DEF SwitchTo, At, timer
  <2>5. CASE NextCtx
    <3> DEFINE a == [at |-> "mask", ret |-> "pick", idx |-> switch_to]
    <3>1. a \in Activation
      BY DEF Activation, Points, PutcPoints, HandlerPoints, Typing
    <3> QED
      BY <2>5, <3>1 DEF NextCtx, At, timer
  <2> QED
    BY <2>2, <2>3, <2>4, <2>5
<1>2. /\ Top' = a /\ act' \in [Threads -> [Levels -> Activation]]
      /\ act'[Other][1] = act[Other][1] /\ act'[current][1] = act[current][1]
  BY <1>0, <1>1, BecomeMeans
<1>3. ticks' \in 0..1 /\ switch_to' \in -1..1
      /\ (Top.at = "dispatch" => ticks' = 1 - ticks)
      /\ (Top.at # "dispatch" => ticks' = ticks)
  <2>1. ticks = 0 \/ ticks = 1
    BY DEF Typing
  <2>2. Top.at = "dispatch" => ticks' = (ticks + 1) % 2 /\ switch_to' = switch_to
    BY <1>1
  <2>3. Top.at # "dispatch" => ticks' = ticks
    BY <1>1
  <2>4. switch_to' = switch_to \/ switch_to' = ticks
    BY <1>1
  <2>5. (0 + 1) % 2 = 1 /\ (1 + 1) % 2 = 0
    OBVIOUS
  <2>6. Top.at = "dispatch" => ticks' = 1 - ticks
    BY <2>1, <2>2, <2>5
  <2>7. ticks' \in 0..1
    BY <2>1, <2>3, <2>6
  <2>8. switch_to' \in -1..1
    BY <2>4 DEF Typing
  <2> QED
    BY <2>3, <2>6, <2>7, <2>8
<1>4. Typing'
  BY <1>1, <1>2, <1>3 DEF Typing
<1>5. Where'
  BY <1>0, <1>1, <1>2, <1>3 DEF Where, InIrq, HandlerPoints, PutcPoints
<1>6. Counted'
  BY <1>0, <1>1, <1>2 DEF Counted, Drawing
<1>7. MaskHolds' /\ Booting'
  BY <1>0, <1>1 DEF MaskHolds, Booting
<1>8. Switching'
  <2>1. NextEntry' = NextEntry
    BY <1>0, <1>1, <1>2, <1>3 DEF NextEntry, Turned
  <2>2. Other' = Other
    BY <1>1 DEF Other
  <2>3. ASSUME NEW f, Waits(f) PROVE Waits(f)'
    BY <1>1, <1>2, <2>2, <2>3 DEF Waits, Resting, FrameAt
  <2>4. Resting(FrameAt(current, 1))'
    BY <1>0, <1>1, <1>2 DEF Switching, Resting, FrameAt
  <2> QED
    BY <1>0, <1>1, <2>1, <2>3, <2>4 DEF Switching
<1> QED
  BY <1>4, <1>5, <1>6, <1>7, <1>8

(* next_ctx_stack puts the frame of this thread where the other one's was  *)
(* a switch ago, and leaves through the other one's.                       *)
LEMMA PickStep == IClock /\ Pick => IClock'
<1> SUFFICES ASSUME IClock, Pick PROVE IClock'
  OBVIOUS
<1> USE DEF IClock
<1>0. /\ leaving = "no" /\ Top.at = "pick" /\ leaving' = "end"
      /\ UNCHANGED <<current, level, act, frame, masked, nest, due, local, handler, ticks, switch_to>>
      /\ level[current] \in 1..2 /\ current \in Threads
  BY TopTyped DEF Pick, At, timer, Typing
<1>1. level[current] = 2 /\ local /\ Top.idx = ticks /\ ticks \in 0..1
  BY <1>0 DEF Where, InThread, InIrq, BootPoints, PutcPoints, ThreadPoints, Typing
<1>2. (Top.idx + 1) % 2 = 1 - ticks /\ ~(Top.idx < 0)
  <2>1. (0 + 1) % 2 = 1 /\ (1 + 1) % 2 = 0
    OBVIOUS
  <2>2. Top.idx = 0 \/ Top.idx = 1
    BY <1>1
  <2> QED
    BY <1>1, <2>1, <2>2
<1>3. MyFrame = FrameAt(current, 1) /\ MyFrame \in FramePointer
  BY <1>0, <1>1, LevelsAre DEF MyFrame, FrameAt, FramePointer
<1>4. /\ schedule' = [schedule EXCEPT ![1 - ticks] = FrameAt(current, 1)]
      /\ sp' = schedule'[ticks]
  BY <1>1, <1>2, <1>3 DEF Pick
<1>5. schedule'[ticks] = schedule[ticks] /\ schedule'[1 - ticks] = FrameAt(current, 1)
  BY <1>1, <1>4 DEF Typing
<1>6. Top' = Top /\ Other' = Other
  BY <1>0 DEF Top, Other
<1>7. Typing'
  BY <1>0, <1>3, <1>4 DEF Typing
<1>8. Where' /\ MaskHolds'
  BY <1>0, <1>1, <1>6 DEF Where, InIrq, MaskHolds
<1>9. Counted'
  BY <1>0, <1>1, <1>6 DEF Counted, Drawing
<1>10. Booting'
  BY <1>0, <1>1 DEF Booting
<1>11. Switching'
  <2>1. NextEntry = ticks
    BY <1>0, <1>1 DEF NextEntry, Turned
  <2>2. Waits(schedule[ticks])
    BY <1>0, <1>1, <2>1 DEF Switching
  <2>3. Waits(sp)'
    BY <1>0, <1>4, <1>5, <1>6, <2>2 DEF Waits, Resting, FrameAt
  <2>4. Resting(FrameAt(current, 1))'
    BY <1>0, <1>1 DEF Switching, Resting, FrameAt
  <2> QED
    BY <1>0, <1>5, <2>3, <2>4 DEF Switching
<1> QED
  BY <1>7, <1>8, <1>9, <1>10, <1>11

(* The end of the zone without interrupts. *)
LEMMA FreeZoneEndStep == IClock /\ FreeZoneEnd => IClock'
<1> SUFFICES ASSUME IClock, FreeZoneEnd PROVE IClock'
  OBVIOUS
<1> USE DEF IClock
<1>1. /\ leaving = "end" /\ leaving' = "eret" /\ nest' = nest - 1
      /\ UNCHANGED <<current, level, act, frame, sp, masked, schedule, due, local, handler,
                     ticks, switch_to>>
  BY DEF FreeZoneEnd, timer
<1>2. Top' = Top /\ Other' = Other /\ level[current] = 2 /\ local
  BY <1>1 DEF Top, Other, Where, InIrq
<1>3. Typing' /\ Counted' /\ MaskHolds' /\ Booting'
  BY <1>1, <1>2 DEF Typing, Counted, Drawing, MaskHolds, Booting
<1>4. Where'
  BY <1>1, <1>2 DEF Where, InIrq
<1>5. Switching'
  BY <1>1, <1>2 DEF Switching, Waits, Resting, FrameAt
<1> QED
  BY <1>3, <1>4, <1>5

(* The handler leaves: what the frame holds is where the thread stopped.   *)
LEMMA EretMeans ==
  ASSUME IClock, Eret
  PROVE  /\ sp.thread = Other /\ Resumed(sp) = 1 /\ current' = Other
         /\ act'[Other][1] = act[Other][1] /\ act'[current] = act[current]
         /\ level'[Other] = 1 /\ leaving' = "no"
         /\ Top' = act[Other][1]
         /\ Top.at \in HandlerPoints \cup PutcPoints
         /\ Waits(sp)
         /\ act' \in [Threads -> [Levels -> Activation]] /\ level' \in [Threads -> 1..2]
<1> USE DEF IClock
<1>1. leaving = "eret" /\ level[current] = 2 /\ local /\ Waits(sp)
  BY DEF Eret, Where, InIrq, Switching
<1>2. /\ sp.thread = Other /\ Resumed(sp) = 1 /\ sp.level \in {0, 1}
      /\ Other \in Threads /\ current \in Threads /\ Other # current
  BY <1>1 DEF Waits, FrameAt, Resumed, Other, Threads, Typing
<1>3. /\ frame[Other][sp.level].act = act[Other][1]
      /\ frame[Other][sp.level].spsr # "el0"
  BY <1>1, <1>2 DEF Waits, Resting
<1>4. /\ current' = Other /\ leaving' = "no"
      /\ level' = [level EXCEPT ![Other] = 1]
      /\ act' = [act EXCEPT ![Other] = [act[Other] EXCEPT ![1] = act[Other][1]]]
  BY <1>2, <1>3 DEF Eret
<1>5. act[Other] \in [Levels -> Activation] /\ act[Other][1] \in Activation
  BY <1>2, LevelsAre DEF Typing
<1>6. /\ act' \in [Threads -> [Levels -> Activation]] /\ level' \in [Threads -> 1..2]
      /\ act'[Other][1] = act[Other][1] /\ act'[current] = act[current] /\ level'[Other] = 1
  BY <1>2, <1>4, <1>5, LevelsAre DEF Typing
<1>7. Top' = act[Other][1]
  BY <1>4, <1>6 DEF Top
<1> QED
  BY <1>1, <1>2, <1>4, <1>6, <1>7 DEF Where, InIrq

(* The return from the interrupt. *)
LEMMA EretStep == IClock /\ Eret => IClock'
<1> SUFFICES ASSUME IClock, Eret PROVE IClock'
  OBVIOUS
<1>1. /\ sp.thread = Other /\ current' = Other /\ leaving' = "no" /\ level'[Other] = 1
      /\ act'[current] = act[current] /\ Top' = act[Other][1] /\ Waits(sp)
      /\ act' \in [Threads -> [Levels -> Activation]] /\ level' \in [Threads -> 1..2]
  BY EretMeans
<1> USE DEF IClock
<1>2. /\ leaving = "eret" /\ level[current] = 2 /\ local
      /\ masked' = (frame[sp.thread][sp.level].spsr = "masked")
      /\ UNCHANGED <<frame, sp, nest, schedule, due, local, handler, ticks, switch_to>>
  BY DEF Eret, timer, Where, InIrq
<1>3. Top'.at \in ThreadPoints \cup {"mask"} /\ Top'.ret \in {"format", "delay"}
  BY <1>1 DEF Waits, Resting
<1>4. Other \in Threads /\ current \in Threads /\ Other' = current
  BY <1>1 DEF Other, Threads, Typing
<1>5. Typing'
  <2>1. masked' \in BOOLEAN
    BY <1>2, Zenon
  <2> QED
    BY <1>1, <1>2, <1>4, <2>1 DEF Typing
<1>6. Where' /\ MaskHolds'
  BY <1>1, <1>2, <1>3 DEF Where, InThread, MaskHolds, PutcPoints, ThreadPoints
<1>7. Counted'
  BY <1>1, <1>2, <1>3 DEF Counted, Drawing, ThreadPoints
<1>8. Booting'
  BY <1>2 DEF Booting
<1>9. Switching'
  <2>1. PICK f : f = FrameAt(current, 1)
    OBVIOUS
  <2>2. schedule[1 - ticks] = f /\ Resting(f)
    BY <1>2, <2>1 DEF Switching
  <2>3. schedule'[NextEntry'] = f
    BY <1>1, <1>2, <2>2 DEF NextEntry, Turned
  <2>4. Resting(f)'
    BY <1>1, <1>2, <2>1, <2>2 DEF Resting, FrameAt
  <2>5. Waits(f)'
    BY <1>4, <2>1, <2>4 DEF Waits
  <2> QED
    BY <1>1, <2>3, <2>5 DEF Switching
<1> QED
  BY <1>5, <1>6, <1>7, <1>8, <1>9

(* Every step keeps the invariant. *)
LEMMA StepClock == ResetAtEl1 /\ IClock /\ [Next]_vars => IClock'
<1> SUFFICES ASSUME ResetAtEl1, IClock, [Next]_vars PROVE IClock'
  OBVIOUS
<1>1. CASE Next
  BY <1>1, PutcStep, BootStep, LoopStep, TickStep, TimerIrqStep, HandlerStep, PickStep,
     FreeZoneEndStep, EretStep
     DEF Next, ThreadSteps, HandlerSteps
<1>2. CASE UNCHANGED vars
  <2>1. Top' = Top /\ Other' = Other
    BY <1>2 DEF vars, Top, Other
  <2>2. (Typing /\ Where /\ Counted /\ MaskHolds /\ Booting)'
    BY <1>2, <2>1 DEF vars, IClock, Typing, Where, InThread, InIrq, Counted, Drawing, MaskHolds,
       Booting
  <2>3. Switching'
    BY <1>2, <2>1 DEF vars, IClock, Switching, Waits, Resting, NextEntry, Turned
  <2> QED
    BY <2>2, <2>3 DEF IClock
<1> QED
  BY <1>1, <1>2

-----------------------------------------------------------------------------

(* The invariant holds in every state of core 1, from its reset at EL1 on. *)
THEOREM ClockInvariant == ResetAtEl1 /\ Spec => []IClock
<1> SUFFICES ASSUME ResetAtEl1 PROVE Spec => []IClock
  OBVIOUS
<1>1. IClock /\ [Next]_vars => IClock'
  BY StepClock
<1> QED
  BY <1>1, InitClock, PTL DEF Spec

(* Interrupts are never on while something counts on their being off.      *)
THEOREM MaskedWhileCounted == ResetAtEl1 /\ Spec => []UnmaskedOnlyAtZero
<1> SUFFICES ASSUME ResetAtEl1 PROVE Spec => []UnmaskedOnlyAtZero
  OBVIOUS
<1>1. IClock => UnmaskedOnlyAtZero
  <2> SUFFICES ASSUME IClock, ~masked PROVE nest = 0
    BY DEF UnmaskedOnlyAtZero
  <2>1. level[current] = 1 /\ ~Drawing
    BY TopTyped DEF IClock, MaskHolds, Drawing, PutcPoints
  <2> QED
    BY <2>1 DEF IClock, Where, Counted
<1> QED
  BY <1>1, ClockInvariant, PTL

(* The handler's own putc never lets an interrupt into the handler.        *)
THEOREM HandlerRunsAlone == ResetAtEl1 /\ Spec => []HandlerNotInterrupted
<1> SUFFICES ASSUME ResetAtEl1 PROVE Spec => []HandlerNotInterrupted
  OBVIOUS
<1>1. IClock => HandlerNotInterrupted
  BY TopTyped DEF IClock, Where, MaskHolds, HandlerNotInterrupted, InHandler
<1> QED
  BY <1>1, ClockInvariant, PTL

(* Two activations are never between reading the cursor and moving it.     *)
THEOREM CursorIsExclusive == ResetAtEl1 /\ Spec => []OneAtTheCursor
<1> SUFFICES ASSUME ResetAtEl1 PROVE Spec => []OneAtTheCursor
  OBVIOUS
<1>1. IClock => OneAtTheCursor
  <2> SUFFICES ASSUME IClock PROVE OneAtTheCursor
    OBVIOUS
  <2> DEFINE Drawers == {p \in [thread : Threads, level : Levels] :
                           /\ Live(p.thread, p.level)
                           /\ act[p.thread][p.level].at = "drawn"}
             running == [thread |-> current, level |-> level[current]]
  <2>1. /\ level \in [Threads -> 1..2] /\ current \in Threads
        /\ Other \in Threads /\ Threads = {current, Other} /\ Other # current
    BY DEF IClock, Typing, Other, Threads
  <2>2. act[Other][1].at # "drawn"
    <3>1. CASE local
      BY <3>1 DEF IClock, Switching, Waits, Resting, FrameAt, ThreadPoints
    <3>2. CASE ~local
      BY <3>2 DEF IClock, Booting, Other, Starts
    <3> QED
      BY <3>1, <3>2
  <2>3. level[current] = 2 => act[current][1].at # "drawn"
    BY DEF IClock, Where, InIrq, Switching, Resting, FrameAt, ThreadPoints
  <2>4. ASSUME NEW p \in Drawers PROVE p = running
    <3>1. p.thread \in Threads /\ p.level \in Nat \ {0} /\ p = [thread |-> p.thread, level |-> p.level]
      BY ClockAssumption DEF Levels
    <3>2. CASE p.thread = Other
      <4>1. p.level = 1
        BY <2>1, <3>1, <3>2 DEF Live
      <4> QED
        BY <2>2, <3>2, <4>1
    <3>3. CASE p.thread = current
      <4>1. p.level = level[current] \/ (p.level = 1 /\ level[current] = 2)
        BY <2>1, <3>1, <3>3 DEF Live
      <4> QED
        BY <2>3, <3>1, <3>3, <4>1
    <3> QED
      BY <2>1, <3>1, <3>2, <3>3
  <2> HIDE DEF running, Drawers
  <2>5. Drawers \subseteq {running}
    BY <2>4
  <2>6. IsFiniteSet({running}) /\ Cardinality({running}) = 1
    BY FS_Singleton
  <2>7. Cardinality(Drawers) <= 1
    BY <2>5, <2>6, FS_Subset
  <2> QED
    BY <2>7 DEF OneAtTheCursor, Drawers
<1> QED
  BY <1>1, ClockInvariant, PTL

(* clock_irq is there, and the timer is due, whenever exc_irq looks.       *)
THEOREM HandlerIsFound == ResetAtEl1 /\ Spec => []DispatchFindsHandler
<1> SUFFICES ASSUME ResetAtEl1 PROVE Spec => []DispatchFindsHandler
  OBVIOUS
<1>1. IClock => DispatchFindsHandler
  BY TopTyped DEF IClock, Where, InThread, InIrq, Booting, DispatchFindsHandler, BootPoints,
     PutcPoints, ThreadPoints
<1> QED
  BY <1>1, ClockInvariant, PTL

(* Every switch, over any number of them, resumes the thread it switches   *)
(* to exactly where that thread was stopped.                               *)
THEOREM SwitchResumes == ResetAtEl1 /\ Spec => ResumeWhereStopped
<1> SUFFICES ASSUME ResetAtEl1 PROVE Spec => ResumeWhereStopped
  OBVIOUS
<1>1. IClock /\ [Next]_vars =>
        [Eret => act'[current'][level'[current']] = act[sp.thread][Resumed(sp)]]_vars
  <2> SUFFICES ASSUME IClock, Eret
               PROVE  act'[current'][level'[current']] = act[sp.thread][Resumed(sp)]
    OBVIOUS
  <2> QED
    BY EretMeans
<1> QED
  BY <1>1, ClockInvariant, PTL DEF Spec, ResumeWhereStopped

-----------------------------------------------------------------------------
(* Core 0: UserSwitch.                                                     *)

(* Between the write of ELR_EL1 and the ERET. *)
Window == {"load", "loaded", "readSpsr", "writeSpsr", "pushOld", "eret"}

(* Where an interrupt of this window can have been taken. *)
HitPc == {"load", "readSpsr", "writeSpsr", "pushOld", "eret"}

RegsOK ==
  /\ spsr \in States /\ new \in States /\ x8 \in States
  /\ irqMasked \in BOOLEAN
  /\ hit \in BOOLEAN

(* LOAD_CTX masks interrupts before it touches the stack pointer, so no    *)
(* interrupt returns into it.                                              *)
LoadMasked ==
  /\ pc = "loaded" => irqMasked
  /\ elr # "loaded"

(* A system call returns into the program. *)
SvcOK ==
  /\ pc = "svcRead" => elr = "uWrite"
  /\ pc = "svcWrite" => elr = "uExit"

(* What ELR_EL1 and SPSR_EL1 hold in the window. *)
WindowOK ==
  /\ pc \in Window => elr \in HitPc \cup {"uRead"}
  /\ pc \in Window /\ ~hit => elr = "uRead"
  /\ pc \in {"pushOld", "eret"} /\ ~hit => spsr.el = 0

(* Nothing is pushed before the stack pointer is saved. *)
StackOK ==
  /\ old = 0
  /\ pc \in {"loop", "push", "save", "saved"} => depth = 0

SwitchInv == RegsOK /\ LoadMasked /\ SvcOK /\ WindowOK /\ StackOK

(* The states of the processor. *)
LEMMA StateIs == \A el \in {0, 1}, mask \in BOOLEAN : State(el, mask) \in States
  BY Zenon DEF State, States

(* Each masks interrupts or not. *)
LEMMA MaskIs == \A s \in States : s.mask \in BOOLEAN
  BY DEF States

(* The state of the kernel. *)
LEMMA KernelState ==
  \A s \in States : /\ [s EXCEPT !.el = 0] \in States
                    /\ [s EXCEPT !.el = 0].el = 0
  BY DEF States

(* The invariant at the start. *)
LEMMA InitSwitchInv == UserInit => SwitchInv
<1> SUFFICES ASSUME UserInit PROVE SwitchInv
  OBVIOUS
<1>1. RegsOK
  BY StateIs, Zenon DEF UserInit, RegsOK
<1> QED
  BY <1>1 DEF UserInit, SwitchInv, LoadMasked, SvcOK, WindowOK, StackOK, Window

(* Every step keeps the invariant. *)
LEMMA StepSwitchInv == SwitchInv /\ [UserNext]_userVars => SwitchInv'
<1> USE DEF SwitchInv, RegsOK, LoadMasked, SvcOK, WindowOK, StackOK, Window, HitPc, UserPc, KernelPc, Step, switchRegs, input
<1> SUFFICES ASSUME SwitchInv, [UserNext]_userVars PROVE SwitchInv'
  OBVIOUS
<1>1. CASE Prompt \/ PushContext \/ SaveMask \/ Save
  BY <1>1 DEF Prompt, PushContext, SaveMask, Save
<1>2. CASE SetElr \/ LoadMask \/ Load
  BY <1>2 DEF SetElr, LoadMask, Load
<1>3. CASE ReadSpsr \/ PushOld
  BY <1>3 DEF ReadSpsr, PushOld
<1>10. CASE WriteSpsr
  BY <1>10, KernelState DEF WriteSpsr
<1>4. CASE EretToUser
  BY <1>4, MaskIs DEF EretToUser
<1>5. CASE \/ Svc("uRead", "uWrite", "svcRead")
           \/ Svc("uWrite", "uExit", "svcWrite")
           \/ Svc("uExit", "uExit", "svcExit")
  BY <1>5, StateIs DEF Svc
<1>6. CASE ReadDigit \/ ReadEnds \/ Write \/ Exit
  BY <1>6, MaskIs DEF ReadDigit, ReadEnds, Write, Exit, SvcReturn
<1>7. CASE Return
  BY <1>7 DEF Return, PopOld, ReloadMask, Reload
<1>8. CASE (\E key \in Keys : Type(key)) \/ UNCHANGED userVars
  BY <1>8 DEF Type, userVars
<1>9. CASE UartIrq
  <2>1. hit' \in BOOLEAN
    BY <1>9, Zenon DEF UartIrq
  <2>2. spsr' \in States
    BY <1>9, StateIs DEF UartIrq
  <2>3. elr' = pc /\ pc # "loaded"
    BY <1>9 DEF UartIrq
  <2>4. hit' = (hit \/ pc \in HitPc)
    BY <1>9 DEF UartIrq
  <2> QED
    BY <1>9, <2>1, <2>2, <2>3, <2>4 DEF UartIrq
<1> QED
  BY <1>1, <1>2, <1>3, <1>4, <1>5, <1>6, <1>7, <1>8, <1>9, <1>10
     DEF UserNext, Core, Switch, User, Return

(* The invariant holds in every state. *)
THEOREM SwitchInvariance == UserSpec => []SwitchInv
  BY InitSwitchInv, StepSwitchInv, PTL DEF UserSpec

(* However many characters arrive, an ERET of the switch that no interrupt *)
(* has hit enters the user program in EL0 (ctx_switch.S:105-125).          *)
THEOREM EntersUserSafe == UserSpec => []EntersUserUnlessHit
<1>1. SwitchInv => EntersUserUnlessHit
  BY DEF SwitchInv, WindowOK, Window, EntersUserUnlessHit
<1> QED
  BY <1>1, SwitchInvariance, PTL

(* However often interrupts make the switch push its frame again, and      *)
(* however often the program is run, demo_uart goes on with the stack it   *)
(* left.                                                                   *)
THEOREM StackBalanced == UserSpec => []StackRestored
<1>1. SwitchInv => StackRestored
  BY DEF SwitchInv, StackOK, StackRestored
<1> QED
  BY <1>1, SwitchInvariance, PTL

=============================================================================
