---------------------------- MODULE ScreenProofs ----------------------------
(***************************************************************************)
(* Proofs about Screen: for a screen and a font of any size, the windows   *)
(* of the cores are the quarters of the screen, no core ever changes a     *)
(* pixel outside its own, and each console shows what was written to it.   *)
(***************************************************************************)
EXTENDS Screen, TLAPS

(* 2 * (n \div 2) fits into n. *)
LEMMA Halves == \A n \in Nat : n \div 2 \in Nat /\ 2 * (n \div 2) <= n
  OBVIOUS

(* Two halves fit into the screen. *)
LEMMA HalfSizes == HalfW \in Nat /\ 2 * HalfW <= W /\ HalfH \in Nat /\ 2 * HalfH <= H
  BY Halves, ScreenAssumption DEF HalfW, HalfH

(* The address y * a + x of a row of a pixels is taken apart again. *)
LEMMA RowAndColumn ==
  ASSUME NEW a \in Nat, NEW x \in Nat, NEW y \in Nat, x < a
  PROVE  (a * y + x) % a = x /\ (a * y + x) \div a = y
  BY Z3

(* What gfx_window makes of the calls of cons_bootstrap: nothing is        *)
(* clipped, so its last bound, which takes x for y, is never used.         *)
THEOREM WindowIsQuarter ==
  ASSUME NEW c \in Cpus
  PROVE  Window(c) = [x |-> IF RightCore(c) THEN HalfW ELSE 0,
                      y |-> IF LowerCore(c) THEN HalfH ELSE 0,
                      width |-> HalfW, height |-> HalfH, stride |-> W, fg |-> White,
                      bg |-> IF RightCore(c) # LowerCore(c) THEN 16 ELSE 32]
<1> DEFINE left == IF RightCore(c) THEN HalfW ELSE 0
           top == IF LowerCore(c) THEN HalfH ELSE 0
<1>1. /\ left \in Nat /\ left + HalfW <= W
      /\ top \in Nat /\ top + HalfH <= H
  BY HalfSizes, ScreenAssumption
<1> HIDE DEF left, top
<1>2. gfx_window(MainWindow, left, top, HalfW, HalfH) =
        [x |-> left, y |-> top, width |-> HalfW, height |-> HalfH, stride |-> W,
         fg |-> White, bg |-> Black]
  BY <1>1, HalfSizes, ScreenAssumption DEF gfx_window, MainWindow, Mini
<1> QED
  BY <1>2 DEF Window, left, top

-----------------------------------------------------------------------------

CoreOK ==
  core \in [Cpus -> [pc : {"send", "recv", "lost", "boot", "idle", "scroll"},
                     row : Nat, out : Nat, x : Nat, y : Nat]]

InboxOK == inbox \in Seq({"ok", "bad", "other"})

(* An address in one of the first h rows of a pixels. *)
LEMMA RowOfAddress ==
  ASSUME NEW a \in Nat \ {0}, NEW h \in Nat, NEW p \in Nat, p \div a < h
  PROVE  p < a * h
  BY Z3

(* Quotients and remainders are natural numbers. *)
LEMMA Remainder ==
  ASSUME NEW a \in Nat \ {0}, NEW p \in Nat
  PROVE  p % a \in Nat /\ p \div a \in Nat
  OBVIOUS

(* Addresses are natural numbers. *)
LEMMA AddressesAreNat == \A p \in Addresses : p \in Nat
<1>1. W * (H + FH) \in Nat
  BY ScreenAssumption
<1> QED
  BY <1>1 DEF Addresses

(* A pixel that lies in the window lies in the quarter of its core. *)
LEMMA WindowInQuarter ==
  ASSUME NEW c \in Cpus, NEW p \in Addresses, W # 0,
         NEW i \in Nat, NEW j \in Nat, i < HalfW, j < HalfH,
         p % W = Window(c).x + i, p \div W = Window(c).y + j
  PROVE  p \in Quarter(c)
<1>1. /\ p % W = (IF RightCore(c) THEN HalfW ELSE 0) + i
      /\ p \div W = (IF LowerCore(c) THEN HalfH ELSE 0) + j
  BY WindowIsQuarter
<1>2. p \div W < H
  BY <1>1, HalfSizes, ScreenAssumption
<1>3. p \in Nat
  BY AddressesAreNat
<1>4. p < W * H
  BY <1>2, <1>3, RowOfAddress, ScreenAssumption
<1>5. W * H \in Nat
  BY ScreenAssumption
<1>6. p \in 0..(W * H - 1)
  BY <1>3, <1>4, <1>5
<1>7. (p % W >= HalfW) = RightCore(c)
  BY <1>1, HalfSizes DEF RightCore
<1>8. (p \div W >= HalfH) = LowerCore(c)
  BY <1>1, HalfSizes DEF LowerCore
<1> QED
  BY <1>6, <1>7, <1>8 DEF Quarter

(* Drawing changes no pixel outside the window. *)
LEMMA DrawnInside ==
  ASSUME NEW c \in Cpus, NEW x \in Nat, NEW y \in Nat, NEW picture,
         DOMAIN picture \subseteq Nat \X Nat,
         NEW p \in Addresses, Drawn(Window(c), x, y, picture)[p] # memory[p]
  PROVE  p \in Quarter(c)
<1> DEFINE win == Window(c)
           i == (p % win.stride) - (win.x + x)
           j == (p \div win.stride) - (win.y + y)
<1>1. <<i, j>> \in DOMAIN picture /\ x + i < win.width /\ y + j < win.height
  BY DEF Drawn
<1>2. i \in Nat /\ j \in Nat
  BY <1>1, Zenon
<1>3. win.stride = W /\ win.width = HalfW /\ win.height = HalfH
  BY WindowIsQuarter
<1>4. win.x \in Nat /\ win.y \in Nat
  BY WindowIsQuarter, HalfSizes
<1>5. x + i < HalfW /\ y + j < HalfH
  BY <1>1, <1>3
<1>6. W # 0
  BY <1>2, <1>5, HalfSizes, ScreenAssumption
<1>7. p % W \in Nat /\ p \div W \in Nat
  BY <1>6, AddressesAreNat, Remainder, ScreenAssumption
<1>8. i = (p % W) - (win.x + x) /\ j = (p \div W) - (win.y + y)
  BY <1>3
<1> HIDE DEF win, i, j
<1>9. p % W = win.x + (x + i) /\ p \div W = win.y + (y + j)
  BY <1>2, <1>4, <1>7, <1>8
<1> QED
  BY <1>2, <1>5, <1>6, <1>9, WindowInQuarter DEF win

-----------------------------------------------------------------------------
(* The same of the rectangles and the rows a console draws and moves.      *)

LEMMA RectInside ==
  ASSUME NEW c \in Cpus, NEW x \in Nat, NEW y \in Nat, NEW w \in Int, NEW h \in Int,
         NEW colour, NEW p \in Addresses,
         gfx_rect_draw(Window(c), x, y, w, h, colour)[p] # memory[p]
  PROVE  p \in Quarter(c)
<1> DEFINE picture == [q \in (0..(w - 1)) \X (0..(h - 1)) |-> colour]
<1>1. DOMAIN picture \subseteq Nat \X Nat
  OBVIOUS
<1>2. Drawn(Window(c), x, y, picture)[p] # memory[p]
  BY DEF gfx_rect_draw
<1> QED
  BY <1>1, <1>2, DrawnInside

(* A glyph. *)
LEMMA CharInside ==
  ASSUME NEW c \in Cpus, NEW x \in Nat, NEW y \in Nat, NEW glyph, NEW p \in Addresses,
         gfx_put_char(Window(c), x, y, glyph)[p] # memory[p]
  PROVE  p \in Quarter(c)
<1> DEFINE picture == [q \in (0..(FW - 1)) \X (0..(FH - 1)) |->
                         IF Lit(glyph, q[1], q[2]) THEN Window(c).fg ELSE Window(c).bg]
<1>1. DOMAIN picture \subseteq Nat \X Nat
  OBVIOUS
<1>2. Drawn(Window(c), x, y, picture)[p] # memory[p]
  BY DEF gfx_put_char
<1> QED
  BY <1>1, <1>2, DrawnInside

(* A row of pixels moved by scroll_up. *)
LEMMA RowInside ==
  ASSUME NEW c \in Cpus, NEW row \in Nat, row < HalfH - FH, NEW sx, NEW sy, NEW p \in Addresses,
         MoveRow(Window(c), Window(c).width, sx, sy, Window(c).x, Window(c).y + row)[p] # memory[p]
  PROVE  p \in Quarter(c)
<1> DEFINE x == Window(c).x
           y == Window(c).y + row
           i == p - (W * y + x)
<1>1. /\ x \in Nat /\ x + HalfW <= W
      /\ Window(c).y \in Nat /\ y \in Nat
      /\ Window(c).stride = W /\ Window(c).width = HalfW
  BY WindowIsQuarter, HalfSizes, ScreenAssumption
<1>2. W * y \in Nat
  BY <1>1, ScreenAssumption
<1>3. p \in (W * y + x)..(W * y + x + HalfW - 1)
  BY <1>1 DEF MoveRow
<1>4. i \in Nat /\ i < HalfW /\ p = W * y + (x + i)
  BY <1>1, <1>2, <1>3, HalfSizes, AddressesAreNat
<1>5. x + i < W
  BY <1>1, <1>4, HalfSizes, ScreenAssumption
<1>6. p % W = x + i /\ p \div W = y
  <2>1. x + i \in Nat /\ W \in Nat
    BY <1>1, <1>4, ScreenAssumption
  <2> HIDE DEF x, y, i
  <2> QED
    BY <2>1, <1>1, <1>4, <1>5, RowAndColumn
<1>7. row < HalfH
  BY HalfSizes, ScreenAssumption
<1>8. W # 0
  BY <1>1, <1>4, HalfSizes
<1> HIDE DEF i
<1> QED
  BY <1>4, <1>6, <1>7, <1>8, WindowInQuarter

-----------------------------------------------------------------------------

(* The pixel of the cursor. *)
LEMMA CursorPixel == ASSUME CoreOK, NEW c \in Cpus
                     PROVE  core[c].x * FW \in Nat /\ core[c].y * FH \in Nat
  BY ScreenAssumption DEF CoreOK

(* A step of the console of core c. *)
OwnStep(c) ==
  /\ CoreOK'
  /\ core'[c] # core[c]
  /\ \A p \in Addresses : memory'[p] # memory[p] => p \in Quarter(c)

(* The cursor goes on. *)
LEMMA AdvanceOK ==
  ASSUME CoreOK, NEW c \in Cpus, NEW x \in Nat, NEW y \in Nat, Advance(c, x, y)
  PROVE  CoreOK' /\ core'[c] # core[c]
  BY DEF CoreOK, Advance

(* A window has some columns. *)
LEMMA ColumnsNat == \A c \in Cpus : Columns(c) \in Nat
  BY WindowIsQuarter, HalfSizes, Remainder, ScreenAssumption DEF Columns

(* Every step of a console is one in its own window. *)
LEMMA ConsoleStep ==
  ASSUME CoreOK, NEW c \in Cpus, Console(c)
  PROVE  OwnStep(c)
<1>1. CASE cons_bootstrap(c)
  <2>1. CoreOK' /\ core'[c] # core[c]
    BY <1>1 DEF CoreOK, cons_bootstrap
  <2>2. memory' = gfx_rect_draw(Window(c), 0, 0, HalfW, HalfH, Window(c).bg)
    BY <1>1 DEF cons_bootstrap
  <2> QED
    BY <2>1, <2>2, RectInside, HalfSizes DEF OwnStep
<1>2. CASE PutChar(c)
  <2>1. core[c].x + 1 \in Nat /\ core[c].y \in Nat
    BY DEF CoreOK
  <2>2. CoreOK' /\ core'[c] # core[c]
    BY <1>2, <2>1, AdvanceOK DEF PutChar
  <2>3. PICK glyph : memory' = gfx_put_char(Window(c), core[c].x * FW, core[c].y * FH, glyph)
    BY <1>2 DEF PutChar
  <2> QED
    BY <2>2, <2>3, CursorPixel, CharInside DEF OwnStep
<1>3. CASE PutNewline(c)
  <2>1. Columns(c) \in Nat /\ core[c].y \in Nat
    BY ColumnsNat DEF CoreOK
  <2>2. CoreOK' /\ core'[c] # core[c]
    BY <1>3, <2>1, AdvanceOK DEF PutNewline
  <2> QED
    BY <1>3, <2>2 DEF PutNewline, OwnStep
<1>4. CASE gfx_cons_flush(c)
  <2>1. CoreOK' /\ core'[c] # core[c]
    BY <1>4 DEF CoreOK, gfx_cons_flush
  <2>2. memory' = gfx_rect_draw(Window(c), core[c].x * FW, core[c].y * FH, FW, FH, White)
    BY <1>4 DEF gfx_cons_flush
  <2> QED
    BY <2>1, <2>2, CursorPixel, RectInside, ScreenAssumption DEF OwnStep
<1>5. CASE ScrollRow(c)
  <2>1. CoreOK' /\ core'[c] # core[c]
    BY <1>5 DEF CoreOK, ScrollRow
  <2>2. core[c].row \in Nat /\ core[c].row < HalfH - FH
    BY <1>5, WindowIsQuarter DEF CoreOK, ScrollRow
  <2>3. memory' = MoveRow(Window(c), Window(c).width, Window(c).x,
                          Window(c).y + FH + core[c].row, Window(c).x, Window(c).y + core[c].row)
    BY <1>5 DEF ScrollRow
  <2> QED
    BY <2>1, <2>2, <2>3, RowInside DEF OwnStep
<1>6. CASE ScrollBlank(c)
  <2>1. CoreOK' /\ core'[c] # core[c]
    BY <1>6 DEF CoreOK, ScrollBlank
  <2>2. /\ BlankFrom(Window(c)) \in Nat
        /\ Window(c).width \in Int
    BY <1>6, WindowIsQuarter, HalfSizes DEF CoreOK, ScrollBlank, BlankFrom
  <2>3. memory' = gfx_rect_draw(Window(c), 0, BlankFrom(Window(c)), Window(c).width, FH,
                                Window(c).bg)
    BY <1>6 DEF ScrollBlank
  <2> QED
    <3>1. FH \in Int
      BY ScreenAssumption
    <3>2. \A p \in Addresses : memory'[p] # memory[p] => p \in Quarter(c)
      BY <2>2, <2>3, <3>1, RectInside
    <3> QED
      BY <2>1, <3>2 DEF OwnStep
<1> QED
  BY <1>1, <1>2, <1>3, <1>4, <1>5, <1>6 DEF Console

OwnWindow ==
  \A p \in Addresses :
    memory'[p] # memory[p] => \E c \in Cpus : core'[c] # core[c] /\ p \in Quarter(c)

(* Every step keeps the types and changes a pixel only in the quarter of the*)
(* core that takes it.                                                      *)
LEMMA Step == CoreOK /\ InboxOK /\ [Next]_vars => CoreOK' /\ InboxOK' /\ OwnWindow
<1> SUFFICES ASSUME CoreOK, InboxOK, [Next]_vars PROVE CoreOK' /\ InboxOK' /\ OwnWindow
  OBVIOUS
<1>1. CASE vc_mbox_send
  BY <1>1 DEF CoreOK, InboxOK, OwnWindow, vc_mbox_send, Become, Cpus
<1>2. CASE vc_mbox_recv
  <2>1. /\ Head(inbox) \in {"ok", "bad", "other"}
        /\ InboxOK'
    BY <1>2 DEF InboxOK, vc_mbox_recv, CanRecv
  <2>2. PICK next \in {"recv", "boot", "lost"} : core' = [core EXCEPT ![0].pc = next]
    BY <1>2, <2>1 DEF vc_mbox_recv
  <2>3. CoreOK'
    BY <2>2 DEF CoreOK, Cpus
  <2>4. UNCHANGED memory
    BY <1>2 DEF vc_mbox_recv
  <2> QED
    BY <2>1, <2>3, <2>4 DEF OwnWindow
<1>3. CASE VcAnswers \/ VcStray \/ UNCHANGED vars
  <2>1. UNCHANGED <<memory, core>>
    BY <1>3 DEF VcAnswers, VcStray, vars
  <2>2. InboxOK'
    BY <1>3 DEF VcAnswers, VcStray, vars, mailbox, InboxOK
  <2> QED
    BY <2>1, <2>2 DEF CoreOK, OwnWindow
<1>4. ASSUME NEW c \in Cpus, Console(c) PROVE CoreOK' /\ InboxOK' /\ OwnWindow
  <2>1. CoreOK' /\ OwnWindow
    BY <1>4, ConsoleStep DEF OwnStep, OwnWindow
  <2>2. UNCHANGED inbox
    BY <1>4 DEF Console, cons_bootstrap, PutChar, PutNewline, gfx_cons_flush, ScrollRow,
                ScrollBlank, mailbox
  <2> QED
    BY <2>1, <2>2 DEF InboxOK
<1> QED
  BY <1>1, <1>2, <1>3, <1>4 DEF Next, VideoMode

(* The types at the start. *)
LEMMA InitOK == Init => CoreOK /\ InboxOK
  BY DEF Init, CoreOK, InboxOK

(* The four consoles draw, wrap, flush and scroll in one framebuffer       *)
(* without a lock, and none ever changes a pixel of another core's         *)
(* quarter, whatever the sizes of the screen and of the font.              *)
THEOREM WindowsAreOwn == Spec => OwnWindowOnly
<1>1. CoreOK /\ InboxOK /\ [Next]_vars => [OwnWindow]_vars
  BY Step
<1> QED
  BY <1>1, InitOK, Step, PTL DEF Spec, OwnWindowOnly, OwnWindow

-----------------------------------------------------------------------------
(* What a console shows.  A pixel of a window is (x, y); its cell is       *)
(* (x \div FW, y \div FH).                                                 *)

Pixel(c, x, y) == memory[At(Window(c), x, y)]

Xs == 0..(HalfW - 1)
Ys == 0..(HalfH - 1)

LineAt(c, lines, n) == IF n + 1 <= Len(lines) THEN lines[n + 1] ELSE EmptyLine(c)

(* The pixel (x, y) when line first is the topmost. *)
Shows(c, lines, first, x, y) ==
  IF y \div FH < Rows(c)
    THEN Looks(c, LineAt(c, lines, first + (y \div FH))[x \div FW], x % FW, y % FH)
    ELSE Window(c).bg

First(c) == IF Len(text[c].lines) > Rows(c) THEN Len(text[c].lines) - Rows(c) ELSE 0

Line == [0..((HalfW \div FW) - 1) -> Nat]

TextType == text \in [Cpus -> [lines : Seq(Line), col : Nat]]

CursorOK(c) ==
  /\ Len(text[c].lines) >= 1
  /\ text[c].col = core[c].x /\ core[c].x < Columns(c)
  /\ core[c].y = Len(text[c].lines) - 1 - First(c)

(* Before a console is started nothing was written to it. *)
Unwritten(c) ==
  core[c].pc \notin {"idle", "scroll"} =>
    text[c] = [lines |-> <<EmptyLine(c)>>, col |-> 0]

ShownIdle(c) ==
  core[c].pc = "idle" =>
    \A x \in Xs, y \in Ys :
      x \div FW < Columns(c) => Pixel(c, x, y) = Shows(c, text[c].lines, First(c), x, y)

(* The rows above core[c].row have been moved. *)
ShownScrolling(c) ==
  core[c].pc = "scroll" =>
    /\ Len(text[c].lines) > Rows(c)
    /\ text[c].lines[Len(text[c].lines)] = EmptyLine(c) /\ core[c].x = 0
    /\ core[c].row <= HalfH - FH
    /\ \A x \in Xs, y \in Ys :
         x \div FW < Columns(c) =>
           Pixel(c, x, y) = Shows(c, text[c].lines,
                                  IF y < core[c].row THEN First(c) ELSE First(c) - 1, x, y)

ConsoleOK(c) == CursorOK(c) /\ Unwritten(c) /\ ShownIdle(c) /\ ShownScrolling(c)

(* A window too small for a character shows nothing. *)
ScreenInv ==
  /\ CoreOK /\ InboxOK /\ TextType
  /\ \A c \in Cpus : Columns(c) > 0 /\ Rows(c) > 0 => ConsoleOK(c)

-----------------------------------------------------------------------------
(* Cells and pixels.                                                       *)

(* p lies in the a pixels of cell n. *)
LEMMA CellOf ==
  ASSUME NEW a \in Nat \ {0}, NEW p \in Nat, NEW n \in Nat
  PROVE  /\ p - n * a \in 0..(a - 1) <=> p \div a = n
         /\ p \div a = n => p - n * a = p % a
<1>0. n * a = a * n /\ a * n \in Nat
  OBVIOUS
<1>1. p = a * (p \div a) + (p % a) /\ p % a \in 0..(a - 1) /\ p \div a \in Nat
  BY Z3
<1>2. ASSUME p - n * a \in 0..(a - 1) PROVE p \div a = n
  <2>1. PICK x \in Nat : x = p - a * n /\ x < a
    BY <1>0, <1>2
  <2>2. p = a * n + x
    BY <1>0, <2>1
  <2> QED
    BY <2>1, <2>2, RowAndColumn
<1>3. ASSUME p \div a = n PROVE p - n * a = p % a
  BY <1>0, <1>1, <1>3
<1> QED
  BY <1>1, <1>2, <1>3

(* One row more. *)
LEMMA OneMore ==
  ASSUME NEW a \in Nat, NEW q \in Nat PROVE a * (q + 1) = a * q + a
  OBVIOUS

(* One cell further. *)
LEMMA NextCell ==
  ASSUME NEW a \in Nat \ {0}, NEW p \in Nat
  PROVE  (p + a) \div a = (p \div a) + 1 /\ (p + a) % a = p % a
<1>1. p = a * (p \div a) + (p % a) /\ p % a \in 0..(a - 1) /\ p \div a \in Nat
  BY Z3
<1>2. PICK q \in Nat, r \in Nat : q = p \div a /\ r = p % a /\ r < a /\ p = a * q + r
  BY <1>1
<1>3. a * (q + 1) = a * q + a
  BY OneMore
<1>4. PICK m \in Nat, n \in Nat : m = q + 1 /\ n = p + a
  OBVIOUS
<1>5. n = a * m + r
  BY <1>2, <1>3, <1>4
<1>6. n \div a = m /\ n % a = r
  BY <1>2, <1>5, RowAndColumn
<1> QED
  BY <1>2, <1>4, <1>6

(* What lies in a cell of a range of h pixels lies in the range. *)
LEMMA CellInside ==
  ASSUME NEW a \in Nat \ {0}, NEW h \in Nat, NEW p \in Nat, p \div a < h \div a
  PROVE  p < h
  BY Z3

(* The last a pixels of a range are in its last cell or behind it. *)
LEMMA LastCell ==
  ASSUME NEW a \in Nat \ {0}, NEW h \in Nat, NEW p \in Nat, p >= h - a
  PROVE  p \div a >= (h \div a) - 1
  BY Z3

(* The address of a pixel of h rows of a pixels. *)
LEMMA AddressBound ==
  ASSUME NEW a \in Nat, NEW h \in Nat, NEW x \in Nat, NEW y \in Nat, x < a, y < h
  PROVE  a * y + x < a * h /\ a * y + x \in Nat
  BY Z3

(* Where a pixel of a window is in the framebuffer. *)
LEMMA PixelAt ==
  ASSUME NEW c \in Cpus, NEW x \in Xs, NEW y \in Ys
  PROVE  /\ At(Window(c), x, y) \in Addresses /\ W # 0
         /\ At(Window(c), x, y) % W = Window(c).x + x
         /\ At(Window(c), x, y) \div W = Window(c).y + y
         /\ At(Window(c), x, y) \in Quarter(c)
<1>1. /\ Window(c).x \in Nat /\ Window(c).y \in Nat /\ Window(c).stride = W
      /\ Window(c).x + HalfW <= W /\ Window(c).y + HalfH <= H
      /\ W \in Nat /\ H \in Nat /\ FH \in Nat /\ HalfW \in Nat /\ HalfH \in Nat
  BY WindowIsQuarter, HalfSizes, ScreenAssumption
<1>2. x \in Nat /\ y \in Nat /\ x < HalfW /\ y < HalfH
  BY <1>1 DEF Xs, Ys
<1> DEFINE px == Window(c).x + x
           py == Window(c).y + y
           p == At(Window(c), x, y)
<1>3. px \in Nat /\ py \in Nat /\ px < W /\ py < H
  BY <1>1, <1>2
<1>4. p = W * py + px
  BY <1>1, <1>2 DEF At
<1>5. p % W = px /\ p \div W = py
  <2> HIDE DEF px, py, p
  <2> QED
    BY <1>1, <1>3, <1>4, RowAndColumn
<1>6. p \in Addresses
  <2>1. W * py + px < W * (H + FH) /\ W * py + px \in Nat
    <3>1. py < H + FH /\ H + FH \in Nat
      BY <1>1, <1>3
    <3> HIDE DEF px, py, p
    <3> QED
      BY <1>1, <1>3, <3>1, AddressBound
  <2>2. W * (H + FH) \in Nat
    BY <1>1
  <2> HIDE DEF px, py, p
  <2> QED
    BY <1>4, <2>1, <2>2 DEF Addresses
<1>7. W # 0
  BY <1>1, <1>3
<1>8. p \in Quarter(c)
  BY <1>2, <1>5, <1>6, <1>7, WindowInQuarter
<1> QED
  BY <1>5, <1>6, <1>7, <1>8

(* The quarters have no pixel in common. *)
LEMMA QuartersApart ==
  ASSUME NEW c \in Cpus, NEW d \in Cpus, c # d PROVE Quarter(c) \cap Quarter(d) = {}
<1>1. RightCore(c) # RightCore(d) \/ LowerCore(c) # LowerCore(d)
  BY DEF RightCore, LowerCore, Cpus
<1> QED
  BY <1>1 DEF Quarter

(* What drawing and moving do to the pixels of a window. *)
LEMMA DrawnPixel ==
  ASSUME NEW c \in Cpus, NEW l \in Nat, NEW t \in Nat, NEW picture,
         memory' = Drawn(Window(c), l, t, picture), NEW x \in Xs, NEW y \in Ys
  PROVE  Pixel(c, x, y)' = IF <<x - l, y - t>> \in DOMAIN picture
                             THEN picture[<<x - l, y - t>>] ELSE Pixel(c, x, y)
<1>0. Window(c)' = Window(c)
  BY DEF Window, gfx_window, MainWindow, RightCore, LowerCore, HalfW, HalfH, Mini
<1>1. PICK p \in Addresses : /\ p = At(Window(c), x, y)
                             /\ p % W = Window(c).x + x /\ p \div W = Window(c).y + y
  BY PixelAt
<1>2. /\ Window(c).x \in Nat /\ Window(c).y \in Nat /\ Window(c).stride = W
      /\ Window(c).width = HalfW /\ Window(c).height = HalfH /\ HalfW \in Nat /\ HalfH \in Nat
  BY WindowIsQuarter, HalfSizes
<1>3. x \in Nat /\ x < HalfW /\ y \in Nat /\ y < HalfH
  BY <1>2 DEF Xs, Ys
<1>4. memory'[p] = LET i == (p % W) - (Window(c).x + l)
                       j == (p \div W) - (Window(c).y + t)
                   IN  IF <<i, j>> \in DOMAIN picture /\ l + i < HalfW /\ t + j < HalfH
                         THEN picture[<<i, j>>] ELSE memory[p]
  BY <1>2 DEF Drawn
<1>5. (p % W) - (Window(c).x + l) = x - l /\ (p \div W) - (Window(c).y + t) = y - t
  BY <1>1, <1>2, <1>3
<1>6. l + (x - l) < HalfW /\ t + (y - t) < HalfH
  BY <1>2, <1>3
<1>7. memory'[p] = IF <<x - l, y - t>> \in DOMAIN picture
                     THEN picture[<<x - l, y - t>>] ELSE memory[p]
  BY <1>4, <1>5, <1>6
<1> QED
  BY <1>0, <1>1, <1>7 DEF Pixel, At

(* The pixels of the other windows stay. *)
LEMMA OtherPixel ==
  ASSUME NEW c \in Cpus, NEW d \in Cpus, c # d,
         \A p \in Addresses : memory'[p] # memory[p] => p \in Quarter(c),
         NEW x \in Xs, NEW y \in Ys
  PROVE  Pixel(d, x, y)' = Pixel(d, x, y)
<1>0. Window(d)' = Window(d)
  BY DEF Window, gfx_window, MainWindow, RightCore, LowerCore, HalfW, HalfH, Mini
<1>1. At(Window(d), x, y) \in Addresses /\ At(Window(d), x, y) \in Quarter(d)
  BY PixelAt
<1>2. At(Window(d), x, y) \notin Quarter(c)
  BY <1>1, QuartersApart
<1> QED
  BY <1>0, <1>1, <1>2 DEF Pixel, At

(* A row of pixels moved. *)
LEMMA MovedPixel ==
  ASSUME NEW c \in Cpus, NEW row \in Nat, row < HalfH - FH,
         memory' = MoveRow(Window(c), Window(c).width, Window(c).x, Window(c).y + FH + row,
                           Window(c).x, Window(c).y + row),
         NEW x \in Xs, NEW y \in Ys
  PROVE  Pixel(c, x, y)' = IF y = row THEN Pixel(c, x, row + FH) ELSE Pixel(c, x, y)
<1>0. Window(c)' = Window(c)
  BY DEF Window, gfx_window, MainWindow, RightCore, LowerCore, HalfW, HalfH, Mini
<1>1. PICK p \in Addresses : /\ p = At(Window(c), x, y)
                             /\ p % W = Window(c).x + x /\ p \div W = Window(c).y + y
  BY PixelAt
<1>2. /\ Window(c).x \in Nat /\ Window(c).y \in Nat /\ Window(c).stride = W
      /\ Window(c).width = HalfW /\ Window(c).height = HalfH /\ HalfW \in Nat /\ HalfH \in Nat
      /\ W \in Nat /\ Window(c).x + HalfW <= W /\ FH \in Nat
  BY WindowIsQuarter, HalfSizes, ScreenAssumption
<1>3. x \in Nat /\ x < HalfW /\ y \in Nat /\ y < HalfH /\ p \in Nat
  BY <1>2, AddressesAreNat DEF Xs, Ys
<1> DEFINE src == W * (Window(c).y + FH + row) + Window(c).x
           dst == W * (Window(c).y + row) + Window(c).x
<1>4. src \in Nat /\ dst \in Nat
  BY <1>2
<1>5. memory'[p] = IF p \in dst..(dst + HalfW - 1) THEN memory[p - dst + src] ELSE memory[p]
  BY <1>2 DEF MoveRow
<1>6. CASE y = row
  <2>1. At(Window(c), x, row + FH) = W * (row + FH + Window(c).y) + x + Window(c).x
    BY <1>2 DEF At
  <2>2. row + FH + Window(c).y = Window(c).y + FH + row
    BY <1>2
  <2>3. p = W * (row + Window(c).y) + x + Window(c).x
    BY <1>1, <1>2, <1>6 DEF At
  <2>4. row + Window(c).y = Window(c).y + row
    BY <1>2
  <2>5. p = dst + x /\ At(Window(c), x, row + FH) = src + x
    <3>1. W * (Window(c).y + row) \in Nat /\ W * (Window(c).y + FH + row) \in Nat
      BY <1>2
    <3> QED
      BY <1>2, <1>3, <2>1, <2>2, <2>3, <2>4, <3>1
  <2> HIDE DEF src, dst
  <2>6. p \in dst..(dst + HalfW - 1) /\ p - dst + src = src + x
    BY <1>2, <1>3, <1>4, <2>5
  <2> QED
    BY <1>0, <1>1, <1>5, <1>6, <2>5, <2>6 DEF Pixel, At
<1>7. CASE y # row
  <2>1. ASSUME p \in dst..(dst + HalfW - 1) PROVE FALSE
    <3>1. PICK k \in Nat : k = p - dst /\ k < HalfW
      BY <1>2, <1>3, <1>4, <2>1
    <3>2. PICK px \in Nat, py \in Nat : px = Window(c).x + k /\ py = Window(c).y + row /\ px < W
      BY <1>2, <3>1
    <3>3. p = W * py + px
      <4>1. W * py \in Nat
        BY <1>2
      <4> QED
        BY <1>2, <1>3, <1>4, <3>1, <3>2, <4>1
    <3>4. p \div W = py
      BY <1>2, <3>2, <3>3, RowAndColumn
    <3> QED
      BY <1>1, <1>2, <1>3, <1>7, <3>2, <3>4
  <2> QED
    BY <1>0, <1>1, <1>5, <1>7, <2>1 DEF Pixel, At
<1> QED
  BY <1>6, <1>7

Cell == (0..(FW - 1)) \X (0..(FH - 1))

(* The place of a pixel in its cell. *)
LEMMA InCell ==
  ASSUME NEW x \in Xs, NEW y \in Ys
  PROVE  x % FW \in 0..(FW - 1) /\ y % FH \in 0..(FH - 1)
<1>1. x \in Nat /\ y \in Nat
  BY HalfSizes DEF Xs, Ys
<1>2. FW \in Nat \ {0} /\ FH \in Nat \ {0}
  BY ScreenAssumption
<1> QED
  BY <1>1, <1>2

(* The cell (col, r) is drawn over, the others stay. *)
LEMMA CellPixel ==
  ASSUME NEW c \in Cpus, NEW col \in Nat, NEW r \in Nat, NEW l \in Nat, NEW t \in Nat,
         l = col * FW, t = r * FH, NEW picture,
         DOMAIN picture = Cell,
         memory' = Drawn(Window(c), l, t, picture), NEW x \in Xs, NEW y \in Ys
  PROVE  Pixel(c, x, y)' = IF x \div FW = col /\ y \div FH = r
                             THEN picture[<<x % FW, y % FH>>] ELSE Pixel(c, x, y)
<1>1. FW \in Nat \ {0} /\ FH \in Nat \ {0}
  BY ScreenAssumption
<1>2. x \in Nat /\ y \in Nat
  BY HalfSizes DEF Xs, Ys
<1>3. Pixel(c, x, y)' = IF <<x - l, y - t>> \in DOMAIN picture
                         THEN picture[<<x - l, y - t>>] ELSE Pixel(c, x, y)
  BY DrawnPixel
<1>4. /\ x - l \in 0..(FW - 1) <=> x \div FW = col
      /\ x \div FW = col => x - l = x % FW
      /\ y - t \in 0..(FH - 1) <=> y \div FH = r
      /\ y \div FH = r => y - t = y % FH
  BY <1>1, <1>2, CellOf
<1>5. CASE x \div FW = col /\ y \div FH = r
  <2>1. <<x - l, y - t>> \in DOMAIN picture
    BY <1>4, <1>5 DEF Cell
  <2>2. <<x - l, y - t>> = <<x % FW, y % FH>>
    BY <1>4, <1>5
  <2> QED
    BY <1>3, <1>5, <2>1, <2>2
<1>6. CASE ~(x \div FW = col /\ y \div FH = r)
  <2>1. <<x - l, y - t>> \notin DOMAIN picture
    BY <1>4, <1>6 DEF Cell
  <2> QED
    BY <1>3, <1>6, <2>1
<1> QED
  BY <1>5, <1>6

(* A glyph in a cell. *)
LEMMA CharPixel ==
  ASSUME NEW c \in Cpus, NEW col \in Nat, NEW r \in Nat, NEW glyph,
         memory' = gfx_put_char(Window(c), col * FW, r * FH, glyph), NEW x \in Xs, NEW y \in Ys
  PROVE  Pixel(c, x, y)' = IF x \div FW = col /\ y \div FH = r
                             THEN IF Lit(glyph, x % FW, y % FH) THEN White ELSE Window(c).bg
                             ELSE Pixel(c, x, y)
<1> DEFINE picture == [q \in (0..(FW - 1)) \X (0..(FH - 1)) |->
                         IF Lit(glyph, q[1], q[2]) THEN Window(c).fg ELSE Window(c).bg]
<1>0. PICK l \in Nat, t \in Nat : l = col * FW /\ t = r * FH
  BY ScreenAssumption
<1>1. memory' = Drawn(Window(c), l, t, picture)
  BY <1>0 DEF gfx_put_char
<1>2. DOMAIN picture = Cell
  BY DEF Cell
<1>3. <<x % FW, y % FH>> \in DOMAIN picture
  BY InCell
<1>4. picture[<<x % FW, y % FH>>] =
        IF Lit(glyph, x % FW, y % FH) THEN White ELSE Window(c).bg
  BY <1>3, WindowIsQuarter
<1>5. PICK pic : pic = picture
  OBVIOUS
<1> HIDE DEF picture
<1>6. /\ memory' = Drawn(Window(c), l, t, pic)
      /\ DOMAIN pic = Cell
  BY <1>1, <1>2, <1>5
<1>7. Pixel(c, x, y)' = IF x \div FW = col /\ y \div FH = r
                         THEN pic[<<x % FW, y % FH>>] ELSE Pixel(c, x, y)
  BY <1>0, <1>6, CellPixel
<1> QED
  BY <1>4, <1>5, <1>7

(* A block in a cell. *)
LEMMA BlockPixel ==
  ASSUME NEW c \in Cpus, NEW col \in Nat, NEW r \in Nat,
         memory' = gfx_rect_draw(Window(c), col * FW, r * FH, FW, FH, White),
         NEW x \in Xs, NEW y \in Ys
  PROVE  Pixel(c, x, y)' = IF x \div FW = col /\ y \div FH = r THEN White ELSE Pixel(c, x, y)
<1> DEFINE picture == [q \in (0..(FW - 1)) \X (0..(FH - 1)) |-> White]
<1>0. PICK l \in Nat, t \in Nat : l = col * FW /\ t = r * FH
  BY ScreenAssumption
<1>1. memory' = Drawn(Window(c), l, t, picture)
  BY <1>0 DEF gfx_rect_draw
<1>2. DOMAIN picture = Cell
  BY DEF Cell
<1>3. <<x % FW, y % FH>> \in DOMAIN picture
  BY InCell
<1>4. picture[<<x % FW, y % FH>>] = White
  BY <1>3
<1>5. PICK pic : pic = picture
  OBVIOUS
<1> HIDE DEF picture
<1>6. /\ memory' = Drawn(Window(c), l, t, pic)
      /\ DOMAIN pic = Cell
  BY <1>1, <1>2, <1>5
<1>7. Pixel(c, x, y)' = IF x \div FW = col /\ y \div FH = r
                         THEN pic[<<x % FW, y % FH>>] ELSE Pixel(c, x, y)
  BY <1>0, <1>6, CellPixel
<1> QED
  BY <1>4, <1>5, <1>7

(* The rows from row t on are drawn over over their whole width. *)
LEMMA RowsPixel ==
  ASSUME NEW c \in Cpus, NEW t \in Nat, NEW h \in Nat, t + h = HalfH, NEW colour,
         memory' = gfx_rect_draw(Window(c), 0, t, HalfW, h, colour), NEW x \in Xs, NEW y \in Ys
  PROVE  Pixel(c, x, y)' = IF y >= t THEN colour ELSE Pixel(c, x, y)
<1> DEFINE picture == [q \in (0..(HalfW - 1)) \X (0..(h - 1)) |-> colour]
<1>1. memory' = Drawn(Window(c), 0, t, picture)
  BY DEF gfx_rect_draw
<1>2. x \in 0..(HalfW - 1) /\ x - 0 = x /\ y \in Nat /\ y < HalfH /\ HalfH \in Nat
  BY HalfSizes DEF Xs, Ys
<1>3. y >= t => <<x - 0, y - t>> \in DOMAIN picture /\ picture[<<x - 0, y - t>>] = colour
  BY <1>2
<1>4. ~(y >= t) => <<x - 0, y - t>> \notin DOMAIN picture
  BY <1>2
<1> HIDE DEF picture
<1> QED
  BY <1>1, <1>3, <1>4, DrawnPixel

-----------------------------------------------------------------------------
(* The steps.                                                              *)

(* The windows and their cells never change. *)
LEMMA Rigid ==
  ASSUME NEW c \in Cpus
  PROVE  /\ Columns(c)' = Columns(c) /\ Rows(c)' = Rows(c) /\ EmptyLine(c)' = EmptyLine(c)
         /\ \A lines, first, x, y : Shows(c, lines, first, x, y)' = Shows(c, lines, first, x, y)
  BY DEF Columns, Rows, EmptyLine, Shows, LineAt, Looks, Lit, Window, gfx_window, MainWindow,
         RightCore, LowerCore, HalfW, HalfH, Mini

(* What the invariant says of core c once its step has ended.              *)
LEMMA Afterwards ==
  ASSUME NEW c \in Cpus, NEW k, NEW t, NEW first,
         k = core'[c], t = text'[c],
         first = (IF Len(t.lines) > Rows(c) THEN Len(t.lines) - Rows(c) ELSE 0),
         Len(t.lines) >= 1, t.col = k.x, k.x < Columns(c), k.y = Len(t.lines) - 1 - first,
         k.pc \notin {"idle", "scroll"} => t = [lines |-> <<EmptyLine(c)>>, col |-> 0],
         k.pc = "idle" =>
           \A x \in Xs, y \in Ys :
             x \div FW < Columns(c) => Pixel(c, x, y)' = Shows(c, t.lines, first, x, y),
         k.pc = "scroll" =>
           /\ Len(t.lines) > Rows(c)
           /\ t.lines[Len(t.lines)] = EmptyLine(c) /\ k.x = 0
           /\ k.row <= HalfH - FH
           /\ \A x \in Xs, y \in Ys :
                x \div FW < Columns(c) =>
                  Pixel(c, x, y)' = Shows(c, t.lines,
                                          IF y < k.row THEN first ELSE first - 1, x, y)
  PROVE  ConsoleOK(c)'
<1>1. First(c)' = first
  BY Rigid DEF First
<1>2. CursorOK(c)'
  BY <1>1, Rigid DEF CursorOK
<1>3. Unwritten(c)'
  BY Rigid DEF Unwritten
<1>4. Xs' = Xs /\ Ys' = Ys /\ HalfH' = HalfH
  BY DEF Xs, Ys, HalfW, HalfH
<1>5. ShownIdle(c)'
  BY <1>1, <1>4, Rigid DEF ShownIdle
<1>6. ShownScrolling(c)'
  BY <1>1, <1>4, Rigid DEF ShownScrolling
<1> QED
  BY <1>2, <1>3, <1>5, <1>6 DEF ConsoleOK

(* The cursor of a console k with the text t. *)
Cursor(c, k, t, first) ==
  /\ first = (IF Len(t.lines) > Rows(c) THEN Len(t.lines) - Rows(c) ELSE 0)
  /\ Len(t.lines) >= 1 /\ t.col = k.x /\ k.x < Columns(c)
  /\ k.y = Len(t.lines) - 1 - first

(* A console that scrolls stands at the start of an empty line. *)
Scrolling(c, k, t) ==
  /\ k.pc = "scroll" /\ Len(t.lines) > Rows(c)
  /\ t.lines[Len(t.lines)] = EmptyLine(c) /\ k.x = 0
  /\ k.row <= HalfH - FH

(* The same of a console that waits for a character. *)
LEMMA AfterIdle ==
  ASSUME NEW c \in Cpus, NEW k, NEW t, NEW first,
         k = core'[c], t = text'[c], k.pc = "idle", Cursor(c, k, t, first),
         \A x \in Xs, y \in Ys :
           x \div FW < Columns(c) => Pixel(c, x, y)' = Shows(c, t.lines, first, x, y)
  PROVE  ConsoleOK(c)'
<1>1. k.pc \in {"idle", "scroll"} /\ k.pc # "scroll"
  OBVIOUS
<1> QED
  BY <1>1, Afterwards DEF Cursor

(* The same of one that scrolls: below the rows moved, the window still    *)
(* begins with the line above.                                             *)
LEMMA AfterScroll ==
  ASSUME NEW c \in Cpus, NEW k, NEW t, NEW first \in Nat, NEW above \in Nat, above = first - 1,
         k = core'[c], t = text'[c], Cursor(c, k, t, first), Scrolling(c, k, t),
         \A x \in Xs, y \in Ys :
           x \div FW < Columns(c) =>
             Pixel(c, x, y)' = Shows(c, t.lines, IF y < k.row THEN first ELSE above, x, y)
  PROVE  ConsoleOK(c)'
<1>1. k.pc \in {"idle", "scroll"} /\ k.pc # "idle"
  BY DEF Scrolling
<1>2. \A x \in Xs, y \in Ys :
        x \div FW < Columns(c) =>
          Pixel(c, x, y)' = Shows(c, t.lines, IF y < k.row THEN first ELSE first - 1, x, y)
  OBVIOUS
<1> QED
  BY <1>1, <1>2, Afterwards DEF Cursor, Scrolling

(* A console that takes no step. *)
LEMMA OthersStay ==
  ASSUME NEW d \in Cpus, ConsoleOK(d), core'[d] = core[d], text'[d] = text[d],
         \A x \in Xs, y \in Ys : Pixel(d, x, y)' = Pixel(d, x, y)
  PROVE  ConsoleOK(d)'
<1>1. PICK k, t, first : k = core'[d] /\ t = text'[d] /\ first = First(d)
  OBVIOUS
<1> QED
  BY <1>1, Afterwards DEF ConsoleOK, CursorOK, Unwritten, ShownIdle, ShownScrolling, First

(* The column and the row of a pixel. *)
LEMMA CellNat ==
  ASSUME NEW x \in Xs, NEW y \in Ys PROVE x \div FW \in Nat /\ y \div FH \in Nat
<1>1. x \in Nat /\ y \in Nat
  BY HalfSizes DEF Xs, Ys
<1> QED
  BY <1>1, Remainder, ScreenAssumption

(* A new line at the end of the text shows nothing. *)
LEMMA NewLine ==
  ASSUME NEW c \in Cpus, NEW lines \in Seq(Line), NEW first \in Nat, NEW x, NEW y \in Ys
  PROVE  Shows(c, Append(lines, EmptyLine(c)), first, x, y) = Shows(c, lines, first, x, y)
<1> DEFINE more == Append(lines, EmptyLine(c))
<1>1. PICK n \in Nat : n = first + (y \div FH)
  <2>1. y \div FH \in Nat
    <3>1. y \in Nat
      BY HalfSizes DEF Ys
    <3> QED
      BY <3>1, Remainder, ScreenAssumption
  <2> QED
    BY <2>1
<1>2. /\ Len(lines) \in Nat /\ Len(more) = Len(lines) + 1
      /\ more[Len(lines) + 1] = EmptyLine(c)
      /\ \A k \in 1..Len(lines) : more[k] = lines[k]
  OBVIOUS
<1>3. LineAt(c, more, n) = LineAt(c, lines, n)
  <2> HIDE DEF more
  <2> QED
    BY <1>2 DEF LineAt
<1> QED
  BY <1>1, <1>3 DEF Shows

(* An empty line is a line, of as many cells as the window has columns. *)
LEMMA EmptyLineOK ==
  ASSUME NEW c \in Cpus
  PROVE  EmptyLine(c) \in Line /\ Columns(c) = HalfW \div FW /\ Rows(c) = HalfH \div FH
         /\ Columns(c) \in Nat /\ Rows(c) \in Nat
  BY WindowIsQuarter, HalfSizes, Remainder, ScreenAssumption
     DEF EmptyLine, Line, Blank, Columns, Rows

(* A character written into the last line. *)
Marked(lines, col, what) == [lines EXCEPT ![Len(lines)][col] = what]

(* It stays a text of as many lines, and only its last line changes. *)
LEMMA MarkOK ==
  ASSUME NEW lines \in Seq(Line), NEW col, NEW what \in Nat, NEW marked,
         marked = Marked(lines, col, what)
  PROVE  /\ marked \in Seq(Line) /\ Len(marked) = Len(lines)
         /\ \A k \in 1..Len(lines) :
              marked[k] = IF k = Len(lines) THEN [lines[k] EXCEPT ![col] = what] ELSE lines[k]
<1>1. Len(lines) \in Nat /\ DOMAIN lines = 1..Len(lines) /\ \A k \in 1..Len(lines) : lines[k] \in Line
  OBVIOUS
<1>2. \A k \in 1..Len(lines) :
        marked[k] = IF k = Len(lines) THEN [lines[k] EXCEPT ![col] = what] ELSE lines[k]
  BY <1>1 DEF Marked
<1>3. \A line \in Line : [line EXCEPT ![col] = what] \in Line
  BY DEF Line
<1>4. marked = [k \in 1..Len(lines) |-> marked[k]] /\ \A k \in 1..Len(lines) : marked[k] \in Line
  BY <1>1, <1>2, <1>3 DEF Marked
<1>5. PICK n \in Nat : n = Len(lines)
  OBVIOUS
<1>6. marked \in [1..n -> Line]
  BY <1>4, <1>5
<1>7. marked \in Seq(Line) /\ Len(marked) = n
  BY <1>6
<1> QED
  BY <1>2, <1>5, <1>7

(* A text has some number of lines. *)
LEMMA LenNat == ASSUME NEW lines \in Seq(Line) PROVE Len(lines) \in Nat
  OBVIOUS

(* The last line is in row r. *)
LastLineIn(r, lines, first) == first + r + 1 = Len(lines)

(* What is written into the last line shows in its cell. *)
LEMMA MarkShows ==
  ASSUME NEW c \in Cpus, NEW lines \in Seq(Line), NEW col \in Nat, NEW what \in Nat, NEW marked,
         marked = Marked(lines, col, what),
         NEW first \in Nat, NEW r \in Nat, r < Rows(c), LastLineIn(r, lines, first),
         NEW x \in Xs, NEW y \in Ys, x \div FW < Columns(c)
  PROVE  Shows(c, marked, first, x, y) =
           IF x \div FW = col /\ y \div FH = r THEN Looks(c, what, x % FW, y % FH)
           ELSE Shows(c, lines, first, x, y)
<1>1. PICK i \in Nat, j \in Nat : i = x \div FW /\ j = y \div FH
  BY CellNat
<1>2. PICK len \in Nat : len = Len(lines) /\ first + r + 1 = len
  BY LenNat DEF LastLineIn
<1>3. /\ Len(marked) = len
      /\ \A k \in 1..len :
           marked[k] = IF k = len THEN [lines[k] EXCEPT ![col] = what] ELSE lines[k]
  BY <1>2, MarkOK
<1>4. i \in 0..((HalfW \div FW) - 1) /\ Rows(c) \in Nat
  BY <1>1, EmptyLineOK
<1>5. \A k \in 1..len : DOMAIN lines[k] = 0..((HalfW \div FW) - 1)
  BY <1>2 DEF Line
<1>6. LineAt(c, marked, first + j)[i] =
        IF i = col /\ j = r THEN what ELSE LineAt(c, lines, first + j)[i]
  <2>1. CASE first + j + 1 <= len
    <3>0. PICK k \in 1..len : k = first + j + 1
      BY <2>1
    <3>1. marked[k][i] = IF k = len /\ i = col THEN what ELSE lines[k][i]
      <4>1. CASE k = len
        <5>1. marked[k] = [lines[k] EXCEPT ![col] = what]
          BY <1>3, <4>1
        <5>2. i \in DOMAIN lines[k]
          BY <1>4, <1>5
        <5> QED
          BY <4>1, <5>1, <5>2
      <4>2. CASE k # len
        BY <1>3, <4>2
      <4> QED
        BY <4>1, <4>2
    <3>2. first + j + 1 = len <=> j = r
      BY <1>1, <1>2
    <3> QED
      BY <1>2, <1>3, <2>1, <3>0, <3>1, <3>2 DEF LineAt
  <2>2. CASE ~(first + j + 1 <= len)
    BY <1>1, <1>2, <1>3, <2>2 DEF LineAt
  <2> QED
    BY <2>1, <2>2
<1> QED
  BY <1>1, <1>4, <1>6 DEF Shows

(* The cursor is in the window. *)
LEMMA CursorInside ==
  ASSUME CoreOK, TextType, NEW c \in Cpus, Rows(c) > 0, CursorOK(c)
  PROVE  /\ text[c].lines \in Seq(Line) /\ Len(text[c].lines) \in Nat
         /\ First(c) \in Nat /\ core[c].x \in Nat /\ core[c].y \in Nat
         /\ core[c].y < Rows(c) /\ First(c) + core[c].y + 1 = Len(text[c].lines)
         /\ First(c) > 0 => core[c].y + 1 = Rows(c)
         /\ core[c].y + 1 < Rows(c) <=> Len(text[c].lines) < Rows(c)
<1>1. text[c].lines \in Seq(Line) /\ Len(text[c].lines) \in Nat
  BY DEF TextType
<1>2. Rows(c) \in Nat
  BY EmptyLineOK
<1>3. core[c].x \in Nat /\ core[c].y \in Nat
  BY DEF CoreOK
<1>4. First(c) \in Nat /\ core[c].y = Len(text[c].lines) - 1 - First(c) /\ Len(text[c].lines) >= 1
  BY <1>1, <1>2 DEF First, CursorOK
<1>5. PICK len \in Nat, rows \in Nat, first \in Nat, y \in Nat :
        /\ len = Len(text[c].lines) /\ rows = Rows(c) /\ first = First(c) /\ y = core[c].y
        /\ first = (IF len > rows THEN len - rows ELSE 0)
  BY <1>1, <1>2, <1>3, <1>4 DEF First
<1>6. y = len - 1 - first /\ len >= 1 /\ rows > 0
  BY <1>4, <1>5
<1>7. /\ y < rows /\ first + y + 1 = len
      /\ (first > 0 => y + 1 = rows)
      /\ (y + 1 < rows <=> len < rows)
  <2>1. CASE len > rows
    <3>1. first = len - rows
      BY <1>5, <2>1
    <3> QED
      BY <1>6, <2>1, <3>1
  <2>2. CASE ~(len > rows)
    <3>1. first = 0
      BY <1>5, <2>2
    <3> QED
      BY <1>6, <2>2, <3>1
  <2> QED
    BY <2>1, <2>2
<1> QED
  BY <1>1, <1>3, <1>4, <1>5, <1>7

(* The text of one core changes. *)
LEMMA TextStep ==
  ASSUME TextType, NEW c \in Cpus, NEW t \in [lines : Seq(Line), col : Nat],
         text' = [text EXCEPT ![c] = t]
  PROVE  TextType' /\ text'[c] = t /\ \A d \in Cpus \ {c} : text'[d] = text[d]
<1>1. Line' = Line
  BY DEF Line, HalfW
<1> QED
  BY <1>1 DEF TextType

(* Wrapping gives a text. *)
LEMMA WrappedOK ==
  ASSUME NEW c \in Cpus, NEW lines \in Seq(Line), NEW x \in Nat
  PROVE  Wrapped(c, lines, x) \in [lines : Seq(Line), col : Nat]
<1>1. Append(lines, EmptyLine(c)) \in Seq(Line)
  BY EmptyLineOK
<1> QED
  BY <1>1 DEF Wrapped

(* Once the character is drawn, the cursor goes on; at the right edge the  *)
(* text gets a line and, if it no longer fits, a window to be scrolled.    *)
LEMMA Wraps ==
  ASSUME CoreOK, TextType, NEW c \in Cpus, Rows(c) > 0, Columns(c) > 0, CursorOK(c),
         NEW lines \in Seq(Line), Len(lines) = Len(text[c].lines),
         NEW col \in Nat, col <= Columns(c), Advance(c, col, core[c].y),
         text'[c] = Wrapped(c, lines, col),
         \A x \in Xs, y \in Ys :
           x \div FW < Columns(c) => Pixel(c, x, y)' = Shows(c, lines, First(c), x, y)
  PROVE  ConsoleOK(c)'
<1>1. PICK len \in Nat, rows \in Nat, cols \in Nat, first \in Nat, r \in Nat :
        /\ len = Len(lines) /\ rows = Rows(c) /\ cols = Columns(c) /\ first = First(c)
        /\ r = core[c].y /\ rows > 0 /\ cols > 0 /\ len >= 1
  BY CursorInside, EmptyLineOK DEF CursorOK
<1>2. /\ r < rows /\ first + r + 1 = len /\ (r + 1 < rows <=> len < rows)
      /\ first = (IF len > rows THEN len - rows ELSE 0)
  BY <1>1, CursorInside DEF First
<1>3. PICK k, t : k = core'[c] /\ t = text'[c]
  OBVIOUS
<1>6. /\ r = len - 1 - first /\ r = (len + 1) - 1 - (first + 1)
      /\ r + 1 = (len + 1) - 1 - first /\ len >= 1 /\ len + 1 >= 1
  BY <1>2
<1>7. /\ r + 1 >= rows => len >= rows /\ first = len - rows
      /\ ~(r + 1 >= rows) => len < rows /\ first = 0
  <2>1. CASE len > rows
    BY <1>2, <2>1
  <2>2. CASE ~(len > rows)
    BY <1>2, <2>2
  <2> QED
    BY <2>1, <2>2
<1>4. CASE col < cols
  <2>1. k.pc = "idle" /\ k.x = col /\ k.y = r
    BY <1>1, <1>3, <1>4 DEF Advance, CoreOK
  <2>2. t.lines = lines /\ t.col = col
    BY <1>1, <1>3, <1>4 DEF Wrapped
  <2>7. Len(t.lines) = len
    BY <1>1, <2>2
  <2>3. k.y = Len(t.lines) - 1 - first /\ k.x < Columns(c) /\ Len(t.lines) >= 1
    BY <1>1, <1>4, <1>6, <2>1, <2>7
  <2>4. first = (IF Len(t.lines) > Rows(c) THEN Len(t.lines) - Rows(c) ELSE 0)
    BY <1>1, <1>2, <2>2
  <2>5. \A x \in Xs, y \in Ys :
          x \div FW < Columns(c) => Pixel(c, x, y)' = Shows(c, t.lines, first, x, y)
    BY <1>1, <2>2
  <2>6. t.col = k.x
    BY <2>1, <2>2
  <2>8. Cursor(c, k, t, first)
    BY <2>3, <2>4, <2>6 DEF Cursor
  <2>9. k.pc = "idle"
    BY <2>1
  <2> QED
    BY <1>3, <2>5, <2>8, <2>9, AfterIdle
<1>5. CASE ~(col < cols)
  <2>1. /\ k.pc = (IF r + 1 >= rows THEN "scroll" ELSE "idle") /\ k.x = 0 /\ k.row = 0
        /\ k.y = (IF r + 1 >= rows THEN r ELSE r + 1)
    BY <1>1, <1>3, <1>5 DEF Advance, CoreOK
  <2>2. t.lines = Append(lines, EmptyLine(c)) /\ t.col = 0
    BY <1>1, <1>3, <1>5 DEF Wrapped
  <2>3. Len(t.lines) = len + 1 /\ t.lines[Len(t.lines)] = EmptyLine(c)
    BY <1>1, <2>2
  <2>4. \A x \in Xs, y \in Ys :
          x \div FW < Columns(c) => Pixel(c, x, y)' = Shows(c, t.lines, first, x, y)
    BY <1>1, <2>2, NewLine
  <2>5. CASE r + 1 >= rows
    <3>1. PICK f \in Nat : f = first + 1
      OBVIOUS
    <3>2. len >= rows /\ first = len - rows
      BY <1>7, <2>5
    <3>3. k.pc = "scroll" /\ k.y = r
      BY <2>1, <2>5
    <3>4. k.row <= HalfH - FH
      <4>1. HalfH \div FH > 0 /\ HalfH \in Nat /\ FH \in Nat \ {0}
        BY <1>1, EmptyLineOK, HalfSizes, ScreenAssumption
      <4>2. FH <= HalfH
        BY <4>1
      <4> QED
        BY <2>1, <4>1, <4>2
    <3>5. \A x \in Xs, y \in Ys :
            x \div FW < Columns(c) =>
              Pixel(c, x, y)' = Shows(c, t.lines, IF y < k.row THEN f ELSE first, x, y)
      <4>1. \A y \in Ys : ~(y < k.row)
        BY <2>1, HalfSizes DEF Ys
      <4> QED
        BY <2>4, <4>1
    <3>6. Len(t.lines) > Rows(c) /\ Len(t.lines) >= 1 /\ k.y = Len(t.lines) - 1 - f
      <4>1. Len(t.lines) > Rows(c)
        BY <1>1, <2>3, <3>2
      <4> QED
        BY <1>6, <2>3, <3>1, <3>3, <4>1
    <3>7. f = (IF Len(t.lines) > Rows(c) THEN Len(t.lines) - Rows(c) ELSE 0)
      BY <1>1, <2>3, <3>1, <3>2
    <3>8. t.col = k.x /\ k.x = 0 /\ 0 < Columns(c)
      BY <1>1, <2>1, <2>2
    <3>9. k.pc = "scroll" /\ t.lines[Len(t.lines)] = EmptyLine(c)
      BY <2>3, <3>3
    <3>10. Cursor(c, k, t, f)
      BY <3>6, <3>7, <3>8 DEF Cursor
    <3>11. Scrolling(c, k, t)
      BY <3>4, <3>6, <3>8, <3>9 DEF Scrolling
    <3>12. first = f - 1
      BY <3>1
    <3> QED
      BY <1>3, <3>5, <3>10, <3>11, <3>12, AfterScroll
  <2>6. CASE ~(r + 1 >= rows)
    <3>1. len < rows /\ first = 0
      BY <1>7, <2>6
    <3>2. k.pc = "idle" /\ k.y = r + 1
      BY <2>1, <2>6
    <3>3. first = (IF Len(t.lines) > Rows(c) THEN Len(t.lines) - Rows(c) ELSE 0)
      BY <1>1, <2>3, <3>1
    <3>4. k.y = Len(t.lines) - 1 - first /\ Len(t.lines) >= 1
      BY <1>6, <2>3, <3>2
    <3>5. t.col = k.x /\ k.x < Columns(c)
      BY <1>1, <2>1, <2>2
    <3>6. k.pc = "idle"
      BY <3>2
    <3>7. Cursor(c, k, t, first)
      BY <3>3, <3>4, <3>5 DEF Cursor
    <3> QED
      BY <1>3, <2>4, <3>6, <3>7, AfterIdle
  <2> QED
    BY <2>5, <2>6
<1> QED
  BY <1>4, <1>5

(* Core c leaves the text well formed, that of the others as it was, and   *)
(* its own window, when there is room for a character in it, as it should  *)
(* be.                                                                     *)
Kept(c) ==
  /\ TextType'
  /\ \A d \in Cpus \ {c} : text'[d] = text[d]
  /\ Columns(c) > 0 /\ Rows(c) > 0 /\ ConsoleOK(c) => ConsoleOK(c)'

(* A character. *)
LEMMA PutCharKeeps ==
  ASSUME CoreOK, TextType, NEW c \in Cpus, PutChar(c) PROVE Kept(c)
<1>1. PICK lines \in Seq(Line), col \in Nat : lines = text[c].lines /\ col = text[c].col
  BY DEF TextType
<1>2. PICK glyph \in 0..1 : glyph = core[c].out % 2
  BY DEF CoreOK
<1>3. PICK marked : marked = Marked(lines, col, glyph)
  OBVIOUS
<1>4. marked \in Seq(Line) /\ Len(marked) = Len(lines)
  BY <1>3, MarkOK
<1>5. text' = [text EXCEPT ![c] = Wrapped(c, marked, col + 1)]
  BY <1>1, <1>2, <1>3 DEF PutChar, Mark, Marked
<1>6. /\ TextType' /\ text'[c] = Wrapped(c, marked, col + 1)
      /\ \A d \in Cpus \ {c} : text'[d] = text[d]
  <2>1. PICK t \in [lines : Seq(Line), col : Nat] : t = Wrapped(c, marked, col + 1)
    BY <1>4, WrappedOK
  <2> QED
    BY <1>5, <2>1, TextStep
<1>7. ASSUME Columns(c) > 0, Rows(c) > 0, ConsoleOK(c) PROVE ConsoleOK(c)'
  <2>1. CursorOK(c) /\ core[c].pc = "idle"
    BY <1>7 DEF ConsoleOK, PutChar, Writes
  <2>2. PICK first \in Nat, r \in Nat :
          first = First(c) /\ r = core[c].y /\ r < Rows(c) /\ LastLineIn(r, lines, first)
    BY <1>1, <1>7, <2>1, CursorInside DEF LastLineIn
  <2>3. core[c].x = col /\ col < Columns(c)
    BY <1>1, <2>1 DEF CursorOK
  <2>4. memory' = gfx_put_char(Window(c), col * FW, r * FH, glyph)
    BY <1>2, <2>2, <2>3 DEF PutChar
  <2>5. ASSUME NEW x \in Xs, NEW y \in Ys, x \div FW < Columns(c)
        PROVE  Pixel(c, x, y)' = Shows(c, marked, first, x, y)
    <3>1. Pixel(c, x, y)' = IF x \div FW = col /\ y \div FH = r
                             THEN IF Lit(glyph, x % FW, y % FH) THEN White ELSE Window(c).bg
                             ELSE Pixel(c, x, y)
      BY <2>4, CharPixel
    <3>2. Pixel(c, x, y) = Shows(c, lines, first, x, y)
      BY <1>1, <1>7, <2>1, <2>2, <2>5 DEF ConsoleOK, ShownIdle
    <3>3. Shows(c, marked, first, x, y) =
            IF x \div FW = col /\ y \div FH = r THEN Looks(c, glyph, x % FW, y % FH)
            ELSE Shows(c, lines, first, x, y)
      BY <1>3, <2>2, <2>5, MarkShows
    <3>4. Looks(c, glyph, x % FW, y % FH) =
            IF Lit(glyph, x % FW, y % FH) THEN White ELSE Window(c).bg
      BY DEF Looks, Blank, Block
    <3> QED
      BY <3>1, <3>2, <3>3, <3>4
  <2>6. Advance(c, col + 1, core[c].y)
    BY <2>3 DEF PutChar
  <2>7. PICK next \in Nat : next = col + 1 /\ next <= Columns(c)
    BY <2>3, EmptyLineOK
  <2> QED
    BY <1>1, <1>4, <1>6, <1>7, <2>1, <2>2, <2>5, <2>6, <2>7, Wraps
<1> QED
  BY <1>6, <1>7 DEF Kept

(* A new line. *)
LEMMA PutNewlineKeeps ==
  ASSUME CoreOK, TextType, NEW c \in Cpus, PutNewline(c) PROVE Kept(c)
<1>1. PICK lines \in Seq(Line) : lines = text[c].lines
  BY DEF TextType
<1>2. PICK col \in Nat : col = Columns(c)
  BY EmptyLineOK
<1>3. text' = [text EXCEPT ![c] = Wrapped(c, lines, col)]
  BY <1>1, <1>2 DEF PutNewline
<1>4. /\ TextType' /\ text'[c] = Wrapped(c, lines, col)
      /\ \A d \in Cpus \ {c} : text'[d] = text[d]
  BY <1>3, WrappedOK, TextStep
<1>5. ASSUME Columns(c) > 0, Rows(c) > 0, ConsoleOK(c) PROVE ConsoleOK(c)'
  <2>1. CursorOK(c) /\ core[c].pc = "idle" /\ Advance(c, col, core[c].y)
    BY <1>2, <1>5 DEF ConsoleOK, PutNewline, Writes
  <2>2. \A x \in Xs, y \in Ys :
          x \div FW < Columns(c) => Pixel(c, x, y)' = Shows(c, lines, First(c), x, y)
    <3>1. memory' = memory
      BY DEF PutNewline
    <3>2. \A x, y : Pixel(c, x, y)' = Pixel(c, x, y)
      BY <3>1 DEF Pixel, At, Window, gfx_window, MainWindow, RightCore, LowerCore, HalfW, HalfH,
                  Mini
    <3> QED
      BY <1>1, <1>5, <2>1, <3>2 DEF ConsoleOK, ShownIdle
  <2>3. col <= Columns(c) /\ Len(lines) = Len(text[c].lines)
    BY <1>1, <1>2
  <2> QED
    BY <1>4, <1>5, <2>1, <2>2, <2>3, Wraps
<1> QED
  BY <1>4, <1>5 DEF Kept

(* The block at the cursor. *)
LEMMA FlushKeeps ==
  ASSUME CoreOK, TextType, NEW c \in Cpus, gfx_cons_flush(c) PROVE Kept(c)
<1>1. PICK lines \in Seq(Line), col \in Nat : lines = text[c].lines /\ col = text[c].col
  BY DEF TextType
<1>2. PICK marked : marked = Marked(lines, col, Block)
  OBVIOUS
<1>3. marked \in Seq(Line) /\ Len(marked) = Len(lines)
  <2>1. Block \in Nat
    BY DEF Block
  <2> QED
    BY <1>2, <2>1, MarkOK
<1>4. PICK t \in [lines : Seq(Line), col : Nat] : t = [lines |-> marked, col |-> col]
  BY <1>3
<1>5. text' = [text EXCEPT ![c] = t]
  <2>1. text' = [text EXCEPT ![c].lines = marked]
    BY <1>1, <1>2 DEF gfx_cons_flush, Mark, Marked
  <2>2. [text[c] EXCEPT !.lines = marked] = t
    BY <1>1, <1>4 DEF TextType
  <2> QED
    BY <2>1, <2>2 DEF TextType
<1>6. /\ TextType' /\ text'[c] = t
      /\ \A d \in Cpus \ {c} : text'[d] = text[d]
  BY <1>5, TextStep
<1>7. ASSUME Columns(c) > 0, Rows(c) > 0, ConsoleOK(c) PROVE ConsoleOK(c)'
  <2>1. CursorOK(c) /\ core[c].pc = "idle"
    BY <1>7 DEF ConsoleOK, gfx_cons_flush, Writes
  <2>2. PICK first \in Nat, r \in Nat :
          /\ first = First(c) /\ r = core[c].y /\ r < Rows(c) /\ LastLineIn(r, lines, first)
    BY <1>1, <1>7, <2>1, CursorInside DEF LastLineIn
  <2>3. core[c].x = col /\ col < Columns(c)
    BY <1>1, <2>1 DEF CursorOK
  <2>4. memory' = gfx_rect_draw(Window(c), col * FW, r * FH, FW, FH, White)
    BY <2>2, <2>3 DEF gfx_cons_flush
  <2>5. ASSUME NEW x \in Xs, NEW y \in Ys, x \div FW < Columns(c)
        PROVE  Pixel(c, x, y)' = Shows(c, marked, first, x, y)
    <3>1. Pixel(c, x, y)' = IF x \div FW = col /\ y \div FH = r THEN White ELSE Pixel(c, x, y)
      BY <2>4, BlockPixel
    <3>2. Pixel(c, x, y) = Shows(c, lines, first, x, y)
      BY <1>1, <1>7, <2>1, <2>2, <2>5 DEF ConsoleOK, ShownIdle
    <3>3. Shows(c, marked, first, x, y) =
            IF x \div FW = col /\ y \div FH = r THEN Looks(c, Block, x % FW, y % FH)
            ELSE Shows(c, lines, first, x, y)
      <4>1. Block \in Nat
        BY DEF Block
      <4> QED
        BY <1>2, <2>2, <2>5, <4>1, MarkShows
    <3>4. Looks(c, Block, x % FW, y % FH) = White
      BY DEF Looks, Blank, Block
    <3> QED
      BY <3>1, <3>2, <3>3, <3>4
  <2>6. PICK k : k = core'[c]
    OBVIOUS
  <2>7. k.pc = "idle" /\ k.x = core[c].x /\ k.y = core[c].y
    BY <2>1, <2>6 DEF gfx_cons_flush, CoreOK
  <2>8. t.lines = marked /\ t.col = k.x /\ k.x < Columns(c)
    BY <1>4, <2>3, <2>7
  <2>9. /\ first = (IF Len(t.lines) > Rows(c) THEN Len(t.lines) - Rows(c) ELSE 0)
        /\ Len(t.lines) >= 1 /\ k.y = Len(t.lines) - 1 - first
    BY <1>1, <1>3, <2>1, <2>2, <2>7, <2>8 DEF First, CursorOK
  <2>10. k.pc = "idle" /\ t.col = k.x /\ k.x < Columns(c)
    BY <2>7, <2>8
  <2>11. \A x \in Xs, y \in Ys :
           x \div FW < Columns(c) => Pixel(c, x, y)' = Shows(c, t.lines, first, x, y)
    BY <2>5, <2>8
  <2>12. Cursor(c, k, t, first)
    BY <2>9, <2>10 DEF Cursor
  <2>13. k.pc = "idle"
    BY <2>7
  <2> QED
    BY <1>6, <2>6, <2>11, <2>12, <2>13, AfterIdle
<1> QED
  BY <1>6, <1>7 DEF Kept

(* A cell of an empty line. *)
LEMMA EmptyShows ==
  ASSUME NEW c \in Cpus, NEW lines, NEW first \in Nat, NEW x \in Xs, NEW y \in Ys,
         x \div FW < Columns(c), LineAt(c, lines, first + (y \div FH)) = EmptyLine(c)
  PROVE  Shows(c, lines, first, x, y) = Window(c).bg
<1>1. x \div FW \in 0..(Columns(c) - 1)
  BY CellNat, EmptyLineOK
<1>2. EmptyLine(c)[x \div FW] = Blank
  BY <1>1 DEF EmptyLine
<1>3. PICK what : what = LineAt(c, lines, first + (y \div FH))[x \div FW] /\ what = Blank
  BY <1>2
<1>4. Looks(c, what, x % FW, y % FH) = Window(c).bg
  BY <1>3 DEF Looks, Blank, Block
<1> QED
  BY <1>3, <1>4 DEF Shows

(* What the window shows from its last row of cells on when the last line  *)
(* is empty.                                                               *)
LEMMA LastRows ==
  ASSUME NEW c \in Cpus, NEW lines \in Seq(Line), NEW first \in Nat, NEW x \in Xs, NEW y \in Ys,
         x \div FW < Columns(c), lines[Len(lines)] = EmptyLine(c),
         first + Rows(c) = Len(lines), (y \div FH) + 1 >= Rows(c)
  PROVE  Shows(c, lines, first, x, y) = Window(c).bg
<1>1. PICK j \in Nat, rows \in Nat, len \in Nat :
        j = y \div FH /\ rows = Rows(c) /\ len = Len(lines) /\ first + rows = len /\ j + 1 >= rows
  BY CellNat, EmptyLineOK, LenNat
<1>2. CASE j < rows
  <2>1. first + j + 1 = len
    BY <1>1, <1>2
  <2>2. LineAt(c, lines, first + j) = EmptyLine(c)
    BY <1>1, <2>1 DEF LineAt
  <2> QED
    BY <1>1, <2>2, EmptyShows
<1>3. CASE ~(j < rows)
  BY <1>1, <1>3 DEF Shows
<1> QED
  BY <1>2, <1>3

(* A row of pixels moved up by a character shows the next line there.      *)
LEMMA RowBelow ==
  ASSUME NEW c \in Cpus, NEW lines \in Seq(Line), NEW f \in Nat, NEW first \in Nat,
         first = f + 1, NEW x \in Xs, NEW y \in Ys, NEW z \in Ys, z = y + FH,
         x \div FW < Columns(c), lines[Len(lines)] = EmptyLine(c), first + Rows(c) = Len(lines)
  PROVE  Shows(c, lines, f, x, z) = Shows(c, lines, first, x, y)
<1>1. PICK j \in Nat, rows \in Nat :  j = y \div FH /\ rows = Rows(c)
  BY CellNat, EmptyLineOK
<1>2. z \div FH = j + 1 /\ z % FH = y % FH
  <2>1. y \in Nat /\ FH \in Nat \ {0}
    BY HalfSizes, ScreenAssumption DEF Ys
  <2> QED
    BY <1>1, <2>1, NextCell
<1>3. CASE j + 1 < rows
  <2>1. f + (j + 1) = first + j /\ j < rows
    BY <1>1, <1>3
  <2> QED
    BY <1>1, <1>2, <1>3, <2>1 DEF Shows
<1>4. CASE ~(j + 1 < rows)
  <2>1. Shows(c, lines, f, x, z) = Window(c).bg
    BY <1>1, <1>2, <1>4 DEF Shows
  <2>2. j + 1 >= rows
    BY <1>1, <1>4
  <2>3. Shows(c, lines, first, x, y) = Window(c).bg
    BY <1>1, <2>2, LastRows
  <2> QED
    BY <2>1, <2>3
<1> QED
  BY <1>3, <1>4

(* The start of a console. *)
LEMMA BootstrapKeeps ==
  ASSUME CoreOK, TextType, NEW c \in Cpus, cons_bootstrap(c) PROVE Kept(c)
<1>1. text' = text /\ Line' = Line
  BY DEF cons_bootstrap, Line, HalfW
<1>2. TextType' /\ \A d \in Cpus \ {c} : text'[d] = text[d]
  BY <1>1 DEF TextType
<1>3. ASSUME Columns(c) > 0, Rows(c) > 0, ConsoleOK(c) PROVE ConsoleOK(c)'
  <2>1. text[c] = [lines |-> <<EmptyLine(c)>>, col |-> 0]
    BY <1>3 DEF ConsoleOK, Unwritten, cons_bootstrap
  <2>2. PICK k, t : k = core'[c] /\ t = text'[c]
    OBVIOUS
  <2>3. k.pc = "idle" /\ k.x = 0 /\ k.y = 0
    BY <2>2 DEF cons_bootstrap, CoreOK
  <2>4. t.lines = <<EmptyLine(c)>> /\ t.col = 0 /\ Len(t.lines) = 1
    BY <1>1, <2>1, <2>2
  <2>5. memory' = gfx_rect_draw(Window(c), 0, 0, HalfW, HalfH, Window(c).bg)
    BY DEF cons_bootstrap
  <2>6. \A x \in Xs, y \in Ys : Pixel(c, x, y)' = Window(c).bg
    <3>1. HalfH \in Nat /\ 0 + HalfH = HalfH
      BY HalfSizes
    <3>2. \A y \in Ys : y >= 0
      BY HalfSizes DEF Ys
    <3> QED
      BY <2>5, <3>1, <3>2, RowsPixel
  <2>7. PICK first \in Nat : first = 0
    OBVIOUS
  <2>8. \A x \in Xs, y \in Ys :
          x \div FW < Columns(c) => Pixel(c, x, y)' = Shows(c, t.lines, first, x, y)
    <3>1. \A n \in Nat : LineAt(c, t.lines, n) = EmptyLine(c)
      BY <2>4 DEF LineAt
    <3>2. ASSUME NEW x \in Xs, NEW y \in Ys PROVE first + (y \div FH) \in Nat
      BY CellNat
    <3> QED
      BY <2>6, <3>1, <3>2, EmptyShows
  <2>9. first = (IF Len(t.lines) > Rows(c) THEN Len(t.lines) - Rows(c) ELSE 0)
    BY <1>3, <2>4, <2>7, EmptyLineOK
  <2>10. k.y = Len(t.lines) - 1 - first /\ Len(t.lines) >= 1
    BY <2>3, <2>4, <2>7
  <2>11. k.pc = "idle" /\ t.col = k.x /\ k.x < Columns(c)
    BY <1>3, <2>3, <2>4
  <2>12. Cursor(c, k, t, first)
    BY <2>9, <2>10, <2>11 DEF Cursor
  <2>13. k.pc = "idle"
    BY <2>3
  <2> QED
    BY <2>2, <2>8, <2>12, <2>13, AfterIdle
<1> QED
  BY <1>2, <1>3 DEF Kept

(* A row of pixels is moved up. *)
LEMMA ScrollRowKeeps ==
  ASSUME CoreOK, TextType, NEW c \in Cpus, ScrollRow(c) PROVE Kept(c)
<1>1. text' = text /\ Line' = Line
  BY DEF ScrollRow, Line, HalfW
<1>2. TextType' /\ \A d \in Cpus \ {c} : text'[d] = text[d]
  BY <1>1 DEF TextType
<1>3. ASSUME Columns(c) > 0, Rows(c) > 0, ConsoleOK(c) PROVE ConsoleOK(c)'
  <2>1. CursorOK(c) /\ core[c].pc = "scroll"
    BY <1>3 DEF ConsoleOK, ScrollRow
  <2>2. PICK k, t : k = core'[c] /\ t = text'[c]
    OBVIOUS
  <2>3. PICK row \in Nat, next \in Nat : row = core[c].row /\ next = row + 1
    BY DEF CoreOK
  <2>4. k.pc = "scroll" /\ k.x = core[c].x /\ k.y = core[c].y /\ k.row = next
    BY <2>1, <2>2, <2>3 DEF ScrollRow, CoreOK
  <2>5. t = text[c] /\ t.lines \in Seq(Line)
    BY <1>1, <2>2 DEF TextType
  <2>6. /\ Len(t.lines) > Rows(c) /\ t.lines[Len(t.lines)] = EmptyLine(c) /\ k.x = 0
        /\ Len(t.lines) >= 1 /\ t.col = k.x
    BY <1>3, <2>1, <2>4, <2>5 DEF ConsoleOK, ShownScrolling, CursorOK
  <2>7. PICK first \in Nat, f \in Nat : first = First(c) /\ first = f + 1
    <3>1. First(c) \in Nat /\ First(c) > 0
      BY <2>5, <2>6, EmptyLineOK, LenNat DEF First
    <3>2. First(c) - 1 \in Nat /\ First(c) = (First(c) - 1) + 1
      BY <3>1
    <3> QED
      BY <3>1, <3>2
  <2>8. /\ first = (IF Len(t.lines) > Rows(c) THEN Len(t.lines) - Rows(c) ELSE 0)
        /\ k.y = Len(t.lines) - 1 - first
    BY <2>1, <2>4, <2>5, <2>7 DEF First, CursorOK
  <2>9. first + Rows(c) = Len(t.lines)
    BY <2>5, <2>6, <2>8, EmptyLineOK, LenNat
  <2>10. /\ row < HalfH - FH
         /\ memory' = MoveRow(Window(c), Window(c).width, Window(c).x, Window(c).y + FH + row,
                              Window(c).x, Window(c).y + row)
    BY <2>3, WindowIsQuarter DEF ScrollRow
  <2>11. PICK below \in Ys : below = row + FH /\ ~(below < row)
    <3>1. HalfH \in Nat /\ FH \in Nat \ {0}
      BY HalfSizes, ScreenAssumption
    <3> QED
      BY <2>10, <3>1 DEF Ys
  <2>12. \A x \in Xs, y \in Ys :
           x \div FW < Columns(c) =>
             Pixel(c, x, y) = Shows(c, t.lines, IF y < row THEN first ELSE f, x, y)
    <3>1. first - 1 = f
      BY <2>7
    <3> QED
      BY <1>3, <2>1, <2>3, <2>5, <2>7, <3>1 DEF ConsoleOK, ShownScrolling
  <2>13. ASSUME NEW x \in Xs, NEW y \in Ys, x \div FW < Columns(c)
         PROVE  Pixel(c, x, y)' = Shows(c, t.lines, IF y < next THEN first ELSE f, x, y)
    <3>1. Pixel(c, x, y)' = IF y = row THEN Pixel(c, x, below) ELSE Pixel(c, x, y)
      BY <2>10, <2>11, MovedPixel
    <3>2. Pixel(c, x, below) = Shows(c, t.lines, f, x, below)
      BY <2>11, <2>12, <2>13
    <3>3. y = row => Shows(c, t.lines, f, x, below) = Shows(c, t.lines, first, x, y)
      BY <2>5, <2>6, <2>7, <2>9, <2>11, <2>13, RowBelow
    <3>4. y \in Nat
      BY HalfSizes DEF Ys
    <3>5. CASE y = row
      <4>1. y < next
        BY <2>3, <3>5
      <4> QED
        BY <3>1, <3>2, <3>3, <3>5, <4>1
    <3>6. CASE y # row
      <4>1. (y < next) = (y < row)
        BY <2>3, <3>4, <3>6
      <4> QED
        BY <2>12, <2>13, <3>1, <3>6, <4>1
    <3> QED
      BY <3>5, <3>6
  <2>14. \A x \in Xs, y \in Ys :
           x \div FW < Columns(c) =>
             Pixel(c, x, y)' = Shows(c, t.lines, IF y < k.row THEN first ELSE f, x, y)
    BY <2>4, <2>13
  <2>15. k.row <= HalfH - FH
    BY <2>3, <2>4, <2>10, HalfSizes, ScreenAssumption
  <2>16. k.pc = "scroll" /\ t.col = k.x /\ k.x = 0 /\ 0 < Columns(c)
    BY <1>3, <2>4, <2>6
  <2>17. t.lines[Len(t.lines)] = EmptyLine(c) /\ Len(t.lines) > Rows(c) /\ Len(t.lines) >= 1
    BY <2>6
  <2>18. Cursor(c, k, t, first)
    BY <2>8, <2>16, <2>17 DEF Cursor
  <2>19. Scrolling(c, k, t)
    BY <2>15, <2>16, <2>17 DEF Scrolling
  <2>20. f = first - 1
    BY <2>7
  <2> QED
    BY <2>2, <2>14, <2>18, <2>19, <2>20, AfterScroll
<1> QED
  BY <1>2, <1>3 DEF Kept

(* The last row of cells is cleared. *)
LEMMA ScrollBlankKeeps ==
  ASSUME CoreOK, TextType, NEW c \in Cpus, ScrollBlank(c) PROVE Kept(c)
<1>1. text' = text /\ Line' = Line
  BY DEF ScrollBlank, Line, HalfW
<1>2. TextType' /\ \A d \in Cpus \ {c} : text'[d] = text[d]
  BY <1>1 DEF TextType
<1>3. ASSUME Columns(c) > 0, Rows(c) > 0, ConsoleOK(c) PROVE ConsoleOK(c)'
  <2>1. CursorOK(c) /\ core[c].pc = "scroll"
    BY <1>3 DEF ConsoleOK, ScrollBlank
  <2>2. PICK k, t : k = core'[c] /\ t = text'[c]
    OBVIOUS
  <2>3. PICK row \in Nat : row = core[c].row
    BY DEF CoreOK
  <2>4. k.pc = "idle" /\ k.x = core[c].x /\ k.y = core[c].y
    BY <2>1, <2>2 DEF ScrollBlank, CoreOK
  <2>5. t = text[c] /\ t.lines \in Seq(Line)
    BY <1>1, <2>2 DEF TextType
  <2>6. /\ Len(t.lines) > Rows(c) /\ t.lines[Len(t.lines)] = EmptyLine(c)
        /\ Len(t.lines) >= 1 /\ t.col = k.x /\ k.x < Columns(c)
    BY <1>3, <2>1, <2>4, <2>5 DEF ConsoleOK, ShownScrolling, CursorOK
  <2>7. PICK first \in Nat : first = First(c)
    BY <2>5, EmptyLineOK, LenNat DEF First
  <2>8. /\ first = (IF Len(t.lines) > Rows(c) THEN Len(t.lines) - Rows(c) ELSE 0)
        /\ k.y = Len(t.lines) - 1 - first
    BY <2>1, <2>4, <2>5, <2>7 DEF First, CursorOK
  <2>9. first + Rows(c) = Len(t.lines)
    BY <2>5, <2>6, <2>8, EmptyLineOK, LenNat
  <2>10. /\ row = HalfH - FH /\ row + FH = HalfH /\ FH \in Nat \ {0} /\ HalfH \in Nat
         /\ memory' = gfx_rect_draw(Window(c), 0, row, HalfW, FH, Window(c).bg)
    <3>1. row = HalfH - FH
      BY <2>3, WindowIsQuarter DEF ScrollBlank
    <3>2. memory' = gfx_rect_draw(Window(c), 0, row, HalfW, FH, Window(c).bg)
      BY <3>1, WindowIsQuarter DEF ScrollBlank, BlankFrom
    <3> QED
      BY <3>1, <3>2, HalfSizes, ScreenAssumption
  <2>11. ASSUME NEW x \in Xs, NEW y \in Ys, x \div FW < Columns(c)
         PROVE  Pixel(c, x, y)' = Shows(c, t.lines, first, x, y)
    <3>1. Pixel(c, x, y)' = IF y >= row THEN Window(c).bg ELSE Pixel(c, x, y)
      BY <2>10, RowsPixel
    <3>2. y \in Nat
      BY HalfSizes DEF Ys
    <3>3. CASE y >= row
      <4>1. y \div FH >= Rows(c) - 1
        BY <2>10, <3>2, <3>3, LastCell, EmptyLineOK
      <4>2. (y \div FH) + 1 >= Rows(c)
        BY <4>1, CellNat, EmptyLineOK
      <4>3. Shows(c, t.lines, first, x, y) = Window(c).bg
        BY <2>5, <2>6, <2>9, <2>11, <4>2, LastRows
      <4> QED
        BY <3>1, <3>3, <4>3
    <3>4. CASE ~(y >= row)
      <4>1. y < core[c].row
        BY <2>3, <3>2, <3>4
      <4>2. Pixel(c, x, y) = Shows(c, t.lines, first, x, y)
        BY <1>3, <2>1, <2>5, <2>7, <2>11, <4>1 DEF ConsoleOK, ShownScrolling
      <4> QED
        BY <3>1, <3>4, <4>2
    <3> QED
      BY <3>3, <3>4
  <2>12. k.pc = "idle" /\ t.col = k.x /\ k.x < Columns(c) /\ Len(t.lines) >= 1
    BY <2>4, <2>6
  <2>13. Cursor(c, k, t, first)
    BY <2>8, <2>12 DEF Cursor
  <2>14. k.pc = "idle"
    BY <2>4
  <2> QED
    BY <2>2, <2>11, <2>13, <2>14, AfterIdle
<1> QED
  BY <1>2, <1>3 DEF Kept

-----------------------------------------------------------------------------

(* The messages of the mailbox touch no console. *)
LEMMA MailKeeps ==
  ASSUME ScreenInv, memory' = memory, text' = text,
         core[0].pc \in {"send", "recv"}, NEW next \in {"recv", "boot", "lost"},
         core' = [core EXCEPT ![0].pc = next],
         NEW d \in Cpus, Columns(d) > 0, Rows(d) > 0
  PROVE  ConsoleOK(d)'
<1>1. ConsoleOK(d)
  BY DEF ScreenInv
<1>2. \A x \in Xs, y \in Ys : Pixel(d, x, y)' = Pixel(d, x, y)
  BY DEF Pixel, At, Window, gfx_window, MainWindow, RightCore, LowerCore, HalfW, HalfH, Mini
<1>3. CASE d # 0
  <2>1. core'[d] = core[d]
    BY <1>3 DEF ScreenInv, CoreOK
  <2> QED
    BY <1>1, <1>2, <2>1, OthersStay
<1>4. CASE d = 0
  <2>1. PICK k, t, first : k = core'[d] /\ t = text'[d] /\ first = First(d)
    OBVIOUS
  <2>2. k.pc = next /\ k.x = core[d].x /\ k.y = core[d].y
    BY <1>4, <2>1 DEF ScreenInv, CoreOK
  <2>3. t = text[d] /\ t = [lines |-> <<EmptyLine(d)>>, col |-> 0]
    BY <1>1, <1>4, <2>1 DEF ConsoleOK, Unwritten
  <2>4. /\ Len(t.lines) >= 1 /\ t.col = k.x /\ k.x < Columns(d)
        /\ k.y = Len(t.lines) - 1 - first
        /\ first = (IF Len(t.lines) > Rows(d) THEN Len(t.lines) - Rows(d) ELSE 0)
    BY <1>1, <2>1, <2>2, <2>3 DEF ConsoleOK, CursorOK, First
  <2>5. k.pc # "idle" /\ k.pc # "scroll"
    BY <2>2
  <2> QED
    BY <2>1, <2>3, <2>4, <2>5, Afterwards
<1> QED
  BY <1>3, <1>4

(* A step of one console keeps the invariant of all. *)
LEMMA ConsoleKeeps ==
  ASSUME ScreenInv, NEW c \in Cpus, Console(c)
  PROVE  TextType' /\ \A d \in Cpus : Columns(d) > 0 /\ Rows(d) > 0 => ConsoleOK(d)'
<1>1. CoreOK /\ TextType
  BY DEF ScreenInv
<1>2. Kept(c)
  BY <1>1, BootstrapKeeps, PutCharKeeps, PutNewlineKeeps, FlushKeeps, ScrollRowKeeps,
     ScrollBlankKeeps DEF Console
<1>3. \A p \in Addresses : memory'[p] # memory[p] => p \in Quarter(c)
  BY <1>1, ConsoleStep DEF OwnStep
<1>4. \A d \in Cpus \ {c} : core'[d] = core[d]
  BY <1>1 DEF Console, cons_bootstrap, PutChar, PutNewline, gfx_cons_flush, ScrollRow, ScrollBlank,
              Advance, CoreOK
<1>5. ASSUME NEW d \in Cpus, Columns(d) > 0, Rows(d) > 0 PROVE ConsoleOK(d)'
  <2>1. ConsoleOK(d)
    BY <1>5 DEF ScreenInv
  <2>2. CASE d = c
    BY <1>2, <1>5, <2>1, <2>2 DEF Kept
  <2>3. CASE d # c
    <3>1. \A x \in Xs, y \in Ys : Pixel(d, x, y)' = Pixel(d, x, y)
      BY <1>3, <2>3, OtherPixel
    <3>2. core'[d] = core[d] /\ text'[d] = text[d]
      BY <1>2, <1>4, <2>3 DEF Kept
    <3> QED
      BY <2>1, <3>1, <3>2, OthersStay
  <2> QED
    BY <2>2, <2>3
<1> QED
  BY <1>2, <1>5 DEF Kept

(* Every step keeps the invariant. *)
LEMMA ScreenStep == ScreenInv /\ [Next]_vars => ScreenInv'
<1> SUFFICES ASSUME ScreenInv, [Next]_vars PROVE ScreenInv'
  OBVIOUS
<1>1. CoreOK' /\ InboxOK'
  BY Step DEF ScreenInv
<1>2. TextType' /\ \A d \in Cpus : Columns(d) > 0 /\ Rows(d) > 0 => ConsoleOK(d)'
  <2>1. ASSUME text' = text PROVE TextType'
    BY <2>1 DEF ScreenInv, TextType, Line, HalfW
  <2>2. CASE VideoMode
    <3>1. memory' = memory /\ text' = text
      BY <2>2 DEF VideoMode, vc_mbox_send, vc_mbox_recv
    <3>2. core[0].pc \in {"send", "recv"}
      BY <2>2 DEF VideoMode, vc_mbox_send, vc_mbox_recv
    <3>3. PICK next \in {"recv", "boot", "lost"} : core' = [core EXCEPT ![0].pc = next]
      <4>1. CASE vc_mbox_send
        BY <4>1 DEF vc_mbox_send, Become
      <4>2. CASE vc_mbox_recv
        <5>1. Head(inbox) \in {"ok", "bad", "other"}
          BY <4>2 DEF ScreenInv, InboxOK, vc_mbox_recv, CanRecv
        <5> QED
          BY <4>2, <5>1 DEF vc_mbox_recv
      <4> QED
        BY <2>2, <4>1, <4>2 DEF VideoMode
    <3> QED
      BY <2>1, <3>1, <3>2, <3>3, MailKeeps
  <2>3. CASE VcAnswers \/ VcStray \/ UNCHANGED vars
    <3>1. UNCHANGED <<memory, core, text>>
      BY <2>3 DEF VcAnswers, VcStray, vars
    <3>2. \A d, x, y : Pixel(d, x, y)' = Pixel(d, x, y)
      BY <3>1 DEF Pixel, At, Window, gfx_window, MainWindow, RightCore, LowerCore, HalfW, HalfH,
                  Mini
    <3>3. \A d \in Cpus : core'[d] = core[d] /\ text'[d] = text[d]
      BY <3>1
    <3> QED
      BY <2>1, <3>1, <3>2, <3>3, OthersStay DEF ScreenInv
  <2>4. ASSUME NEW c \in Cpus, Console(c)
        PROVE  TextType' /\ \A d \in Cpus : Columns(d) > 0 /\ Rows(d) > 0 => ConsoleOK(d)'
    BY <2>4, ConsoleKeeps
  <2> QED
    BY <2>2, <2>3, <2>4 DEF Next
<1> QED
  BY <1>1, <1>2, Rigid DEF ScreenInv

(* It holds at the start. *)
LEMMA ScreenInit == Init => ScreenInv
<1> SUFFICES ASSUME Init PROVE ScreenInv
  OBVIOUS
<1>1. CoreOK /\ InboxOK
  BY InitOK
<1>2. ASSUME NEW c \in Cpus
      PROVE  /\ text[c] = [lines |-> <<EmptyLine(c)>>, col |-> 0]
             /\ text[c] \in [lines : Seq(Line), col : Nat]
             /\ core[c].pc \notin {"idle", "scroll"} /\ core[c].x = 0 /\ core[c].y = 0
  <2>1. <<EmptyLine(c)>> \in Seq(Line)
    BY EmptyLineOK
  <2> QED
    BY <2>1 DEF Init
<1>3. TextType
  BY <1>2 DEF Init, TextType
<1>4. ASSUME NEW c \in Cpus, Columns(c) > 0, Rows(c) > 0 PROVE ConsoleOK(c)
  <2>0. text[c] = [lines |-> <<EmptyLine(c)>>, col |-> 0]
    BY <1>2, Zenon
  <2>1. text[c].lines = <<EmptyLine(c)>> /\ text[c].col = 0
    BY <2>0
  <2>3. PICK len \in Nat : len = Len(text[c].lines) /\ len = 1
    BY <2>1
  <2>4. PICK rows \in Nat : rows = Rows(c) /\ ~(len > rows)
    BY <1>4, <2>3, EmptyLineOK
  <2>5. First(c) = 0
    BY <2>3, <2>4 DEF First
  <2>6. core[c].x = 0 /\ core[c].y = 0
    BY <1>2
  <2>2. CursorOK(c)
    BY <1>4, <2>1, <2>3, <2>5, <2>6 DEF CursorOK
  <2> QED
    BY <1>2, <2>2 DEF ConsoleOK, Unwritten, ShownIdle, ShownScrolling
<1> QED
  BY <1>1, <1>3, <1>4 DEF ScreenInv

(* The invariant, read at the pixels of the cells, is the property. *)
LEMMA ScreenInvShows == ScreenInv => ScreenShowsText
<1> SUFFICES ASSUME ScreenInv, NEW c \in Cpus, core[c].pc = "idle",
                    NEW r \in 0..(Rows(c) - 1), NEW col \in 0..(Columns(c) - 1),
                    NEW i \in 0..(FW - 1), NEW j \in 0..(FH - 1)
             PROVE  memory[At(Window(c), col * FW + i, r * FH + j)] =
                      Looks(c, LineAt(c, text[c].lines, First(c) + r)[col], i, j)
  BY EmptyLineOK DEF ScreenShowsText, LineAt, First
<1>1. PICK x \in Nat, y \in Nat : x = col * FW + i /\ y = r * FH + j
  BY ScreenAssumption, EmptyLineOK
<1>2. /\ x \div FW = col /\ x % FW = i /\ y \div FH = r /\ y % FH = j
  <2>1. x = FW * col + i /\ y = FH * r + j
    BY <1>1, ScreenAssumption, EmptyLineOK
  <2>2. /\ FW \in Nat /\ FH \in Nat /\ col \in Nat /\ r \in Nat
        /\ i \in Nat /\ j \in Nat /\ i < FW /\ j < FH
    BY ScreenAssumption, EmptyLineOK
  <2> QED
    BY <2>1, <2>2, RowAndColumn
<1>3. col < Columns(c) /\ r < Rows(c) /\ Columns(c) > 0 /\ Rows(c) > 0
  BY EmptyLineOK
<1>4. x \in Xs /\ y \in Ys
  <2>1. x < HalfW /\ y < HalfH
    BY <1>2, <1>3, CellInside, EmptyLineOK, HalfSizes, ScreenAssumption
  <2> QED
    BY <2>1, HalfSizes DEF Xs, Ys
<1>5. Pixel(c, x, y) = Shows(c, text[c].lines, First(c), x, y)
  BY <1>2, <1>3, <1>4 DEF ScreenInv, ConsoleOK, ShownIdle
<1> QED
  BY <1>1, <1>2, <1>3, <1>5 DEF Pixel, Shows

(* A console between two characters shows exactly the last lines written   *)
(* to it, on a screen and with a font of any size: drawing, wrapping and   *)
(* the scroll by gfx_rect_move, row after row, are right, and no step of   *)
(* another core, which may come between any two of them, disturbs it.      *)
THEOREM ScreenShowsWhatWasWritten == Spec => []ScreenShowsText
<1>1. Spec => []ScreenInv
  BY ScreenInit, ScreenStep, PTL DEF Spec
<1> QED
  BY <1>1, ScreenInvShows, PTL

=============================================================================
