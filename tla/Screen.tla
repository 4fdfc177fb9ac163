------------------------------- MODULE Screen -------------------------------
(***************************************************************************)
(* The screen: how core 0 gets a framebuffer from the VideoCore through    *)
(* the mailbox (vc_mbox.c, gfx_set_videomode), how each core takes a       *)
(* quarter of it (cons_bootstrap) and how its console draws characters and *)
(* scrolls there (gfx_cons.c, gfx.c).  All cores draw in one framebuffer,  *)
(* without a lock; "memory" is the framebuffer, row after row, and the     *)
(* first rows behind it.                                                   *)
(***************************************************************************)
EXTENDS Integers, Sequences

CONSTANTS W, H,       \* width and height asked for: 1280, 800
          FW, FH,     \* width and height of the font: 8, 16
          Quota,      \* bound: how much each core writes
          Depth,      \* messages the mailbox of the ARM holds
          Strays      \* bound: messages for other channels

Cpus == 0..3

ASSUME ScreenAssumption ==
  /\ W \in Nat /\ H \in Nat
  /\ FW \in Nat \ {0} /\ FH \in Nat \ {0}
  /\ Quota \in [Cpus -> Nat]
  /\ Depth \in Nat \ {0}
  /\ Strays \in Nat /\ Strays < Depth

VARIABLES memory,      \* the pixels
          core,        \* what each core does: pc, row, out, and its cons_dev
          inbox,       \* mailbox 0, from the VideoCore
          request,     \* the VideoCore has a message to answer
          strays,      \* messages it still sends to other channels
          text         \* history: what each core wrote, as lines of a terminal

mailbox == <<inbox, request, strays>>
vars == <<memory, core, mailbox, text>>

White == 255
Black == 0
Addresses == 0..(W * (H + FH) - 1)

-----------------------------------------------------------------------------
(* gfx.c: windows and pixels                                               *)

Mini(a, b) == IF a < b THEN a ELSE b

MainWindow ==
  [x |-> 0, y |-> 0, width |-> W, height |-> H, stride |-> W,
   fg |-> White, bg |-> Black]

(* The last bound takes the x of the window where it means its y. *)
gfx_window(main, x, y, width, height) ==
  LET wx == main.x + x
      wy == main.y + y
      beyond == wx > main.x + main.width
      below == ~beyond /\ wy > main.y + main.height
  IN  [x |-> wx, y |-> wy,
       width |-> IF beyond THEN 0
                 ELSE IF below THEN width
                 ELSE Mini(width, main.x + main.width - wx),
       height |-> IF beyond THEN height
                  ELSE IF below THEN 0
                  ELSE IF wy + height > main.y + main.height THEN main.x + main.height - wx
                  ELSE height,
       stride |-> main.stride, fg |-> main.fg, bg |-> main.bg]

(* The pixel (x, y) of a window, in the framebuffer. *)
At(win, x, y) == win.stride * (y + win.y) + x + win.x

(* A picture, a colour for each of its pixels, drawn at (x, y) and clipped *)
(* to the window as in gfx_put_pixel.  A window never reaches over the end *)
(* of a row, so (i, j) is the only pixel of the picture at its address.    *)
Drawn(win, x, y, picture) ==
  [p \in Addresses |->
     LET i == (p % win.stride) - (win.x + x)
         j == (p \div win.stride) - (win.y + y)
     IN  IF <<i, j>> \in DOMAIN picture /\ x + i < win.width /\ y + j < win.height
           THEN picture[<<i, j>>] ELSE memory[p]]

gfx_rect_draw(win, x, y, w, h, colour) ==
  Drawn(win, x, y, [q \in (0..(w - 1)) \X (0..(h - 1)) |-> colour])

(* The two glyphs there are, 0 and 1: the even and the odd rows. *)
Lit(glyph, i, j) == j % 2 = glyph

gfx_put_char(win, x, y, glyph) ==
  Drawn(win, x, y, [q \in (0..(FW - 1)) \X (0..(FH - 1)) |->
                      IF Lit(glyph, q[1], q[2]) THEN win.fg ELSE win.bg])

(* Mutant: the rows lie win.width apart instead of win.stride. *)
MoveRowPacked(win, w, sx, sy, dx, dy) ==
  LET src == win.width * sy + sx
      dst == win.width * dy + dx
  IN  [p \in Addresses |-> IF p \in dst..(dst + w - 1) THEN memory[p - dst + src] ELSE memory[p]]

(* One turn of gfx_rect_move: memmove of a row, with no clipping. *)
MoveRow(win, w, sx, sy, dx, dy) ==
  LET src == win.stride * sy + sx
      dst == win.stride * dy + dx
  IN  [p \in Addresses |-> IF p \in dst..(dst + w - 1) THEN memory[p - dst + src] ELSE memory[p]]

-----------------------------------------------------------------------------
(* vc_mbox.c and gfx_set_videomode: core 0                                 *)

Become(c, pc) == core' = [core EXCEPT ![c].pc = pc]

(* The wait looks at mailbox 0, which it does not write to. *)
vc_mbox_send ==
  /\ core[0].pc = "send"
  /\ Len(inbox) < Depth
  /\ request' = TRUE
  /\ Become(0, "recv")
  /\ UNCHANGED <<memory, inbox, strays, text>>

(* Mutant: the wait for a message tests FULL. *)
CanRecvFull == Len(inbox) = Depth
CanRecv == inbox # <<>>

(* A message of another channel is read and dropped; a bad answer makes    *)
(* gfx_set_videomode return 0, which cons_bootstrap takes for a window.    *)
vc_mbox_recv ==
  /\ core[0].pc = "recv"
  /\ CanRecv
  /\ inbox' = Tail(inbox)
  /\ core' = [core EXCEPT ![0].pc = CASE Head(inbox) = "other" -> "recv"
                                      [] Head(inbox) = "ok" -> "boot"
                                      [] Head(inbox) = "bad" -> "lost"]
  /\ UNCHANGED <<memory, request, strays, text>>

VcAnswers ==
  /\ request
  /\ Len(inbox) < Depth
  /\ \E answer \in {"ok", "bad"} : inbox' = Append(inbox, answer)
  /\ request' = FALSE
  /\ UNCHANGED <<memory, core, strays, text>>

VcStray ==
  /\ strays > 0
  /\ Len(inbox) < Depth
  /\ inbox' = Append(inbox, "other")
  /\ strays' = strays - 1
  /\ UNCHANGED <<memory, core, request, text>>

-----------------------------------------------------------------------------
(* cons_bootstrap, called by core 0 first and by the others in smp_intro,  *)
(* once core 0 has printed its line and woken them.                        *)

HalfW == W \div 2
HalfH == H \div 2
RightCore(c) == c % 2 = 1
LowerCore(c) == c \div 2 = 1

Window(c) ==
  [gfx_window(MainWindow, IF RightCore(c) THEN HalfW ELSE 0,
              IF LowerCore(c) THEN HalfH ELSE 0, HalfW, HalfH)
     EXCEPT !.bg = IF RightCore(c) # LowerCore(c) THEN 16 ELSE 32]

Columns(c) == Window(c).width \div FW
Rows(c) == Window(c).height \div FH

MayStart(c) == c = 0 \/ core[0] = [pc |-> "idle", row |-> 0, out |-> Quota[0],
                                   x |-> core[0].x, y |-> core[0].y]

cons_bootstrap(c) ==
  /\ core[c].pc = "boot"
  /\ MayStart(c)
  /\ memory' = gfx_rect_draw(Window(c), 0, 0, HalfW, HalfH, Window(c).bg)
  /\ core' = [core EXCEPT ![c].pc = "idle", ![c].x = 0, ![c].y = 0]
  /\ UNCHANGED <<mailbox, text>>

-----------------------------------------------------------------------------
(* gfx_cons.c                                                              *)

(* The terminal the history keeps: lines of cells and the place of the     *)
(* next character, which goes to a new line at the right edge.             *)
Blank == 2
Block == 3
EmptyLine(c) == [col \in 0..(Columns(c) - 1) |-> Blank]

Mark(c, what) == [text[c].lines EXCEPT ![Len(text[c].lines)][text[c].col] = what]

Wrapped(c, lines, col) ==
  IF col < Columns(c) THEN [lines |-> lines, col |-> col]
  ELSE [lines |-> Append(lines, EmptyLine(c)), col |-> 0]

Writes(c) == core[c].pc = "idle" /\ core[c].out < Quota[c]

(* next_char and next_line: the cursor (x, y) after a character.  A row    *)
(* too far is taken back at once and the window scrolled.                  *)
Advance(c, x, y) ==
  LET wraps == x >= Columns(c)
      over == wraps /\ y + 1 >= Rows(c)
  IN  core' = [core EXCEPT ![c] =
                 [pc |-> IF over THEN "scroll" ELSE "idle", row |-> 0,
                  out |-> core[c].out + 1,
                  x |-> IF wraps THEN 0 ELSE x,
                  y |-> IF wraps /\ ~over THEN y + 1 ELSE y]]

PutChar(c) ==
  /\ Writes(c)
  /\ LET glyph == core[c].out % 2
     IN  /\ memory' = gfx_put_char(Window(c), core[c].x * FW, core[c].y * FH, glyph)
         /\ text' = [text EXCEPT ![c] = Wrapped(c, Mark(c, glyph), text[c].col + 1)]
  /\ Advance(c, core[c].x + 1, core[c].y)
  /\ UNCHANGED mailbox

PutNewline(c) ==
  /\ Writes(c)
  /\ Advance(c, Columns(c), core[c].y)
  /\ text' = [text EXCEPT ![c] = Wrapped(c, text[c].lines, Columns(c))]
  /\ UNCHANGED <<memory, mailbox>>

(* The end of puts and printf: a block where the next character goes. *)
gfx_cons_flush(c) ==
  /\ Writes(c)
  /\ memory' = gfx_rect_draw(Window(c), core[c].x * FW, core[c].y * FH, FW, FH, White)
  /\ core' = [core EXCEPT ![c].out = @ + 1]
  /\ text' = [text EXCEPT ![c].lines = Mark(c, Block)]
  /\ UNCHANGED mailbox

(* scroll_up, a row of pixels after the other. *)
ScrollRow(c) ==
  /\ core[c].pc = "scroll"
  /\ core[c].row < Window(c).height - FH
  /\ LET win == Window(c)
     IN  memory' = MoveRow(win, win.width, win.x, win.y + FH + core[c].row,
                           win.x, win.y + core[c].row)
  /\ core' = [core EXCEPT ![c].row = @ + 1]
  /\ UNCHANGED <<mailbox, text>>

(* Mutant: the line below the window is cleared. *)
BlankFromBelow(win) == win.height
BlankFrom(win) == win.height - FH

ScrollBlank(c) ==
  /\ core[c].pc = "scroll"
  /\ core[c].row = Window(c).height - FH
  /\ LET win == Window(c)
     IN  memory' = gfx_rect_draw(win, 0, BlankFrom(win), win.width, FH, win.bg)
  /\ core' = [core EXCEPT ![c].pc = "idle", ![c].row = 0]
  /\ UNCHANGED <<mailbox, text>>

-----------------------------------------------------------------------------
Init ==
  /\ memory = [p \in Addresses |-> Black]
  /\ core = [c \in Cpus |-> [pc |-> IF c = 0 THEN "send" ELSE "boot",
                             row |-> 0, out |-> 0, x |-> 0, y |-> 0]]
  /\ inbox = <<>> /\ request = FALSE /\ strays = Strays
  /\ text = [c \in Cpus |-> [lines |-> <<EmptyLine(c)>>, col |-> 0]]

VideoMode == vc_mbox_send \/ vc_mbox_recv

Console(c) ==
  \/ cons_bootstrap(c) \/ PutChar(c) \/ PutNewline(c) \/ gfx_cons_flush(c)
  \/ ScrollRow(c) \/ ScrollBlank(c)

Next == VideoMode \/ VcAnswers \/ VcStray \/ \E c \in Cpus : Console(c)

(* Core 0 runs, and the VideoCore answers what it is asked. *)
Spec == Init /\ [][Next]_vars /\ WF_vars(VideoMode) /\ WF_vars(VcAnswers)

-----------------------------------------------------------------------------
(* Properties                                                              *)

TypeOK ==
  /\ DOMAIN memory = Addresses
  /\ core \in [Cpus -> [pc : {"send", "recv", "lost", "boot", "idle", "scroll"},
                        row : Nat, out : Nat, x : Nat, y : Nat]]
  /\ inbox \in Seq({"ok", "bad", "other"}) /\ Len(inbox) <= Depth
  /\ request \in BOOLEAN
  /\ strays \in 0..Strays

(* What a cell of the terminal looks like in the window of the core. *)
Looks(c, what, i, j) ==
  CASE what = Blank -> Window(c).bg
    [] what = Block -> White
    [] OTHER -> IF Lit(what, i, j) THEN White ELSE Window(c).bg

(* A console between two characters shows the last lines written to it,    *)
(* wrapped at its right edge, however often it scrolled and whatever the   *)
(* other cores drew at the same time (scroll_up, gfx_rect_move, next_char).*)
ScreenShowsText ==
  \A c \in Cpus :
    core[c].pc = "idle" =>
      LET lines == text[c].lines
          first == IF Len(lines) > Rows(c) THEN Len(lines) - Rows(c) ELSE 0
          line(r) == IF first + r + 1 <= Len(lines) THEN lines[first + r + 1] ELSE EmptyLine(c)
      IN  \A r \in 0..(Rows(c) - 1), col \in 0..(Columns(c) - 1) :
            \A i \in 0..(FW - 1), j \in 0..(FH - 1) :
              memory[At(Window(c), col * FW + i, r * FH + j)] = Looks(c, line(r)[col], i, j)

(* The quarter of the screen that belongs to a core. *)
Quarter(c) ==
  {p \in 0..(W * H - 1) : /\ (p % W >= HalfW) = RightCore(c)
                          /\ (p \div W >= HalfH) = LowerCore(c)}

(* A core changes no pixel outside its quarter of the screen: the moves of *)
(* gfx_rect_move, which has "TODO clipping", included.                     *)
OwnWindowOnly ==
  [][\A p \in Addresses :
       memory'[p] # memory[p] => \E c \in Cpus : core'[c] # core[c] /\ p \in Quarter(c)]_vars

(* The wait for the answer of the VideoCore ends, although messages for    *)
(* other channels are dropped on the way and vc_mbox_send waits for room   *)
(* in the mailbox it does not write to: there must never be as many of     *)
(* them as that mailbox holds (vc_mbox.c).                                 *)
VideoModeEnds == <>(core[0].pc \notin {"send", "recv"})

=============================================================================
