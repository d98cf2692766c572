--------------------------------- MODULE XEBlit ---------------------------------
(***************************************************************************)
(* The drawing of processCommand: CLEAR and RECT, pixel by pixel, in the   *)
(* ticks of pollRing.                                                      *)
(*                                                                         *)
(* A tick executes up to MaxPerTick commands.  Coordinates are unsigned    *)
(* words and their sums wrap.  A row of the frame buffer is as long as one *)
(* of the screen (7680 bytes); a pixel is its index from the first.        *)
(***************************************************************************)
EXTENDS Integers, FiniteSets

CONSTANTS Word,         \* 2^32 in the code
          fW, fH,       \* 1920 and 1080
          ClearMax,     \* pixels a CLEAR fills at most (4096)
          MaxPixels,    \* MAX_PER_TICK of RECT (250000)
          MaxPerTick,   \* MAX_PROC_PER_TICK (4)
          Rects         \* payloads of RECT

ASSUME BlitAssumption ==
    /\ fW \in Nat \ {0} /\ fH \in Nat \ {0}
    /\ Word \in Nat /\ fW < Word /\ fH < Word
    /\ ClearMax \in Nat /\ MaxPixels \in Nat \ {0} /\ MaxPerTick \in Nat \ {0}
    /\ Rects \subseteq [x: 0..Word-1, y: 0..Word-1, w: 0..Word-1, h: 0..Word-1]

Stride == fW            \* getStride() is getWidth() * 4

NoRect == [x |-> 0, y |-> 0, w |-> 0, h |-> 0]

VARIABLES
    pc,              \* "tick", "clear", "rect" or "done" with a command
    p,               \* the payload of the RECT in hand
    x0, y0, x1, y1,  \* its clamped corners
    xx, yy, count,   \* the loops
    painted,         \* history: pixels this command has written
    processed,       \* commands executed in this tick
    tickPixels       \* history: writes of this tick

corners == <<x0, y0, x1, y1>>
loop == <<xx, yy, count>>
vars == <<pc, p, corners, loop, painted, processed, tickPixels>>

TypeOK ==
    /\ pc \in {"tick", "clear", "rect", "done"}
    /\ p \in Rects \cup {NoRect}
    /\ x0 \in 0..fW /\ x1 \in 0..fW /\ xx \in 0..fW
    /\ y0 \in 0..fH /\ y1 \in 0..fH /\ yy \in 0..fH
    /\ count \in 0..MaxPixels \cup 0..ClearMax
    /\ painted \subseteq Nat
    /\ processed \in 0..MaxPerTick /\ tickPixels \in Nat

Init ==
    /\ pc = "tick" /\ p = NoRect
    /\ x0 = 0 /\ y0 = 0 /\ x1 = 0 /\ y1 = 0
    /\ xx = 0 /\ yy = 0 /\ count = 0
    /\ painted = {} /\ processed = 0 /\ tickPixels = 0
-----------------------------------------------------------------------------
MIN(a, b) == IF a < b THEN a ELSE b

BeginClear ==
    /\ pc = "tick" /\ processed < MaxPerTick
    /\ pc' = "clear" /\ count' = 0 /\ painted' = {}
    /\ UNCHANGED <<p, corners, xx, yy, processed, tickPixels>>

\* Mutation: the far corners are not clamped to the screen.
BeginRectNoClamp ==
    /\ pc = "tick" /\ processed < MaxPerTick
    /\ \E r \in Rects :
        /\ p' = r
        /\ x0' = MIN(r.x, fW) /\ x1' = (r.x + r.w) % Word
        /\ y0' = MIN(r.y, fH) /\ y1' = (r.y + r.h) % Word
    /\ xx' = x0' /\ yy' = y0' /\ count' = 0 /\ painted' = {}
    /\ pc' = IF x1' > x0' /\ y1' > y0' THEN "rect" ELSE "done"
    /\ UNCHANGED <<processed, tickPixels>>

\* Mutation: the height is clamped from the clamped row, not from p.y.
BeginRectFromClamped ==
    /\ pc = "tick" /\ processed < MaxPerTick
    /\ \E r \in Rects :
        /\ p' = r
        /\ x0' = MIN(r.x, fW) /\ x1' = MIN(x0' + r.w, fW)
        /\ y0' = MIN(r.y, fH) /\ y1' = MIN(y0' + r.h, fH)
    /\ xx' = x0' /\ yy' = y0' /\ count' = 0 /\ painted' = {}
    /\ pc' = IF x1' > x0' /\ y1' > y0' THEN "rect" ELSE "done"
    /\ UNCHANGED <<processed, tickPixels>>

\* Clamp the region; an empty one is left undrawn.
BeginRect ==
    /\ pc = "tick" /\ processed < MaxPerTick
    /\ \E r \in Rects :
        /\ p' = r
        /\ x0' = MIN(r.x, fW) /\ x1' = MIN((r.x + r.w) % Word, fW)
        /\ y0' = MIN(r.y, fH) /\ y1' = MIN((r.y + r.h) % Word, fH)
    /\ xx' = x0' /\ yy' = y0' /\ count' = 0 /\ painted' = {}
    /\ pc' = IF x1' > x0' /\ y1' > y0' THEN "rect" ELSE "done"
    /\ UNCHANGED <<processed, tickPixels>>

Paint(pixel) == /\ painted' = painted \cup {pixel}
                /\ tickPixels' = tickPixels + 1

\* CLEAR runs over the pixels as one line, from the first.
ClearPixel ==
    /\ pc = "clear"
    /\ IF count < fW * fH /\ count < ClearMax
       THEN Paint(count) /\ count' = count + 1 /\ UNCHANGED pc
       ELSE pc' = "done" /\ UNCHANGED <<painted, tickPixels, count>>
    /\ UNCHANGED <<p, corners, xx, yy, processed>>

\* Mutation: row and column are swapped.
RectPixelSwapped ==
    /\ pc = "rect"
    /\ Paint(xx * Stride + yy)
    /\ count' = count + 1
    /\ IF count' >= MaxPixels THEN pc' = "done" /\ UNCHANGED <<xx, yy>>
       ELSE IF xx + 1 < x1 THEN xx' = xx + 1 /\ UNCHANGED <<pc, yy>>
       ELSE IF yy + 1 < y1 THEN xx' = x0 /\ yy' = yy + 1 /\ UNCHANGED pc
       ELSE pc' = "done" /\ UNCHANGED <<xx, yy>>
    /\ UNCHANGED <<p, corners, processed>>

\* Mutation: at the limit only the inner loop is left, not the outer one.
RectPixelBreaksRow ==
    /\ pc = "rect"
    /\ Paint(yy * Stride + xx)
    /\ count' = count + 1
    /\ IF count' < MaxPixels /\ xx + 1 < x1
       THEN xx' = xx + 1 /\ UNCHANGED <<pc, yy>>
       ELSE IF yy + 1 < y1 THEN xx' = x0 /\ yy' = yy + 1 /\ UNCHANGED pc
       ELSE pc' = "done" /\ UNCHANGED <<xx, yy>>
    /\ UNCHANGED <<p, corners, processed>>

RectPixel ==
    /\ pc = "rect"
    /\ Paint(yy * Stride + xx)
    /\ count' = count + 1
    /\ IF count' >= MaxPixels THEN pc' = "done" /\ UNCHANGED <<xx, yy>>
       ELSE IF xx + 1 < x1 THEN xx' = xx + 1 /\ UNCHANGED <<pc, yy>>
       ELSE IF yy + 1 < y1 THEN xx' = x0 /\ yy' = yy + 1 /\ UNCHANGED pc
       ELSE pc' = "done" /\ UNCHANGED <<xx, yy>>
    /\ UNCHANGED <<p, corners, processed>>

\* Back in pollRing: the next command of this tick.
Next1 ==
    /\ pc = "done" /\ pc' = "tick"
    /\ p' = NoRect /\ painted' = {} /\ count' = 0 /\ processed' = processed + 1
    /\ x0' = 0 /\ y0' = 0 /\ x1' = 0 /\ y1' = 0 /\ xx' = 0 /\ yy' = 0
    /\ UNCHANGED tickPixels

EndTick ==
    /\ pc = "tick" /\ processed > 0
    /\ processed' = 0 /\ tickPixels' = 0
    /\ UNCHANGED <<pc, p, corners, loop, painted>>

Next == BeginClear \/ BeginRect \/ ClearPixel \/ RectPixel \/ Next1 \/ EndTick

Spec == Init /\ [][Next]_vars
-----------------------------------------------------------------------------
(* Properties.                                                             *)

Screen == {y * Stride + x : x \in 0..fW-1, y \in 0..fH-1}

\* No command writes outside the screen, whatever its payload.
PaintsInside == painted \subseteq Screen

\* What a rectangle means: the part of it on the screen, in rows from the
\* top, as far as the limit.  Counted without wrapping.
Clip(r) == {v \in (0..fW-1) \X (0..fH-1) :
               v[1] \in r.x .. r.x+r.w-1 /\ v[2] \in r.y .. r.y+r.h-1}

Before(r, v) == {u \in Clip(r) : u[2] < v[2] \/ (u[2] = v[2] /\ u[1] < v[1])}

\* A RECT paints exactly that when its corners are words, and nothing at all
\* when a sum wraps.
RectIsClip ==
    pc = "done" /\ p # NoRect =>
        painted = IF p.x + p.w < Word /\ p.y + p.h < Word
                  THEN {v[2] * Stride + v[1] : v \in
                          {u \in Clip(p) : Cardinality(Before(p, u)) < MaxPixels}}
                  ELSE {}

\* The most one command writes.
PerCommand == IF ClearMax < MaxPixels THEN MaxPixels ELSE ClearMax

\* What holds up the work loop in one tick is bounded: not by MAX_PER_TICK, as
\* its name says, but by that many pixels for each command of the tick.
TickBound == tickPixels <= MaxPerTick * PerCommand

-----------------------------------------------------------------------------
(* Claims of comments in the source that the code does not keep (README,    *)
(* section 5).                                                               *)

\* "Write only a SAFE amount of pixels per timer tick."
TickBudget == tickPixels <= MaxPixels
=============================================================================
