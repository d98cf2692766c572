----------------------------- MODULE XEBlit_proofs -----------------------------
(***************************************************************************)
(* Proofs about XEBlit: on a screen of any size and with words of any      *)
(* width, no command writes a pixel outside the screen, whatever its       *)
(* payload and wherever its sums wrap; a RECT writes exactly the part of   *)
(* its rectangle that is on the screen, as far as the limit; and a tick    *)
(* writes no more than its commands may.                                   *)
(***************************************************************************)
EXTENDS XEBlit, FiniteSetTheorems, TLAPS

\* The loops stay inside the clamped corners and below their limits.
LoopInv ==
    /\ pc = "rect" => xx \in x0..x1-1 /\ yy \in y0..y1-1 /\ count < MaxPixels
    /\ pc = "clear" => count \in 0..ClearMax
    /\ pc # "tick" => processed < MaxPerTick

BlitInv == TypeOK /\ LoopInv /\ PaintsInside
-----------------------------------------------------------------------------
LEMMA ScreenIsNat == Screen \subseteq Nat
<1> SUFFICES ASSUME NEW x \in 0..fW-1, NEW y \in 0..fH-1 PROVE y * Stride + x \in Nat
  BY DEF Screen
<1>1. y \in Nat /\ Stride \in Nat /\ x \in Nat  BY BlitAssumption DEF Stride
<1>2. y * Stride \in Nat  BY <1>1
<1> QED  BY <1>1, <1>2

\* The corners of a RECT end up on the screen or at its far edges.
LEMMA Clamp ==
    ASSUME NEW a \in Nat, NEW b \in Nat
    PROVE  /\ MIN(a, fW) \in 0..fW /\ MIN((a + b) % Word, fW) \in 0..fW
           /\ MIN(a, fH) \in 0..fH /\ MIN((a + b) % Word, fH) \in 0..fH
<1>1. Word \in Nat /\ Word > 0 /\ fW \in Nat /\ fH \in Nat /\ a + b \in Nat
  BY BlitAssumption
<1>2. (a + b) % Word \in 0..Word-1  BY <1>1, Z3
<1> QED  BY <1>1, <1>2 DEF MIN

\* A loop begins in its range.
LEMMA InRange == \A a, b \in Nat : a < b => a \in a..b-1
OBVIOUS

\* CLEAR counts the pixels in the order of the rows.
LEMMA LineIsRows ==
    ASSUME NEW n \in Nat, n < fW * fH
    PROVE  n \in Screen
<1> DEFINE y == n \div fW
           x == n % fW
<1>1. fW \in Nat /\ fW > 0 /\ fH \in Nat /\ fH > 0  BY BlitAssumption
<1>2. y \in Nat /\ x \in 0..fW-1 /\ n = fW * y + x  BY <1>1, Z3
<1>3. y < fH
  <2> SUFFICES ASSUME y >= fH PROVE FALSE  BY <1>1, <1>2
  <2> HIDE DEF y, x
  <2>1. PICK k \in Nat : y = fH + k  BY <1>1, <1>2
  <2>2. fW * y = fW * fH + fW * k  BY <1>1, <2>1
  <2>3. fW * k >= 0 /\ fW * k \in Nat /\ fW * fH \in Nat  BY <1>1
  <2> QED  BY <1>2, <2>2, <2>3
<1> HIDE DEF y, x
<1>4. y \in 0..fH-1 /\ y * Stride + x = n  BY <1>1, <1>2, <1>3 DEF Stride
<1> QED  BY <1>2, <1>4 DEF Screen
-----------------------------------------------------------------------------
LEMMA InitBlit == Init => BlitInv
BY BlitAssumption DEF Init, BlitInv, TypeOK, LoopInv, PaintsInside, corners, loop

LEMMA BeginStep == ASSUME BlitInv, BeginClear \/ BeginRect PROVE BlitInv'
<1>1. CASE BeginClear
  BY <1>1, BlitAssumption
     DEF BeginClear, BlitInv, TypeOK, LoopInv, PaintsInside, corners
<1>2. CASE BeginRect
  <2>1. PICK r \in Rects :
          /\ p' = r
          /\ x0' = MIN(r.x, fW) /\ x1' = MIN((r.x + r.w) % Word, fW)
          /\ y0' = MIN(r.y, fH) /\ y1' = MIN((r.y + r.h) % Word, fH)
    BY <1>2 DEF BeginRect
  <2>2. r.x \in Nat /\ r.y \in Nat /\ r.w \in Nat /\ r.h \in Nat
    BY BlitAssumption
  <2>3. x0' \in 0..fW /\ x1' \in 0..fW /\ y0' \in 0..fH /\ y1' \in 0..fH
    BY <2>1, <2>2, Clamp
  <2>4. /\ xx' = x0' /\ yy' = y0' /\ count' = 0 /\ painted' = {}
        /\ pc' = (IF x1' > x0' /\ y1' > y0' THEN "rect" ELSE "done")
        /\ UNCHANGED <<processed, tickPixels>>
    BY <1>2 DEF BeginRect
  <2>5. TypeOK'
    BY <2>1, <2>3, <2>4, BlitAssumption DEF BlitInv, TypeOK
  <2>6. LoopInv'
    <3>1. x0' \in Nat /\ x1' \in Nat /\ y0' \in Nat /\ y1' \in Nat
      BY <2>3, BlitAssumption
    <3>2. pc' = "rect" => x0' < x1' /\ y0' < y1'  BY <2>4, <3>1
    <3>3. 0 < MaxPixels /\ processed < MaxPerTick /\ pc' \in {"rect", "done"}
      BY <1>2, <2>4, BlitAssumption DEF BeginRect
    <3>4. pc' = "rect" => xx' \in x0'..x1'-1 /\ yy' \in y0'..y1'-1
      BY <2>4, <3>1, <3>2, InRange
    <3>5. processed' < MaxPerTick /\ count' < MaxPixels  BY <2>4, <3>3
    <3> QED  BY <3>3, <3>4, <3>5 DEF LoopInv
  <2> QED  BY <2>4, <2>5, <2>6 DEF BlitInv, PaintsInside
<1> QED  BY <1>1, <1>2

LEMMA ClearStep == ASSUME BlitInv, ClearPixel PROVE BlitInv'
<1>1. pc = "clear" /\ count \in 0..ClearMax /\ UNCHANGED <<p, corners, xx, yy, processed>>
  BY DEF ClearPixel, BlitInv, LoopInv
<1>2. CASE count < fW * fH /\ count < ClearMax
  <2>1. painted' = painted \cup {count} /\ tickPixels' = tickPixels + 1
        /\ count' = count + 1 /\ pc' = "clear"
    BY <1>2, <1>1 DEF ClearPixel, Paint
  <2>2. count \in Screen /\ count' \in 0..ClearMax
    BY <1>1, <1>2, <2>1, LineIsRows, BlitAssumption
  <2>3. painted' \subseteq Screen  BY <2>1, <2>2 DEF BlitInv, PaintsInside
  <2>4. TypeOK'
    BY <1>1, <2>1, <2>2, <2>3, ScreenIsNat DEF BlitInv, TypeOK, corners
  <2>5. processed' < MaxPerTick  BY <1>1 DEF BlitInv, LoopInv
  <2> QED  BY <2>1, <2>2, <2>3, <2>4, <2>5 DEF BlitInv, LoopInv, PaintsInside
<1>3. CASE ~(count < fW * fH /\ count < ClearMax)
  BY <1>1, <1>3 DEF ClearPixel, BlitInv, TypeOK, LoopInv, PaintsInside, corners
<1> QED  BY <1>2, <1>3

LEMMA RectStep == ASSUME BlitInv, RectPixel PROVE BlitInv'
<1>1. /\ pc = "rect" /\ xx \in x0..x1-1 /\ yy \in y0..y1-1
      /\ x0 \in 0..fW /\ x1 \in 0..fW /\ y0 \in 0..fH /\ y1 \in 0..fH
      /\ count \in Nat /\ count < MaxPixels
      /\ fW \in Nat /\ fH \in Nat /\ MaxPixels \in Nat
  BY BlitAssumption DEF RectPixel, BlitInv, TypeOK, LoopInv
<1>2. /\ painted' = painted \cup {yy * Stride + xx} /\ tickPixels' = tickPixels + 1
      /\ count' = count + 1 /\ UNCHANGED <<p, x0, x1, y0, y1, processed>>
  BY DEF RectPixel, Paint, corners
<1>3. painted' \subseteq Screen
  <2>1. xx \in 0..fW-1 /\ yy \in 0..fH-1  BY <1>1
  <2> QED  BY <1>2, <2>1 DEF BlitInv, PaintsInside, Screen
<1>4. /\ pc' \in {"rect", "done"} /\ xx' \in x0..x1-1 /\ yy' \in y0..y1-1
      /\ pc' = "rect" => count' < MaxPixels
  BY <1>1, <1>2 DEF RectPixel
<1>5. TypeOK'
  <2>1. count' \in 0..MaxPixels  BY <1>1, <1>2
  <2>2. xx' \in 0..fW /\ yy' \in 0..fH  BY <1>1, <1>4
  <2> QED
    <3>1. painted' \subseteq Nat  BY <1>3, ScreenIsNat
    <3>3. tickPixels' \in Nat  BY <1>2 DEF BlitInv, TypeOK
    <3>2. /\ p' \in Rects \cup {NoRect} /\ processed' \in 0..MaxPerTick
          /\ pc' \in {"tick", "clear", "rect", "done"}
      BY <1>2, <1>4 DEF BlitInv, TypeOK
    <3> QED  BY <1>1, <1>2, <2>1, <2>2, <3>1, <3>2, <3>3 DEF TypeOK
<1>6. LoopInv'
  <2>1. processed' < MaxPerTick  BY <1>1, <1>2 DEF BlitInv, LoopInv
  <2> QED  BY <1>2, <1>4, <2>1 DEF LoopInv
<1> QED  BY <1>3, <1>5, <1>6 DEF BlitInv, PaintsInside

LEMMA BlitStep == BlitInv /\ [Next]_vars => BlitInv'
<1> SUFFICES ASSUME BlitInv, [Next]_vars PROVE BlitInv'  OBVIOUS
<1>1. CASE Next1
  BY <1>1, BlitAssumption DEF Next1, BlitInv, TypeOK, LoopInv, PaintsInside
<1>2. CASE EndTick
  BY <1>2, BlitAssumption
     DEF EndTick, BlitInv, TypeOK, LoopInv, PaintsInside, corners, loop
<1>3. CASE UNCHANGED vars
  BY <1>3 DEF vars, BlitInv, TypeOK, LoopInv, PaintsInside, corners, loop
<1> QED  BY <1>1, <1>2, <1>3, BeginStep, ClearStep, RectStep DEF Next

LEMMA BlitInductive == Spec => []BlitInv
BY InitBlit, BlitStep, PTL DEF Spec
-----------------------------------------------------------------------------
\* The corners and the loops of processCommand keep their ranges.
THEOREM BlitTypeCorrect == Spec => []TypeOK
BY BlitInductive, PTL DEF BlitInv

\* No CLEAR and no RECT writes outside the screen, whatever the payload
\* (processCommand's clamping, with sums that wrap).
THEOREM DrawsOnScreen == Spec => []PaintsInside
BY BlitInductive, PTL DEF BlitInv
-----------------------------------------------------------------------------
(* What a RECT paints.                                                     *)

Grid == (0..fW-1) \X (0..fH-1)

\* The pixels of some positions.
Pixels(S) == {v[2] * Stride + v[1] : v \in S}

\* While its loops run, a RECT has painted the positions of its clipped
\* rectangle that come before the one they are at, and counted each once; the
\* other commands have no rectangle in hand.
ClipInv ==
    /\ pc \in {"tick", "clear"} => p = NoRect
    /\ pc = "rect" =>
        /\ p.x + p.w < Word /\ p.y + p.h < Word
        /\ Clip(p) = (x0..x1-1) \X (y0..y1-1)
        /\ painted = Pixels(Before(p, <<xx, yy>>))
        /\ count = Cardinality(Before(p, <<xx, yy>>))
    /\ RectIsClip

\* Parts of the screen are finite.
LEMMA BeforeFinite ==
    ASSUME NEW r, NEW v
    PROVE  /\ IsFiniteSet(Clip(r)) /\ IsFiniteSet(Before(r, v))
           /\ Cardinality(Before(r, v)) \in Nat /\ Before(r, v) \subseteq Clip(r)
<1>1. fW - 1 \in Int /\ fH - 1 \in Int  BY BlitAssumption
<1>2. IsFiniteSet(0..fW-1) /\ IsFiniteSet(0..fH-1)  BY <1>1, FS_Interval
<1>3. IsFiniteSet(Grid)  BY <1>2, FS_Product DEF Grid
<1>4. Clip(r) \in SUBSET Grid  BY DEF Clip, Grid
<1>5. IsFiniteSet(Clip(r))  BY <1>3, <1>4, FS_Subset
<1>6. Before(r, v) \in SUBSET Clip(r)  BY DEF Before
<1>7. IsFiniteSet(Before(r, v))  BY <1>5, <1>6, FS_Subset
<1> QED  BY <1>5, <1>6, <1>7, FS_CardinalityType

\* A column (or row) of the screen lies in the rectangle when it lies between
\* the clamped corners.
LEMMA ClampMembers ==
    ASSUME NEW a \in Nat, NEW b \in Nat, NEW f \in Nat, NEW n \in 0..f-1
    PROVE  n \in a..a+b-1 <=> n \in MIN(a, f)..MIN(a + b, f)-1
BY DEF MIN

\* When a sum wraps the far corner is not past the near one.
LEMMA ClampWraps ==
    ASSUME NEW a \in 0..Word-1, NEW b \in 0..Word-1, NEW f \in Nat, a + b >= Word
    PROVE  ~(MIN((a + b) % Word, f) > MIN(a, f))
<1>1. Word \in Nat /\ Word > 0  BY BlitAssumption
<1>2. a + b - Word \in 0..Word-1 /\ a + b - Word < a /\ a + b \in Nat  BY <1>1
<1>3. (a + b) % Word = a + b - Word  BY <1>1, <1>2, Z3
<1> QED  BY <1>1, <1>2, <1>3 DEF MIN

\* The clipped rectangle lies between its clamped corners.
LEMMA ClipCorners ==
    ASSUME NEW r \in Rects, r.x + r.w < Word, r.y + r.h < Word
    PROVE  Clip(r) = (MIN(r.x, fW)..MIN((r.x + r.w) % Word, fW)-1)
                       \X (MIN(r.y, fH)..MIN((r.y + r.h) % Word, fH)-1)
<1>1. r.x \in Nat /\ r.y \in Nat /\ r.w \in Nat /\ r.h \in Nat
  BY BlitAssumption
<1>2. fW \in Nat /\ fH \in Nat /\ Word \in Nat /\ Word > 0  BY BlitAssumption
<1>3. (r.x + r.w) % Word = r.x + r.w /\ (r.y + r.h) % Word = r.y + r.h
  BY <1>1, <1>2, Z3
<1> DEFINE X == MIN(r.x, fW)..MIN(r.x + r.w, fW)-1
           Y == MIN(r.y, fH)..MIN(r.y + r.h, fH)-1
<1>4. X \subseteq 0..fW-1 /\ Y \subseteq 0..fH-1  BY <1>1, <1>2 DEF MIN
<1>5. \A n \in 0..fW-1 : n \in r.x..r.x+r.w-1 <=> n \in X
  BY <1>1, <1>2, ClampMembers
<1>6. \A n \in 0..fH-1 : n \in r.y..r.y+r.h-1 <=> n \in Y
  BY <1>1, <1>2, ClampMembers
<1> HIDE DEF X, Y
<1>7. Clip(r) = X \X Y
  <2>1. ASSUME NEW v \in Clip(r) PROVE v \in X \X Y
    BY <1>5, <1>6 DEF Clip
  <2>2. ASSUME NEW v \in X \X Y PROVE v \in Clip(r)
    <3>1. v \in (0..fW-1) \X (0..fH-1) /\ v[1] \in X /\ v[2] \in Y  BY <1>4
    <3>2. v[1] \in 0..fW-1 /\ v[2] \in 0..fH-1  BY <3>1
    <3> QED  BY <3>1, <3>2, <1>5, <1>6 DEF Clip
  <2> QED  BY <2>1, <2>2
<1> QED  BY <1>3, <1>7 DEF X, Y

\* The loops visit the positions in rows from the top: what comes before the
\* next position is what came before this one, and this one.
Visited(r, a0, a1, b1, a, b) ==
    LET S == Before(r, <<a, b>>) \cup {<<a, b>>} IN
    /\ <<a, b>> \in Clip(r) /\ <<a, b>> \notin Before(r, <<a, b>>)
    /\ a + 1 < a1 => Before(r, <<a + 1, b>>) = S
    /\ a + 1 >= a1 /\ b + 1 < b1 => Before(r, <<a0, b + 1>>) = S
    /\ a + 1 >= a1 /\ b + 1 >= b1 => Clip(r) = S

LEMMA NextPosition ==
    ASSUME NEW r, NEW a0 \in Int, NEW a1 \in Int, NEW b0 \in Int, NEW b1 \in Int,
           Clip(r) = (a0..a1-1) \X (b0..b1-1),
           NEW a \in a0..a1-1, NEW b \in b0..b1-1
    PROVE  Visited(r, a0, a1, b1, a, b)
<1> DEFINE S == Before(r, <<a, b>>) \cup {<<a, b>>}
<1>1. <<a, b>> \in Clip(r) /\ <<a, b>>[1] = a /\ <<a, b>>[2] = b  OBVIOUS
<1>2. <<a, b>> \notin Before(r, <<a, b>>)  BY <1>1 DEF Before
<1>3. \A u \in Clip(r) : /\ u = <<u[1], u[2]>>
                         /\ u[1] \in a0..a1-1 /\ u[2] \in b0..b1-1
  OBVIOUS
<1>4. \A u \in Clip(r) : u \in S <=> u[2] < b \/ (u[2] = b /\ u[1] <= a)
  <2> TAKE u \in Clip(r)
  <2>1. u \in Before(r, <<a, b>>) <=> u[2] < b \/ (u[2] = b /\ u[1] < a)
    BY <1>1 DEF Before
  <2>2. u = <<a, b>> <=> u[1] = a /\ u[2] = b  BY <1>3
  <2>3. u[1] \in Int /\ u[2] \in Int /\ a \in Int /\ b \in Int  BY <1>3
  <2> QED  BY <2>1, <2>2, <2>3
<1>5. S \subseteq Clip(r)  BY <1>1 DEF Before
<1> HIDE DEF S
<1>6. ASSUME a + 1 < a1 PROVE Before(r, <<a + 1, b>>) = S
  <2>1. \A u \in Clip(r) : u \in Before(r, <<a + 1, b>>) <=> u \in S
    <3> TAKE u \in Clip(r)
    <3>1. u \in Before(r, <<a + 1, b>>) <=> u[2] < b \/ (u[2] = b /\ u[1] < a + 1)
      BY DEF Before
    <3> QED  BY <3>1, <1>3, <1>4
  <2> QED  BY <2>1, <1>5 DEF Before
<1>7. ASSUME a + 1 >= a1, b + 1 < b1 PROVE Before(r, <<a0, b + 1>>) = S
  <2>1. \A u \in Clip(r) : u \in Before(r, <<a0, b + 1>>) <=> u \in S
    <3> TAKE u \in Clip(r)
    <3>1. u \in Before(r, <<a0, b + 1>>)
            <=> u[2] < b + 1 \/ (u[2] = b + 1 /\ u[1] < a0)
      BY DEF Before
    <3> QED  BY <3>1, <1>3, <1>4, <1>7
  <2> QED  BY <2>1, <1>5 DEF Before
<1>8. ASSUME a + 1 >= a1, b + 1 >= b1 PROVE Clip(r) = S
  <2>1. \A u \in Clip(r) : u \in S  BY <1>3, <1>4, <1>8
  <2> QED  BY <2>1, <1>5
<1> QED  BY <1>1, <1>2, <1>6, <1>7, <1>8 DEF S, Visited

\* When the count has reached the limit, or the rectangle is finished, what
\* was painted is the positions with fewer than the limit before them.
LEMMA LimitReached ==
    ASSUME NEW r, NEW v \in Clip(r), Cardinality(Before(r, v)) < MaxPixels,
           \/ Cardinality(Before(r, v)) + 1 >= MaxPixels
           \/ Clip(r) = Before(r, v) \cup {v}
    PROVE  {u \in Clip(r) : Cardinality(Before(r, u)) < MaxPixels}
             = Before(r, v) \cup {v}
<1> DEFINE S == Before(r, v) \cup {v}
<1>1. /\ IsFiniteSet(Before(r, v)) /\ Cardinality(Before(r, v)) \in Nat
      /\ v \notin Before(r, v) /\ MaxPixels \in Nat /\ S \subseteq Clip(r)
  <2>1. v \in Grid  BY DEF Clip, Grid
  <2>2. v[1] \in Int /\ v[2] \in Int  BY <2>1, BlitAssumption DEF Grid
  <2>3. v \notin Before(r, v)  BY <2>2 DEF Before
  <2> QED  BY <2>3, BeforeFinite, BlitAssumption
<1>2. \A u \in Clip(r) : u[1] \in Int /\ u[2] \in Int /\ u = <<u[1], u[2]>>
  BY BlitAssumption DEF Clip
<1>3. Cardinality(S) = Cardinality(Before(r, v)) + 1 /\ IsFiniteSet(S)
  BY <1>1, FS_AddElement
<1>4. ASSUME NEW u \in S PROVE Cardinality(Before(r, u)) < MaxPixels
  <2>1. CASE u = v  BY <2>1
  <2>2. CASE u # v
    <3>1. u \in Clip(r) /\ (u[2] < v[2] \/ (u[2] = v[2] /\ u[1] < v[1]))
      BY <2>2 DEF Before
    <3>2. Before(r, u) \in SUBSET Before(r, v)
      <4> SUFFICES ASSUME NEW t \in Before(r, u) PROVE t \in Before(r, v)  OBVIOUS
      <4>1. t \in Clip(r) /\ (t[2] < u[2] \/ (t[2] = u[2] /\ t[1] < u[1]))
        BY DEF Before
      <4>2. /\ t[1] \in Int /\ t[2] \in Int /\ u[1] \in Int /\ u[2] \in Int
            /\ v[1] \in Int /\ v[2] \in Int
        BY <4>1, <1>2, <1>1
      <4>3. t[2] < v[2] \/ (t[2] = v[2] /\ t[1] < v[1])  BY <3>1, <4>1, <4>2
      <4> QED  BY <4>1, <4>3 DEF Before
    <3>3. Cardinality(Before(r, u)) <= Cardinality(Before(r, v))
      BY <3>2, <1>1, FS_Subset
    <3>4. Cardinality(Before(r, u)) \in Nat  BY BeforeFinite
    <3> QED  BY <3>3, <3>4, <1>1
  <2> QED  BY <2>1, <2>2
<1>5. ASSUME NEW u \in Clip(r), u \notin S PROVE ~(Cardinality(Before(r, u)) < MaxPixels)
  <2>1. Cardinality(Before(r, v)) + 1 >= MaxPixels  BY <1>5
  <2>2. u # v /\ ~(u[2] < v[2] \/ (u[2] = v[2] /\ u[1] < v[1]))
    BY <1>5 DEF Before
  <2>3. /\ u[1] \in Int /\ u[2] \in Int /\ v[1] \in Int /\ v[2] \in Int
        /\ u = <<u[1], u[2]>> /\ v = <<v[1], v[2]>>
    BY <1>2
  <2>4. v[2] < u[2] \/ (v[2] = u[2] /\ v[1] < u[1])
    <3>1. ~(u[1] = v[1] /\ u[2] = v[2])  BY <2>2, <2>3
    <3> QED  BY <3>1, <2>2, <2>3
  <2>5. S \in SUBSET Before(r, u)
    <3> SUFFICES ASSUME NEW t \in S PROVE t \in Before(r, u)  OBVIOUS
    <3>1. CASE t = v  BY <3>1, <2>4 DEF Before
    <3>2. CASE t # v
      <4>1. t \in Clip(r) /\ (t[2] < v[2] \/ (t[2] = v[2] /\ t[1] < v[1]))
        BY <3>2 DEF Before
      <4>2. t[1] \in Int /\ t[2] \in Int  BY <4>1, <1>2
      <4>3. t[2] < u[2] \/ (t[2] = u[2] /\ t[1] < u[1])  BY <4>1, <4>2, <2>3, <2>4
      <4> QED  BY <4>1, <4>3 DEF Before
    <3> QED  BY <3>1, <3>2
  <2>6. Cardinality(S) <= Cardinality(Before(r, u))
    BY <2>5, BeforeFinite, FS_Subset
  <2>7. Cardinality(Before(r, u)) \in Nat  BY BeforeFinite
  <2> QED  BY <1>1, <1>3, <2>1, <2>6, <2>7
<1>6. S \subseteq Clip(r)  BY <1>1
<1> HIDE DEF S
<1>7. {u \in Clip(r) : Cardinality(Before(r, u)) < MaxPixels} = S
  BY <1>4, <1>5, <1>6
<1> QED  BY <1>7 DEF S

\* A pixel more.
LEMMA PixelsAdd ==
    ASSUME NEW S, NEW a, NEW b
    PROVE  Pixels(S \cup {<<a, b>>}) = Pixels(S) \cup {b * Stride + a}
<1>1. <<a, b>>[2] * Stride + <<a, b>>[1] = b * Stride + a  OBVIOUS
<1> DEFINE At(v) == v[2] * Stride + v[1]
<1>2. {At(v) : v \in S \cup {<<a, b>>}} = {At(v) : v \in S} \cup {At(<<a, b>>)}
  <2> HIDE DEF At
  <2> QED  OBVIOUS
<1> QED  BY <1>1, <1>2 DEF Pixels

LEMMA ClipInit == Init => ClipInv
BY DEF Init, ClipInv, RectIsClip

\* The loops start with nothing painted, and do not start when a sum wraps or
\* the rectangle has no part on the screen.
LEMMA ClipBegin == ASSUME BlitInv, ClipInv, BeginRect PROVE ClipInv'
<1>1. PICK r \in Rects :
        /\ p' = r
        /\ x0' = MIN(r.x, fW) /\ x1' = MIN((r.x + r.w) % Word, fW)
        /\ y0' = MIN(r.y, fH) /\ y1' = MIN((r.y + r.h) % Word, fH)
  BY DEF BeginRect
<1>2. /\ xx' = x0' /\ yy' = y0' /\ count' = 0 /\ painted' = {}
      /\ pc' = (IF x1' > x0' /\ y1' > y0' THEN "rect" ELSE "done")
  BY DEF BeginRect
<1>3. /\ r.x \in 0..Word-1 /\ r.y \in 0..Word-1 /\ r.w \in 0..Word-1
      /\ r.h \in 0..Word-1 /\ r.x \in Nat /\ r.y \in Nat /\ r.w \in Nat /\ r.h \in Nat
  BY BlitAssumption
<1>4. fW \in Nat /\ fH \in Nat /\ Word \in Nat  BY BlitAssumption
<1>5. x0' \in Int /\ x1' \in Int /\ y0' \in Int /\ y1' \in Int
  BY <1>1, <1>3, <1>4, Clamp
<1>6. ASSUME r.x + r.w < Word, r.y + r.h < Word
      PROVE  Clip(r) = (x0'..x1'-1) \X (y0'..y1'-1)
  BY <1>1, <1>6, ClipCorners
<1>7. CASE pc' = "rect"
  <2>1. x1' > x0' /\ y1' > y0'  BY <1>2, <1>7
  <2>2. r.x + r.w < Word
    <3> SUFFICES ASSUME r.x + r.w >= Word PROVE FALSE  BY <1>3, <1>4
    <3> QED  BY <2>1, <1>1, <1>3, <1>4, ClampWraps
  <2>3. r.y + r.h < Word
    <3> SUFFICES ASSUME r.y + r.h >= Word PROVE FALSE  BY <1>3, <1>4
    <3> QED  BY <2>1, <1>1, <1>3, <1>4, ClampWraps
  <2>4. Clip(r) = (x0'..x1'-1) \X (y0'..y1'-1)  BY <2>2, <2>3, <1>6
  <2>5. Before(r, <<x0', y0'>>) = {}
    <3> SUFFICES ASSUME NEW u \in Before(r, <<x0', y0'>>) PROVE FALSE  OBVIOUS
    <3>1. u \in Clip(r) /\ (u[2] < y0' \/ (u[2] = y0' /\ u[1] < x0'))
      BY DEF Before
    <3>2. u[1] \in x0'..x1'-1 /\ u[2] \in y0'..y1'-1  BY <3>1, <2>4
    <3> QED  BY <3>1, <3>2, <1>5
  <2>6. painted' = Pixels({}) /\ count' = Cardinality({})
    BY <1>2, FS_EmptySet DEF Pixels
  <2>7. RectIsClip'  BY <1>7 DEF RectIsClip
  <2> QED  BY <1>1, <1>2, <1>7, <2>2, <2>3, <2>4, <2>5, <2>6, <2>7 DEF ClipInv
<1>8. CASE pc' = "done"
  <2>1. ~(x1' > x0' /\ y1' > y0')  BY <1>2, <1>8
  <2>2. ASSUME r.x + r.w < Word, r.y + r.h < Word PROVE Clip(r) = {}
    <3> SUFFICES ASSUME NEW u \in Clip(r) PROVE FALSE  OBVIOUS
    <3>1. u[1] \in x0'..x1'-1 /\ u[2] \in y0'..y1'-1  BY <2>2, <1>6
    <3> QED  BY <3>1, <2>1, <1>5
  <2>3. RectIsClip'  BY <1>1, <1>2, <2>2 DEF RectIsClip
  <2> QED  BY <1>8, <2>3 DEF ClipInv
<1> QED  BY <1>2, <1>7, <1>8

\* A pixel of a RECT adds its position to those before the next one; the last
\* one finishes the rectangle or reaches the limit.
LEMMA ClipPixel == ASSUME BlitInv, ClipInv, RectPixel PROVE ClipInv'
<1> DEFINE v == <<xx, yy>>
<1> DEFINE B == Before(p, v)
<1>1. /\ pc = "rect" /\ xx \in x0..x1-1 /\ yy \in y0..y1-1 /\ count < MaxPixels
      /\ p.x + p.w < Word /\ p.y + p.h < Word
      /\ Clip(p) = (x0..x1-1) \X (y0..y1-1)
      /\ painted = Pixels(B) /\ count = Cardinality(B)
  BY DEF RectPixel, BlitInv, LoopInv, ClipInv
<1>2. /\ x0 \in Int /\ x1 \in Int /\ y0 \in Int /\ y1 \in Int
      /\ xx \in Int /\ yy \in Int /\ MaxPixels \in Nat
  BY BlitAssumption DEF BlitInv, TypeOK
<1>3. /\ painted' = painted \cup {yy * Stride + xx} /\ count' = count + 1
      /\ UNCHANGED <<p, x0, x1, y0, y1>>
  BY DEF RectPixel, Paint, corners
<1>4. /\ v \in Clip(p) /\ v \notin B
      /\ xx + 1 < x1 => Before(p, <<xx + 1, yy>>) = B \cup {v}
      /\ xx + 1 >= x1 /\ yy + 1 < y1 => Before(p, <<x0, yy + 1>>) = B \cup {v}
      /\ xx + 1 >= x1 /\ yy + 1 >= y1 => Clip(p) = B \cup {v}
  <2>1. xx \in x0..x1-1 /\ yy \in y0..y1-1 /\ Clip(p) = (x0..x1-1) \X (y0..y1-1)
    BY <1>1
  <2>2. Visited(p, x0, x1, y1, xx, yy)  BY <2>1, <1>2, NextPosition
  <2> QED  BY <2>2 DEF Visited
<1>5. count' = Cardinality(B \cup {v}) /\ count \in Nat
  BY <1>1, <1>3, <1>4, BeforeFinite, FS_AddElement
<1>6. painted' = Pixels(B \cup {v})  BY <1>1, <1>3, PixelsAdd
<1>7. CASE count' >= MaxPixels \/ (xx + 1 >= x1 /\ yy + 1 >= y1)
  <2>1. pc' = "done"  BY <1>7, <1>2, <1>3, <1>5 DEF RectPixel
  <2>2. count + 1 >= MaxPixels \/ Clip(p) = B \cup {v}  BY <1>3, <1>4, <1>7
  <2>3. {u \in Clip(p) : Cardinality(Before(p, u)) < MaxPixels} = B \cup {v}
    BY <1>1, <1>4, <2>2, LimitReached
  <2>4. painted' = {u[2] * Stride + u[1] : u \in
                      {u \in Clip(p) : Cardinality(Before(p, u)) < MaxPixels}}
    BY <1>6, <2>3 DEF Pixels
  <2>5. RectIsClip'  BY <1>1, <1>3, <2>4 DEF RectIsClip
  <2> QED  BY <2>1, <2>5 DEF ClipInv
<1>8. CASE count' < MaxPixels /\ xx + 1 < x1
  <2>1. pc' = "rect" /\ xx' = xx + 1 /\ yy' = yy
    BY <1>1, <1>2, <1>3, <1>5, <1>8 DEF RectPixel
  <2>2. Before(p', <<xx', yy'>>) = B \cup {v}  BY <1>3, <1>4, <1>8, <2>1
  <2>3. RectIsClip'  BY <2>1 DEF RectIsClip
  <2> QED  BY <1>1, <1>3, <1>5, <1>6, <2>1, <2>2, <2>3 DEF ClipInv
<1>9. CASE count' < MaxPixels /\ xx + 1 >= x1 /\ yy + 1 < y1
  <2>1. pc' = "rect" /\ xx' = x0 /\ yy' = yy + 1
    BY <1>1, <1>2, <1>3, <1>5, <1>9 DEF RectPixel
  <2>2. Before(p', <<xx', yy'>>) = B \cup {v}  BY <1>3, <1>4, <1>9, <2>1
  <2>3. RectIsClip'  BY <2>1 DEF RectIsClip
  <2> QED  BY <1>1, <1>3, <1>5, <1>6, <2>1, <2>2, <2>3 DEF ClipInv
<1> QED  BY <1>2, <1>3, <1>5, <1>7, <1>8, <1>9

LEMMA ClipStep == BlitInv /\ ClipInv /\ [Next]_vars => ClipInv'
<1> SUFFICES ASSUME BlitInv, ClipInv, [Next]_vars PROVE ClipInv'  OBVIOUS
<1>1. CASE BeginClear
  BY <1>1 DEF BeginClear, ClipInv, RectIsClip
<1>2. CASE ClearPixel
  BY <1>2 DEF ClearPixel, ClipInv, RectIsClip
<1>3. CASE Next1
  BY <1>3 DEF Next1, ClipInv, RectIsClip
<1>4. CASE EndTick
  BY <1>4 DEF EndTick, ClipInv, RectIsClip
<1>5. CASE UNCHANGED vars
  BY <1>5 DEF vars, corners, loop, ClipInv, RectIsClip
<1> QED  BY <1>1, <1>2, <1>3, <1>4, <1>5, ClipBegin, ClipPixel DEF Next

\* A RECT paints exactly the part of its rectangle that is on the screen, in
\* rows from the top as far as the limit, and nothing when a sum wraps: the
\* clamping and the two loops of processCommand, for a screen of any size.
THEOREM RectPaintsClip == Spec => []RectIsClip
<1>1. Init => ClipInv  BY ClipInit
<1>2. Spec => []BlitInv  BY BlitInductive
<1>3. BlitInv /\ ClipInv /\ [Next]_vars => ClipInv'  BY ClipStep
<1>4. ClipInv => RectIsClip  BY DEF ClipInv
<1> QED  BY <1>1, <1>2, <1>3, <1>4, PTL DEF Spec
-----------------------------------------------------------------------------
(* What a tick writes.                                                     *)

\* The commands behind have written no more than they may, and the one in hand
\* what it has counted.
BudgetInv ==
    tickPixels <= processed * PerCommand + (IF pc = "tick" THEN 0 ELSE count)

\* A count is at most a command's worth, and a command more is a command's
\* worth more.
LEMMA Budget ==
    ASSUME TypeOK
    PROVE  /\ PerCommand \in Nat /\ count \in Nat /\ count <= PerCommand
           /\ (processed + 1) * PerCommand = processed * PerCommand + PerCommand
           /\ processed * PerCommand \in Nat
           /\ processed * PerCommand <= MaxPerTick * PerCommand
           /\ processed < MaxPerTick =>
                processed * PerCommand + PerCommand <= MaxPerTick * PerCommand
<1>1. /\ MaxPixels \in Nat /\ ClearMax \in Nat /\ MaxPerTick \in Nat
      /\ processed \in 0..MaxPerTick /\ processed \in Nat
  BY BlitAssumption DEF TypeOK
<1>2. PerCommand \in Nat /\ count \in Nat /\ count <= PerCommand
  BY <1>1 DEF TypeOK, PerCommand
<1> DEFINE k == MaxPerTick - processed
           c == PerCommand
<1>3. k \in Nat /\ MaxPerTick = processed + k  BY <1>1
<1>4. c \in Nat  BY <1>2
<1> HIDE DEF k, c
<1>5. (processed + 1) * c = processed * c + c /\ processed * c \in Nat
  BY <1>1, <1>4
<1>6. MaxPerTick * c = processed * c + k * c /\ k * c \in Nat
  BY <1>1, <1>3, <1>4
<1>7. k >= 1 => k * c >= c
  <2> SUFFICES ASSUME k >= 1 PROVE k * c >= c  OBVIOUS
  <2>1. k - 1 \in Nat  BY <1>3
  <2>2. (k - 1) * c \in Nat /\ k * c = (k - 1) * c + c  BY <2>1, <1>3, <1>4
  <2> QED  BY <2>2, <1>4
<1>8. processed < MaxPerTick => k >= 1  BY <1>1, <1>3
<1> QED  BY <1>2, <1>4, <1>5, <1>6, <1>7, <1>8 DEF c

LEMMA BudgetInit == Init => BudgetInv
<1> SUFFICES ASSUME Init PROVE BudgetInv  OBVIOUS
<1>1. TypeOK  BY InitBlit DEF BlitInv
<1>2. tickPixels = 0 /\ pc = "tick"  BY DEF Init
<1> QED  BY <1>1, <1>2, Budget DEF BudgetInv

LEMMA BudgetStep == BlitInv /\ BudgetInv /\ [Next]_vars => BudgetInv'
<1> SUFFICES ASSUME BlitInv, BudgetInv, [Next]_vars PROVE BudgetInv'  OBVIOUS
<1>0. /\ TypeOK /\ tickPixels \in Nat /\ PerCommand' = PerCommand
      /\ PerCommand \in Nat /\ count \in Nat /\ count <= PerCommand
      /\ (processed + 1) * PerCommand = processed * PerCommand + PerCommand
      /\ processed * PerCommand \in Nat
  BY Budget DEF BlitInv, TypeOK, PerCommand
<1>1. CASE BeginClear \/ BeginRect
  <2>1. /\ pc = "tick" /\ pc' # "tick" /\ count' = 0
        /\ UNCHANGED <<processed, tickPixels>>
    BY <1>1 DEF BeginClear, BeginRect
  <2> QED  BY <2>1, <1>0 DEF BudgetInv
<1>2. CASE RectPixel
  <2>1. /\ pc = "rect" /\ pc' # "tick" /\ count' = count + 1
        /\ tickPixels' = tickPixels + 1 /\ processed' = processed
    BY <1>2 DEF RectPixel, Paint
  <2> QED  BY <2>1, <1>0 DEF BudgetInv
<1>3. CASE ClearPixel
  <2>1. /\ pc = "clear" /\ pc' # "tick" /\ processed' = processed
        /\ \/ count' = count + 1 /\ tickPixels' = tickPixels + 1
           \/ count' = count /\ tickPixels' = tickPixels
    BY <1>3 DEF ClearPixel, Paint
  <2> QED  BY <2>1, <1>0 DEF BudgetInv
<1>4. CASE Next1
  <2>1. /\ pc = "done" /\ pc' = "tick" /\ processed' = processed + 1
        /\ tickPixels' = tickPixels
    BY <1>4 DEF Next1
  <2>2. tickPixels <= processed * PerCommand + count  BY <2>1 DEF BudgetInv
  <2>3. tickPixels <= (processed + 1) * PerCommand  BY <2>2, <1>0
  <2> QED  BY <2>1, <2>3, <1>0 DEF BudgetInv
<1>5. CASE EndTick
  <2>1. pc' = "tick" /\ processed' = 0 /\ tickPixels' = 0  BY <1>5 DEF EndTick
  <2>2. 0 * PerCommand = 0  BY <1>0
  <2> QED  BY <2>1, <2>2, <1>0 DEF BudgetInv
<1>6. CASE UNCHANGED vars
  BY <1>6, <1>0 DEF vars, loop, BudgetInv
<1> QED  BY <1>1, <1>2, <1>3, <1>4, <1>5, <1>6 DEF Next

\* However large the rectangles, a tick writes at most MaxPerTick commands'
\* worth of pixels.
THEOREM TickIsBounded == Spec => []TickBound
<1>1. Spec => []BlitInv  BY BlitInductive
<1>2. Init => BudgetInv  BY BudgetInit
<1>3. BlitInv /\ BudgetInv /\ [Next]_vars => BudgetInv'  BY BudgetStep
<1>4. BlitInv /\ BudgetInv => TickBound
  <2> SUFFICES ASSUME BlitInv, BudgetInv PROVE TickBound  OBVIOUS
  <2>1. /\ PerCommand \in Nat /\ count \in Nat /\ count <= PerCommand
        /\ processed * PerCommand \in Nat
        /\ processed * PerCommand <= MaxPerTick * PerCommand
        /\ processed < MaxPerTick =>
             processed * PerCommand + PerCommand <= MaxPerTick * PerCommand
    BY Budget DEF BlitInv
  <2>2. tickPixels \in Nat /\ (pc # "tick" => processed < MaxPerTick)
    BY DEF BlitInv, TypeOK, LoopInv
  <2>3. MaxPerTick * PerCommand \in Int  BY <2>1, BlitAssumption
  <2> QED  BY <2>1, <2>2, <2>3 DEF BudgetInv, TickBound
<1> QED  BY <1>1, <1>2, <1>3, <1>4, PTL DEF Spec
=============================================================================
