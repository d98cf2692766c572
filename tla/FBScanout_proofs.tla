--------------------------- MODULE FBScanout_proofs ---------------------------
(***************************************************************************)
(* Proofs about FBScanout: for a panel and a frame buffer of any size, cut *)
(* into segments in any way, a pixel is shown where it was drawn, and the  *)
(* functions of the framebuffer agree about the mode.  The first half has  *)
(* the invariant of FBDisplay: the translation table is filled exactly and *)
(* the plane shows the frame buffer only, at any place in memory.          *)
(***************************************************************************)
EXTENDS FBScanout, TLAPS

Pipe == {"PLANE_SURF", "PLANE_BUF_CFG", "WATERMARKS", "PLANE_STRIDE", "PLANE_CTL",
         "CURSOR", "TIMINGS", "SCALER", "PIPECONF", "TRANS_CONF", "DDI_BUF_CTL",
         "PP_CONTROL"}
AfterMapped == Pipe \cup {"panel", "BACKLIGHT", "paint"}

\* The frames the walk has in hand are those of the pages it stands at.
Segment ==
    /\ offset <= segEnd /\ segEnd <= Pages /\ segOff <= offset
    /\ \A p \in offset..segEnd-1 : frame[p] = segPhys + segOff + (p - offset)

\* Every page is in the table.
Full == \A p \in 0..Pages-1 : ggtt[ggttBaseIndex + p] = frame[p]

\* From the end of the first walk on every page is in the table, and the
\* plane is programmed after it.
PlaneAfterWalk ==
    /\ pc \in AfterMapped => Full
    /\ {"PLANE_SURF", "PLANE_CTL"} \cap written # {} => Full
    /\ "PLANE_SURF" \in written => surf = fbGGTTOffset

DisplayInv == TypeOK /\ WalkExact /\ Segment /\ PlaneAfterWalk

mapVars == <<frame, ggtt, offset, segPhys, segEnd, segOff>>
-----------------------------------------------------------------------------
\* The twelve register groups by name.
LEMMA RegistersByName ==
    /\ \A i \in 1..12 : Registers[i] \in Pipe
    /\ {Registers[i] : i \in 1..12} = Pipe
<1>1. ASSUME NEW i \in 1..12 PROVE Registers[i] \in Pipe
  <2>1. i \in {1, 2, 3, 4, 5, 6, 7, 8, 9, 10, 11, 12}  OBVIOUS
  <2> QED  BY <2>1 DEF Registers, Pipe
<1>2. ASSUME NEW g \in Pipe PROVE \E i \in 1..12 : Registers[i] = g
  <2>1. /\ Registers[1] = "PLANE_SURF" /\ Registers[2] = "PLANE_BUF_CFG"
        /\ Registers[3] = "WATERMARKS" /\ Registers[4] = "PLANE_STRIDE"
        /\ Registers[5] = "PLANE_CTL" /\ Registers[6] = "CURSOR"
        /\ Registers[7] = "TIMINGS" /\ Registers[8] = "SCALER"
        /\ Registers[9] = "PIPECONF" /\ Registers[10] = "TRANS_CONF"
        /\ Registers[11] = "DDI_BUF_CTL" /\ Registers[12] = "PP_CONTROL"
    BY DEF Registers
  <2> QED  BY <2>1 DEF Pipe
<1> QED  BY <1>1, <1>2

\* A page of the frame buffer lies in a frame, and the table has room for it.
LEMMA PageFacts == ASSUME TypeOK, NEW p \in 0..Pages-1
                   PROVE  frame[p] \in Nat /\ ggttBaseIndex + p \in Index
<1>1. frame[p] \in Nat  BY DisplayAssumption DEF TypeOK
<1>2. ggttBaseIndex = 0  BY DEF ggttBaseIndex, fbGGTTOffset, kPageSize
<1> QED  BY <1>1, <1>2, DisplayAssumption DEF Index

LEMMA BaseIsZero == ggttBaseIndex = 0
BY DEF ggttBaseIndex, fbGGTTOffset, kPageSize

LEMMA InitDisplay == Init => DisplayInv
<1> SUFFICES ASSUME Init PROVE DisplayInv  OBVIOUS
<1> USE DisplayAssumption
<1>1. ggtt \in [Index -> Nat]  BY DEF Init, Firmware
<1>2. TypeOK
  <2>1. written \subseteq Groups /\ surf \in Nat /\ segPhys \in Nat  BY DEF Init
  <2>2. /\ panelUp \in BOOLEAN /\ displayOnline \in BOOLEAN
        /\ opened \in {"no", "opening", "open", "failed"}
    BY Zenon DEF Init
  <2>3. offset \in 0..Pages /\ segEnd \in 0..Pages /\ segOff \in 0..Pages
        /\ tries \in 0..PanelTries
    BY DEF Init
  <2>4. pc = "PIPE_SRC" /\ frame \in [0..Pages-1 -> Frames]  BY DEF Init
  <2> QED  BY <1>1, <2>1, <2>2, <2>3, <2>4 DEF TypeOK
<1>3. WalkExact  BY BaseIsZero DEF Init, WalkExact, Index
<1>4. Segment /\ PlaneAfterWalk
  BY DEF Init, Segment, PlaneAfterWalk, AfterMapped, Pipe
<1> QED  BY <1>2, <1>3, <1>4 DEF DisplayInv

\* A step that leaves the table and the walk alone keeps what is said of them.
LEMMA WalkUnchanged == WalkExact /\ Segment /\ UNCHANGED mapVars => (WalkExact /\ Segment)'
BY DEF WalkExact, Segment, mapVars

LEMMA FullUnchanged == Full /\ UNCHANGED <<frame, ggtt>> => Full'
BY DEF Full

\* At the end of the walk the whole table is as it should be.
LEMMA WalkedIsFull == ASSUME TypeOK, WalkExact, offset = Pages PROVE Full
<1> SUFFICES ASSUME NEW p \in 0..Pages-1 PROVE ggtt[ggttBaseIndex + p] = frame[p]
  BY DEF Full
<1>1. p \in Index /\ ggttBaseIndex + p = p /\ p - ggttBaseIndex = p
  BY PageFacts, BaseIsZero
<1> QED  BY <1>1 DEF WalkExact

\* The two register groups before the mapping, and its beginning.
LEMMA BeforeStep == DisplayInv /\ (ProgramSource \/ MapGGTT \/ MapFails) => DisplayInv'
<1> SUFFICES ASSUME DisplayInv, ProgramSource \/ MapGGTT \/ MapFails PROVE DisplayInv'
  OBVIOUS
<1> USE DEF DisplayInv, walkVars, panelVars
<1>1. (WalkExact /\ Segment)'
  BY WalkUnchanged DEF ProgramSource, MapGGTT, MapFails, mapVars
<1>2. TypeOK'
  BY DEF ProgramSource, MapGGTT, MapFails, Answer, Write, TypeOK, Groups
<1>3. PlaneAfterWalk'
  BY FullUnchanged DEF ProgramSource, MapGGTT, MapFails, Write, PlaneAfterWalk,
                       AfterMapped, Pipe
<1> QED  BY <1>1, <1>2, <1>3

\* A new segment of the frame buffer.
LEMMA SegmentStep == DisplayInv /\ NextSegment => DisplayInv'
<1> SUFFICES ASSUME DisplayInv, NextSegment PROVE DisplayInv'  OBVIOUS
<1> USE DisplayAssumption
<1>1. PICK n \in 1..Pages-offset :
        /\ \A k \in 0..n-1 : frame[offset + k] = frame[offset] + k
        /\ segEnd' = offset + n
  BY DEF NextSegment
<1>2. /\ pc' = pc /\ frame' = frame /\ ggtt' = ggtt /\ offset' = offset
      /\ written' = written /\ segPhys' = frame[offset] /\ segOff' = 0
      /\ offset < Pages /\ pc = "walk"
      /\ UNCHANGED <<surf, panelUp, tries, displayOnline, opened>>
  BY DEF NextSegment, panelVars
<1>3. offset \in Nat /\ Pages \in Nat /\ offset \in 0..Pages-1
  BY <1>2 DEF DisplayInv, TypeOK
<1>4. frame[offset] \in Nat  BY <1>3, PageFacts DEF DisplayInv
<1>5. TypeOK'
  <2>1. segEnd' \in 0..Pages /\ segOff' \in 0..Pages /\ segPhys' \in Nat
    BY <1>1, <1>2, <1>3, <1>4
  <2> QED  BY <2>1, <1>2 DEF DisplayInv, TypeOK
<1>6. WalkExact'  BY <1>2 DEF DisplayInv, WalkExact
<1>7. Segment'
  <2>1. offset <= segEnd' /\ segEnd' <= Pages /\ segOff' <= offset  BY <1>1, <1>2, <1>3
  <2>2. ASSUME NEW p \in offset..segEnd'-1
        PROVE  frame[p] = segPhys' + segOff' + (p - offset)
    <3>1. p - offset \in 0..n-1 /\ offset + (p - offset) = p  BY <1>1, <1>3
    <3>2. frame[p] = frame[offset] + (p - offset)  BY <1>1, <3>1
    <3> QED  BY <3>2, <1>2, <1>3, <1>4, <3>1
  <2> QED  BY <2>1, <2>2, <1>2 DEF Segment
<1>8. PlaneAfterWalk'  BY <1>2, FullUnchanged DEF DisplayInv, PlaneAfterWalk
<1> QED  BY <1>5, <1>6, <1>7, <1>8 DEF DisplayInv

\* One page is entered.
LEMMA EnterStep == DisplayInv /\ EnterPage => DisplayInv'
<1> SUFFICES ASSUME DisplayInv, EnterPage PROVE DisplayInv'  OBVIOUS
<1> USE DisplayAssumption, BaseIsZero
<1>1. /\ pc = "walk" /\ offset < segEnd
      /\ ggtt' = [ggtt EXCEPT ![offset] = segPhys + segOff]
      /\ offset' = offset + 1 /\ segOff' = segOff + 1
      /\ UNCHANGED <<pc, frame, segPhys, segEnd, surf, written, panelUp, tries,
                     displayOnline, opened>>
  <2>1. offset \in Nat  BY DEF DisplayInv, TypeOK
  <2>2. ggttBaseIndex + offset = offset  BY <2>1
  <2> QED  BY <2>2 DEF EnterPage, panelVars
<1>2. /\ offset \in Nat /\ segEnd \in Nat /\ segOff \in Nat /\ segPhys \in Nat
      /\ Pages \in Nat /\ Entries \in Nat
      /\ segEnd <= Pages /\ Pages <= Entries /\ segOff <= offset
  BY DEF DisplayInv, TypeOK, Segment
<1>3. offset \in Index /\ ggtt \in [Index -> Nat]
  BY <1>1, <1>2 DEF Index, DisplayInv, TypeOK
<1>4. frame[offset] = segPhys + segOff
  <2>1. offset \in offset..segEnd-1  BY <1>1, <1>2
  <2>2. frame[offset] = segPhys + segOff + (offset - offset)
    BY <2>1 DEF DisplayInv, Segment
  <2> QED  BY <2>2, <1>2
<1>5. TypeOK'
  <2>1. ggtt' \in [Index -> Nat]  BY <1>1, <1>2, <1>3
  <2>2. offset' \in 0..Pages /\ segOff' \in 0..Pages  BY <1>1, <1>2
  <2> QED  BY <2>1, <2>2, <1>1 DEF DisplayInv, TypeOK
<1>6. WalkExact'
  <2> SUFFICES ASSUME NEW i \in Index
               PROVE  /\ i \in 0..offset'-1 => ggtt'[i] = frame[i]
                      /\ ggtt'[i] = Firmware \/ (i \in 0..Pages-1 /\ ggtt'[i] = frame[i])
    <3>1. \A i \in Index : i - ggttBaseIndex = i  BY DEF Index
    <3> QED  BY <3>1, <1>1 DEF WalkExact
  <2>1. i \in Nat /\ i - ggttBaseIndex = i  BY DEF Index
  <2>2. /\ i \in 0..offset-1 => ggtt[i] = frame[i]
        /\ ggtt[i] = Firmware \/ (i \in 0..Pages-1 /\ ggtt[i] = frame[i])
    BY <2>1 DEF DisplayInv, WalkExact
  <2>3. CASE i = offset
    <3>1. ggtt'[i] = segPhys + segOff  BY <1>1, <1>3, <2>3
    <3>2. i \in 0..Pages-1  BY <1>1, <1>2, <2>3
    <3> QED  BY <3>1, <3>2, <1>4, <2>3
  <2>4. CASE i # offset
    <3>1. ggtt'[i] = ggtt[i]  BY <1>1, <1>3, <2>4
    <3>2. i \in 0..offset'-1 <=> i \in 0..offset-1  BY <1>1, <1>2, <2>1, <2>4
    <3> QED  BY <3>1, <3>2, <2>2
  <2> QED  BY <2>3, <2>4
<1>7. Segment'
  <2>1. offset' <= segEnd /\ segEnd <= Pages /\ segOff' <= offset'  BY <1>1, <1>2
  <2>2. ASSUME NEW p \in offset'..segEnd-1
        PROVE  frame[p] = segPhys + segOff' + (p - offset')
    <3>1. p \in offset..segEnd-1  BY <1>1, <1>2
    <3>2. frame[p] = segPhys + segOff + (p - offset)
      BY <3>1 DEF DisplayInv, Segment
    <3> QED  BY <3>2, <3>1, <1>1, <1>2
  <2> QED  BY <2>1, <2>2, <1>1 DEF Segment
<1>8. PlaneAfterWalk'
  <2>1. Full => Full'
    <3> SUFFICES ASSUME Full, NEW p \in 0..Pages-1 PROVE ggtt'[p] = frame[p]
      <4>1. \A p \in 0..Pages-1 : ggttBaseIndex + p = p  OBVIOUS
      <4> QED  BY <4>1, <1>1 DEF Full
    <3>1. ggtt[p] = frame[p] /\ p \in Index
      <4>1. ggttBaseIndex + p = p  OBVIOUS
      <4> QED  BY <4>1, PageFacts DEF Full, DisplayInv
    <3>2. CASE p = offset  BY <3>2, <1>1, <1>3, <1>4
    <3>3. CASE p # offset  BY <3>1, <3>3, <1>1, <1>3
    <3> QED  BY <3>2, <3>3
  <2>2. pc' = pc /\ written' = written /\ surf' = surf  BY <1>1
  <2> QED  BY <2>1, <2>2 DEF DisplayInv, PlaneAfterWalk
<1> QED  BY <1>5, <1>6, <1>7, <1>8 DEF DisplayInv

\* The rest of the sequence, which leaves the table alone.
LEMMA AfterStep ==
    DisplayInv /\ (\/ Mapped \/ ProgramSurface \/ ProgramPipe \/ PowerPanel
                   \/ PollPanel \/ EnableBacklight \/ Paint \/ GoOnline
                   \/ OpenReturns \/ PanelReports) => DisplayInv'
<1> SUFFICES ASSUME DisplayInv,
                    \/ Mapped \/ ProgramSurface \/ ProgramPipe \/ PowerPanel
                    \/ PollPanel \/ EnableBacklight \/ Paint \/ GoOnline
                    \/ OpenReturns \/ PanelReports
             PROVE  DisplayInv'
  OBVIOUS
<1>1. UNCHANGED mapVars
  BY DEF Mapped, ProgramSurface, ProgramPipe, PowerPanel, PollPanel, EnableBacklight,
         Paint, GoOnline, OpenReturns, PanelReports, walkVars, mapVars
<1>2. (WalkExact /\ Segment)'  BY <1>1, WalkUnchanged DEF DisplayInv
<1>4. Full => Full'  BY <1>1, FullUnchanged DEF mapVars
<1> DEFINE Kept == <<surf, panelUp, tries, displayOnline, opened>>
<1>3. TypeOK' /\ PlaneAfterWalk'
  <2> USE DEF DisplayInv, Write, mapVars, panelVars, PlaneAfterWalk,
              AfterMapped, Pipe
  <2>1. CASE Mapped
    <3>1. offset = Pages  BY <2>1 DEF Mapped
    <3>2. Full  BY <3>1, WalkedIsFull
    <3> QED  BY <2>1, <3>2, <1>1, <1>4, RegistersByName DEF Mapped, TypeOK
  <2>2. CASE ProgramSurface
    <3>1. /\ pc = "PLANE_SURF" /\ pc' = "PLANE_BUF_CFG"
          /\ written' = written \cup {"PLANE_SURF"} /\ surf' = 2048
          /\ UNCHANGED <<panelUp, tries, displayOnline, opened>>
      BY <2>2 DEF ProgramSurface, fbGGTTOffset
    <3>2. TypeOK'
      <4>1. written' \subseteq Groups  BY <3>1, RegistersByName DEF TypeOK, Groups
      <4>2. pc' \in {Registers[i] : i \in 1..12}  BY <3>1, RegistersByName
      <4>3. surf' \in Nat  BY <3>1
      <4>4. /\ frame' = frame /\ ggtt' = ggtt /\ offset' = offset /\ segEnd' = segEnd
            /\ segOff' = segOff /\ segPhys' = segPhys /\ panelUp' = panelUp
            /\ tries' = tries /\ displayOnline' = displayOnline /\ opened' = opened
        BY <3>1, <1>1
      <4> QED  BY <4>1, <4>2, <4>3, <4>4 DEF TypeOK
    <3>3. PlaneAfterWalk'  BY <3>1, <1>4 DEF fbGGTTOffset
    <3> QED  BY <3>2, <3>3
  <2>3. CASE ProgramPipe
    <3>1. PICK i \in 2..11 : Write(Registers[i], Registers[i + 1])
      BY <2>3 DEF ProgramPipe
    <3>2. Registers[i] \in Pipe /\ Registers[i + 1] \in Pipe
      <4>1. i \in 1..12 /\ i + 1 \in 1..12  OBVIOUS
      <4> QED  BY <4>1, RegistersByName
    <3>3. pc \in Pipe /\ pc' \in Pipe /\ written' = written \cup {pc}  BY <3>1, <3>2
    <3>7. pc # "PLANE_SURF"
      <4>1. i \in {2, 3, 4, 5, 6, 7, 8, 9, 10, 11}  OBVIOUS
      <4> QED  BY <4>1, <3>1 DEF Registers
    <3>4. UNCHANGED Kept  BY <2>3 DEF ProgramPipe
    <3>5. TypeOK'
      <4>1. written' \subseteq Groups  BY <3>3 DEF TypeOK, Groups
      <4>2. pc' \in {Registers[j] : j \in 1..12}  BY <3>3, RegistersByName
      <4> QED  BY <4>1, <4>2, <3>4, <1>1 DEF TypeOK
    <3>6. PlaneAfterWalk'  BY <3>3, <3>4, <3>7, <1>4
    <3> QED  BY <3>5, <3>6
  <2>4. CASE PowerPanel
    BY <2>4, <1>1, <1>4, RegistersByName DEF PowerPanel, TypeOK, Groups
  <2>5. CASE PollPanel
    <3>1. /\ pc = "panel" /\ pc' \in {"panel", "BACKLIGHT"}
          /\ UNCHANGED <<surf, written, panelUp, displayOnline, opened>>
      BY <2>5 DEF PollPanel
    <3>2. tries' \in 0..PanelTries
      BY <2>5, DisplayAssumption DEF PollPanel, TypeOK
    <3>3. TypeOK'  BY <3>1, <3>2, <1>1 DEF TypeOK
    <3>4. PlaneAfterWalk'  BY <3>1, <1>4
    <3> QED  BY <3>3, <3>4
  <2>6. CASE EnableBacklight
    BY <2>6, <1>1, <1>4 DEF EnableBacklight, TypeOK, Groups
  <2>7. CASE Paint \/ GoOnline \/ OpenReturns \/ PanelReports
    BY <2>7, <1>1, <1>4 DEF Paint, GoOnline, OpenReturns, PanelReports, Answer, TypeOK
  <2> QED  BY <2>1, <2>2, <2>3, <2>4, <2>5, <2>6, <2>7
<1> QED  BY <1>2, <1>3 DEF DisplayInv

\* open() starts over and leaves the table as it is.
LEMMA OpenStep == DisplayInv /\ Open => DisplayInv'
<1> SUFFICES ASSUME DisplayInv, Open PROVE DisplayInv'  OBVIOUS
<1> USE DisplayAssumption
<1>1. /\ pc' = "PIPE_SRC" /\ opened' = "opening" /\ offset' = 0 /\ segPhys' = 0
      /\ segEnd' = 0 /\ segOff' = 0 /\ tries' = 0
      /\ UNCHANGED <<frame, ggtt, surf, written, panelUp, displayOnline>>
  BY DEF Open
<1>2. TypeOK'  BY <1>1 DEF DisplayInv, TypeOK
<1>3. WalkExact'  BY <1>1, BaseIsZero DEF DisplayInv, WalkExact, Index
<1>4. Segment'  BY <1>1 DEF Segment
<1>5. PlaneAfterWalk'
  BY <1>1, FullUnchanged DEF DisplayInv, PlaneAfterWalk, AfterMapped, Pipe
<1> QED  BY <1>2, <1>3, <1>4, <1>5 DEF DisplayInv

LEMMA DisplayStep == DisplayInv /\ [Next]_vars => DisplayInv'
<1> SUFFICES ASSUME DisplayInv, [Next]_vars PROVE DisplayInv'  OBVIOUS
<1>1. CASE Next
  BY <1>1, BeforeStep, SegmentStep, EnterStep, AfterStep, OpenStep DEF Next, Driver
<1>2. CASE UNCHANGED vars
  BY <1>2 DEF vars, walkVars, panelVars, DisplayInv, TypeOK, WalkExact, Segment,
              PlaneAfterWalk, Full
<1> QED  BY <1>1, <1>2
-----------------------------------------------------------------------------
(* The session, and pixels.                                                *)


\* All WindowServer can have been told of is mode 1 with depth 0.
OneMode ==
    /\ modes \subseteq {1} /\ depths \subseteq {<<1, 0>>}
    /\ asked \subseteq Questions /\ refused = {}
    /\ bytesPerRow \in {0, Width * bytesPerPixel}
    /\ current = <<0, 0>> \/ (current = <<1, 0>> /\ current \in depths)

ScanoutInv == DisplayInv /\ OneMode
-----------------------------------------------------------------------------
LEMMA InitScanout == ScanoutInit => ScanoutInv
BY InitDisplay DEF ScanoutInit, ScanoutInv, OneMode

\* A question put with what was told is answered.
LEMMA SessionStep == OneMode /\ Session => OneMode' /\ UNCHANGED vars
<1> SUFFICES ASSUME OneMode, Session PROVE OneMode' /\ UNCHANGED vars  OBVIOUS
<1> USE DEF OneMode, Ask, Answered, Refused, Questions
<1>1. CASE getStartupDisplayMode  BY <1>1 DEF getStartupDisplayMode
<1>2. CASE getDisplayModes  BY <1>2 DEF getDisplayModes
<1>3. ASSUME NEW m \in modes,
             getInformationForDisplayMode(m) \/ getTimingInfoForDisplayMode(m)
      PROVE  OneMode' /\ UNCHANGED vars
  <2>1. m = 1  OBVIOUS
  <2> QED  BY <1>3, <2>1 DEF getInformationForDisplayMode, getTimingInfoForDisplayMode
<1>4. ASSUME NEW d \in depths,
             \/ getPixelFormatsForDisplayMode(d[1], d[2])
             \/ getPixelInformation(d[1], d[2])
             \/ setDisplayMode(d[1], d[2])
      PROVE  OneMode' /\ UNCHANGED vars
  <2>1. d = <<1, 0>> /\ d[1] = 1 /\ d[2] = 0  OBVIOUS
  <2>2. CASE getPixelFormatsForDisplayMode(1, 0)
    BY <2>2 DEF getPixelFormatsForDisplayMode
  <2>3. CASE getPixelInformation(1, 0)  BY <2>3 DEF getPixelInformation
  <2>4. CASE setDisplayMode(1, 0)  BY <2>4, <2>1 DEF setDisplayMode
  <2> QED  BY <1>4, <2>1, <2>2, <2>3, <2>4
<1> QED  BY <1>1, <1>2, <1>3, <1>4 DEF Session

LEMMA DisplayKept == DisplayInv /\ UNCHANGED vars => DisplayInv'
BY DisplayStep

LEMMA ScanoutInductive == ScanoutSpec => []ScanoutInv
<1>1. ScanoutInv /\ [ScanoutNext]_scanoutVars => ScanoutInv'
  <2> SUFFICES ASSUME ScanoutInv, [ScanoutNext]_scanoutVars PROVE ScanoutInv'  OBVIOUS
  <2>1. CASE Next /\ UNCHANGED session
    BY <2>1, DisplayStep DEF ScanoutInv, OneMode, session
  <2>2. CASE Session  BY <2>2, SessionStep, DisplayKept DEF ScanoutInv
  <2>3. CASE UNCHANGED scanoutVars
    BY <2>3, DisplayKept DEF scanoutVars, session, ScanoutInv, OneMode
  <2> QED  BY <2>1, <2>2, <2>3 DEF ScanoutNext
<1> QED  BY <1>1, InitScanout, PTL DEF ScanoutSpec
-----------------------------------------------------------------------------
(* Where the bytes of a pixel lie.                                         *)

\* The plane's row length is the frame buffer's.
LEMMA StrideIsRow == strideBlocks * StrideUnit = Width * bytesPerPixel
<1>1. /\ Width * bytesPerPixel \in Nat /\ StrideUnit \in Nat \ {0}
      /\ (Width * bytesPerPixel) % StrideUnit = 0
  BY ScanoutAssumption DEF bytesPerPixel
<1>2. ASSUME NEW n \in Nat, NEW u \in Nat \ {0}, n % u = 0 PROVE (n \div u) * u = n
  BY <1>2, Z3
<1> QED  BY <1>1, <1>2 DEF strideBlocks

\* A pixel lies in one page of the frame buffer.
LEMMA PixelInPage ==
    ASSUME NEW x \in 0..Width-1, NEW y \in 0..Height-1
    PROVE  LET o == (y * Width + x) * bytesPerPixel IN
           /\ o \in Nat /\ o \div PageBytes \in 0..Pages-1
<1> DEFINE o == (y * Width + x) * bytesPerPixel
<1>1. /\ Width \in Nat \ {0} /\ Height \in Nat \ {0} /\ PageBytes \in Nat \ {0}
      /\ Pages \in Nat \ {0} /\ Width * Height * 4 <= Pages * PageBytes
      /\ x \in Nat /\ x <= Width - 1 /\ y \in Nat /\ y <= Height - 1
  BY ScanoutAssumption, DisplayAssumption DEF rawSize, bytesPerPixel
<1>2. y * Width + x < Width * Height
  <2>1. y * Width <= (Height - 1) * Width  BY <1>1
  <2>2. (Height - 1) * Width = Width * Height - Width  BY <1>1
  <2>3. y * Width \in Nat /\ Width * Height \in Nat  BY <1>1
  <2> QED  BY <2>1, <2>2, <2>3, <1>1
<1>3. o \in Nat /\ o < Pages * PageBytes
  <2>1. y * Width \in Nat /\ Width * Height \in Nat /\ Pages * PageBytes \in Nat  BY <1>1
  <2> QED  BY <2>1, <1>1, <1>2 DEF bytesPerPixel
<1>4. ASSUME NEW n \in Nat, NEW b \in Nat \ {0}, NEW k \in Nat, n < k * b
      PROVE  n \div b \in 0..k-1
  BY <1>4, Z3
<1> QED  BY <1>1, <1>3, <1>4

\* The three forms of the offset are one.
LEMMA OffsetsAgree ==
    ASSUME NEW x \in 0..Width-1, NEW y \in 0..Height-1
    PROVE  y * (Width * bytesPerPixel) + x * bytesPerPixel
              = (y * Width + x) * bytesPerPixel
<1>1. x \in Nat /\ y \in Nat /\ Width \in Nat /\ y * Width \in Nat
  BY ScanoutAssumption
<1>2. y * (Width * 4) = (y * Width) * 4  BY <1>1
<1> QED  BY <1>1, <1>2 DEF bytesPerPixel

LEMMA SurfaceEntry == fbGGTTOffset \div kPageSize = ggttBaseIndex
BY DEF fbGGTTOffset, kPageSize, ggttBaseIndex

\* Memory and panel agree about a pixel when the table is full.
LEMMA ShownWhereDrawn ==
    ASSUME DisplayInv, Scanning, NEW x \in 0..Width-1, NEW y \in 0..Height-1
    PROVE  MemoryAt((y * Width + x) * bytesPerPixel) = ScannedAt(x, y)
<1> DEFINE o == (y * Width + x) * bytesPerPixel
<1>1. Full /\ surf = fbGGTTOffset  BY DEF Scanning, DisplayInv, PlaneAfterWalk
<1>2. y * (strideBlocks * StrideUnit) + x * bytesPerPixel = o
  BY StrideIsRow, OffsetsAgree
<1>3. y * strideBlocks * StrideUnit = y * (strideBlocks * StrideUnit)
  <2>1. y \in Nat /\ StrideUnit \in Nat /\ strideBlocks \in Int
    BY ScanoutAssumption DEF strideBlocks, bytesPerPixel
  <2> QED  BY <2>1
<1>4. o \div PageBytes \in 0..Pages-1  BY PixelInPage
<1>5. ggtt[ggttBaseIndex + (o \div PageBytes)] = frame[o \div PageBytes]
  BY <1>1, <1>4 DEF Full
<1>6. ScannedAt(x, y) = ggtt[ggttBaseIndex + (o \div PageBytes)] * PageBytes + (o % PageBytes)
  BY <1>1, <1>2, <1>3, SurfaceEntry DEF ScannedAt
<1> QED  BY <1>5, <1>6 DEF MemoryAt
-----------------------------------------------------------------------------
\* The pages entered so far hold their own frames and nothing else is touched,
\* in the first walk of the table and in the second.
THEOREM TableWalkExact == ScanoutSpec => []WalkExact
<1>1. ScanoutInv => WalkExact  BY DEF ScanoutInv, DisplayInv
<1> QED  BY <1>1, ScanoutInductive, PTL

\* The plane is pointed at the frame buffer when all of it is in the table, and
\* all of it stays there.
THEOREM PlaneScansOwnMemory == ScanoutSpec => []ScansOwnMemory
<1>1. ScanoutInv => ScansOwnMemory
  BY DEF ScanoutInv, DisplayInv, PlaneAfterWalk, Full, ScansOwnMemory
<1> QED  BY <1>1, ScanoutInductive, PTL

\* The types of the session's variables and of the display's.
THEOREM ScanoutTypeCorrect == ScanoutSpec => []ScanoutTypeOK
<1>1. ASSUME ScanoutInv PROVE ScanoutTypeOK
  <2>1. Width * bytesPerPixel \in Nat  BY ScanoutAssumption DEF bytesPerPixel
  <2>2. current \in Nat \X Nat /\ depths \subseteq Nat \X Nat /\ modes \subseteq Nat
    BY <1>1 DEF ScanoutInv, OneMode
  <2> QED  BY <1>1, <2>1, <2>2 DEF ScanoutInv, OneMode, DisplayInv, ScanoutTypeOK
<1> QED  BY <1>1, ScanoutInductive, PTL

\* Nothing the framebuffer has told WindowServer of is refused later.
THEOREM AnswersAlwaysAgree == ScanoutSpec => []AnswersAgree
<1>1. ScanoutInv => AnswersAgree  BY DEF ScanoutInv, OneMode, AnswersAgree
<1> QED  BY <1>1, ScanoutInductive, PTL

\* Every pixel is shown where it was drawn, whoever drew it.
THEOREM PixelsOnScreen == ScanoutSpec => []PixelOnScreen
<1>1. ASSUME ScanoutInv PROVE PixelOnScreen
  <2> SUFFICES ASSUME Scanning, NEW x \in 0..Width-1, NEW y \in 0..Height-1
               PROVE  /\ MemoryAt(XYOffset(x, y)) = ScannedAt(x, y)
                      /\ MemoryAt(AccelOffset(x, y)) = ScannedAt(x, y)
                      /\ MemoryAt(PatternOffset(x, y)) = ScannedAt(x, y)
                      /\ bytesPerRow # 0 => MemoryAt(RowOffset(x, y)) = ScannedAt(x, y)
    BY DEF PixelOnScreen, Pixels
  <2>1. MemoryAt((y * Width + x) * bytesPerPixel) = ScannedAt(x, y)
    BY <1>1, ShownWhereDrawn DEF ScanoutInv
  <2>2. XYOffset(x, y) = (y * Width + x) * bytesPerPixel
        /\ PatternOffset(x, y) = (y * Width + x) * bytesPerPixel
    BY DEF XYOffset, PatternOffset
  <2>3. AccelOffset(x, y) = (y * Width + x) * bytesPerPixel
    BY OffsetsAgree DEF AccelOffset, getStride
  <2>4. bytesPerRow # 0 => RowOffset(x, y) = (y * Width + x) * bytesPerPixel
    BY <1>1, OffsetsAgree DEF RowOffset, ScanoutInv, OneMode
  <2> QED  BY <2>1, <2>2, <2>3, <2>4
<1> QED  BY <1>1, ScanoutInductive, PTL
-----------------------------------------------------------------------------
(* Bring-up ends.                                                          *)

LEMMA LinesLeftByName ==
    /\ LinesLeft["PIPE_SRC"] = 20 /\ LinesLeft["PLANE_SIZE"] = 19
    /\ LinesLeft["map"] = 18 /\ LinesLeft["walk"] = 17
    /\ LinesLeft["PLANE_SURF"] = 16 /\ LinesLeft["PLANE_BUF_CFG"] = 15
    /\ LinesLeft["WATERMARKS"] = 14 /\ LinesLeft["PLANE_STRIDE"] = 13
    /\ LinesLeft["PLANE_CTL"] = 12 /\ LinesLeft["CURSOR"] = 11
    /\ LinesLeft["TIMINGS"] = 10 /\ LinesLeft["SCALER"] = 9
    /\ LinesLeft["PIPECONF"] = 8 /\ LinesLeft["TRANS_CONF"] = 7
    /\ LinesLeft["DDI_BUF_CTL"] = 6 /\ LinesLeft["PP_CONTROL"] = 5
    /\ LinesLeft["panel"] = 4 /\ LinesLeft["BACKLIGHT"] = 3 /\ LinesLeft["paint"] = 2
    /\ LinesLeft["returned"] = 1 /\ LinesLeft["online"] = 0
BY DEF LinesLeft

LEMMA RegistersInOrder ==
    \A i \in 1..12 : LinesLeft[Registers[i]] = 17 - i
<1> SUFFICES ASSUME NEW i \in 1..12 PROVE LinesLeft[Registers[i]] = 17 - i  OBVIOUS
<1>1. i \in {1, 2, 3, 4, 5, 6, 7, 8, 9, 10, 11, 12}  OBVIOUS
<1>2. /\ Registers[1] = "PLANE_SURF" /\ Registers[2] = "PLANE_BUF_CFG"
      /\ Registers[3] = "WATERMARKS" /\ Registers[4] = "PLANE_STRIDE"
      /\ Registers[5] = "PLANE_CTL" /\ Registers[6] = "CURSOR"
      /\ Registers[7] = "TIMINGS" /\ Registers[8] = "SCALER"
      /\ Registers[9] = "PIPECONF" /\ Registers[10] = "TRANS_CONF"
      /\ Registers[11] = "DDI_BUF_CTL" /\ Registers[12] = "PP_CONTROL"
  BY DEF Registers
<1> QED  BY <1>1, <1>2, LinesLeftByName

\* There is a line count for every line.
LEMMA LinesLeftIsNat ==
    ASSUME NEW line \in {"PIPE_SRC", "PLANE_SIZE", "map", "walk", "panel", "BACKLIGHT",
                         "paint", "returned", "online"} \cup {Registers[i] : i \in 1..12}
    PROVE  LinesLeft[line] \in 0..20
<1>1. CASE line \in {Registers[i] : i \in 1..12}
  <2>1. PICK i \in 1..12 : line = Registers[i]  BY <1>1
  <2>2. LinesLeft[line] = 17 - i  BY <2>1, RegistersInOrder
  <2> QED  BY <2>2
<1>2. CASE line \in {"PIPE_SRC", "PLANE_SIZE", "map", "walk", "panel", "BACKLIGHT",
                     "paint", "returned", "online"}
  BY <1>2, LinesLeftByName
<1> QED  BY <1>1, <1>2

\* The numbers of the measure.
LEMMA MeasureFacts ==
    ASSUME TypeOK
    PROVE  /\ LinesLeft[pc] \in 0..20
           /\ Pages \in Nat /\ PanelTries \in Nat
           /\ offset \in 0..Pages /\ segEnd \in 0..Pages /\ tries \in 0..PanelTries
           /\ CallLeft \in Nat /\ WholeCall = 21 + 2 * Pages + PanelTries
           /\ StepsLeft \in Nat
<1>1. /\ LinesLeft[pc] \in 0..20 /\ Pages \in Nat /\ PanelTries \in Nat
      /\ offset \in 0..Pages /\ segEnd \in 0..Pages /\ tries \in 0..PanelTries
  <2>1. LinesLeft[pc] \in 0..20  BY LinesLeftIsNat DEF TypeOK
  <2> QED  BY <2>1, DisplayAssumption DEF TypeOK
<1>2. CallLeft \in Nat  BY <1>1 DEF CallLeft
<1>3. WholeCall = 21 + 2 * Pages + PanelTries  BY <1>1, LinesLeftByName DEF WholeCall
<1>4. StepsLeft \in Nat  BY <1>1, <1>2, <1>3 DEF StepsLeft
<1> QED  BY <1>1, <1>2, <1>3, <1>4

LEMMA MeasureStaysNat == ASSUME TypeOK' PROVE CallLeft' \in Nat /\ StepsLeft' \in Nat
<1>1. /\ LinesLeft[pc'] \in 0..20 /\ Pages \in Nat /\ PanelTries \in Nat
      /\ offset' \in 0..Pages /\ segEnd' \in 0..Pages /\ tries' \in 0..PanelTries
  <2>1. LinesLeft[pc'] \in 0..20  BY LinesLeftIsNat DEF TypeOK
  <2> QED  BY <2>1, DisplayAssumption DEF TypeOK
<1>2. CallLeft' \in Nat  BY <1>1 DEF CallLeft
<1>3. WholeCall \in Nat  BY <1>1, LinesLeftByName DEF WholeCall
<1> QED  BY <1>2, <1>3 DEF StepsLeft, WholeCall

\* A line later, with the rest as it was.
LEMMA LineForward ==
    ASSUME TypeOK, TypeOK', LinesLeft[pc'] < LinesLeft[pc],
           UNCHANGED <<offset, segEnd, tries, panelUp>>,
           opened' = "no" => opened = "no"
    PROVE  StepsLeft' < StepsLeft
<1>1. CallLeft' < CallLeft
  <2>1. LinesLeft[pc] \in 0..20 /\ LinesLeft[pc'] \in 0..20
    BY LinesLeftIsNat DEF TypeOK
  <2>2. /\ CallLeft = LinesLeft[pc] + 2 * (Pages - offset)
                         + (IF offset = segEnd THEN 1 ELSE 0) + (PanelTries - tries)
        /\ CallLeft' = LinesLeft[pc'] + 2 * (Pages - offset)
                         + (IF offset = segEnd THEN 1 ELSE 0) + (PanelTries - tries)
    BY DEF CallLeft
  <2> QED  BY <2>1, <2>2, MeasureFacts
<1>2. CallLeft \in Nat /\ WholeCall \in Nat /\ CallLeft' \in Nat
  BY MeasureFacts, MeasureStaysNat
<1> QED  BY <1>1, <1>2 DEF StepsLeft, WholeCall

LEMMA ForwardStep ==
    DisplayInv /\ Next => StepsLeft' < StepsLeft
<1> SUFFICES ASSUME DisplayInv, Next PROVE StepsLeft' < StepsLeft  OBVIOUS
<1>0. TypeOK /\ TypeOK'  BY DisplayStep DEF DisplayInv
<1> USE <1>0, LinesLeftByName DEF walkVars, panelVars
<1>1. CASE ProgramSource  BY <1>1, LineForward DEF ProgramSource, Write
<1>2. CASE MapGGTT \/ Mapped  BY <1>2, LineForward DEF MapGGTT, Mapped
<1>3. CASE MapFails  BY <1>3, LineForward DEF MapFails, Answer
<1>4. CASE ProgramSurface \/ PowerPanel \/ EnableBacklight
  BY <1>4, LineForward DEF ProgramSurface, PowerPanel, EnableBacklight, Write
<1>5. CASE ProgramPipe
  <2>1. PICK i \in 2..11 : Write(Registers[i], Registers[i + 1])
    BY <1>5 DEF ProgramPipe
  <2>2. LinesLeft[Registers[i]] = 17 - i /\ LinesLeft[Registers[i + 1]] = 17 - (i + 1)
    BY RegistersInOrder
  <2>3. LinesLeft[pc'] < LinesLeft[pc]  BY <2>1, <2>2 DEF Write
  <2> QED  BY <2>3, <1>5, LineForward DEF ProgramPipe
<1>6. CASE Paint \/ GoOnline \/ OpenReturns
  BY <1>6, LineForward DEF Paint, GoOnline, OpenReturns, Answer
<1>7. CASE NextSegment
  <2>1. PICK n \in 1..Pages-offset : segEnd' = offset + n  BY <1>7 DEF NextSegment
  <2>2. /\ offset = segEnd /\ offset # segEnd' /\ offset \in Nat
        /\ UNCHANGED <<pc, offset, tries, panelUp, opened>>
    BY <1>7, <2>1, MeasureFacts DEF NextSegment
  <2>3. CallLeft' = CallLeft - 1  BY <2>2, MeasureFacts DEF CallLeft
  <2> QED  BY <2>2, <2>3, MeasureFacts DEF StepsLeft, WholeCall
<1>8. CASE EnterPage
  <2>1. /\ offset < segEnd /\ offset' = offset + 1
        /\ UNCHANGED <<pc, segEnd, tries, panelUp, opened>>
    BY <1>8 DEF EnterPage
  <2>2. CallLeft' < CallLeft /\ CallLeft' \in Int
    BY <2>1, MeasureFacts DEF CallLeft
  <2> QED  BY <2>1, <2>2, MeasureFacts DEF StepsLeft, WholeCall
<1>9. CASE PollPanel
  <2>1. CASE pc' = "BACKLIGHT" /\ UNCHANGED tries
    BY <1>9, <2>1, LineForward DEF PollPanel
  <2>2. CASE tries' = tries + 1 /\ UNCHANGED pc
    <3>1. UNCHANGED <<offset, segEnd, panelUp, opened>>  BY <1>9 DEF PollPanel
    <3>2. CallLeft' = CallLeft - 1  BY <2>2, <3>1, MeasureFacts DEF CallLeft
    <3> QED  BY <3>1, <3>2, MeasureFacts DEF StepsLeft, WholeCall
  <2> QED  BY <1>9, <2>1, <2>2 DEF PollPanel
<1>10. CASE Open
  <2>1. /\ opened = "no" /\ opened' = "opening" /\ pc' = "PIPE_SRC"
        /\ offset' = 0 /\ segEnd' = 0 /\ tries' = 0 /\ panelUp' = panelUp
    BY <1>10 DEF Open
  <2>2. CallLeft' = WholeCall
    BY <2>1, MeasureFacts DEF CallLeft, WholeCall
  <2> QED  BY <2>1, <2>2, MeasureFacts DEF StepsLeft, WholeCall
<1>11. CASE PanelReports
  <2>1. /\ ~panelUp /\ panelUp' = TRUE
        /\ UNCHANGED <<pc, offset, segEnd, tries, opened>>
    BY <1>11 DEF PanelReports
  <2>2. CallLeft' = CallLeft  BY <2>1 DEF CallLeft
  <2> QED  BY <2>1, <2>2, MeasureFacts DEF StepsLeft, WholeCall
<1> QED
  BY <1>1, <1>2, <1>3, <1>4, <1>5, <1>6, <1>7, <1>8, <1>9, <1>10, <1>11 DEF Next, Driver

\* A framebuffer of any size in any segments, a panel read any number of
\* times: both calls of enableController come to their end.
THEOREM BringUpGoesForward == ScanoutSpec => OnlyForward
<1>1. ASSUME ScanoutInv, [ScanoutNext]_scanoutVars
      PROVE  [StepsLeft' \in 0..StepsLeft-1]_vars
  <2>1. CASE UNCHANGED vars  BY <2>1
  <2>2. CASE Next /\ UNCHANGED session
    <3>1. StepsLeft' < StepsLeft /\ StepsLeft \in Nat
      BY <1>1, <2>2, ForwardStep, MeasureFacts DEF ScanoutInv, DisplayInv
    <3>2. StepsLeft' \in Nat
      BY <1>1, <2>2, DisplayStep, MeasureStaysNat DEF ScanoutInv, DisplayInv
    <3> QED  BY <3>1, <3>2
  <2>3. CASE Session  BY <1>1, <2>1, <2>3, SessionStep DEF ScanoutInv
  <2> QED  BY <1>1, <2>1, <2>2, <2>3 DEF ScanoutNext, scanoutVars
<1> QED  BY <1>1, ScanoutInductive, PTL DEF ScanoutSpec, OnlyForward
=============================================================================
