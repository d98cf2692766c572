------------------------------ MODULE FBScanout ------------------------------
(***************************************************************************)
(* What the published framebuffer tells WindowServer about its display,    *)
(* and where a pixel drawn by that account comes out on the panel.         *)
(*                                                                         *)
(* After IOFramebuffer::open has succeeded, a session asks for modes,      *)
(* formats and sizes in any order, always with arguments it was given, and *)
(* sets a mode.  Every answer is a constant of the source, and each        *)
(* function has its own copy of it.  Lengths are in bytes of the small     *)
(* instance.                                                               *)
(***************************************************************************)
EXTENDS FBDisplay

CONSTANTS Width, Height,  \* the panel: H_ACTIVE and V_ACTIVE, 1920 and 1080
          PageBytes,      \* bytes of a page, 4096
          StrideUnit      \* bytes PLANE_STRIDE counts in, 64

bytesPerPixel == 4
rawSize == Width * Height * bytesPerPixel

ASSUME ScanoutAssumption ==
    /\ {Width, Height, PageBytes, StrideUnit} \subseteq Nat \ {0}
    /\ rawSize <= Pages * PageBytes
    /\ (Width * bytesPerPixel) % StrideUnit = 0

VARIABLES
    modes,       \* mode numbers WindowServer was given
    depths,      \* <<mode, depth>> pairs it was given
    asked,       \* questions that were answered
    bytesPerRow, \* the row length it was told, 0 before
    current,     \* currentMode and currentDepth
    refused      \* questions refused although their arguments were given to it

session == <<modes, depths, asked, bytesPerRow, current, refused>>
scanoutVars == <<vars, session>>

Questions == {"startup", "modes", "information", "formats", "pixels", "timing",
              "set"}

ScanoutTypeOK ==
    /\ TypeOK
    /\ modes \subseteq Nat /\ depths \subseteq Nat \X Nat
    /\ asked \subseteq Questions /\ refused \subseteq Questions
    /\ bytesPerRow \in Nat /\ current \in Nat \X Nat

ScanoutInit ==
    /\ Init
    /\ modes = {} /\ depths = {} /\ asked = {} /\ bytesPerRow = 0
    /\ current = <<0, 0>> /\ refused = {}
-----------------------------------------------------------------------------
(* The questions.  Each is put once, between calls of enableController.    *)

Ask(q) == opened = "open" /\ pc = "online" /\ q \notin asked /\ UNCHANGED vars
Answered(q) == asked' = asked \cup {q} /\ UNCHANGED refused
Refused(q) == refused' = refused \cup {q} /\ UNCHANGED asked

getStartupDisplayMode ==
    /\ Ask("startup") /\ Answered("startup")
    /\ modes' = modes \cup {1} /\ depths' = depths \cup {<<1, 0>>}
    /\ UNCHANGED <<bytesPerRow, current>>

\* getDisplayModeCount says one, getDisplayModes which.
getDisplayModes ==
    /\ Ask("modes") /\ Answered("modes")
    /\ modes' = modes \cup {1}
    /\ UNCHANGED <<depths, bytesPerRow, current>>

\* maxDepthIndex is 0, so that depth 0 is the only one of the mode.
getInformationForDisplayMode(mode) ==
    /\ Ask("information")
    /\ IF mode = 1
       THEN Answered("information") /\ depths' = depths \cup {<<mode, 0>>}
       ELSE Refused("information") /\ UNCHANGED depths
    /\ UNCHANGED <<modes, bytesPerRow, current>>

\* No bit set means no format, which leaves the mode without any.
getPixelFormatsForDisplayMode(mode, depth) ==
    /\ Ask("formats")
    /\ IF mode = 1 /\ depth = 0 THEN Answered("formats") ELSE Refused("formats")
    /\ UNCHANGED <<modes, depths, bytesPerRow, current>>

\* Mutation: modes counted from 0 here and from 1 elsewhere.
getPixelInformationOfMode0(mode, depth) ==
    /\ Ask("pixels")
    /\ IF mode = 0 /\ depth = 0
       THEN Answered("pixels") /\ bytesPerRow' = Width * bytesPerPixel
       ELSE Refused("pixels") /\ UNCHANGED bytesPerRow
    /\ UNCHANGED <<modes, depths, current>>

\* Of the system aperture, which is the one getAperture names.
getPixelInformation(mode, depth) ==
    /\ Ask("pixels")
    /\ IF mode = 1 /\ depth = 0
       THEN Answered("pixels") /\ bytesPerRow' = Width * bytesPerPixel
       ELSE Refused("pixels") /\ UNCHANGED bytesPerRow
    /\ UNCHANGED <<modes, depths, current>>

getTimingInfoForDisplayMode(mode) ==
    /\ Ask("timing")
    /\ IF mode = 1 THEN Answered("timing") ELSE Refused("timing")
    /\ UNCHANGED <<modes, depths, bytesPerRow, current>>

setDisplayMode(mode, depth) ==
    /\ Ask("set")
    /\ IF mode = 1 /\ depth = 0
       THEN Answered("set") /\ current' = <<mode, depth>>
       ELSE Refused("set") /\ UNCHANGED current
    /\ UNCHANGED <<modes, depths, bytesPerRow>>

Session ==
    \/ getStartupDisplayMode \/ getDisplayModes
    \/ \E m \in modes :
        getInformationForDisplayMode(m) \/ getTimingInfoForDisplayMode(m)
    \/ \E d \in depths :
        \/ getPixelFormatsForDisplayMode(d[1], d[2])
        \/ getPixelInformation(d[1], d[2])
        \/ setDisplayMode(d[1], d[2])

ScanoutNext == (Next /\ UNCHANGED session) \/ Session

ScanoutSpec == ScanoutInit /\ [][ScanoutNext]_scanoutVars

\* The thread in start() runs; the panel need not answer, nor anybody open.
ScanoutFairSpec == ScanoutSpec /\ WF_scanoutVars(Driver /\ UNCHANGED session)
-----------------------------------------------------------------------------
(* Pixels.  (x, y) is drawn at an offset in the frame buffer, which lies in *)
(* the page frames of "frame"; the panel shows what the plane reads.        *)

Pixels == (0..Width-1) \X (0..Height-1)

\* The byte of physical memory at an offset of the frame buffer's mappings:
\* the kernel's and the clients' (clientMemoryForType) are in the order of the
\* pages.  A client that goes by getApertureRange's one address instead has
\* these bytes only where the pages follow each other (ApertureIsFrameBuffer).
MemoryAt(o) == frame[o \div PageBytes] * PageBytes + (o % PageBytes)

\* Mutation: rows counted by the last column instead of the number of them.
XYOffsetLastColumn(x, y) == (y * (Width - 1) + x) * bytesPerPixel

\* getFramebufferOffsetForX_Y.
XYOffset(x, y) == (y * Width + x) * bytesPerPixel

\* A client that has the frame buffer mapped and was told its row length.
RowOffset(x, y) == y * bytesPerRow + x * bytesPerPixel

\* The accelerator, and the test pattern of enableController.
getStride == Width * bytesPerPixel
AccelOffset(x, y) == y * getStride + x * bytesPerPixel
PatternOffset(x, y) == (y * Width + x) * bytesPerPixel

\* PLANE_STRIDE: the row length in units.
strideBlocks == (Width * bytesPerPixel) \div StrideUnit

Scanning == {"PLANE_SIZE", "PLANE_SURF", "PLANE_STRIDE", "PLANE_CTL"} \subseteq written

\* What the plane reads for a pixel: PLANE_SURF holds a page address, the rows
\* follow each other at the stride, and the table says where the page is.
ScannedAt(x, y) ==
    LET o == y * strideBlocks * StrideUnit + x * bytesPerPixel
        entry == surf \div kPageSize + o \div PageBytes IN
    ggtt[entry] * PageBytes + (o % PageBytes)
-----------------------------------------------------------------------------
(* Properties.                                                             *)

\* The functions agree with each other: nothing WindowServer was told of is
\* refused when it asks on, and the mode in force is one it was told of ("must match
\* mode/depth we advertise elsewhere").
AnswersAgree ==
    /\ refused = {}
    /\ current # <<0, 0>> => current \in depths

\* A pixel is shown where it was drawn: once the plane scans, whoever draws
\* (x, y) writes the very memory the plane reads for (x, y), through the
\* client's map, the offset the framebuffer computes, or the accelerator's
\* pointer; however the memory is cut into segments, and while open() has
\* the table written again.
PixelOnScreen ==
    Scanning =>
        \A p \in Pixels :
            LET x == p[1]
                y == p[2] IN
            /\ MemoryAt(XYOffset(x, y)) = ScannedAt(x, y)
            /\ MemoryAt(AccelOffset(x, y)) = ScannedAt(x, y)
            /\ MemoryAt(PatternOffset(x, y)) = ScannedAt(x, y)
            /\ bytesPerRow # 0 => MemoryAt(RowOffset(x, y)) = ScannedAt(x, y)

-----------------------------------------------------------------------------
(* Claims of comments in the source that the code does not keep (README,    *)
(* section 5).                                                               *)

\* "Return shared memory for ALL apertures": the range getApertureRange
\* gives, the first page's address and the length of the whole, is the frame
\* buffer.
ApertureIsFrameBuffer ==
    \A o \in 0..rawSize-1 : frame[0] * PageBytes + o = MemoryAt(o)
=============================================================================
