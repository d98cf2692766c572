------------------------------- MODULE FBDisplay -------------------------------
(***************************************************************************)
(* activatePowerAndController, enableController and                        *)
(* mapFramebufferIntoGGTT: the frame buffer is entered page by page in the *)
(* GPU's translation table (GGTT), then the plane, pipe, transcoder, DDI   *)
(* and panel are programmed.  start() does it before it publishes the      *)
(* framebuffer, and IOFramebuffer::open has it done once more, over the    *)
(* plane that is scanning.                                                 *)
(*                                                                         *)
(* The table starts as firmware left it.  Sizes are in 4096-byte pages and *)
(* addresses in page frames; a register group is one name.  The panel      *)
(* reports its power state when it likes.                                  *)
(***************************************************************************)
EXTENDS Integers

CONSTANTS Pages,        \* pages of the frame buffer
          Frames,       \* page frame numbers it may lie in
          Entries,      \* entries of the GGTT
          PanelTries    \* reads of PP_STATUS (100 in the code)

kPageSize == 4096
fbGGTTOffset == 2048                            \* 0x00000800
ggttBaseIndex == fbGGTTOffset \div kPageSize    \* fbGGTTOffset >> 12

ASSUME DisplayAssumption ==
    /\ Pages \in Nat \ {0} /\ Entries \in Nat /\ PanelTries \in Nat
    /\ Frames \subseteq Nat \ {0}
    /\ ggttBaseIndex + Pages <= Entries

Index == 0..Entries-1
Firmware == 0           \* what an entry holds before the driver writes it

VARIABLES
    pc,          \* where enableController is
    frame,       \* the page frames of the frame buffer, in order
    ggtt,        \* the translation table
    offset,      \* pages entered so far (offset and page move together)
    segPhys,     \* first frame of the segment in hand
    segEnd,      \* page at which it ends
    segOff,      \* pages of it entered so far
    surf,        \* PLANE_SURF_1_A
    written,     \* register groups the driver has written
    panelUp,     \* PP_STATUS, as the panel reports it
    tries,       \* reads of it
    displayOnline,
    opened       \* IOFramebuffer::open: "no", "opening", "open" or "failed"

walkVars == <<ggtt, offset, segPhys, segEnd, segOff>>
panelVars == <<panelUp, tries>>
vars == <<pc, frame, walkVars, surf, written, panelVars, displayOnline, opened>>

\* The register groups after the mapping, in the order they are written.
Registers == <<"PLANE_SURF", "PLANE_BUF_CFG", "WATERMARKS", "PLANE_STRIDE",
               "PLANE_CTL", "CURSOR", "TIMINGS", "SCALER", "PIPECONF",
               "TRANS_CONF", "DDI_BUF_CTL", "PP_CONTROL">>
Groups == {"PIPE_SRC", "PLANE_SIZE", "BACKLIGHT"}
              \cup {Registers[i] : i \in 1..12}

TypeOK ==
    /\ pc \in {"PIPE_SRC", "PLANE_SIZE", "map", "walk", "panel", "BACKLIGHT",
               "paint", "returned", "online"} \cup {Registers[i] : i \in 1..12}
    /\ frame \in [0..Pages-1 -> Frames]
    /\ ggtt \in [Index -> Nat]
    /\ offset \in 0..Pages /\ segEnd \in 0..Pages /\ segOff \in 0..Pages
    /\ segPhys \in Nat /\ surf \in Nat
    /\ written \subseteq Groups
    /\ panelUp \in BOOLEAN /\ tries \in 0..PanelTries
    /\ displayOnline \in BOOLEAN
    /\ opened \in {"no", "opening", "open", "failed"}

\* start() has allocated the frame buffer, each page in a frame of its own.
Init ==
    /\ pc = "PIPE_SRC"
    /\ frame \in [0..Pages-1 -> Frames]
    /\ \A p, q \in 0..Pages-1 : frame[p] = frame[q] => p = q
    /\ ggtt = [i \in Index |-> Firmware]
    /\ offset = 0 /\ segPhys = 0 /\ segEnd = 0 /\ segOff = 0
    /\ surf = 0 /\ written = {} /\ panelUp = FALSE /\ tries = 0
    /\ displayOnline = FALSE /\ opened = "no"
-----------------------------------------------------------------------------
Write(group, next) ==
    /\ pc = group /\ pc' = next
    /\ written' = written \cup {group}

ProgramSource ==
    /\ Write("PIPE_SRC", "PLANE_SIZE") \/ Write("PLANE_SIZE", "map")
    /\ UNCHANGED <<frame, walkVars, surf, panelVars, displayOnline, opened>>

(* mapFramebufferIntoGGTT.                                                 *)

MapGGTT ==
    /\ pc = "map" /\ pc' = "walk"
    /\ UNCHANGED <<frame, walkVars, surf, written, panelVars, displayOnline, opened>>

\* open() has the answer of enableController; start() does not look at it.
Answer(a) == opened' = IF opened = "opening" THEN a ELSE opened

\* BAR1 cannot be described or mapped, or a segment cannot be had or is less
\* than a page: enableController returns the error with what was entered so
\* far left in the table.
MapFails ==
    /\ pc = "map" \/ (pc = "walk" /\ offset < Pages /\ offset = segEnd)
    /\ pc' = "returned" /\ Answer("failed")
    /\ UNCHANGED <<frame, walkVars, surf, written, panelVars, displayOnline>>

\* Mutation: a segment of less than a page is taken for one of none.
NextSegmentOfNone ==
    /\ pc = "walk" /\ offset < Pages /\ offset = segEnd
    /\ \E n \in 0..Pages-offset :
        /\ \A k \in 0..n-1 : frame[offset + k] = frame[offset] + k
        /\ segEnd' = offset + n
    /\ segPhys' = frame[offset] /\ segOff' = 0
    /\ UNCHANGED <<pc, frame, ggtt, offset, surf, written, panelVars, displayOnline, opened>>

\* getPhysicalSegment: some run of consecutive frames from offset on.
NextSegment ==
    /\ pc = "walk" /\ offset < Pages /\ offset = segEnd
    /\ \E n \in 1..Pages-offset :
        /\ \A k \in 0..n-1 : frame[offset + k] = frame[offset] + k
        /\ segEnd' = offset + n
    /\ segPhys' = frame[offset] /\ segOff' = 0
    /\ UNCHANGED <<pc, frame, ggtt, offset, surf, written, panelVars, displayOnline, opened>>

\* Mutation: every page of a segment is entered with the segment's first frame.
EnterFirstFrame ==
    /\ pc = "walk" /\ offset < segEnd
    /\ ggtt' = [ggtt EXCEPT ![ggttBaseIndex + offset] = segPhys]
    /\ offset' = offset + 1 /\ segOff' = segOff + 1
    /\ UNCHANGED <<pc, frame, segPhys, segEnd, surf, written, panelVars, displayOnline, opened>>

EnterPage ==
    /\ pc = "walk" /\ offset < segEnd
    /\ ggtt' = [ggtt EXCEPT ![ggttBaseIndex + offset] = segPhys + segOff]
    /\ offset' = offset + 1 /\ segOff' = segOff + 1
    /\ UNCHANGED <<pc, frame, segPhys, segEnd, surf, written, panelVars, displayOnline, opened>>

\* Mutation: the walk ends with the first segment.
MappedAfterOneSegment ==
    /\ pc = "walk" /\ offset = segEnd /\ offset > 0 /\ pc' = "PLANE_SURF"
    /\ UNCHANGED <<frame, walkVars, surf, written, panelVars, displayOnline, opened>>

Mapped ==
    /\ pc = "walk" /\ offset = Pages /\ pc' = "PLANE_SURF"
    /\ UNCHANGED <<frame, walkVars, surf, written, panelVars, displayOnline, opened>>
-----------------------------------------------------------------------------
(* The rest of enableController.                                           *)

ProgramSurface ==
    /\ Write("PLANE_SURF", "PLANE_BUF_CFG")
    /\ surf' = fbGGTTOffset
    /\ UNCHANGED <<frame, walkVars, panelVars, displayOnline, opened>>

ProgramPipe ==
    /\ \E i \in 2..11 : Write(Registers[i], Registers[i + 1])
    /\ UNCHANGED <<frame, walkVars, surf, panelVars, displayOnline, opened>>

PowerPanel ==
    /\ Write("PP_CONTROL", "panel")
    /\ UNCHANGED <<frame, walkVars, surf, panelVars, displayOnline, opened>>

\* Mutation: the loop waits for the panel as long as it takes.
PollPanelForEver ==
    /\ pc = "panel"
    /\ \/ panelUp /\ pc' = "BACKLIGHT" /\ UNCHANGED tries
       \/ ~panelUp /\ UNCHANGED <<pc, tries>>
    /\ UNCHANGED <<frame, walkVars, surf, written, panelUp, displayOnline, opened>>

\* Mutation: the loop reads once more than it should.
PollPanelOnceMore ==
    /\ pc = "panel"
    /\ \/ tries <= PanelTries /\ panelUp /\ pc' = "BACKLIGHT" /\ UNCHANGED tries
       \/ tries <= PanelTries /\ ~panelUp /\ tries' = tries + 1 /\ UNCHANGED pc
       \/ tries > PanelTries /\ pc' = "BACKLIGHT" /\ UNCHANGED tries
    /\ UNCHANGED <<frame, walkVars, surf, written, panelUp, displayOnline, opened>>

\* The loop ends with the panel up or not, and the code does not ask which.
PollPanel ==
    /\ pc = "panel"
    /\ \/ tries < PanelTries /\ panelUp /\ pc' = "BACKLIGHT" /\ UNCHANGED tries
       \/ tries < PanelTries /\ ~panelUp /\ tries' = tries + 1 /\ UNCHANGED pc
       \/ tries = PanelTries /\ pc' = "BACKLIGHT" /\ UNCHANGED tries
    /\ UNCHANGED <<frame, walkVars, surf, written, panelUp, displayOnline, opened>>

EnableBacklight ==
    /\ Write("BACKLIGHT", "paint")
    /\ UNCHANGED <<frame, walkVars, surf, panelVars, displayOnline, opened>>

\* The test pattern, flushDisplay and kIOReturnSuccess.
Paint ==
    /\ pc = "paint" /\ pc' = "returned" /\ Answer("open")
    /\ UNCHANGED <<frame, walkVars, surf, written, panelVars, displayOnline>>

\* activatePowerAndController does not look at what enableController returned.
GoOnline ==
    /\ pc = "returned" /\ opened = "no" /\ pc' = "online"
    /\ displayOnline' = TRUE
    /\ UNCHANGED <<frame, walkVars, surf, written, panelVars, opened>>

\* open() calls enableController of the published framebuffer: from the top,
\* with fresh locals, over the registers and the table of the first time.
Open ==
    /\ pc = "online" /\ opened = "no"
    /\ pc' = "PIPE_SRC" /\ opened' = "opening"
    /\ offset' = 0 /\ segPhys' = 0 /\ segEnd' = 0 /\ segOff' = 0 /\ tries' = 0
    /\ UNCHANGED <<frame, ggtt, surf, written, panelUp, displayOnline>>

OpenReturns ==
    /\ pc = "returned" /\ opened \in {"open", "failed"} /\ pc' = "online"
    /\ UNCHANGED <<frame, walkVars, surf, written, panelVars, displayOnline, opened>>

PanelReports ==
    /\ "PP_CONTROL" \in written /\ ~panelUp /\ panelUp' = TRUE
    /\ UNCHANGED <<pc, frame, walkVars, surf, written, tries, displayOnline, opened>>
-----------------------------------------------------------------------------
Driver ==
    \/ ProgramSource \/ MapGGTT \/ MapFails \/ NextSegment \/ EnterPage \/ Mapped
    \/ ProgramSurface \/ ProgramPipe \/ PowerPanel \/ PollPanel \/ EnableBacklight
    \/ Paint \/ GoOnline

Next == Driver \/ PanelReports \/ Open \/ OpenReturns
-----------------------------------------------------------------------------
(* Properties.                                                             *)

\* Each page entered so far holds its own frame, however the memory falls
\* into segments; and no entry holds anything but what firmware left or the
\* frame of its page, also while the table is walked a second time.
WalkExact ==
    \A i \in Index :
        LET p == i - ggttBaseIndex IN
        /\ p \in 0..offset-1 => ggtt[i] = frame[p]
        /\ ggtt[i] = Firmware \/ (p \in 0..Pages-1 /\ ggtt[i] = frame[p])

\* The plane is pointed at the frame buffer, and enabled, only when every
\* page of it is in the table (what is scanned out is its own memory), and
\* stays so when open() has the table walked again under it.
ScansOwnMemory ==
    {"PLANE_SURF", "PLANE_CTL"} \cap written # {} =>
        \A p \in 0..Pages-1 : ggtt[ggttBaseIndex + p] = frame[p]

\* Lines of enableController and its caller still to come.
LinesLeft ==
    [PIPE_SRC |-> 20, PLANE_SIZE |-> 19, map |-> 18, walk |-> 17, PLANE_SURF |-> 16,
     PLANE_BUF_CFG |-> 15, WATERMARKS |-> 14, PLANE_STRIDE |-> 13, PLANE_CTL |-> 12,
     CURSOR |-> 11, TIMINGS |-> 10, SCALER |-> 9, PIPECONF |-> 8, TRANS_CONF |-> 7,
     DDI_BUF_CTL |-> 6, PP_CONTROL |-> 5, panel |-> 4, BACKLIGHT |-> 3, paint |-> 2,
     returned |-> 1, online |-> 0]

\* What is left of the call in hand: its lines, two steps for every page (it
\* may begin a segment), and reads of the panel.
CallLeft == LinesLeft[pc] + 2 * (Pages - offset) + (IF offset = segEnd THEN 1 ELSE 0)
                + (PanelTries - tries)

WholeCall == LinesLeft["PIPE_SRC"] + 2 * Pages + 1 + PanelTries

\* With the call open() may still make, and the report of the panel.
StepsLeft == CallLeft + (IF opened = "no" THEN WholeCall + 1 ELSE 0)
                 + (IF panelUp THEN 0 ELSE 1)

\* Bring-up only goes forward: every step brings its end nearer, however the
\* memory falls into segments and whatever the panel reports, also when the
\* table is walked again for open().
OnlyForward == [][StepsLeft' \in 0..StepsLeft-1]_vars

\* start() is never held up by a panel that does not report.
GoesOnline == <>displayOnline

-----------------------------------------------------------------------------
(* Claims of comments in the source that the code does not keep (README,    *)
(* section 5).                                                               *)

\* "Delayed power and display activation complete": a display declared
\* online is one whose plane, pipe and panel were programmed.
OnlineMeansEnabled == displayOnline => {"PLANE_CTL", "PIPECONF", "PP_CONTROL"} \subseteq written

\* "Your framebuffer will appear at GPU VA = 0x08000000".
SurfaceAtDocumentedAddress == "PLANE_SURF" \in written => surf = 134217728
=============================================================================
