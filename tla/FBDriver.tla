------------------------------- MODULE FBDriver -------------------------------
(***************************************************************************)
(* The framebuffer driver with what lives on it: its life cycle, its       *)
(* interrupt registrations, the accelerator that draws into its memory     *)
(* (by what XEService promises of it, which XEAccelerator keeps until two   *)
(* clients have made a timer each), and the calls of its clients that      *)
(* reach its memory: flushes and cursor images.                            *)
(***************************************************************************)
EXTENDS FBLifecycle

CONSTANT MaxBlocks      \* bound: blocks the interrupt registrations allocate

ASSUME DriverAssumption == MaxBlocks \in Nat

VARIABLES
    hasList, list, used, freed, held, told, phase, late,   \* as in FBInterrupts
    polling, busy,                                         \* as in XEService
    missed       \* history: what was done to memory that was not there

interruptVars == <<hasList, list, used, freed, held, told, phase, late>>
tickVars == <<polling, busy>>
driverVars == <<vars, interruptVars, tickVars, missed>>

Interrupts == INSTANCE FBInterrupts
Accelerator == INSTANCE XEService WITH attached <- pixels # "none"

DriverTypeOK ==
    /\ TypeOK
    /\ Interrupts!TypeOK
    /\ polling \in BOOLEAN /\ busy \in BOOLEAN
    /\ missed \subseteq {"draw", "flush", "cursor"}

DriverInit ==
    /\ Init /\ Interrupts!Init
    /\ polling = FALSE /\ busy = FALSE /\ missed = {}

Allocated(o) == o # "null" /\ ref[o] > 0
Miss(what, reached) == missed' = missed \cup (IF reached THEN {} ELSE {what})
-----------------------------------------------------------------------------
(* The accelerator.  IOKit attaches it once and stops it before the        *)
(* framebuffer.                                                            *)

AcceleratorAttaches ==
    /\ AcceleratorStart /\ Accelerator!Attach
    /\ UNCHANGED <<interruptVars, missed>>

\* Mutation: stop() of the accelerator leaves its timer on the work loop.
AcceleratorLeavesTimer ==
    /\ ~busy /\ AcceleratorStop
    /\ UNCHANGED <<interruptVars, tickVars, missed>>

AcceleratorDetaches ==
    /\ AcceleratorStop /\ Accelerator!Stop
    /\ UNCHANGED <<interruptVars, missed>>

\* A user client of the accelerator maps its page; the timer begins or ends a
\* tick.
AcceleratorTicks ==
    /\ UNCHANGED <<vars, interruptVars, missed>>
    /\ Accelerator!StartPolling \/ Accelerator!BeginTick \/ Accelerator!EndTick

\* A drawing command of the tick writes through fPixels, unless it is null.
Draw ==
    /\ busy
    /\ Miss("draw", pixels = "null" \/ (pixels = "fbMem" /\ ref["fbMem"] > 0))
    /\ UNCHANGED <<vars, interruptVars, tickVars>>
-----------------------------------------------------------------------------
(* Calls that reach the memory of the framebuffer, until free(): that the   *)
(* driver was stopped they see only by a null member.                      *)

\* performFlushNow, called inline by flushDisplay because start() makes
\* neither a command gate nor a work loop.
performFlushNow == IF member["framebufferMemory"] = "null"
                   THEN "NotReady" ELSE "Success"

\* The accelerator's flush answers Success whatever flushDisplay answered, so
\* that a flush that did nothing is lost.
AcceleratorFlush ==
    /\ pixels # "none"
    /\ Miss("flush", performFlushNow = "Success"
                     /\ Allocated(member["framebufferMemory"]))
    /\ UNCHANGED <<vars, interruptVars, tickVars>>

\* WindowServer's flush; a NotReady is its answer.
FlushDisplay ==
    /\ Serving
    /\ Miss("flush", performFlushNow = "NotReady"
                     \/ Allocated(member["framebufferMemory"]))
    /\ UNCHANGED <<vars, interruptVars, tickVars>>

\* setCursorImage copies 4096 bytes into cursorMemory, if there is one.
SetCursorImage ==
    /\ Serving /\ member["cursorMemory"] # "null"
    /\ Miss("cursor", Allocated(member["cursorMemory"]))
    /\ UNCHANGED <<vars, interruptVars, tickVars>>
-----------------------------------------------------------------------------
(* The other steps of the driver.                                          *)

Registrations ==
    /\ Serving
    /\ Interrupts!Call
    /\ UNCHANGED <<vars, tickVars, missed>>

StopDriver ==
    /\ SafeStop /\ Interrupts!SafeStop
    /\ UNCHANGED <<tickVars, missed>>

FreeDriver ==
    /\ Free /\ Interrupts!Free
    /\ UNCHANGED <<tickVars, missed>>

StartDriver == Start /\ UNCHANGED <<interruptVars, tickVars, missed>>

ClientMemory ==
    /\ ClientMap \/ ClientUnmap \/ CreateSharedCursor
    /\ UNCHANGED <<interruptVars, tickVars, missed>>

DriverNext ==
    \/ StartDriver \/ StopDriver \/ FreeDriver
    \/ AcceleratorAttaches \/ AcceleratorDetaches \/ AcceleratorTicks \/ Draw
    \/ AcceleratorFlush \/ FlushDisplay \/ SetCursorImage
    \/ Registrations \/ ClientMemory

DriverSpec == DriverInit /\ [][DriverNext]_driverVars
-----------------------------------------------------------------------------
(* Properties.                                                             *)

\* No block allocated before stop() is freed twice over registrations,
\* removals, stop() and free(): the entries free() would free twice are gone
\* by then, because a driver that served anybody is stopped first.
FreedOnce == Interrupts!FreedOnce

\* Everything drawn went to memory of a frame buffer that is allocated, every
\* flush answered with success reached one, every cursor image a cursor
\* buffer: ticks end before the accelerator stops, the accelerator stops
\* before the framebuffer releases its memory, and calls after that find the
\* member null.
ReachesMemory == missed = {}
=============================================================================
