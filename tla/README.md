# TLA+ models of the FakeIrisXE driver

These modules model a macOS kernel driver for Intel Tiger Lake graphics: a
framebuffer driver (`FakeIrisXEFramebuffer.cpp`) that wakes the GPU and turns
the display on by hand, and a small accelerator (`FakeIrisXEAccelerator.cpp`
with its user client) that executes drawing commands which client processes
put in a shared page. TLC checks each model on small instances; TLAPS proves
every safety property the runs check (section 4) for every value of the
constants; liveness is checked by TLC only.

File names below are short for `src/...`: **Acc** = FakeIrisXEAccelerator.cpp,
**AH** = FakeIrisXEAccelerator.hpp, **UC** = FakeIrisXEAcceleratorUserClient.cpp,
**SH** = FakeIrisXEAccelShared.h, **FB** = FakeIrisXEFramebuffer.cpp,
**AD** = FakeIrisXEAccelDevice.cpp, **SU** = FakeIrisXESharedUserClient.cpp.

## 1. The system

| Component | State | Operations | Interacts with |
|---|---|---|---|
| Command ring | one 4096-byte page: XEHdr (capacity, head, tail) and the ring; `fPollActive`, `fNeedFlush` | clients write commands; `doInjectTest` (UC 168); `pollRing` (Acc 253) on a timer of the work loop | clients' address spaces, processCommand |
| Accelerator and user clients | `fSharedMem`, `fHdr`, `fRingBase`, `fTimer`, `fWL`; each client's page | UC start, clientMemoryForType, clientClose, stop; attachShared, startWorkerLoop, createAndArmTimer (AH 107), stop | client threads against the work loop, with no lock between them |
| Contexts | `fContexts`, `fNextCtxId`, `fCtxLock`; a second list `contexts` that stays null | createContext, destroyContext, (bindSurface), PRESENT's lookup | client threads, work loop |
| Drawing | pixels of the frame buffer | CLEAR, RECT, PRESENT in processCommand (Acc 347) | pollRing's tick |
| GPU power-up | power wells, forcewake, display clocks | initPowerManagement (FB 224) | the GPU, which answers when it likes |
| Framebuffer life cycle | PCI device, two mappings of BAR0, frame buffer, surface, cursor buffers, lock, flags | start (FB 368), stop (973), performSafeStop (1012), free (1113), clientMemoryForType (2069), createSharedCursor (2028) | accelerator, client tasks |
| Display bring-up | GGTT entries, plane, pipe, transcoder, DDI and panel registers, `displayOnline` | activatePowerAndController (FB 1198), enableController (1384), mapFramebufferIntoGGTT (1677); run by start() and once more by IOFramebuffer::open | the panel |
| Interrupt registrations | `interruptList` | registerForInterruptType (FB 1902), unregisterInterrupt (1937), stop, free | IOFramebuffer |
| Flush path | `fNeedFlush` of the accelerator; a command gate that is never created | flushDisplay and performFlushNow, inline; flush of the accelerator | callers of flush, the frame buffer's memory |
| AccelDevice and shared user client | the device's list of clients, each client's references | newUserClient (AD), clientClose, clientDied, stop (SU) | tasks, IOKit's termination thread |
| Framebuffer queries | the mode, the depth and the row length, in seven functions | getDisplayModes and the other getters, setDisplayMode | WindowServer |
| CLUT, gamma, cursor | `cursorMemory` | setCursorImage, createSharedCursor; the rest returns at once | WindowServer |

What is hard here: three kinds of threads touch the accelerator's pointers (any
number of client threads, the work loop's timer, removal of the device) and
almost nothing locks; the ring wraps at any byte position; the one-shot timer
must be armed again on every path; the hardware answers late or never; start()
has sixteen steps and each exit gives back what it likes.

For each component, what makes it correct:

- ring: commands are executed once, in order, each with its own payload, in the
  presence of wrap-around; head = tail only when nothing is pending; whatever is
  submitted is executed in the end;
- accelerator: references balance, the page pollRing uses is allocated, polling
  goes on, one timer, nothing runs after stop, the tail counts what was
  executed from that ring;
- contexts: an identifier finds its own context, destroyed means gone, a context
  is complete when it can be found;
- drawing: inside the screen, exactly the clipped rectangle, bounded per tick;
- power-up: never ahead of the hardware, no loop gives up early, it returns;
- life cycle: nothing dangles, clients are served by a ready driver only, the
  device is closed at the end, nothing is released that was not taken;
- display: the table maps exactly the frame buffer and the plane shows only
  that, bring-up ends, online means enabled;
- interrupts: no double free, a registered reference can be removed;
- the driver as a whole: what is drawn, flushed or copied goes to memory that is
  there, from the first client to the last step of free();
- queries: they agree with each other, and a pixel comes out on the panel where
  the answers told the client to write it;
- clients of AccelDevice: each reference has a holder through every exit, and
  what was closed goes away.

## 2. Modules

| Module | Models | Used by |
|---|---|---|
| `XEFifo` | the abstract queue: Submit, Deliver | XERing implements it |
| `XERing` | ring, doInjectTest, pollRing, in 32-bit words | `MCRing`, `XERing_proofs` |
| `XEService` | the abstract service: a timer that ticks until stop() and not after | XEAccelerator implements it, FBDriver is composed with it |
| `XEAccelerator` | user clients, attachShared, timer, removal, pollRing across pages | `XEAccelerator_proofs` |
| `XERegistry` | the abstract registry: a context is listed once, under a fresh identifier, or lost, and only its client is given it | XEContexts implements it |
| `XEContexts` | create, destroy, bind, present | `MCContexts`, `XEContexts_proofs` |
| `XEBlit` | CLEAR and RECT pixel by pixel in the ticks of pollRing | `MCBlit`, `XEBlit_proofs` |
| `XEClients` | AccelDevice and its shared user clients | `XEClients_proofs` |
| `FBPower` | initPowerManagement | `FBPower_proofs` |
| `FBLifecycle` | start, stop, free, clients of the framebuffer | FBDriver |
| `FBInterrupts` | the interrupt list | FBDriver |
| `FBDriver` | the driver: FBLifecycle, FBInterrupts and XEService together, with the calls that reach memory | `FBDriver_proofs` |
| `FBDisplay` | activatePowerAndController, enableController, the GGTT walk | FBScanout |
| `FBScanout` | FBDisplay with WindowServer's questions and where pixels come out | `FBScanout_proofs` |

The two halves meet in FBDriver: XEAccelerator is too large to be multiplied
with the framebuffer, so it is shown to implement XEService, until two of its
clients have made a timer each, and FBDriver takes XEService in its place. FBLifecycle, FBInterrupts and FBDisplay have no
specification of their own; they are checked as part of FBDriver and FBScanout.

Operators preceded by a comment *Mutation* are plausible slips in the definition
that follows them; each property is known to fail when one of them replaces
that definition. They are not part of the specification.

### XERing

The variables are the header's `head` and `tail` and the words after it
(`mem`), counted in words because every offset the code computes is a multiple of
four. A producer takes four steps (read the head, write the header, write the
payload, publish); `pollRing` takes a step for the guard, the snapshot, each copy
out of the ring, each command with its store of the tail, and the end. `Read` and
`Write` are the two-piece copies. `InjectRead` is `doInjectTest`, which never looks
at the tail; `UserBegin` is a client process, external to this repository, which
is assumed to look for room. Stores are seen in program order, as on the x86
machines this driver runs on.

`PollWord` is the guard as the processor sees it: `OSCompareAndSwap` on
`(volatile int*)&fPollActive` compares four bytes, and the byte after
`fPollActive` is `fNeedFlush` (AH 151-152). So a command that draws closes the
guard for good.

### XEAccelerator

One step per assignment of a client's path through clientMemoryForType, because
any number of clients are on it at once, each on its own thread and with no lock,
and pollRing reads `fHdr` and `fRingBase` again each time. Rings are counted in
commands and commands do not draw (XERing has both). A call through a null
pointer ends the system: that step is not enabled.

Three meetings of two callers cannot be mended, and the history `raced` records
them when they happen: one enters attachShared between another's release of the
old page and its store of the new one ("release": the page is released twice),
or while another is between the pointers ("pointers": they may end on different
pages), or finds no timer while another is about to make one ("timer": there are
two). Each property says which of them would take it away, and all other meetings
of the same threads are in the runs. Two exceptions are built into the properties:
attachShared gives up the old page one step before it forgets the pointer, and
after a bad header `fHdr` stays at the page before, which its own client keeps
alive until the device is removed.

### XEContexts

Any number of clients are in createContext at once. `OSArray::setObject` is three
steps (count, slot, count) and `fNextCtxId++` two; a slot behind which others have
appended meanwhile is inserted, as setObject does. A full list may fail to grow:
createContext does not look at the result, and the client is given the
identifier of a context that is not on the list (`lost`). `raced` records the two
meetings that spoil the list: two draw one identifier, or two append at one place.
`destroyContext` searches the other list, null because `initContexts` has no
caller; `BindSurface` falls into the default of externalMethod. Seen as
XERegistry, the line that advances the count is Enlist, a failure is Lose, and
the answer is Give.

### XEBlit

Coordinates are words that wrap at `Word`, as `p.x + p.w` does in the code. A tick
executes up to `MaxPerTick` commands, each with its own pixel limit; `TickBound`
says what that comes to.

### XEClients

newUserClient is four steps, with the device's removal possible between any two
(AD 55-79). The registry's reference comes with attach() and goes with detach();
IOKit's handle and its termination thread are external. externalMethod changes
no state and is left out.

### FBPower, FBLifecycle, FBInterrupts

FBPower: one action per request and one turn of a polling loop at a time,
interleaved with `GpuAnswers`. `slept` counts milliseconds of IOSleep.
FBLifecycle: `ref` counts the references the driver and its clients took, `own`
the driver's share; each exit of start() gives back what the code gives back
there. A client may map the frame buffer, or the cursor buffer there is at that
time, and unmap it at any time after. Calls are answered until free(): stop()
sets `shuttingDown` (FB 980), which nothing reads, so that after it a flush or a
mapping finds a null member, createSharedCursor makes a buffer again
("cursorLate") and registerForInterruptType a list. FBInterrupts: blocks of memory
are numbered, so that a copy and its original are different blocks; `late` are
those allocated after stop(). Failure to
allocate the array itself is left out (the code then uses a null pointer).

performSafeStop releases `cursorMemory` although only the property table has a
reference to the 64 KB buffer (FB 869, 1042). `own` then is -1 for it
(`ReleasesOwnOnly`, section 5), super::free() takes the table's reference as
well, and a client that still has that buffer mapped is left without it. `NoDangling`
therefore excepts this one buffer after free(), and says so.

`mmioBase` outlives stop() while `mmioMap` does not, and safeMMIORead and
safeMMIOWrite ask mmioMap for its length (FakeIrisXEFramebuffer.hpp 123, 131).
`RegistersMapped` says besides that whoever gets past enableController's test of
`framebufferMemory` finds it.

### FBDriver

StopDriver and FreeDriver do the life cycle's and the list's part of stop() and
free() in one step each. AcceleratorAttaches and AcceleratorDetaches join the
service's Attach and Stop to the life cycle's; IOKit stops the accelerator before
its provider. The history variable `missed` collects drawing, flushes answered
with success and cursor images that went to memory without a reference.
flushDisplay runs performFlushNow inline, for start() makes neither gate nor
work loop. AcceleratorFlush answers success whatever flushDisplay answered, as
the code does.

### FBDisplay, FBScanout

FBDisplay: the walk of the frame buffer by physical segments chosen
nondeterministically, then one step per register group, in the code's order.
Nothing resets the table or the registers before `open` runs the whole again
over the plane that scans. FBScanout: each function of the framebuffer that knows the
mode, the depth or the row length is an action with its own copy of them, and
WindowServer puts to it what another one answered. `ScannedAt` is the byte the plane
reads for a pixel, through PLANE_SURF, PLANE_STRIDE and the table; `MemoryAt`
is the byte a writer reaches at an offset of the mapping that
clientMemoryForType gives, in which the pages are in order; the aperture that
getApertureRange describes is another matter (`ApertureIsFrameBuffer`, section 5).

## 3. Runs

accel takes about a minute and a half, life and display about one, the others
seconds.

| Run | Shows | Bounds, and why they are enough |
|---|---|---|
| ring | `RingInv`: the words between tail and head are the client's commands and pollRing holds the front one; `HeadAccounts`: head = tail means nothing pending; `ImplementsFifo`: refinement of XEFifo; `EventuallyDrained` under fairness of the timer | 17 words, commands of 4 to 10 words, 4 sent: every command start modulo 17 that four commands reach, headers and payloads that wrap, a refused command, a full ring |
| ring_threads | `PublishedWhole`: no head stands past words that are not whole commands, nor does pollRing's copy of it; `TickEnds`: each step of a tick leaves it fewer | three threads, four commands in 21 words: heads read by two or three threads at once, heads that move back, commands lost and overwritten |
| ring_stall † | the guard's swap fails with nobody processing | |
| accel | `RefBalance`, `HdrAlive`, `TimerRunning`, `OneTimer`; `ImplementsService`: refinement of XEService | two clients at once, one of which may lose its header; three calls of clientMemoryForType, so that either replaces the other's page and its own again, and a third one meets what two have left; two timers, any number that cannot be created or added |
| accel_switch † | the tail of one ring in the header of another | two clients, two commands |
| contexts | `OwnOrNothing`: an identifier finds its client's context or nothing; `ContextsAreRegistry`: refinement of XERegistry | three clients at once, three contexts; a list made for one, so that each further context may fail to be listed |
| ctx_race † | two creators, one identifier or one slot | two clients, two contexts in a list made for eight, as in the code |
| blit | `PaintsInside`, `RectIsClip`, `TickBound` | screen 4 by 3, words of 4 bits; corners inside, on and past each edge and sums that wrap |
| clients | `ReferencesHeld`, `ClosedGoesAway` under fairness of calls and of IOKit | three clients: one on its way in, one open and one closing while the device goes away |
| power | `NeverAhead`, `FullBudget`, `HeldUpAtMost`; `Returns` under fairness | the limits of the code |
| life | `NoDangling`, `ServesWhenReady`, `ClosedAtEnd`, `RegistersMapped`, `FreedOnce`, `ReachesMemory` | two mappings at a time, of the same buffer or of two; five blocks: two registrations with an entry on the list and one without, before stop() and after it |
| display | `WalkExact`, `ScansOwnMemory`, `AnswersAgree`, `PixelOnScreen`; `OnlyForward`: every step brings the end of bring-up nearer; `GoesOnline` under fairness | all placements of four pages in five frames, all cuts, both walks; 3 by 5 pixels whose rows of 12 bytes cross the pages of 16 |

† TLC finds the property violated; the property states a comment of the code.
PROJECT.json quotes the comment under "findings".

Deadlock is checked except where the system really ends: the device was removed,
or start() returned.

Bounds that cap a counter are constants named in the modules (`MaxSent`, `MaxCalls`,
`MaxCmds`, `MaxTimers`, `MaxCtx`, `MaxMaps`, `MaxBlocks`) and appear as guards only.

### Fairness

- XERing: `WF_vars(Poll)`. The armed timer fires and the work loop runs its
  callback to the end; no client is obliged to do anything. Nothing in pollRing
  waits.
- FBPower, FBScanout: weak fairness of `Driver`. The calling thread runs; the GPU
  and the panel need not ever answer, and nobody need open the framebuffer.
- XEClients: weak fairness of the steps of a newUserClient that has begun, of
  IOKit's termination thread (StopClient) and of the device's stop. No task need
  ask for a client or close one, and nobody need remove the device.

`EventuallyDrained` says exactly what may keep a command waiting: the front of the
ring is a command pollRing refuses, or some command has drawn.

## 4. Proofs

Eight modules hold proofs, and all of them are checked without an unproved step.
Every invariant and action property of the passing runs, and all three
refinements, are among the theorems. So are four facts no run lists:
`ContextsTypeCorrect`, `PowerTypeCorrect`, `ListedAreComplete` (which
`ContextsAreRegistry` makes a run check all the same), and, for one thread of
InjectTest, what the run ring shows of a client process.

- **XERing_proofs** (`TypeCorrect`, `RingInvariant`, `HeadAccountsForPending`,
  `RingImplementsFifo`, `TickAlwaysEnds`, `ThreadsPublishWhole`). All rest on
  `RingAssumption` (a command with the largest payload fits, with a word to
  spare). `TypeCorrect` and `TickAlwaysEnds` need no more, whoever produces and
  whatever is in the ring: `TickLeft` counts the steps a tick has left from its line
  and the commands it may still execute.
  The next three assume `SingleProducer`: one client process, or one thread of
  InjectTest in a ring that has room for all it will write (`FitsAll`, without
  which the code overruns the ring, section 5). The invariant `RingInv` compares
  positions as word numbers that never wrap: `start[i]` is the word at which the
  i-th command begins, `head` and `tail` are `start` at the two ends modulo the
  capacity, and the two are less than a lap apart. That strict inequality is
  what makes head = tail mean empty, and it is what HasRoom keeps, or FitsAll.
  `Copied` and `Reserved` say how far the producer has come and that its copy cannot
  reach a pending word; `PollOnFront` that pollRing holds the front command. Two
  lemmas about `Read` and `Write` (what was written is read back; a write does not
  disturb a disjoint read) carry the arithmetic. The refinement theorem follows:
  Publish is Submit, Process is Deliver, all else stutters.
  `ThreadsPublishWhole` has any number of InjectTest threads and no assumption on
  what they meet. They publish over each other, so nothing is left of `RingInv`;
  the head may even move back. `InjectInv` keeps what is: the place every thread
  writes at was a head once (`WasHead`), so it is a multiple of the command's size
  behind which all words are whole commands, and since all commands are the same, a
  copy over an older one changes nothing behind any head. `PublishedWhole` itself
  speaks only of a ring that is not yet full (`Fits`): beyond that doInjectTest
  overruns it (`NothingToDo`, section 5).
- **XEAccelerator_proofs** (`AcceleratorTypeCorrect`, `ReferencesBalance`,
  `HeaderStaysAlive`, `TimerKeepsRunning`, `OneTimerPolls`, `AcceleratorIsService`),
  for any number of clients inside clientMemoryForType at once. The invariant
  follows each caller by its line: `RefInv` counts the references as long as no
  page was released twice, `PointersInv` says that with no two between the pointers
  they agree outside attachShared unless the last page had a bad header, which is
  why stop() leaves no dangling `fHdr`, and `TimerInv` what the timer lacks at each
  line of createAndArmTimer, as long as one caller at most has come to it. With
  these a step of the accelerator is a step of XEService or a stutter, up to the
  one at which a second caller is about to make a timer: so far what is proved of
  FBDriver holds with the real accelerator.
- **XEContexts_proofs** (`ContextsTypeCorrect`, `IdentifierFindsOwn`,
  `ListedAreComplete`, `ContextsImplementRegistry`), for any number of clients in
  createContext at once. Until two draw one identifier those on the list, those
  lost and those the creators hold are distinct and have been drawn; so there is at
  most one match, and lookupContext's first is it. Until two append at one place
  the slot is filled before it is counted, so the list gains a whole context in
  one step and the refinement of XERegistry follows.
- **XEBlit_proofs** (`BlitTypeCorrect`, `DrawsOnScreen`, `RectPaintsClip`,
  `TickIsBounded`), for any screen, any width of word and any payload. The corners
  are clamped after the sum wrapped, so they end on the screen wherever it
  wrapped to. `ClipInv` says that half way through a RECT the pixels written are
  those before the one in hand in the order of rows, and that the counter of the
  loop is their number; the limit then cuts the clipped rectangle where the
  property says, whether it falls inside a row or at its end. `BudgetInv` adds
  up what the commands of a tick have written, the one in hand included.
- **XEClients_proofs** (`ClientsTypeCorrect`, `ReferencesAlwaysHeld`), for any
  number of clients. `Stages` relates the place in newUserClient to the handle
  and the registry.
- **FBPower_proofs** (`PowerTypeCorrect`, `PowerNeverAhead`, `PowerFullBudget`,
  `PowerHeldUpAtMost`), from limits that are positive. The invariant says at which
  line which request has been made and answered, and that in each loop ten
  milliseconds have been slept for each read that found nothing. `TimeByLine`
  bounds the time slept at each line: a loop left with an answer has slept for one
  read less than its limit, and the three sleeps after the loops make that up.
- **FBDriver_proofs** (`DriverTypeCorrect`, `NothingDangles`, `ServedWhenReady`,
  `DeviceClosedAtEnd`, `RegistersStayMapped`, `NothingFreedTwice`,
  `CallsReachMemory`), for any number of mappings and registrations. `LifeInv`
  says who holds each reference (`Holders`; `Cursor64K` for the buffer with a
  reference in the property table), and what each stage of start() has (`Stages`).
  `TickInv` says that the accelerator ticks only while attached, `ListInv` that
  nothing is freed before stop(), that only a published driver has a list, and
  that after stop() the list has only entries registered since: what free()
  frees twice is among those.
- **FBScanout_proofs** (`ScanoutTypeCorrect`, `TableWalkExact`,
  `PlaneScansOwnMemory`, `AnswersAlwaysAgree`, `PixelsOnScreen`,
  `BringUpGoesForward`), from a table
  with room for the frame buffer and rows that are a whole number of stride
  units. `Segment` says that the segment in hand holds the frames of the pages
  the walk stands at; `Full` that every page is in the table, which is true from
  the end of the first walk on because the second enters what is there already.
  `OneMode` is all WindowServer can have been told. `PixelsOnScreen` is then
  arithmetic on page and offset. `BringUpGoesForward` shows that `StepsLeft` falls
  with every step: the lines still to come, two steps for each page, the reads of
  the panel, and the whole again while open() has not run. It is the half of
  `GoesOnline` that needs no fairness: bring-up cannot run on.

Only model-checked: liveness (`EventuallyDrained`, `Returns`, `GoesOnline`,
`ClosedGoesAway`), for which TLAPS has no backend here. `TickAlwaysEnds`,
`PowerHeldUpAtMost` and `BringUpGoesForward` prove of the first three that the
code does not loop for ever; that it takes its steps is the fairness assumed.

## 5. Comments the code does not keep

Three of them have a run (†). The others are stated as definitions in the
modules, with no run that refutes them; TLC does refute each when it is given as the only
INVARIANT with the constants named here (those of the module's runs where none
are).

| Definition | What the code does | Constants |
|---|---|---|
| XERing `GuardFreeWhenIdle` † | the swap at Acc 261 covers `fNeedFlush`, which nothing resets, so the first command that draws is the last tick that runs | |
| XEAccelerator `TailCountsExecuted` † | `fHdr` is read again for the store of the tail (Acc 327) | |
| XEContexts `LookupFindsOwn` † | createContext (Acc 227) takes no lock; and, with no second caller, it returns the identifier of a context setObject did not take (Acc 238), although it documents "0 on failure" (AH 64). Until two creators meet over the counter or the list, `OwnOrNothing` holds | those of ctx_race for the first, of contexts for the second |
| XERing `NothingToDo` | doInjectTest fills the ring to its last word, and head = tail reads as empty (Acc 273) | Cap 20, Injectors {i1}, MaxSent 5 |
| XERing `InjectWrote` | two threads of doInjectTest read one head (UC 180) | Injectors {i1, i2}, MaxSent 3 |
| XEAccelerator `TimerUnique` | two clients both find `fTimer` null (AH 112); otherwise it holds (`OneTimer`) | those of accel |
| XEContexts `DestroyedIsGone`, of the last call | destroyContext searches a list that is always null (Acc 709) and its result is not looked at (UC 134) | |
| XEContexts `BoundIsPresentable`, of the last call | externalMethod has no case for BindSurface (UC 137) | |
| XEBlit `TickBudget` | the limit is per RECT, and a tick executes several (Acc 410) | |
| FBLifecycle `ReleasesOwnOnly` | the provider is released without a retain (FB 385 is commented out), `cursorMemory` twice (869, 1042) | |
| FBDisplay `OnlineMeansEnabled` | activatePowerAndController ignores enableController's failure (FB 1209) | |
| FBDisplay `SurfaceAtDocumentedAddress` | the comment at FB 1722 gives 0x08000000, the code 0x00000800 | |
| FBInterrupts `RegisteredIsFound` (in FBDriver: `Interrupts!RegisteredIsFound`) | the address of a copy is compared with that of the original (FB 1945) | |
| FBInterrupts `FreedAtMostOnce` (in FBDriver: `Interrupts!FreedAtMostOnce`) | "Cleanup all interrupt registrations" (FB 1128): registerForInterruptType does not ask whether stop() has run, and free() frees the buffer of an entry made after it (FB 1132) before its OSData does; of what was registered before stop(), `FreedOnce` holds | |
| FBScanout `ApertureIsFrameBuffer` | "Return shared memory for ALL apertures" (FB 2350): getApertureRange gives the first page's address and the whole length, but the memory need not be contiguous | |

## 6. Not modelled

- Code no caller reaches: cmdClear, cmdRect, cmdCopy, initContexts and its
  functions, bindSurface, presentContext, the row copy of PRESENT (no context ever
  has a surface); scheduleFlushFromAccelerator, staticFlushAction and
  staticPerformFlush, which nobody calls or which need a gate that is never
  made (FB 700-716 is commented out).
- Operations that answer with a constant no other operation reads: attributes
  and connections of the framebuffer, gamma, CLUT, setCursorState, Ping and
  GetCaps of the shared user client.
- Register values, except the plane's address and stride; EDID, timing tables,
  Info.plist, regs.txt.
- Leaks that no property could say more of than the code does: `bar0Map` is
  never released, mapFramebufferIntoGGTT leaves a descriptor and a mapping
  behind at each call, the first exits of start() leave the device open, wells
  and forcewake stay requested after a failure.
- Failure to allocate the interrupt list, after which the code uses a null pointer.
- Hazards the code does not withstand have no run that passes with them: that every
  thread in doInjectTest gets its command executed, that two clients creating the
  timer together make one, that what is registered after stop() is freed once. They
  are stated in section 5; ring_threads, accel and life check what holds all the
  same. The exits of start() that leave the device open, and the null frame buffer
  after three failed allocations (the model's "panic"), are in the model and in no
  property: one that passes could only repeat them.

## 7. What could follow

A lock around attachShared, startWorkerLoop and createContext in the code would
let the models drop `raced`, and with it the hypotheses of `RefBalance`,
`HdrAlive`, `TimerRunning`, `OneTimer`, `OwnOrNothing` and the two refinements.
A test of `shuttingDown` in registerForInterruptType would make `FreedOnce` speak of
every block.
