------------------------------ MODULE FBLifecycle ------------------------------
(***************************************************************************)
(* FakeIrisXEFramebuffer from probe to free: what start() acquires, what   *)
(* each of its exits gives back, what stop() and free() release, and what  *)
(* clients of the published framebuffer hold meanwhile.                    *)
(*                                                                         *)
(* One ledger counts the references to each object, another the driver's   *)
(* own share of them.  start() runs on one thread; once registerService    *)
(* has run, the accelerator attaches and clients map memory while start()  *)
(* goes on, and no call of theirs looks whether stop() has run.  FBPower   *)
(* and FBDisplay have the hardware.                                        *)
(***************************************************************************)
EXTENDS Integers

CONSTANT MaxMaps        \* bound: mappings of its memory at one time

ASSUME LifecycleAssumption == MaxMaps \in Nat

\* The provider, the two mappings of BAR0, the frame buffer, its surface
\* descriptor, the two cursor buffers start() makes and the two
\* createSharedCursor may make, before stop() and after it, the EDID.
Objects == {"pci", "mmioMap", "bar0Map", "fbMem", "surface",
            "cursor4K", "cursor64K", "cursorShared", "cursorLate", "edid"}

\* The memory clientMemoryForType may hand out.
Shared == {"fbMem", "cursor64K", "cursorShared", "cursorLate"}

VARIABLES
    pc,          \* where start() is, or what became of the driver
    open,        \* the PCI device is open by the driver
    ref,         \* references to each object that the driver or a client took
    own,         \* those the driver's code took and has not given back
    member,      \* the members that point to an object: [name -> object or "null"]
    timerLock,   \* the lock exists
    retries,     \* attempts left to allocate the frame buffer
    powered,     \* initPowerManagement and the check after it succeeded
    published,   \* registerService has run
    flags,       \* fullyInitialized, driverActive, displayOnline, shuttingDown
    pixels,      \* what the accelerator took for the kernel address of the
                 \* frame buffer: "none" while it is not attached
    maps,        \* client mappings of each object of Shared
    exit         \* history: the step start() failed at

ledger == <<ref, own>>
vars == <<pc, open, ref, own, member, timerLock, retries, powered, published,
          flags, pixels, maps, exit>>

Members == {"mmioMap", "bar0Map", "framebufferMemory", "framebufferSurface",
            "cursorMemory"}
\* mmioBase is the address of one of the two mappings and owns neither.
Pointers == Members \cup {"mmioBase"}
Steps == {"open", "bar", "command", "map", "power", "verify", "bar0", "alloc",
          "surface", "cursor1", "edid", "lock", "cursor2", "activate", "publish",
          "notify"}
Ended == {"running", "failed", "panic", "stopped", "freed"}

TypeOK ==
    /\ pc \in Steps \cup Ended
    /\ open \in BOOLEAN /\ timerLock \in BOOLEAN /\ powered \in BOOLEAN
    /\ published \in BOOLEAN /\ pixels \in {"none", "null", "fbMem"}
    /\ ref \in [Objects -> Int] /\ own \in [Objects -> Int]
    /\ member \in [Pointers -> Objects \cup {"null"}]
    /\ retries \in 0..3 /\ maps \in [Shared -> 0..MaxMaps]
    /\ flags \subseteq {"fullyInitialized", "driverActive", "displayOnline",
                        "shuttingDown"}
    /\ exit \in Steps \cup {"none"}

Init ==
    /\ pc = "open" /\ open = FALSE
    /\ ref = [o \in Objects |-> 0] /\ own = [o \in Objects |-> 0]
    /\ member = [m \in Pointers |-> "null"]
    /\ timerLock = FALSE /\ retries = 3 /\ powered = FALSE /\ published = FALSE
    /\ flags = {} /\ pixels = "none" /\ exit = "none"
    /\ maps = [o \in Shared |-> 0]
-----------------------------------------------------------------------------
(* start().  A step that fails leaves what was acquired as the code does.  *)

At(here) == pc = here
Fail(here) == pc' = "failed" /\ exit' = here

\* The driver takes a reference to each object of S; or gives one back.
Take(S) == /\ ref' = [o \in Objects |-> IF o \in S THEN ref[o] + 1 ELSE ref[o]]
           /\ own' = [o \in Objects |-> IF o \in S THEN own[o] + 1 ELSE own[o]]
Give(S) == /\ ref' = [o \in Objects |-> IF o \in S THEN ref[o] - 1 ELSE ref[o]]
           /\ own' = [o \in Objects |-> IF o \in S THEN own[o] - 1 ELSE own[o]]

rest == <<powered, published, flags, pixels, maps>>

OpenDevice ==
    /\ At("open")
    /\ \/ pc' = "bar" /\ open' = TRUE /\ UNCHANGED exit
       \/ Fail("open") /\ UNCHANGED open
    /\ UNCHANGED <<ledger, member, timerLock, retries, rest>>

\* BAR0 has no address; memory space does not stay enabled; no region.  None
\* of these exits closes the device.
CheckDevice ==
    /\ \/ At("bar") /\ pc' = "command" /\ UNCHANGED exit
       \/ At("command") /\ pc' = "map" /\ UNCHANGED exit
       \/ \E here \in {"bar", "command"} : At(here) /\ Fail(here)
    /\ UNCHANGED <<open, ledger, member, timerLock, retries, rest>>

MapBar0 ==
    /\ At("map")
    /\ \/ /\ pc' = "power" /\ UNCHANGED exit
          /\ Take({"mmioMap"})
          /\ member' = [member EXCEPT !["mmioMap"] = "mmioMap",
                                      !["mmioBase"] = "mmioMap"]
       \/ Fail("map") /\ UNCHANGED <<ledger, member>>
    /\ UNCHANGED <<open, timerLock, retries, rest>>

\* Release the mapping, close the device, release the provider.
GiveUp(here) ==
    /\ Fail(here)
    /\ Give({"mmioMap", "pci"})
    /\ member' = [member EXCEPT !["mmioMap"] = "null"]
    /\ open' = FALSE

PowerUp ==
    /\ At("power")
    /\ \/ pc' = "verify" /\ UNCHANGED <<open, ledger, member, exit>>
       \/ GiveUp("power")
    /\ UNCHANGED <<timerLock, retries, rest>>

\* Mutation: the check after initPowerManagement only warns.
VerifyWarns ==
    /\ At("verify")
    /\ pc' = "bar0" /\ powered' \in BOOLEAN
    /\ UNCHANGED <<open, ledger, member, exit, timerLock, retries, published,
                   flags, pixels, maps>>

Verify ==
    /\ At("verify")
    /\ \/ pc' = "bar0" /\ powered' = TRUE /\ UNCHANGED <<open, ledger, member, exit>>
       \/ GiveUp("verify") /\ UNCHANGED powered
    /\ UNCHANGED <<timerLock, retries, published, flags, pixels, maps>>

\* The second mapping is used without a look.
MapBar0Again ==
    /\ At("bar0")
    /\ \/ /\ pc' = "alloc" /\ Take({"bar0Map"})
          /\ member' = [member EXCEPT !["bar0Map"] = "bar0Map",
                                      !["mmioBase"] = "bar0Map"]
       \/ pc' = "panic" /\ UNCHANGED <<ledger, member>>
    /\ UNCHANGED <<open, exit, timerLock, retries, rest>>

\* Mutation: the loop tests its counter before the decrement with >= 0.
AllocFBOnceMore ==
    /\ At("alloc")
    /\ \/ /\ retries >= 0 /\ retries' = retries - 1 /\ pc' = "surface"
          /\ Take({"fbMem"})
          /\ member' = [member EXCEPT !["framebufferMemory"] = "fbMem"]
       \/ /\ retries >= 0 /\ retries' = retries - 1
          /\ UNCHANGED <<pc, ledger, member>>
       \/ retries < 0 /\ pc' = "panic" /\ UNCHANGED <<retries, ledger, member>>
    /\ UNCHANGED <<open, exit, timerLock, rest>>

\* One turn of the loop; descriptor or prepare() may fail.  After the third
\* failure getPhysicalAddress is called on the null pointer.
AllocFB ==
    /\ At("alloc")
    /\ \/ /\ retries > 0 /\ retries' = retries - 1 /\ pc' = "surface"
          /\ Take({"fbMem"})
          /\ member' = [member EXCEPT !["framebufferMemory"] = "fbMem"]
       \/ /\ retries > 0 /\ retries' = retries - 1
          /\ UNCHANGED <<pc, ledger, member>>
       \/ retries = 0 /\ pc' = "panic" /\ UNCHANGED <<retries, ledger, member>>
    /\ UNCHANGED <<open, exit, timerLock, rest>>

\* An object that may fail to be made, and whose absence is only logged.
Optional(here, next, m, o) ==
    /\ At(here) /\ pc' = next
    /\ \/ Take({o}) /\ member' = [member EXCEPT ![m] = o]
       \/ UNCHANGED ledger /\ member' = [member EXCEPT ![m] = "null"]
    /\ UNCHANGED <<open, exit, timerLock, retries, rest>>

MakeSurface == Optional("surface", "cursor1", "framebufferSurface", "surface")
MakeCursor == Optional("cursor1", "edid", "cursorMemory", "cursor4K")

\* A second copy of the EDID goes to the property table; its own reference
\* stays.
PublishEdid ==
    /\ At("edid") /\ pc' = "lock"
    /\ \/ /\ ref' = [ref EXCEPT !["edid"] = @ + 2]
          /\ own' = [own EXCEPT !["edid"] = @ + 1]
       \/ UNCHANGED ledger
    /\ UNCHANGED <<open, member, exit, timerLock, retries, rest>>

AllocLock ==
    /\ At("lock")
    /\ \/ pc' = "cursor2" /\ timerLock' = TRUE /\ UNCHANGED exit
       \/ Fail("lock") /\ UNCHANGED timerLock
    /\ UNCHANGED <<open, ledger, member, retries, rest>>

\* Mutation: the new buffer is released and the property forgotten.
MakeCursorAgainNoProperty ==
    /\ At("cursor2") /\ pc' = "activate"
    /\ member' = [member EXCEPT !["cursorMemory"] = "cursor64K"]
    /\ UNCHANGED <<open, ledger, exit, timerLock, retries, rest>>

\* cursorMemory is overwritten; the new buffer goes to the property table
\* and the driver releases its own reference.
MakeCursorAgain ==
    /\ At("cursor2") /\ pc' = "activate"
    /\ \/ /\ member' = [member EXCEPT !["cursorMemory"] = "cursor64K"]
          /\ ref' = [ref EXCEPT !["cursor64K"] = @ + 1] /\ UNCHANGED own
       \/ member' = [member EXCEPT !["cursorMemory"] = "null"] /\ UNCHANGED ledger
    /\ UNCHANGED <<open, exit, timerLock, retries, rest>>

\* fullyInitialized, activatePowerAndController, flushDisplay.
Activate ==
    /\ At("activate") /\ pc' = "publish"
    /\ flags' = flags \cup {"fullyInitialized", "driverActive", "displayOnline"}
    /\ UNCHANGED <<open, ledger, member, exit, timerLock, retries, powered,
                   published, pixels, maps>>

Publish ==
    /\ At("publish") /\ pc' = "notify"
    /\ published' = TRUE
    /\ UNCHANGED <<open, ledger, member, exit, timerLock, retries, powered, flags,
                   pixels, maps>>

Notify ==
    /\ At("notify") /\ pc' = "running"
    /\ UNCHANGED <<open, ledger, member, exit, timerLock, retries, rest>>
-----------------------------------------------------------------------------
(* Clients of the published framebuffer.                                   *)

\* Calls are answered from registerService to free(): shuttingDown, which
\* stop() sets, is read nowhere.
Serving == published /\ pc # "freed"

\* FakeIrisXEAccelerator::start keeps getFramebufferKernelPtr(), null or not;
\* its stop, which precedes the framebuffer's, is the end of it: IOKit
\* matches no new client to a service it has terminated.
AcceleratorStart ==
    /\ Serving /\ pc # "stopped" /\ pixels = "none"
    /\ pixels' = member["framebufferMemory"]
    /\ UNCHANGED <<pc, open, ledger, member, exit, timerLock, retries, powered,
                   published, flags, maps>>

AcceleratorStop ==
    /\ pixels # "none" /\ pc = "running"
    /\ pixels' = "none"
    /\ UNCHANGED <<pc, open, ledger, member, exit, timerLock, retries, powered,
                   published, flags, maps>>

\* clientMemoryForType: the cursor buffer for kIOFBCursorMemory when there is
\* one, and the frame buffer for everything else; nothing when that is gone.
HandedOut(type) == IF type = "kIOFBCursorMemory" /\ member["cursorMemory"] # "null"
                   THEN member["cursorMemory"] ELSE member["framebufferMemory"]

ClientMap ==
    /\ Serving
    /\ maps["fbMem"] + maps["cursor64K"] + maps["cursorShared"]
         + maps["cursorLate"] < MaxMaps
    /\ \E type \in {"kIOFBCursorMemory", "other"} :
        LET o == HandedOut(type) IN
        /\ o # "null"
        /\ maps' = [maps EXCEPT ![o] = @ + 1]
        /\ ref' = [ref EXCEPT ![o] = @ + 1]
    /\ UNCHANGED <<pc, open, own, member, exit, timerLock, retries, powered,
                   published, flags, pixels>>

\* The client unmaps it or dies, before or after the driver is gone.
ClientUnmap ==
    /\ \E o \in Shared :
        /\ maps[o] > 0
        /\ maps' = [maps EXCEPT ![o] = @ - 1]
        /\ ref' = [ref EXCEPT ![o] = @ - 1]
    /\ UNCHANGED <<pc, open, own, member, exit, timerLock, retries, powered,
                   published, flags, pixels>>

\* It makes a buffer when there is none: when start() could not, and when
\* stop() has released what there was.
CreateSharedCursor ==
    /\ Serving /\ member["cursorMemory"] = "null"
    /\ LET o == IF pc = "stopped" THEN "cursorLate" ELSE "cursorShared" IN
       Take({o}) /\ member' = [member EXCEPT !["cursorMemory"] = o]
    /\ UNCHANGED <<pc, open, exit, timerLock, retries, rest>>
-----------------------------------------------------------------------------
(* stop() and free().                                                      *)

\* Mutation: performSafeStop releases both mappings.
ReleasedBoth == Members

\* What performSafeStop sets to null: bar0Map is not among it, nor mmioBase.
Released == Members \ {"bar0Map"}

\* Mutation: performSafeStop leaves the device open when it has no gate.
SafeStopLeavesOpen ==
    /\ pc = "running" /\ pixels = "none"
    /\ pc' = "stopped"
    /\ Give({"pci"} \cup {member[m] : m \in Released})
    /\ member' = [m \in Pointers |-> IF m \in Released THEN "null" ELSE member[m]]
    /\ timerLock' = FALSE
    /\ flags' = (flags \ {"driverActive"}) \cup {"shuttingDown"}
    /\ UNCHANGED <<open, exit, retries, powered, published, pixels, maps>>

\* stop(): the flags under timerLock, then performSafeStop inline, for there
\* is no command gate.
SafeStop ==
    /\ pc = "running" /\ pixels = "none"
    /\ pc' = "stopped"
    /\ Give({"pci"} \cup {member[m] : m \in Released})
    /\ member' = [m \in Pointers |-> IF m \in Released THEN "null" ELSE member[m]]
    /\ timerLock' = FALSE /\ open' = FALSE
    /\ flags' = (flags \ {"driverActive"}) \cup {"shuttingDown"}
    /\ UNCHANGED <<exit, retries, powered, published, pixels, maps>>

\* The property table has a reference too: the one that is neither the
\* driver's nor a client's.
InTable(o) == ref[o] > own[o] + (IF o \in Shared THEN maps[o] ELSE 0)

\* free(), of a driver that was stopped or whose start() failed: the lock,
\* the surface and the cursor; super::free releases the property table.
Free ==
    /\ pc \in {"stopped", "failed"}
    /\ pc' = "freed"
    /\ LET S == {member["framebufferSurface"], member["cursorMemory"]} IN
       /\ own' = [o \in Objects |-> IF o \in S THEN own[o] - 1 ELSE own[o]]
       /\ ref' = [o \in Objects |-> ref[o] - (IF o \in S THEN 1 ELSE 0)
                                            - (IF InTable(o) THEN 1 ELSE 0)]
    /\ member' = [member EXCEPT !["framebufferSurface"] = "null",
                                !["cursorMemory"] = "null"]
    /\ timerLock' = FALSE /\ flags' = flags \ {"driverActive"}
    /\ UNCHANGED <<open, exit, retries, powered, published, pixels, maps>>
-----------------------------------------------------------------------------
Start ==
    \/ OpenDevice \/ CheckDevice \/ MapBar0 \/ PowerUp \/ Verify \/ MapBar0Again
    \/ AllocFB \/ MakeSurface \/ MakeCursor \/ PublishEdid \/ AllocLock
    \/ MakeCursorAgain \/ Activate \/ Publish \/ Notify
-----------------------------------------------------------------------------
(* Properties.                                                             *)

\* Whatever a member points to, and whatever a client has mapped, is still
\* referenced by somebody, through every exit of start(), stop() and free().
\* The cursor buffer of the property table is excepted after free(), because
\* performSafeStop has given back a reference to it that it did not have
\* (ReleasesOwnOnly).
NoDangling ==
    /\ \A m \in Members : member[m] # "null" => ref[member[m]] > 0
    /\ \A o \in Shared :
        maps[o] > 0 /\ (o = "cursor64K" => pc # "freed") => ref[o] > 0
    /\ pixels # "none" => pixels = "fbMem" /\ member["framebufferMemory"] = "fbMem"

\* Until stop(), the driver serves clients only on a GPU that was seen awake,
\* with the device open and a frame buffer to hand out.
ServesWhenReady ==
    Serving /\ pc # "stopped" =>
        /\ powered /\ open /\ timerLock
        /\ member["framebufferMemory"] = "fbMem" /\ member["mmioMap"] = "mmioMap"

\* When a GPU that would not wake ends start(), and when stop() has run, the
\* device is closed and the driver keeps no hold of BAR0's first mapping nor
\* of the frame buffer.
ClosedAtEnd ==
    exit \in {"power", "verify"} \/ pc = "stopped" \/ (pc = "freed" /\ published) =>
        ~open /\ own["mmioMap"] = 0 /\ own["fbMem"] = 0

\* As long as the driver may touch a register, the mapping mmioBase points
\* into is referenced: when start() has given the first mapping up it does
\* not run on, and after stop(), which keeps the address, the second mapping
\* is still there because nothing releases it.  safeMMIORead and
\* safeMMIOWrite test mmioBase and then ask mmioMap, which stop() has made
\* null, for its length: enableController, which IOFramebuffer may call again,
\* reaches them only past its test of framebufferMemory.
RegistersMapped ==
    pc \notin {"failed", "panic", "freed"} /\ member["mmioBase"] # "null" =>
        /\ ref[member["mmioBase"]] > 0
        /\ member["framebufferMemory"] # "null" => member["mmioMap"] # "null"

-----------------------------------------------------------------------------
(* Claims of comments in the source that the code does not keep (README,    *)
(* section 5).                                                               *)

\* "release *your* retain only": the driver gives back no reference that it
\* did not take.
ReleasesOwnOnly == \A o \in Objects : own[o] >= 0
=============================================================================
