------------------------------ MODULE FBInterrupts ------------------------------
(***************************************************************************)
(* registerForInterruptType and unregisterInterrupt of the framebuffer,    *)
(* with what performSafeStop() and free() do to the list they share.       *)
(*                                                                         *)
(* Registering allocates an InterruptInfo, whose address is the client's   *)
(* reference, and an OSData with a copy of its bytes in a buffer of its    *)
(* own.  Blocks of memory are numbered in the order of allocation.  Calls  *)
(* come one at a time, after stop() too: neither handler asks whether the  *)
(* driver was stopped.  FBDriver puts the list into the driver.            *)
(***************************************************************************)
EXTENDS Integers

CONSTANT MaxBlocks      \* bound: blocks allocated

Blocks == 1..MaxBlocks

VARIABLES
    hasList,     \* interruptList is not null
    list,        \* its entries: the buffer of an OSData and what it is a copy of;
                 \* no operation depends on their order
    used,        \* blocks allocated so far
    freed,       \* history: how often each block was freed
    held,        \* references clients hold, and whether each went on the list
    told,        \* history: references unregisterInterrupt was given, and whether
                 \* it found them
    phase,       \* "serving", "stopped", "freed"
    late         \* history: blocks allocated after stop()

vars == <<hasList, list, used, freed, held, told, phase, late>>

TypeOK ==
    /\ hasList \in BOOLEAN /\ (~hasList => list = {})
    /\ list \subseteq [buffer: 1..used, info: 1..used]
    /\ used \in 0..MaxBlocks /\ freed \in [Blocks -> Nat]
    /\ held \subseteq [info: 1..used, listed: BOOLEAN]
    /\ told \subseteq [info: 1..used, listed: BOOLEAN, found: BOOLEAN]
    /\ phase \in {"serving", "stopped", "freed"} /\ late \subseteq Blocks

Init ==
    /\ hasList = FALSE /\ list = {} /\ used = 0
    /\ freed = [b \in Blocks |-> 0] /\ held = {} /\ told = {}
    /\ phase = "serving" /\ late = {}

Buffers == {e.buffer : e \in list}
FreeAll(S) == freed' = [b \in Blocks |-> IF b \in S THEN freed[b] + 1 ELSE freed[b]]
-----------------------------------------------------------------------------
Note(S) == late' = late \cup (IF phase = "stopped" THEN S ELSE {})

Register ==
    /\ phase # "freed" /\ used + 2 <= MaxBlocks
    /\ Note({used + 1, used + 2})
    /\ used' = used + 2
    /\ hasList' = TRUE
    /\ list' = list \cup {[buffer |-> used + 2, info |-> used + 1]}
    /\ held' = held \cup {[info |-> used + 1, listed |-> TRUE]}
    /\ UNCHANGED <<freed, told, phase>>

\* The OSData cannot be made: the reference is given out all the same.
RegisterUnlisted ==
    /\ phase # "freed" /\ used + 1 <= MaxBlocks
    /\ Note({used + 1})
    /\ used' = used + 1
    /\ hasList' = TRUE
    /\ held' = held \cup {[info |-> used + 1, listed |-> FALSE]}
    /\ UNCHANGED <<list, freed, told, phase>>

\* The entry whose buffer is the reference is removed, which frees the
\* buffer, and then the reference is freed.
Unregister(r) ==
    /\ phase # "freed" /\ r \in held /\ hasList
    /\ held' = held \ {r}
    /\ list' = {e \in list : e.buffer # r.info}
    /\ freed' = [freed EXCEPT ![r.info] = @ + (IF r.info \in Buffers THEN 2 ELSE 0)]
    /\ told' = told \cup {[info |-> r.info, listed |-> r.listed,
                           found |-> r.info \in Buffers]}
    /\ UNCHANGED <<hasList, used, phase, late>>

\* Mutation: performSafeStop releases the list and keeps the pointer.
SafeStopKeepsList ==
    /\ phase = "serving" /\ phase' = "stopped"
    /\ FreeAll(Buffers)
    /\ UNCHANGED <<hasList, list, used, held, told, late>>

\* performSafeStop releases the list; each OSData frees its buffer.
SafeStop ==
    /\ phase = "serving" /\ phase' = "stopped"
    /\ FreeAll(Buffers)
    /\ hasList' = FALSE /\ list' = {}
    /\ UNCHANGED <<used, held, told, late>>

\* free(), after performSafeStop or after a start() that failed: IOFree on
\* each buffer of a list that is there, made by calls that came after
\* stop(), and then release of the list, which frees the buffers.
Free ==
    /\ phase # "freed" /\ phase' = "freed"
    /\ freed' = [b \in Blocks |-> IF b \in Buffers THEN freed[b] + 2 ELSE freed[b]]
    /\ hasList' = FALSE /\ list' = {}
    /\ UNCHANGED <<used, held, told, late>>

\* The calls of clients; SafeStop and Free are the driver's.
Call == Register \/ RegisterUnlisted \/ \E r \in held : Unregister(r)
-----------------------------------------------------------------------------
(* Properties.                                                             *)

\* No block that was allocated before stop() is freed twice over
\* registrations, removals, stop() and free(), whatever comes after stop():
\* the ones free() would free twice are off the list by then.  The blocks of
\* a later registration are (FreedAtMostOnce).
FreedOnce == \A b \in Blocks \ late : freed[b] <= 1

-----------------------------------------------------------------------------
(* Claims of comments in the source that the code does not keep (README,    *)
(* section 5).                                                               *)

\* "Find and remove from interrupt list": a reference that went on the list
\* when it was registered is found when it is unregistered.
RegisteredIsFound == \A a \in told : a.listed => a.found

\* "Cleanup all interrupt registrations": free() frees what is registered,
\* once, also what was registered after stop().
FreedAtMostOnce == \A b \in Blocks : freed[b] <= 1
=============================================================================
