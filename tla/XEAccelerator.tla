----------------------------- MODULE XEAccelerator -----------------------------
(***************************************************************************)
(* The accelerator and its user clients: who holds the shared pages, which *)
(* page pollRing works on, and the timer that runs it.                     *)
(*                                                                         *)
(* A client maps its page through clientMemoryForType, which attaches the  *)
(* page to the accelerator and starts the timer on the calling thread; any *)
(* number of clients do so at once, while pollRing runs on the work loop,  *)
(* and no lock orders them.  Each member assignment of that path is a step *)
(* here, and the history `raced' records the pairs of steps no order can   *)
(* mend, so that the properties say what holds until one has happened.     *)
(* Rings are counted in commands (XERing has their words) and the commands *)
(* do not draw.  A call through a null pointer ends the system: the step   *)
(* is not enabled.                                                         *)
(***************************************************************************)
EXTENDS Integers, FiniteSets

CONSTANTS Clients,      \* the user clients; each allocates one page, its name
          None,         \* a null pointer
          Clobbered,    \* clients that may write over their page's header
          MaxCalls,     \* bound: calls of clientMemoryForType
          MaxTimers,    \* bound: timers made and not lost again
          Slots,        \* commands a ring has room for, all of one size
          MaxCmds,      \* bound: commands submitted to one page
          MaxPerTick    \* MAX_PROC_PER_TICK

ASSUME AcceleratorAssumption ==
    /\ None \notin Clients /\ Clobbered \subseteq Clients
    /\ MaxCalls \in Nat
    /\ MaxTimers \in Nat \ {0} /\ MaxPerTick \in Nat \ {0}
    /\ Slots \in Nat /\ MaxCmds \in 0..Slots-1

VARIABLES
    phase,       \* of each user client: "none", "open" or "stopped"
    ref,         \* references to each page's memory descriptor
    mapped,      \* how many mappings of its page the client's process has
    cpc,         \* where each client's thread is in clientMemoryForType
    fSharedMem, fHdr, fRingBase,    \* the accelerator's pointers: a page or None
    fTimer,      \* the accelerator's timer, 0 when null
    onLoop,      \* timers added to the work loop
    armed,       \* timers waiting to fire
    made,        \* the timer a client's thread has just created, 0 if none
    terminating, \* the framebuffer is going away
    stopped,     \* FakeIrisXEAccelerator::stop has run
    head, tail,  \* of each page, in commands
    ppc,         \* where pollRing is
    sender,      \* the timer that runs it
    lhead, ltail, processed,   \* pollRing's locals
    from,        \* the page the command in hand was read from
    executed,    \* history: commands executed from each page, modulo Slots
    calls,       \* history: calls of clientMemoryForType
    raced        \* history: what two clients have done at the same time

clientVars == <<phase, ref, mapped, cpc, fSharedMem, fHdr, fRingBase>>
timerVars == <<fTimer, onLoop, armed, made>>
lifeVars == <<terminating, stopped>>
pollVars == <<ppc, sender, lhead, ltail, processed, from>>
histVars == <<executed, calls, raced>>
vars == <<clientVars, timerVars, lifeVars, head, tail, pollVars, histVars>>

\* Two threads of attachShared: both release the page that was attached
\* ("release"), or leave the three pointers on different pages ("pointers").
\* Two of startWorkerLoop: both find no timer and each makes one ("timer").
Races == {"release", "pointers", "timer"}

TypeOK ==
    /\ phase \in [Clients -> {"none", "open", "stopped"}]
    /\ ref \in [Clients -> Int] /\ mapped \in [Clients -> Nat]
    /\ cpc \in [Clients -> {"idle", "release", "set", "hdr", "base", "faster",
                            "loop", "create", "add", "arm"}]
    /\ {fSharedMem, fHdr, fRingBase, from} \subseteq Clients \cup {None}
    /\ fTimer \in 0..MaxTimers
    /\ onLoop \subseteq 1..MaxTimers /\ armed \subseteq onLoop
    /\ made \in [Clients -> 0..MaxTimers]
    /\ terminating \in BOOLEAN /\ stopped \in BOOLEAN
    /\ head \in [Clients -> 0..MaxCmds] /\ tail \in [Clients -> 0..Slots-1]
    /\ ppc \in {"idle", "loop", "execute"} /\ sender \in 0..MaxTimers
    /\ lhead \in 0..MaxCmds /\ ltail \in 0..Slots-1 /\ processed \in 0..MaxPerTick
    /\ executed \in [Clients -> 0..Slots-1]
    /\ calls \in 0..MaxCalls /\ raced \subseteq Races

Init ==
    /\ phase = [u \in Clients |-> "none"] /\ ref = [u \in Clients |-> 0]
    /\ mapped = [u \in Clients |-> 0] /\ cpc = [u \in Clients |-> "idle"]
    /\ fSharedMem = None /\ fHdr = None /\ fRingBase = None
    /\ fTimer = 0 /\ onLoop = {} /\ armed = {} /\ made = [u \in Clients |-> 0]
    /\ terminating = FALSE /\ stopped = FALSE
    /\ head = [u \in Clients |-> 0] /\ tail = [u \in Clients |-> 0]
    /\ ppc = "idle" /\ sender = 0 /\ lhead = 0 /\ ltail = 0 /\ processed = 0
    /\ from = None /\ executed = [u \in Clients |-> 0]
    /\ calls = 0 /\ raced = {}
-----------------------------------------------------------------------------
(* User clients.                                                           *)

\* FakeIrisXEAcceleratorUserClient::start allocates the page, head = tail = 0.
Open(u) ==
    /\ phase[u] = "none" /\ ~terminating
    /\ phase' = [phase EXCEPT ![u] = "open"]
    /\ ref' = [ref EXCEPT ![u] = 1]
    /\ UNCHANGED <<mapped, cpc, fSharedMem, fHdr, fRingBase, timerVars, lifeVars,
                   head, tail, pollVars, histVars>>

\* The process maps its page: clientMemoryForType takes a reference for the
\* mapping and goes on with attachShared and startWorkerLoop; it may do so
\* again and again.  No client begins a call once the device is being removed.
Map(u) ==
    /\ phase[u] = "open" /\ cpc[u] = "idle" /\ ~terminating
    /\ calls < MaxCalls /\ calls' = calls + 1
    /\ mapped' = [mapped EXCEPT ![u] = @ + 1]
    /\ ref' = [ref EXCEPT ![u] = @ + 1]
    /\ cpc' = [cpc EXCEPT ![u] = "release"]
    /\ UNCHANGED <<phase, fSharedMem, fHdr, fRingBase, timerVars, lifeVars, head,
                   tail, pollVars, executed, raced>>

\* The process takes a mapping down, or dies; clientClose does nothing itself.
Unmap(u) ==
    /\ mapped[u] > 0 /\ cpc[u] = "idle"
    /\ mapped' = [mapped EXCEPT ![u] = @ - 1]
    /\ ref' = [ref EXCEPT ![u] = @ - 1]
    /\ UNCHANGED <<phase, cpc, fSharedMem, fHdr, fRingBase, timerVars, lifeVars,
                   head, tail, pollVars, histVars>>

\* Mutation: clientClose terminates the client, as FakeIrisXESharedUserClient
\* does, instead of leaving it to the removal of the device.
StopClientOnClose(u) ==
    /\ phase[u] = "open" /\ cpc[u] = "idle"
    /\ phase' = [phase EXCEPT ![u] = "stopped"]
    /\ ref' = [ref EXCEPT ![u] = @ - 1]
    /\ UNCHANGED <<mapped, cpc, fSharedMem, fHdr, fRingBase, timerVars, lifeVars,
                   head, tail, pollVars, histVars>>

\* FakeIrisXEAcceleratorUserClient::stop, between two calls of the client.
StopClient(u) ==
    /\ phase[u] = "open" /\ cpc[u] = "idle" /\ terminating
    /\ phase' = [phase EXCEPT ![u] = "stopped"]
    /\ ref' = [ref EXCEPT ![u] = @ - 1]
    /\ UNCHANGED <<mapped, cpc, fSharedMem, fHdr, fRingBase, timerVars, lifeVars,
                   head, tail, pollVars, histVars>>
-----------------------------------------------------------------------------
(* attachShared, on the thread of client u.                                *)

Goto(u, l) == cpc' = [cpc EXCEPT ![u] = l]

\* Another client's thread is at one of the lines S.
OtherAt(u, S) == \E v \in Clients \ {u} : cpc[v] \in S

\* A client that comes here while another has released the page and not yet
\* replaced the pointer releases it again.
ReleaseOld(u) ==
    /\ cpc[u] = "release" /\ Goto(u, "set")
    /\ raced' = raced \cup (IF OtherAt(u, {"set"}) THEN {"release"} ELSE {})
                     \cup (IF OtherAt(u, {"hdr", "base"}) THEN {"pointers"} ELSE {})
    /\ ref' = IF fSharedMem = None THEN ref
              ELSE [ref EXCEPT ![fSharedMem] = @ - 1]
    /\ UNCHANGED <<phase, mapped, fSharedMem, fHdr, fRingBase, timerVars,
                   lifeVars, head, tail, pollVars, executed, calls>>

\* Mutation: the new page is not retained.
SetSharedNoRetain(u) ==
    /\ cpc[u] = "set"
    /\ fSharedMem' = u
    /\ \/ Goto(u, "hdr")
       \/ u \in Clobbered /\ Goto(u, "loop")
    /\ UNCHANGED <<phase, ref, mapped, fHdr, fRingBase, timerVars, lifeVars, head,
                   tail, pollVars, histVars>>

\* Retain and store the page; a bad header returns from attachShared here,
\* with fHdr and fRingBase as they were, and the caller does not look.
SetShared(u) ==
    /\ cpc[u] = "set"
    /\ ref' = [ref EXCEPT ![u] = @ + 1]
    /\ fSharedMem' = u
    /\ \/ Goto(u, "hdr")
       \/ u \in Clobbered /\ Goto(u, "loop")
    /\ UNCHANGED <<phase, mapped, fHdr, fRingBase, timerVars, lifeVars, head,
                   tail, pollVars, histVars>>

SetHdr(u) ==
    /\ cpc[u] = "hdr" /\ Goto(u, "base")
    /\ fHdr' = u
    /\ UNCHANGED <<phase, ref, mapped, fSharedMem, fRingBase, timerVars, lifeVars,
                   head, tail, pollVars, histVars>>

SetBase(u) ==
    /\ cpc[u] = "base" /\ Goto(u, "faster")
    /\ fRingBase' = u
    /\ UNCHANGED <<phase, ref, mapped, fSharedMem, fHdr, timerVars, lifeVars,
                   head, tail, pollVars, histVars>>

\* Mutation: the null timer is not looked for.
ArmTimerNull == armed' = armed \cup {fTimer}

\* setTimeoutMS on whatever fTimer is now.
ArmTimer == armed' = armed \cup ({fTimer} \cap onLoop)

PollFaster(u) ==
    /\ cpc[u] = "faster" /\ Goto(u, "loop")
    /\ ArmTimer
    /\ UNCHANGED <<phase, ref, mapped, fSharedMem, fHdr, fRingBase, fTimer,
                   onLoop, made, lifeVars, head, tail, pollVars, histVars>>
-----------------------------------------------------------------------------
(* startWorkerLoop and createAndArmTimer, whose timerOut is fTimer itself. *)

\* The test for a timer and, two lines on, the making of one: a client that
\* finds none while another is about to make it makes a second.
StartLoop(u) ==
    /\ cpc[u] = "loop"
    /\ IF fTimer # 0 THEN ArmTimer /\ Goto(u, "idle")
                     ELSE UNCHANGED armed /\ Goto(u, "create")
    /\ raced' = IF fTimer = 0 /\ OtherAt(u, {"create"})
                THEN raced \cup {"timer"} ELSE raced
    /\ UNCHANGED <<phase, ref, mapped, fSharedMem, fHdr, fRingBase, fTimer,
                   onLoop, made, lifeVars, head, tail, pollVars, executed, calls>>

\* A timer on the loop, or one a thread has made and not yet added, keeps its
\* number; the least of the others stands for a new one.
IsNew(t) == t \notin onLoop /\ \A v \in Clients : made[v] # t

\* Mutation: the new timer is kept in a local, and stored when it is armed.
CreateTimerLocal(u) ==
    /\ cpc[u] = "create" /\ Goto(u, "add")
    /\ \E t \in 1..MaxTimers :
          /\ IsNew(t) /\ \A s \in 1..t-1 : ~IsNew(s)
          /\ made' = [made EXCEPT ![u] = t]
    /\ UNCHANGED <<phase, ref, mapped, fSharedMem, fHdr, fRingBase, fTimer, onLoop,
                   armed, lifeVars, head, tail, pollVars, histVars>>

CreateTimer(u) ==
    /\ cpc[u] = "create" /\ Goto(u, "add")
    /\ \E t \in 1..MaxTimers :
          /\ IsNew(t) /\ \A s \in 1..t-1 : ~IsNew(s)
          /\ fTimer' = t /\ made' = [made EXCEPT ![u] = t]
    /\ UNCHANGED <<phase, ref, mapped, fSharedMem, fHdr, fRingBase, onLoop, armed,
                   lifeVars, head, tail, pollVars, histVars>>

CreateFails(u) ==
    /\ cpc[u] = "create" /\ Goto(u, "idle")
    /\ fTimer' = 0
    /\ UNCHANGED <<phase, ref, mapped, fSharedMem, fHdr, fRingBase, onLoop,
                   armed, made, lifeVars, head, tail, pollVars, histVars>>

\* addEventSource: the compiler may pass the timer it has just stored or read
\* fTimer again.
AddTimer(u) ==
    /\ cpc[u] = "add" /\ Goto(u, "arm")
    /\ \E t \in {made[u], fTimer} \ {0} : onLoop' = onLoop \cup {t}
    /\ made' = [made EXCEPT ![u] = 0]
    /\ UNCHANGED <<phase, ref, mapped, fSharedMem, fHdr, fRingBase, fTimer,
                   armed, lifeVars, head, tail, pollVars, histVars>>

\* addEventSource fails: what fTimer is now is released and forgotten.
AddFails(u) ==
    /\ cpc[u] = "add" /\ fTimer # 0 /\ Goto(u, "idle")
    /\ fTimer' = 0
    /\ made' = [made EXCEPT ![u] = 0]
    /\ UNCHANGED <<phase, ref, mapped, fSharedMem, fHdr, fRingBase, onLoop,
                   armed, lifeVars, head, tail, pollVars, histVars>>

\* Mutation: the new timer is added to the loop and left unarmed.
ArmNewForgotten(u) ==
    /\ cpc[u] = "arm" /\ Goto(u, "idle")
    /\ UNCHANGED <<phase, ref, mapped, fSharedMem, fHdr, fRingBase, timerVars,
                   lifeVars, head, tail, pollVars, histVars>>

ArmNew(u) ==
    /\ cpc[u] = "arm" /\ fTimer # 0 /\ Goto(u, "idle")
    /\ ArmTimer
    /\ UNCHANGED <<phase, ref, mapped, fSharedMem, fHdr, fRingBase, fTimer,
                   onLoop, made, lifeVars, head, tail, pollVars, histVars>>
-----------------------------------------------------------------------------
(* Producing: a process on its mapped page, InjectTest on the attached one. *)

Submit(u) ==
    /\ mapped[u] > 0 /\ head[u] < MaxCmds
    /\ head' = [head EXCEPT ![u] = @ + 1]
    /\ UNCHANGED <<clientVars, timerVars, lifeVars, tail, pollVars, histVars>>

InjectTest(u) ==
    /\ phase[u] = "open" /\ fHdr # None /\ fRingBase # None
    /\ head[fHdr] < MaxCmds
    /\ head' = [head EXCEPT ![fHdr] = @ + 1]
    /\ UNCHANGED <<clientVars, timerVars, lifeVars, tail, pollVars, histVars>>
-----------------------------------------------------------------------------
(* pollRing on the work loop; fHdr and fRingBase are read again each time. *)

PollNothing(t) ==
    /\ ppc = "idle" /\ t \in armed
    /\ \/ fHdr = None \/ fRingBase = None
       \/ fHdr # None /\ fRingBase # None /\ head[fHdr] = tail[fHdr]
    /\ UNCHANGED vars        \* rearmed before it returns

PollBegin(t) ==
    /\ ppc = "idle" /\ t \in armed
    /\ fHdr # None /\ fRingBase # None /\ head[fHdr] # tail[fHdr]
    /\ armed' = armed \ {t}
    /\ sender' = t
    /\ lhead' = head[fHdr] /\ ltail' = tail[fHdr]
    /\ ppc' = "loop"
    /\ UNCHANGED <<clientVars, fTimer, onLoop, made, lifeVars, head, tail,
                   processed, from, histVars>>

PollRead ==
    /\ ppc = "loop" /\ ltail # lhead /\ processed < MaxPerTick
    /\ fRingBase # None
    /\ from' = fRingBase
    /\ ppc' = "execute"
    /\ UNCHANGED <<clientVars, timerVars, lifeVars, head, tail, sender, lhead,
                   ltail, processed, histVars>>

\* processCommand, then the new tail goes to the ring fHdr points at now.
PollExecute ==
    /\ ppc = "execute" /\ fHdr # None
    /\ executed' = [executed EXCEPT ![from] = (@ + 1) % Slots]
    /\ ltail' = (ltail + 1) % Slots
    /\ tail' = [tail EXCEPT ![fHdr] = ltail']
    /\ processed' = processed + 1
    /\ from' = None
    /\ ppc' = "loop"
    /\ UNCHANGED <<clientVars, timerVars, lifeVars, head, sender, lhead, calls,
                   raced>>

PollEnd ==
    /\ ppc = "loop" /\ (ltail = lhead \/ processed = MaxPerTick)
    /\ armed' = armed \cup ({sender} \cap onLoop)
    /\ sender' = 0 /\ lhead' = 0 /\ ltail' = 0 /\ processed' = 0
    /\ ppc' = "idle"
    /\ UNCHANGED <<clientVars, fTimer, onLoop, made, lifeVars, head, tail, from,
                   histVars>>
-----------------------------------------------------------------------------
(* Removal of the device: clients stop first, then the accelerator.        *)

Terminate ==
    /\ ~terminating /\ terminating' = TRUE
    /\ UNCHANGED <<clientVars, timerVars, stopped, head, tail, pollVars, histVars>>

\* Mutation: stop cancels the timer and forgets it on the work loop.
StopLeavesTimer ==
    /\ terminating /\ ~stopped /\ \A u \in Clients : phase[u] # "open"
    /\ fTimer = 0 \/ ppc = "idle"
    /\ stopped' = TRUE
    /\ fTimer' = 0
    /\ ref' = IF fSharedMem = None THEN ref
              ELSE [ref EXCEPT ![fSharedMem] = @ - 1]
    /\ fSharedMem' = None
    /\ fHdr' = IF fSharedMem = None THEN fHdr ELSE None
    /\ fRingBase' = IF fSharedMem = None THEN fRingBase ELSE None
    /\ UNCHANGED <<phase, mapped, cpc, onLoop, armed, made, terminating, head,
                   tail, pollVars, histVars>>

\* FakeIrisXEAccelerator::stop; removing the timer from the work loop waits
\* for a callback in progress.
Stop ==
    /\ terminating /\ ~stopped /\ \A u \in Clients : phase[u] # "open"
    /\ fTimer = 0 \/ ppc = "idle"
    /\ stopped' = TRUE
    /\ onLoop' = onLoop \ {fTimer} /\ armed' = armed \ {fTimer} /\ fTimer' = 0
    /\ ref' = IF fSharedMem = None THEN ref
              ELSE [ref EXCEPT ![fSharedMem] = @ - 1]
    /\ fSharedMem' = None
    /\ fHdr' = IF fSharedMem = None THEN fHdr ELSE None
    /\ fRingBase' = IF fSharedMem = None THEN fRingBase ELSE None
    /\ UNCHANGED <<phase, mapped, cpc, made, terminating, head, tail, pollVars,
                   histVars>>
-----------------------------------------------------------------------------
ClientStep(u) ==
    \/ Open(u) \/ Map(u) \/ Unmap(u) \/ StopClient(u)
    \/ ReleaseOld(u) \/ SetShared(u) \/ SetHdr(u) \/ SetBase(u) \/ PollFaster(u)
    \/ StartLoop(u) \/ CreateTimer(u) \/ CreateFails(u) \/ AddTimer(u)
    \/ AddFails(u) \/ ArmNew(u)
    \/ Submit(u) \/ InjectTest(u)

PollStep ==
    \/ \E t \in 1..MaxTimers : PollNothing(t) \/ PollBegin(t)
    \/ PollRead \/ PollExecute \/ PollEnd

Next == (\E u \in Clients : ClientStep(u)) \/ PollStep \/ Terminate \/ Stop

Spec == Init /\ [][Next]_vars
-----------------------------------------------------------------------------
(* Properties, of clients that call at any time.  What two of them can do   *)
(* wrong by meeting is in `raced', and each property names the one that     *)
(* would take it away; all the other meetings of the same threads, failures *)
(* and bad headers included, do not.                                        *)

Quiet == \A u \in Clients : cpc[u] = "idle"

\* Every page has exactly the references of its holders: its client until it
\* stops, the process for each of its mappings, and the accelerator for the
\* page in fSharedMem, except that attachShared gives up the old page one step
\* before it forgets the pointer.  Only a client that enters attachShared in
\* between can upset the balance.
RefBalance ==
    "release" \notin raced =>
        \A u \in Clients :
            ref[u] = (IF phase[u] = "open" THEN 1 ELSE 0) + mapped[u]
                   + (IF fSharedMem = u /\ \A v \in Clients : cpc[v] # "set"
                      THEN 1 ELSE 0)

\* The page pollRing reads and writes is allocated, although attachShared
\* releases it before fHdr is moved away from it, and although two clients may
\* leave fHdr and fSharedMem on different pages: its own client still holds it,
\* because clientClose does not terminate the client.  Removal of the device
\* ends that client too, and the page must then be the accelerator's own: so it
\* is if no client is in the middle of attachShared, the last one to attach had
\* a good header, and no two were between the three pointers together.
HdrAlive ==
    ( \/ "release" \notin raced /\ ~terminating
      \/ raced \subseteq {"timer"} /\ Quiet /\ fSharedMem \notin Clobbered ) =>
        /\ fHdr # None => ref[fHdr] > 0
        /\ fRingBase # None => ref[fRingBase] > 0

\* Whenever no client is inside the driver, the accelerator's timer is on the
\* work loop and waiting to fire, unless pollRing is running from it: polling
\* never stops by itself, whoever passed by while the timer was being made and
\* whether or not that failed.
TimerRunning ==
    "timer" \notin raced /\ Quiet /\ fTimer # 0 =>
        /\ fTimer \in onLoop
        /\ fTimer \in armed \/ (ppc # "idle" /\ sender = fTimer)

\* One timer polls, however many clients start the worker loop together and
\* whichever attempts fail, unless two looked for it before either had made it:
\* that is the only way to a second one.
OneTimer == "timer" \notin raced => Cardinality(onLoop) <= 1

\* Until then the accelerator is the service the framebuffer relies on
\* (XEService): once its timer ticks, it is armed or pollRing runs from it;
\* stop() waits for the tick and no timer calls in after it.
Service == INSTANCE XEService WITH
    attached <- ~stopped,
    polling <- armed # {} \/ ppc # "idle",
    busy <- ppc # "idle"
ImplementsService ==
    /\ Service!Init
    /\ [][ "timer" \notin raced' => Service!Next
         ]_<<~stopped, armed # {} \/ ppc # "idle", ppc # "idle">>

-----------------------------------------------------------------------------
(* Claims of comments in the source that the code does not keep (README,    *)
(* section 5).  The run accel_switch shows the first.                        *)

\* The tail of a ring counts the commands executed from that ring: none is
\* passed over and none executed twice.  It is the header's "consumer offset
\* (kernel)".
TailCountsExecuted == \A u \in Clients : tail[u] = executed[u]

\* "start worker timer/workloop (idempotent)": one timer polls however often
\* it is started.
TimerUnique == Cardinality(onLoop) <= 1
=============================================================================
