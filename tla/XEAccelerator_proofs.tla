-------------------------- MODULE XEAccelerator_proofs --------------------------
(***************************************************************************)
(* Proofs about XEAccelerator, for any number of clients that call at any  *)
(* time, of pages, commands and timers: the references of each page are    *)
(* those of its holders, the timer keeps polling, and the accelerator is   *)
(* the service FBDriver takes it for, each until the race that breaks it.  *)
(***************************************************************************)
EXTENDS XEAccelerator, FiniteSetTheorems, TLAPS

Inside(u) == cpc[u] # "idle"
At(S) == \E u \in Clients : cpc[u] \in S
OneAt(S) == \A u, v \in Clients : cpc[u] \in S /\ cpc[v] \in S => u = v

\* The caller's page is its own, and mapped.
CallersInv ==
    /\ \A u \in Clients : Inside(u) => phase[u] = "open" /\ mapped[u] > 0
    /\ \A u \in Clients : mapped[u] > 0 => phase[u] # "none"
    /\ \A q \in {fSharedMem, fHdr, fRingBase} : q # None => phase[q] # "none"

\* One client at a time has released the old page and not yet replaced it.
RefInv == RefBalance /\ ("release" \notin raced => OneAt({"set"}))

\* One client at a time is between the three pointers, and outside of
\* attachShared they agree, unless the last page to attach had a bad header.
PointersInv == raced \subseteq {"timer"} =>
    /\ OneAt({"set", "hdr", "base"})
    /\ \A u \in Clients : cpc[u] \in {"hdr", "base"} => fSharedMem = u
    /\ \A u \in Clients : cpc[u] = "base" => fHdr = u
    /\ ~At({"set", "hdr", "base"}) /\ fSharedMem \notin Clobbered =>
            fHdr = fSharedMem /\ fRingBase = fSharedMem

\* Clients stop in the removal of the device, the accelerator after them.
RemovalInv ==
    /\ ~terminating => \A u \in Clients : phase[u] # "stopped"
    /\ stopped => terminating /\ \A u \in Clients : phase[u] # "open"

\* One client at a time makes the timer, and there is no other.
TimerInv == "timer" \notin raced =>
    /\ OneAt({"create", "add", "arm"})
    /\ onLoop \subseteq {fTimer}
    /\ At({"create"}) => fTimer = 0
    /\ \A u \in Clients : cpc[u] = "add" =>
            fTimer # 0 /\ made[u] = fTimer /\ onLoop = {}
    /\ fTimer # 0 /\ ~At({"add"}) => fTimer \in onLoop
    /\ At({"arm"}) => fTimer \in onLoop
    /\ fTimer # 0 /\ ~At({"add", "arm"}) => fTimer \in armed \/ ppc # "idle"
    /\ ppc # "idle" => sender = fTimer /\ fTimer \in onLoop
    /\ stopped => fTimer = 0

\* A command in hand comes from a page, and the tick has room for it.
PollInv == ppc = "execute" => from # None /\ processed < MaxPerTick

AccInv == TypeOK /\ CallersInv /\ RefInv /\ PointersInv /\ RemovalInv
              /\ TimerInv /\ PollInv
-----------------------------------------------------------------------------
LEMMA ModSlots == ASSUME NEW x \in Nat PROVE x % Slots \in 0..Slots-1
BY AcceleratorAssumption, Z3

\* What a step leaves alone stays true.
LEMMA Kept ==
    ASSUME AccInv
    PROVE  /\ UNCHANGED <<cpc, phase, mapped, fSharedMem, fHdr, fRingBase>> => CallersInv'
           /\ UNCHANGED <<ref, phase, mapped, fSharedMem, cpc, raced>> => RefInv'
           /\ UNCHANGED <<cpc, fSharedMem, fHdr, fRingBase, raced>> => PointersInv'
           /\ UNCHANGED <<lifeVars, phase>> => RemovalInv'
           /\ UNCHANGED <<timerVars, cpc, ppc, sender, stopped, raced>> => TimerInv'
           /\ UNCHANGED <<ppc, from, processed>> => PollInv'
<1>1. UNCHANGED <<cpc, phase, mapped, fSharedMem, fHdr, fRingBase>> => CallersInv'
  BY DEF AccInv, CallersInv, Inside
<1>2. UNCHANGED <<ref, phase, mapped, fSharedMem, cpc, raced>> => RefInv'
  BY DEF AccInv, RefInv, RefBalance, OneAt
<1>3. UNCHANGED <<cpc, fSharedMem, fHdr, fRingBase, raced>> => PointersInv'
  BY DEF AccInv, PointersInv, At, OneAt
<1>4. UNCHANGED <<lifeVars, phase>> => RemovalInv'
  BY DEF AccInv, RemovalInv, lifeVars
<1>5. UNCHANGED <<timerVars, cpc, ppc, sender, stopped, raced>> => TimerInv'
  BY DEF AccInv, TimerInv, At, OneAt, timerVars
<1>6. UNCHANGED <<ppc, from, processed>> => PollInv'
  BY DEF AccInv, PollInv
<1> QED  BY <1>1, <1>2, <1>3, <1>4, <1>5, <1>6

\* A caller goes on to its next line, and the others stay where they are.
LEMMA GoesOn ==
    ASSUME AccInv, NEW u \in Clients, NEW l, Goto(u, l)
    PROVE  cpc'[u] = l /\ \A v \in Clients \ {u} : cpc'[v] = cpc[v]
BY DEF Goto, AccInv, TypeOK

LEMMA Caller ==
    ASSUME AccInv, NEW u \in Clients, Inside(u)
    PROVE  phase[u] = "open" /\ mapped[u] > 0 /\ ~stopped
BY DEF AccInv, CallersInv, RemovalInv
-----------------------------------------------------------------------------
(* Clients come and go.                                                    *)

LEMMA OpenStep == ASSUME AccInv, NEW u \in Clients, Open(u) PROVE AccInv'
<1>1. TypeOK'  BY DEF Open, AccInv, TypeOK, timerVars, lifeVars, pollVars, histVars
<1>2. CallersInv'  BY DEF Open, AccInv, TypeOK, CallersInv, Inside
<1>3. RefInv'
  <2>1. mapped[u] = 0 /\ fSharedMem # u
    BY AcceleratorAssumption DEF Open, AccInv, CallersInv, TypeOK
  <2> QED  BY <2>1 DEF Open, AccInv, TypeOK, RefInv, RefBalance, OneAt, histVars
<1>4. RemovalInv'  BY DEF Open, AccInv, TypeOK, RemovalInv, lifeVars
<1> QED
  BY <1>1, <1>2, <1>3, <1>4, Kept DEF Open, AccInv, pollVars, histVars, lifeVars

LEMMA MapStep == ASSUME AccInv, NEW u \in Clients, Map(u) PROVE AccInv'
<1>1. cpc[u] = "idle" /\ Goto(u, "release")  BY DEF Map, Goto
<1>2. cpc'[u] = "release" /\ \A v \in Clients \ {u} : cpc'[v] = cpc[v]
  BY <1>1, GoesOn
<1>3. mapped' = [mapped EXCEPT ![u] = @ + 1]  BY DEF Map
<1>4. TypeOK'
  <2>1. mapped' \in [Clients -> Nat] /\ calls' \in 0..MaxCalls
    BY <1>3, AcceleratorAssumption DEF Map, AccInv, TypeOK
  <2> QED  BY <2>1 DEF Map, AccInv, TypeOK, timerVars, lifeVars, pollVars, histVars
<1>5. CallersInv'  BY <1>2, <1>3 DEF Map, AccInv, TypeOK, CallersInv, Inside
<1>6. RefInv'
  BY <1>1, <1>2 DEF Map, AccInv, TypeOK, RefInv, RefBalance, OneAt, histVars
<1>7. PointersInv'
  BY <1>1, <1>2 DEF Map, AccInv, TypeOK, PointersInv, At, OneAt, histVars
<1>8. TimerInv'
  BY <1>1, <1>2
     DEF Map, AccInv, TypeOK, TimerInv, At, OneAt, timerVars, pollVars, lifeVars, histVars
<1> QED
  BY <1>4, <1>5, <1>6, <1>7, <1>8, Kept DEF Map, AccInv, pollVars

LEMMA UnmapStep == ASSUME AccInv, NEW u \in Clients, Unmap(u) PROVE AccInv'
<1>1. mapped' = [mapped EXCEPT ![u] = @ - 1] /\ mapped[u] > 0  BY DEF Unmap
<1>2. TypeOK'
  <2>1. mapped' \in [Clients -> Nat]  BY <1>1 DEF AccInv, TypeOK
  <2> QED  BY <2>1 DEF Unmap, AccInv, TypeOK, timerVars, lifeVars, pollVars, histVars
<1>3. CallersInv'  BY DEF Unmap, AccInv, TypeOK, CallersInv, Inside
<1>4. RefInv'  BY DEF Unmap, AccInv, TypeOK, RefInv, RefBalance, OneAt, histVars
<1> QED
  BY <1>2, <1>3, <1>4, Kept DEF Unmap, AccInv, pollVars, lifeVars, histVars

LEMMA StopClientStep == ASSUME AccInv, NEW u \in Clients, StopClient(u) PROVE AccInv'
<1>1. TypeOK'
  BY DEF StopClient, AccInv, TypeOK, timerVars, lifeVars, pollVars, histVars
<1>2. CallersInv'
  BY AcceleratorAssumption DEF StopClient, AccInv, TypeOK, CallersInv, Inside
<1>3. RefInv'
  BY DEF StopClient, AccInv, TypeOK, RefInv, RefBalance, OneAt, histVars
<1>4. RemovalInv'
  BY DEF StopClient, AccInv, TypeOK, RemovalInv, lifeVars
<1> QED
  BY <1>1, <1>2, <1>3, <1>4, Kept DEF StopClient, AccInv, pollVars, lifeVars, histVars
-----------------------------------------------------------------------------
(* attachShared.                                                           *)

LEMMA ReleaseOldStep == ASSUME AccInv, NEW u \in Clients, ReleaseOld(u) PROVE AccInv'
<1>1. cpc[u] = "release"  BY DEF ReleaseOld
<1>2. cpc'[u] = "set" /\ \A v \in Clients \ {u} : cpc'[v] = cpc[v]
  BY GoesOn DEF ReleaseOld
<1>3. /\ raced \subseteq raced' /\ raced' \subseteq Races
      /\ "timer" \in raced' => "timer" \in raced
      /\ "release" \notin raced' => \A v \in Clients \ {u} : cpc[v] # "set"
      /\ raced' \subseteq {"timer"} =>
            \A v \in Clients \ {u} : cpc[v] \notin {"set", "hdr", "base"}
  BY DEF ReleaseOld, OtherAt, AccInv, TypeOK, Races
<1>4. TypeOK'
  BY <1>3 DEF ReleaseOld, Goto, AccInv, TypeOK, timerVars, lifeVars, pollVars
<1>5. CallersInv'
  BY <1>1, <1>2 DEF ReleaseOld, AccInv, CallersInv, Inside
<1>6. RefInv'
  BY <1>1, <1>2, <1>3, AcceleratorAssumption
     DEF ReleaseOld, AccInv, TypeOK, RefInv, RefBalance, OneAt
<1>7. PointersInv'
  BY <1>1, <1>2, <1>3 DEF ReleaseOld, AccInv, TypeOK, PointersInv, At, OneAt
<1>8. TimerInv'
  BY <1>1, <1>2, <1>3
     DEF ReleaseOld, AccInv, TypeOK, TimerInv, At, OneAt, timerVars, pollVars, lifeVars
<1> QED
  BY <1>4, <1>5, <1>6, <1>7, <1>8, Kept DEF ReleaseOld, AccInv, pollVars

LEMMA SetSharedStep == ASSUME AccInv, NEW u \in Clients, SetShared(u) PROVE AccInv'
<1>1. cpc[u] = "set" /\ phase[u] = "open"  BY Caller DEF SetShared, Inside
<1>2. /\ cpc'[u] = "hdr" \/ (cpc'[u] = "loop" /\ u \in Clobbered)
      /\ \A v \in Clients \ {u} : cpc'[v] = cpc[v]
  BY GoesOn DEF SetShared
<1>3. TypeOK'
  BY DEF SetShared, Goto, AccInv, TypeOK, timerVars, lifeVars, pollVars, histVars
<1>4. CallersInv'
  BY <1>1, <1>2 DEF SetShared, AccInv, CallersInv, Inside
<1>5. RefInv'
  BY <1>1, <1>2, AcceleratorAssumption
     DEF SetShared, AccInv, TypeOK, RefInv, RefBalance, OneAt, histVars
<1>6. PointersInv'
  BY <1>1, <1>2 DEF SetShared, AccInv, TypeOK, PointersInv, At, OneAt, histVars
<1>7. TimerInv'
  BY <1>1, <1>2
     DEF SetShared, AccInv, TypeOK, TimerInv, At, OneAt, timerVars, pollVars, lifeVars,
         histVars
<1> QED
  BY <1>3, <1>4, <1>5, <1>6, <1>7, Kept DEF SetShared, AccInv, pollVars

LEMMA SetHdrStep == ASSUME AccInv, NEW u \in Clients, SetHdr(u) PROVE AccInv'
<1>1. cpc[u] = "hdr" /\ phase[u] = "open"  BY Caller DEF SetHdr, Inside
<1>2. cpc'[u] = "base" /\ \A v \in Clients \ {u} : cpc'[v] = cpc[v]
  BY GoesOn DEF SetHdr
<1>3. TypeOK'
  BY DEF SetHdr, Goto, AccInv, TypeOK, timerVars, lifeVars, pollVars, histVars
<1>4. CallersInv'
  BY <1>1, <1>2 DEF SetHdr, AccInv, CallersInv, Inside
<1>5. RefInv'
  BY <1>1, <1>2 DEF SetHdr, AccInv, TypeOK, RefInv, RefBalance, OneAt, histVars
<1>6. PointersInv'
  BY <1>1, <1>2 DEF SetHdr, AccInv, TypeOK, PointersInv, At, OneAt, histVars
<1>7. TimerInv'
  BY <1>1, <1>2
     DEF SetHdr, AccInv, TypeOK, TimerInv, At, OneAt, timerVars, pollVars, lifeVars,
         histVars
<1> QED
  BY <1>3, <1>4, <1>5, <1>6, <1>7, Kept DEF SetHdr, AccInv, pollVars

LEMMA SetBaseStep == ASSUME AccInv, NEW u \in Clients, SetBase(u) PROVE AccInv'
<1>1. cpc[u] = "base" /\ phase[u] = "open"  BY Caller DEF SetBase, Inside
<1>2. cpc'[u] = "faster" /\ \A v \in Clients \ {u} : cpc'[v] = cpc[v]
  BY GoesOn DEF SetBase
<1>3. TypeOK'
  BY DEF SetBase, Goto, AccInv, TypeOK, timerVars, lifeVars, pollVars, histVars
<1>4. CallersInv'
  BY <1>1, <1>2 DEF SetBase, AccInv, CallersInv, Inside
<1>5. RefInv'
  BY <1>1, <1>2 DEF SetBase, AccInv, TypeOK, RefInv, RefBalance, OneAt, histVars
<1>6. PointersInv'
  BY <1>1, <1>2 DEF SetBase, AccInv, TypeOK, PointersInv, At, OneAt, histVars
<1>7. TimerInv'
  BY <1>1, <1>2
     DEF SetBase, AccInv, TypeOK, TimerInv, At, OneAt, timerVars, pollVars, lifeVars,
         histVars
<1> QED
  BY <1>3, <1>4, <1>5, <1>6, <1>7, Kept DEF SetBase, AccInv, pollVars
-----------------------------------------------------------------------------
(* startWorkerLoop and createAndArmTimer.                                  *)

\* A step from l1 to l2 of the timer's part: only the timer can suffer.
LEMMA TimerPart ==
    ASSUME AccInv, NEW u \in Clients, NEW l1 \in {"faster", "loop", "create", "add", "arm"},
           NEW l2 \in {"loop", "create", "add", "arm", "idle"},
           cpc[u] = l1, Goto(u, l2), TypeOK', TimerInv',
           UNCHANGED <<phase, ref, mapped, fSharedMem, fHdr, fRingBase, lifeVars, pollVars>>,
           "release" \in raced' <=> "release" \in raced,
           "pointers" \in raced' <=> "pointers" \in raced
    PROVE  AccInv'
<1>1. cpc'[u] = l2 /\ \A v \in Clients \ {u} : cpc'[v] = cpc[v]
  BY GoesOn
<1>2. CallersInv'  BY <1>1 DEF AccInv, CallersInv, Inside
<1>3. RefInv'  BY <1>1 DEF AccInv, RefInv, RefBalance, OneAt
<1>4. PointersInv'
  <2>1. raced' \subseteq {"timer"} => raced \subseteq {"timer"}
    BY DEF AccInv, TypeOK, Races
  <2> QED  BY <1>1, <2>1 DEF AccInv, PointersInv, At, OneAt
<1> QED  BY <1>2, <1>3, <1>4, Kept DEF AccInv, pollVars

LEMMA PollFasterStep == ASSUME AccInv, NEW u \in Clients, PollFaster(u) PROVE AccInv'
<1>1. cpc[u] = "faster" /\ Goto(u, "loop")  BY DEF PollFaster
<1>2. cpc'[u] = "loop" /\ \A v \in Clients \ {u} : cpc'[v] = cpc[v]
  BY <1>1, GoesOn
<1>3. TypeOK'
  BY DEF PollFaster, Goto, ArmTimer, AccInv, TypeOK, lifeVars, pollVars, histVars
<1>4. TimerInv'
  BY <1>1, <1>2
     DEF PollFaster, ArmTimer, AccInv, TypeOK, TimerInv, At, OneAt, pollVars, lifeVars,
         histVars
<1> QED  BY <1>1, <1>3, <1>4, TimerPart DEF PollFaster, histVars

LEMMA StartLoopStep == ASSUME AccInv, NEW u \in Clients, StartLoop(u) PROVE AccInv'
<1>1. cpc[u] = "loop"  BY DEF StartLoop
<1>2. /\ raced \subseteq raced' /\ raced' \subseteq Races
      /\ "release" \in raced' <=> "release" \in raced
      /\ "pointers" \in raced' <=> "pointers" \in raced
  BY DEF StartLoop, AccInv, TypeOK, Races
<1>3. TypeOK'
  BY <1>2 DEF StartLoop, Goto, ArmTimer, AccInv, TypeOK, lifeVars, pollVars
<1>4. CASE fTimer # 0
  <2>1. Goto(u, "idle") /\ armed' = armed \cup ({fTimer} \cap onLoop) /\ raced' = raced
    BY <1>4 DEF StartLoop, ArmTimer
  <2>2. cpc'[u] = "idle" /\ \A v \in Clients \ {u} : cpc'[v] = cpc[v]
    BY <2>1, GoesOn
  <2>3. TimerInv'
    BY <1>1, <1>4, <2>1, <2>2
       DEF StartLoop, AccInv, TypeOK, TimerInv, At, OneAt, pollVars, lifeVars
  <2> QED  BY <1>1, <1>2, <1>3, <2>1, <2>3, TimerPart DEF StartLoop
<1>5. CASE fTimer = 0
  <2>1. Goto(u, "create") /\ armed' = armed  BY <1>5 DEF StartLoop
  <2>2. cpc'[u] = "create" /\ \A v \in Clients \ {u} : cpc'[v] = cpc[v]
    BY <2>1, GoesOn
  <2>3. ASSUME "timer" \notin raced'
        PROVE  \A v \in Clients \ {u} : cpc[v] \notin {"create", "add", "arm"}
    <3>1. \A v \in Clients \ {u} : cpc[v] # "create"
      BY <1>5, <2>3 DEF StartLoop, OtherAt
    <3>2. "timer" \notin raced /\ 0 \notin onLoop  BY <1>2, <2>3 DEF AccInv, TypeOK
    <3> QED  BY <1>5, <3>1, <3>2 DEF AccInv, TimerInv, At
  <2>4. UNCHANGED <<fTimer, onLoop, made, ppc, sender, stopped>>
    BY DEF StartLoop, pollVars, lifeVars
  <2>5. TimerInv'
    <3> SUFFICES ASSUME "timer" \notin raced' PROVE TimerInv'  BY DEF TimerInv
    <3>1. "timer" \notin raced  BY <1>2
    <3> QED
      BY <1>1, <1>5, <2>1, <2>2, <2>3, <2>4, <3>1 DEF AccInv, TypeOK, TimerInv, At, OneAt
  <2> QED  BY <1>1, <1>2, <1>3, <2>1, <2>5, TimerPart DEF StartLoop
<1> QED  BY <1>4, <1>5

LEMMA CreateTimerStep == ASSUME AccInv, NEW u \in Clients, CreateTimer(u) PROVE AccInv'
<1>1. cpc[u] = "create" /\ Goto(u, "add")  BY DEF CreateTimer
<1>2. cpc'[u] = "add" /\ \A v \in Clients \ {u} : cpc'[v] = cpc[v]
  BY <1>1, GoesOn
<1>3. PICK t \in 1..MaxTimers : fTimer' = t /\ made' = [made EXCEPT ![u] = t]
  BY DEF CreateTimer
<1>4. fTimer' \in 1..MaxTimers /\ made'[u] = fTimer' /\ made' \in [Clients -> 0..MaxTimers]
  BY <1>3, AcceleratorAssumption DEF AccInv, TypeOK
<1>5. TypeOK'
  BY <1>1, <1>4, AcceleratorAssumption
     DEF CreateTimer, Goto, AccInv, TypeOK, lifeVars, pollVars, histVars
<1>6. TimerInv'
  <2> SUFFICES ASSUME "timer" \notin raced' PROVE TimerInv'  BY DEF TimerInv
  <2>1. /\ "timer" \notin raced /\ fTimer = 0 /\ fTimer' # 0 /\ ~stopped'
        /\ \A v \in Clients \ {u} : cpc[v] \notin {"create", "add", "arm"}
    BY <1>1, <1>4, Caller
       DEF CreateTimer, AccInv, TimerInv, At, OneAt, histVars, lifeVars, Inside
  <2>2. onLoop = {} /\ ppc = "idle"
    BY <2>1, AcceleratorAssumption DEF AccInv, TypeOK, TimerInv
  <2> QED
    BY <1>2, <1>4, <2>1, <2>2 DEF CreateTimer, TimerInv, At, OneAt, pollVars
<1> QED  BY <1>1, <1>5, <1>6, TimerPart DEF CreateTimer, histVars

LEMMA CreateFailsStep == ASSUME AccInv, NEW u \in Clients, CreateFails(u) PROVE AccInv'
<1>1. cpc[u] = "create" /\ Goto(u, "idle")  BY DEF CreateFails
<1>2. cpc'[u] = "idle" /\ \A v \in Clients \ {u} : cpc'[v] = cpc[v]
  BY <1>1, GoesOn
<1>3. TypeOK'
  BY AcceleratorAssumption
     DEF CreateFails, Goto, AccInv, TypeOK, lifeVars, pollVars, histVars
<1>4. TimerInv'
  BY <1>1, <1>2
     DEF CreateFails, AccInv, TypeOK, TimerInv, At, OneAt, pollVars, lifeVars, histVars
<1> QED  BY <1>1, <1>3, <1>4, TimerPart DEF CreateFails, histVars

LEMMA AddTimerStep == ASSUME AccInv, NEW u \in Clients, AddTimer(u) PROVE AccInv'
<1>1. cpc[u] = "add" /\ Goto(u, "arm")  BY DEF AddTimer
<1>2. cpc'[u] = "arm" /\ \A v \in Clients \ {u} : cpc'[v] = cpc[v]
  BY <1>1, GoesOn
<1>3. PICK t \in {made[u], fTimer} \ {0} : onLoop' = onLoop \cup {t}
  BY DEF AddTimer
<1>4. TypeOK'
  <2>1. t \in 1..MaxTimers
    BY <1>3, AcceleratorAssumption DEF AccInv, TypeOK
  <2>2. made' \in [Clients -> 0..MaxTimers]
    BY AcceleratorAssumption DEF AddTimer, AccInv, TypeOK
  <2> QED
    BY <1>3, <2>1, <2>2 DEF AddTimer, Goto, AccInv, TypeOK, lifeVars, pollVars, histVars
<1>5. TimerInv'
  <2> SUFFICES ASSUME "timer" \notin raced' PROVE TimerInv'  BY DEF TimerInv
  <2>1. /\ "timer" \notin raced /\ onLoop' = {fTimer} /\ fTimer # 0 /\ onLoop = {}
        /\ \A v \in Clients \ {u} : cpc[v] \notin {"create", "add", "arm"}
    BY <1>1, <1>3 DEF AddTimer, AccInv, TimerInv, OneAt, histVars
  <2>2. ppc = "idle" /\ ~stopped
    BY <2>1 DEF AccInv, TimerInv
  <2> QED
    BY <1>2, <2>1, <2>2 DEF AddTimer, TimerInv, At, OneAt, pollVars, lifeVars
<1> QED  BY <1>1, <1>4, <1>5, TimerPart DEF AddTimer, histVars

LEMMA AddFailsStep == ASSUME AccInv, NEW u \in Clients, AddFails(u) PROVE AccInv'
<1>1. cpc[u] = "add" /\ Goto(u, "idle")  BY DEF AddFails
<1>2. cpc'[u] = "idle" /\ \A v \in Clients \ {u} : cpc'[v] = cpc[v]
  BY <1>1, GoesOn
<1>3. TypeOK'
  <2>1. made' \in [Clients -> 0..MaxTimers]
    BY AcceleratorAssumption DEF AddFails, AccInv, TypeOK
  <2> QED
    BY <2>1, AcceleratorAssumption
       DEF AddFails, Goto, AccInv, TypeOK, lifeVars, pollVars, histVars
<1>4. TimerInv'
  <2> SUFFICES ASSUME "timer" \notin raced' PROVE TimerInv'  BY DEF TimerInv
  <2>1. /\ "timer" \notin raced /\ onLoop = {}
        /\ \A v \in Clients \ {u} : cpc[v] \notin {"create", "add", "arm"}
    BY <1>1 DEF AddFails, AccInv, TimerInv, OneAt, histVars
  <2>2. ppc = "idle"  BY <2>1 DEF AccInv, TimerInv
  <2> QED
    BY <1>2, <2>1, <2>2 DEF AddFails, TimerInv, At, OneAt, pollVars, lifeVars
<1> QED  BY <1>1, <1>3, <1>4, TimerPart DEF AddFails, histVars

LEMMA ArmNewStep == ASSUME AccInv, NEW u \in Clients, ArmNew(u) PROVE AccInv'
<1>1. cpc[u] = "arm" /\ Goto(u, "idle")  BY DEF ArmNew
<1>2. cpc'[u] = "idle" /\ \A v \in Clients \ {u} : cpc'[v] = cpc[v]
  BY <1>1, GoesOn
<1>3. TypeOK'
  BY DEF ArmNew, Goto, ArmTimer, AccInv, TypeOK, lifeVars, pollVars, histVars
<1>4. TimerInv'
  BY <1>1, <1>2
     DEF ArmNew, ArmTimer, AccInv, TypeOK, TimerInv, At, OneAt, pollVars, lifeVars,
         histVars
<1> QED  BY <1>1, <1>3, <1>4, TimerPart DEF ArmNew, histVars
-----------------------------------------------------------------------------
(* Commands and pollRing.                                                  *)

LEMMA ProduceStep ==
    ASSUME AccInv, NEW u \in Clients, Submit(u) \/ InjectTest(u) PROVE AccInv'
<1>1. /\ UNCHANGED <<clientVars, timerVars, lifeVars, pollVars, tail, histVars>>
      /\ \E q \in Clients : head[q] < MaxCmds /\ head' = [head EXCEPT ![q] = @ + 1]
  BY DEF Submit, InjectTest, AccInv, TypeOK
<1>2. head' \in [Clients -> 0..MaxCmds]
  BY <1>1, AcceleratorAssumption DEF AccInv, TypeOK
<1>3. TypeOK'
  BY <1>1, <1>2 DEF AccInv, TypeOK, clientVars, timerVars, lifeVars, pollVars, histVars
<1> QED
  BY <1>1, <1>3, Kept DEF AccInv, clientVars, pollVars, histVars, lifeVars

LEMMA PollBeginStep ==
    ASSUME AccInv, NEW t \in 1..MaxTimers, PollBegin(t) PROVE AccInv'
<1>1. TypeOK'  BY DEF PollBegin, AccInv, TypeOK, clientVars, lifeVars, histVars
<1>2. TimerInv'
  <2> SUFFICES ASSUME "timer" \notin raced' PROVE TimerInv'  BY DEF TimerInv
  <2>1. "timer" \notin raced /\ t = fTimer
    BY DEF PollBegin, AccInv, TypeOK, TimerInv, histVars
  <2> QED
    BY <2>1 DEF PollBegin, AccInv, TypeOK, TimerInv, At, OneAt, clientVars, lifeVars
<1>3. PollInv'  BY DEF PollBegin, AccInv, PollInv
<1> QED  BY <1>1, <1>2, <1>3, Kept DEF PollBegin, AccInv, clientVars, histVars

LEMMA PollReadStep == ASSUME AccInv, PollRead PROVE AccInv'
<1>1. TypeOK'
  BY DEF PollRead, AccInv, TypeOK, clientVars, timerVars, lifeVars, histVars
<1>2. TimerInv'
  BY DEF PollRead, AccInv, TimerInv, At, OneAt, clientVars, timerVars, lifeVars, histVars
<1>3. PollInv'  BY DEF PollRead, AccInv, PollInv
<1> QED  BY <1>1, <1>2, <1>3, Kept DEF PollRead, AccInv, clientVars, histVars

LEMMA PollExecuteStep == ASSUME AccInv, PollExecute PROVE AccInv'
<1>1. fHdr \in Clients /\ from \in Clients /\ processed < MaxPerTick
  BY DEF PollExecute, AccInv, TypeOK, PollInv
<1>2. ltail' \in 0..Slots-1 /\ (executed[from] + 1) % Slots \in 0..Slots-1
  <2>1. ltail + 1 \in Nat /\ executed[from] + 1 \in Nat  BY <1>1 DEF AccInv, TypeOK
  <2> QED  BY <2>1, ModSlots DEF PollExecute
<1>3. tail' \in [Clients -> 0..Slots-1] /\ executed' \in [Clients -> 0..Slots-1]
  BY <1>1, <1>2 DEF PollExecute, AccInv, TypeOK
<1>4. processed' \in 0..MaxPerTick /\ from' = None /\ ppc' = "loop"
  BY <1>1, AcceleratorAssumption DEF PollExecute, AccInv, TypeOK
<1>5. UNCHANGED <<clientVars, timerVars, lifeVars, head, sender, lhead, calls,
                 raced>>
  BY DEF PollExecute
<1>6. TypeOK'
  BY <1>2, <1>3, <1>4, <1>5 DEF AccInv, TypeOK, clientVars, timerVars, lifeVars
<1>7. TimerInv'
  BY <1>4, <1>5
     DEF PollExecute, AccInv, TimerInv, At, OneAt, clientVars, timerVars, lifeVars
<1>8. PollInv'  BY <1>4 DEF PollInv
<1> QED  BY <1>5, <1>6, <1>7, <1>8, Kept DEF AccInv, clientVars

LEMMA PollEndStep == ASSUME AccInv, PollEnd PROVE AccInv'
<1>1. TypeOK'
  BY AcceleratorAssumption DEF PollEnd, AccInv, TypeOK, clientVars, lifeVars, histVars
<1>2. TimerInv'
  BY DEF PollEnd, AccInv, TimerInv, At, OneAt, clientVars, lifeVars, histVars
<1>3. PollInv'  BY DEF PollEnd, AccInv, PollInv
<1> QED  BY <1>1, <1>2, <1>3, Kept DEF PollEnd, AccInv, clientVars, histVars

LEMMA PollingStep == ASSUME AccInv, PollStep PROVE AccInv'
<1>1. ASSUME NEW t \in 1..MaxTimers, PollNothing(t) PROVE AccInv'
  <2>1. UNCHANGED vars  BY <1>1 DEF PollNothing
  <2>2. TypeOK'
    BY <2>1
       DEF AccInv, TypeOK, vars, clientVars, timerVars, lifeVars, pollVars, histVars
  <2> QED
    BY <2>1, <2>2, Kept DEF AccInv, vars, clientVars, lifeVars, pollVars, histVars
<1> QED
  BY <1>1, PollBeginStep, PollReadStep, PollExecuteStep, PollEndStep DEF PollStep
-----------------------------------------------------------------------------
(* Removal of the device.                                                  *)

LEMMA TerminateStep == ASSUME AccInv, Terminate PROVE AccInv'
<1>1. TypeOK'
  BY DEF Terminate, AccInv, TypeOK, clientVars, timerVars, pollVars, histVars
<1>2. RemovalInv'  BY DEF Terminate, AccInv, RemovalInv, clientVars
<1> QED
  BY <1>1, <1>2, Kept DEF Terminate, AccInv, clientVars, pollVars, histVars

\* Nobody is inside, so the page in fSharedMem has the accelerator's reference;
\* and the only timer is gone, its callback having returned.
LEMMA StopStep == ASSUME AccInv, Stop PROVE AccInv'
<1>1. \A u \in Clients : cpc[u] = "idle"  BY DEF Stop, AccInv, CallersInv, Inside
<1>2. TypeOK'
  BY AcceleratorAssumption DEF Stop, AccInv, TypeOK, pollVars, histVars
<1>3. CallersInv'  BY DEF Stop, AccInv, CallersInv, Inside
<1>4. RefInv'
  BY <1>1, AcceleratorAssumption
     DEF Stop, AccInv, TypeOK, RefInv, RefBalance, OneAt, histVars
<1>5. PointersInv'
  BY <1>1, AcceleratorAssumption
     DEF Stop, AccInv, TypeOK, PointersInv, At, OneAt, histVars
<1>6. RemovalInv'  BY DEF Stop, AccInv, RemovalInv
<1>7. TimerInv'
  <2> SUFFICES ASSUME "timer" \notin raced' PROVE TimerInv'  BY DEF TimerInv
  <2>1. "timer" \notin raced  BY DEF Stop, histVars
  <2>2. ppc = "idle" /\ onLoop \subseteq {fTimer}
    BY <2>1, AcceleratorAssumption DEF Stop, AccInv, TimerInv, TypeOK
  <2>3. onLoop' = {} /\ armed' = {} /\ fTimer' = 0 /\ ppc' = "idle"
    BY <2>2 DEF Stop, AccInv, TypeOK, pollVars
  <2> QED  BY <1>1, <2>3 DEF Stop, TimerInv, At, OneAt
<1> QED
  BY <1>2, <1>3, <1>4, <1>5, <1>6, <1>7, Kept DEF Stop, AccInv, pollVars
-----------------------------------------------------------------------------
LEMMA InitAccInv == Init => AccInv
<1> SUFFICES ASSUME Init PROVE AccInv  OBVIOUS
<1>1. TypeOK
  <2>1. /\ 0 \in 0..MaxCmds /\ 0 \in 0..Slots-1 /\ 0 \in 0..MaxTimers
        /\ 0 \in 0..MaxPerTick /\ 0 \in 0..MaxCalls
    BY AcceleratorAssumption
  <2>2. terminating \in BOOLEAN /\ stopped \in BOOLEAN  BY Zenon DEF Init
  <2> QED  BY <2>1, <2>2 DEF Init, TypeOK
<1>2. CallersInv /\ PointersInv /\ RemovalInv
  BY DEF Init, CallersInv, Inside, PointersInv, At, OneAt, RemovalInv
<1>3. RefInv  BY AcceleratorAssumption DEF Init, RefInv, RefBalance, OneAt
<1>4. TimerInv /\ PollInv  BY DEF Init, TimerInv, At, OneAt, PollInv
<1> QED  BY <1>1, <1>2, <1>3, <1>4 DEF AccInv

LEMMA AccStep == AccInv /\ [Next]_vars => AccInv'
<1> SUFFICES ASSUME AccInv, [Next]_vars PROVE AccInv'  OBVIOUS
<1>1. ASSUME NEW u \in Clients, ClientStep(u) PROVE AccInv'
  BY <1>1, OpenStep, MapStep, UnmapStep, StopClientStep, ReleaseOldStep,
     SetSharedStep, SetHdrStep, SetBaseStep, PollFasterStep, StartLoopStep,
     CreateTimerStep, CreateFailsStep, AddTimerStep, AddFailsStep, ArmNewStep,
     ProduceStep
     DEF ClientStep
<1>2. CASE UNCHANGED vars
  <2>1. TypeOK'
    BY <1>2
       DEF AccInv, TypeOK, vars, clientVars, timerVars, lifeVars, pollVars, histVars
  <2> QED
    BY <1>2, <2>1, Kept DEF AccInv, vars, clientVars, lifeVars, pollVars, histVars
<1> QED  BY <1>1, <1>2, PollingStep, TerminateStep, StopStep DEF Next

LEMMA AccInductive == Spec => []AccInv
BY InitAccInv, AccStep, PTL DEF Spec
-----------------------------------------------------------------------------
\* The accelerator's variables keep their types whatever clients do at once
\* (clientMemoryForType, attachShared, createAndArmTimer, pollRing, stop).
THEOREM AcceleratorTypeCorrect == Spec => []TypeOK
BY AccInductive, PTL DEF AccInv

\* With any number of clients attaching at any time each page has the
\* references of its holders and no other, until one enters attachShared
\* between another's release of the old page and its store of the new
\* (clientMemoryForType, attachShared, stop).
THEOREM ReferencesBalance == Spec => []RefBalance
BY AccInductive, PTL DEF AccInv, RefInv

\* The page pollRing works on is allocated: until the device is removed,
\* however the three pointers were mixed up, unless a page was released twice;
\* and in the removal, when no two were between the pointers and the last page
\* attached was a good one.
THEOREM HeaderStaysAlive == Spec => []HdrAlive
<1>1. AccInv => HdrAlive
  <2> SUFFICES ASSUME AccInv, NEW q \in Clients, q \in {fHdr, fRingBase},
                      \/ "release" \notin raced /\ ~terminating
                      \/ raced \subseteq {"timer"} /\ Quiet /\ fSharedMem \notin Clobbered
               PROVE  ref[q] > 0
    BY DEF HdrAlive, AccInv, TypeOK
  <2>1. CASE "release" \notin raced /\ ~terminating
    <3>1. phase[q] = "open"
      BY <2>1, AcceleratorAssumption DEF AccInv, TypeOK, CallersInv, RemovalInv
    <3> QED  BY <2>1, <3>1 DEF AccInv, TypeOK, RefInv, RefBalance
  <2>2. CASE raced \subseteq {"timer"} /\ Quiet /\ fSharedMem \notin Clobbered
    <3>1. q = fSharedMem /\ \A v \in Clients : cpc[v] # "set"
      BY <2>2 DEF AccInv, PointersInv, At, Quiet
    <3>2. mapped[q] >= 0 /\ "release" \notin raced  BY <2>2 DEF AccInv, TypeOK
    <3> QED  BY <3>1, <3>2 DEF AccInv, TypeOK, RefInv, RefBalance
  <2> QED  BY <2>1, <2>2
<1> QED  BY <1>1, AccInductive, PTL

\* Whenever nobody is inside the driver its timer is waiting to fire or
\* pollRing runs from it, whichever callers met while it was made, unless two
\* of them made one (createAndArmTimer, startWorkerLoop, pollRing).
THEOREM TimerKeepsRunning == Spec => []TimerRunning
<1>1. AccInv => TimerRunning
  BY DEF AccInv, TimerInv, At, Quiet, TimerRunning
<1> QED  BY <1>1, AccInductive, PTL

\* However many clients call startWorkerLoop together, and however many timers
\* could not be created or added, a second timer comes on the work loop only
\* after two callers have looked for one before either had made it.
THEOREM OneTimerPolls == Spec => []OneTimer
<1>1. AccInv => OneTimer
  <2> SUFFICES ASSUME AccInv, "timer" \notin raced PROVE Cardinality(onLoop) <= 1
    BY DEF OneTimer
  <2>1. onLoop = {} \/ onLoop = {fTimer}  BY DEF AccInv, TimerInv
  <2>2. Cardinality({}) = 0 /\ Cardinality({fTimer}) = 1
    BY FS_EmptySet, FS_Singleton
  <2> QED  BY <2>1, <2>2
<1> QED  BY <1>1, AccInductive, PTL

\* Every step of XEAccelerator is one of XEService until two callers have made
\* a timer each: so far FBDriver may take the one for the other, whatever the
\* number of clients and however their calls and pollRing meet.
THEOREM AcceleratorIsService == Spec => ImplementsService
<1> DEFINE Serves == "timer" \notin raced' => Service!Next
<1>1. Init => Service!Init
  BY DEF Init, Service!Init
<1>2. AccInv /\ AccInv' /\ [Next]_vars =>
        [Serves]_<<~stopped, armed # {} \/ ppc # "idle", ppc # "idle">>
  <2> SUFFICES ASSUME AccInv, AccInv', [Next]_vars, "timer" \notin raced'
               PROVE  [Service!Next]_<<~stopped, armed # {} \/ ppc # "idle",
                                       ppc # "idle">>
    OBVIOUS
  <2> USE DEF Service!Next, Service!StartPolling, Service!BeginTick, Service!EndTick,
          Service!Stop
  <2>1. ASSUME NEW u \in Clients, ClientStep(u)
        PROVE  /\ UNCHANGED <<stopped, ppc>>
               /\ armed' = armed \/ (armed \subseteq armed' /\ ~stopped)
    <3>1. UNCHANGED <<stopped, ppc>> /\ armed \subseteq armed'
      BY <2>1
         DEF ClientStep, Open, Map, Unmap, StopClient, ReleaseOld, SetShared, SetHdr,
             SetBase, PollFaster, StartLoop, CreateTimer, CreateFails, AddTimer,
             AddFails, ArmNew, ArmTimer, Submit, InjectTest, lifeVars, pollVars,
             timerVars
    <3>2. CASE Inside(u)  BY <3>1, <3>2, Caller
    <3>3. CASE ~Inside(u)
      <4>1. \/ Open(u) \/ Map(u) \/ Unmap(u) \/ StopClient(u) \/ Submit(u)
            \/ InjectTest(u)
        BY <2>1, <3>3
           DEF ClientStep, ReleaseOld, SetShared, SetHdr, SetBase, PollFaster,
               StartLoop, CreateTimer, CreateFails, AddTimer, AddFails, ArmNew, Inside
      <4>2. UNCHANGED armed
        BY <4>1 DEF Open, Map, Unmap, StopClient, Submit, InjectTest, timerVars
      <4> QED  BY <3>1, <4>2
    <3> QED  BY <3>2, <3>3, <3>1
  <2>2. CASE \E u \in Clients : ClientStep(u)
    BY <2>1, <2>2
  <2>3. CASE \E t \in 1..MaxTimers : PollNothing(t) \/ PollBegin(t)
    BY <2>3
       DEF PollNothing, PollBegin, vars, timerVars, lifeVars, pollVars
  <2>4. CASE PollRead \/ PollExecute
    BY <2>4 DEF PollRead, PollExecute, timerVars, lifeVars
  <2>5. CASE PollEnd
    <3>1. armed' # {} /\ ppc' = "idle" /\ ppc # "idle" /\ UNCHANGED stopped
      BY <2>5 DEF PollEnd, AccInv, TimerInv, lifeVars, histVars
    <3> QED  BY <3>1
  <2>6. CASE Terminate  BY <2>6 DEF Terminate, timerVars, pollVars
  <2>7. CASE Stop
    <3>1. armed' = {} /\ ppc = "idle" /\ ppc' = "idle" /\ ~stopped /\ stopped'
      BY <2>7, AcceleratorAssumption
         DEF Stop, AccInv, TypeOK, TimerInv, pollVars, histVars
    <3> QED  BY <3>1
  <2>8. CASE UNCHANGED vars  BY <2>8 DEF vars, timerVars, lifeVars, pollVars
  <2> QED
    BY <2>2, <2>3, <2>4, <2>5, <2>6, <2>7, <2>8 DEF Next, PollStep
<1> QED  BY <1>1, <1>2, AccInductive, PTL DEF Spec, ImplementsService
=============================================================================
