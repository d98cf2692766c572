---------------------------- MODULE FBPower_proofs ----------------------------
(***************************************************************************)
(* Proofs about FBPower: type correctness, NeverAhead, FullBudget and      *)
(* HeldUpAtMost, for any limits of the three polling loops.                *)
(***************************************************************************)
EXTENDS FBPower, TLAPS

\* The lines of the sequence that come after each wait.
AfterAck == {"mbus", "pll", "clk", "ready"}
AfterPw2 == {"fwreq", "ack"} \cup AfterAck
AfterPw1 == {"pw2req", "pw2"} \cup AfterPw2

\* Power gating is off from the third line on.
GatingOff ==
    /\ pc \in {"punit", "pw1lo", "pw1hi", "pw1"} \cup AfterPw1 => "GT_PG" \notin gating
    /\ pc \in {"pw1lo", "pw1hi", "pw1"} \cup AfterPw1 => gating = {}

\* Which requests have been made, and answered, at each line.
RequestsByLine ==
    /\ pc \in AfterPw1 => pw1Up
    /\ pc \in AfterPw2 => pw2Req /\ pw2Up
    /\ pc \in AfterAck => fwReq /\ fwAck
    /\ pc = "pw2" => pw2Req
    /\ pc = "ack" => fwReq
    /\ pc \in {"d0", "gt", "punit", "pw1lo", "pw1hi", "pw1", "pw2req"} => ~pw2Req
    /\ pc \in {"d0", "gt", "punit", "pw1lo", "pw1hi", "pw1", "pw2req", "pw2", "fwreq"}
          => ~fwReq
    /\ pw2Req => pw1Up /\ gating = {}
    /\ fwReq => pw2Req /\ pw2Up

\* Display registers are written in order, after the acknowledge.
DisplayByLine ==
    /\ display # {} => fwReq /\ fwAck
    /\ pc \in {"pll", "clk", "ready"} => "MBUS_DBOX" \in display
    /\ pc \in {"clk", "ready"} => "LCPLL1" \in display
    /\ pc = "ready" => "TRANS_CLK_SEL" \in display

\* Each read of a loop that found nothing has slept ten milliseconds.
SleptByTries ==
    /\ pc \in {"d0", "gt", "punit", "pw1lo", "pw1hi"} => tries = 0
    /\ pc = "pw1lo" => pw1Req = 0
    /\ pc \in {"d0", "gt", "punit"} => pw1Req = 0
    /\ pc = "pw1hi" => pw1Req = 1
    /\ pc = "pw1" => tries \in 0..Pw1Tries /\ slept - asked = 10 * tries
    /\ pc = "pw2" => tries \in 0..Pw2Tries /\ slept - asked = 10 * tries
    /\ pc = "ack" => tries \in 0..AckTries /\ slept - asked = 10 * tries

PowerInv ==
    TypeOK /\ GatingOff /\ RequestsByLine /\ DisplayByLine /\ SleptByTries /\ FullBudget

-----------------------------------------------------------------------------
LEMMA InitPower == Init => PowerInv
<1> SUFFICES ASSUME Init PROVE PowerInv  OBVIOUS
<1> USE DEF Init, AfterPw1, AfterPw2, AfterAck
<1>1. TypeOK
  <2>1. tries \in 0..Pw1Tries  BY PowerAssumption
  <2>2. slept \in Nat /\ asked \in 0..slept  OBVIOUS
  <2>3. gating \subseteq Gating /\ display \subseteq DisplayRegs  OBVIOUS
  <2>4. tries \in 0..Pw1Tries \cup 0..Pw2Tries \cup 0..AckTries  BY <2>1
  <2>5. pc = "d0" /\ pw1Req \in 0..2  OBVIOUS
  <2>6. pw2Req \in BOOLEAN /\ fwReq \in BOOLEAN /\ fwAck \in BOOLEAN  BY Zenon
  <2>7. pw1Up \in BOOLEAN /\ pw2Up \in BOOLEAN  BY Zenon
  <2> HIDE DEF Init
  <2> QED  BY <2>2, <2>3, <2>4, <2>5, <2>6, <2>7 DEF TypeOK
<1>2. GatingOff /\ RequestsByLine /\ DisplayByLine
  BY DEF GatingOff, RequestsByLine, DisplayByLine
<1>3. SleptByTries /\ FullBudget  BY DEF SleptByTries, FullBudget
<1> QED  BY <1>1, <1>2, <1>3 DEF PowerInv

\* The three lines before the first request.
LEMMA GatingStep == PowerInv /\ (ForceD0 \/ DisableGating) => PowerInv'
<1> SUFFICES ASSUME PowerInv, ForceD0 \/ DisableGating PROVE PowerInv'  OBVIOUS
<1> USE PowerAssumption DEF PowerInv, Goto, requests, gpuVars, AfterPw1, AfterPw2,
                            AfterAck, Final
<1>1. CASE ForceD0
  <2>1. TypeOK'  BY <1>1 DEF ForceD0, TypeOK
  <2>2. (GatingOff /\ RequestsByLine)'
    BY <1>1 DEF ForceD0, GatingOff, RequestsByLine
  <2>3. (DisplayByLine /\ SleptByTries /\ FullBudget)'
    BY <1>1 DEF ForceD0, DisplayByLine, SleptByTries, FullBudget
  <2> QED  BY <2>1, <2>2, <2>3
<1>2. CASE DisableGating
  <2>1. TypeOK'  BY <1>2 DEF DisableGating, TypeOK
  <2>2. (GatingOff /\ RequestsByLine)'
    BY <1>2 DEF DisableGating, GatingOff, RequestsByLine, TypeOK, Gating
  <2>3. (DisplayByLine /\ SleptByTries /\ FullBudget)'
    BY <1>2 DEF DisableGating, DisplayByLine, SleptByTries, FullBudget
  <2> QED  BY <2>1, <2>2, <2>3
<1> QED  BY <1>1, <1>2

\* The three requests.
LEMMA RequestStep ==
    PowerInv /\ (RequestPw1 \/ RequestPw2 \/ RequestForceWake) => PowerInv'
<1> SUFFICES ASSUME PowerInv, RequestPw1 \/ RequestPw2 \/ RequestForceWake
             PROVE  PowerInv'
  OBVIOUS
<1> USE PowerAssumption DEF PowerInv, Goto, requests, gpuVars, AfterPw1, AfterPw2,
                            AfterAck, Final
<1>1. CASE RequestPw1
  <2>1. TypeOK'  BY <1>1 DEF RequestPw1, TypeOK, SleptByTries
  <2>2. (GatingOff /\ RequestsByLine)'
    BY <1>1 DEF RequestPw1, GatingOff, RequestsByLine
  <2>3. (DisplayByLine /\ FullBudget)'
    BY <1>1 DEF RequestPw1, DisplayByLine, FullBudget
  <2>4. SleptByTries'  BY <1>1 DEF RequestPw1, SleptByTries, TypeOK
  <2> QED  BY <2>1, <2>2, <2>3, <2>4
<1>2. CASE RequestPw2
  <2>1. TypeOK'  BY <1>2 DEF RequestPw2, TypeOK
  <2>2. (GatingOff /\ RequestsByLine)'
    BY <1>2 DEF RequestPw2, GatingOff, RequestsByLine
  <2>3. (DisplayByLine /\ FullBudget)'
    BY <1>2 DEF RequestPw2, DisplayByLine, FullBudget
  <2>4. SleptByTries'  BY <1>2 DEF RequestPw2, SleptByTries, TypeOK
  <2> QED  BY <2>1, <2>2, <2>3, <2>4
<1>3. CASE RequestForceWake
  <2>1. TypeOK'  BY <1>3 DEF RequestForceWake, TypeOK
  <2>2. (GatingOff /\ RequestsByLine)'
    BY <1>3 DEF RequestForceWake, GatingOff, RequestsByLine
  <2>3. (DisplayByLine /\ FullBudget)'
    BY <1>3 DEF RequestForceWake, DisplayByLine, FullBudget
  <2>4. SleptByTries'  BY <1>3 DEF RequestForceWake, SleptByTries, TypeOK
  <2> QED  BY <2>1, <2>2, <2>3, <2>4
<1> QED  BY <1>1, <1>2, <1>3

\* One turn of each polling loop.
LEMMA PollStep == PowerInv /\ (PollPw1 \/ PollPw2 \/ PollAck) => PowerInv'
<1> SUFFICES ASSUME PowerInv, PollPw1 \/ PollPw2 \/ PollAck PROVE PowerInv'  OBVIOUS
<1> USE PowerAssumption DEF PowerInv, Poll, requests, gpuVars, AfterPw1, AfterPw2,
                            AfterAck, Final
<1>1. CASE PollPw1
  <2>1. TypeOK'  BY <1>1 DEF PollPw1, TypeOK, SleptByTries
  <2>2. (GatingOff /\ RequestsByLine)'
    BY <1>1 DEF PollPw1, GatingOff, RequestsByLine
  <2>3. DisplayByLine'  BY <1>1 DEF PollPw1, DisplayByLine
  <2>4. SleptByTries'  BY <1>1 DEF PollPw1, SleptByTries, TypeOK
  <2>5. FullBudget'
    BY <1>1 DEF PollPw1, FullBudget, SleptByTries, RequestsByLine, TypeOK
  <2> QED  BY <2>1, <2>2, <2>3, <2>4, <2>5
<1>2. CASE PollPw2
  <2>1. TypeOK'  BY <1>2 DEF PollPw2, TypeOK, SleptByTries
  <2>2. (GatingOff /\ RequestsByLine)'
    BY <1>2 DEF PollPw2, GatingOff, RequestsByLine
  <2>3. DisplayByLine'  BY <1>2 DEF PollPw2, DisplayByLine
  <2>4. SleptByTries'  BY <1>2 DEF PollPw2, SleptByTries, TypeOK
  <2>5. FullBudget'
    BY <1>2 DEF PollPw2, FullBudget, SleptByTries, RequestsByLine, TypeOK
  <2> QED  BY <2>1, <2>2, <2>3, <2>4, <2>5
<1>3. CASE PollAck
  <2>1. TypeOK'  BY <1>3 DEF PollAck, TypeOK, SleptByTries
  <2>2. (GatingOff /\ RequestsByLine)'
    BY <1>3 DEF PollAck, GatingOff, RequestsByLine
  <2>3. DisplayByLine'  BY <1>3 DEF PollAck, DisplayByLine, RequestsByLine
  <2>4. SleptByTries'  BY <1>3 DEF PollAck, SleptByTries, TypeOK
  <2>5. FullBudget'
    BY <1>3 DEF PollAck, FullBudget, SleptByTries, RequestsByLine, TypeOK
  <2> QED  BY <2>1, <2>2, <2>3, <2>4, <2>5
<1> QED  BY <1>1, <1>2, <1>3

\* The display registers, and the answers of the GPU.
LEMMA LastStep == PowerInv /\ (EnableDisplay \/ GpuAnswers) => PowerInv'
<1> SUFFICES ASSUME PowerInv, EnableDisplay \/ GpuAnswers PROVE PowerInv'  OBVIOUS
<1> USE DEF PowerInv, requests, AfterPw1, AfterPw2, AfterAck, Final
<1>1. CASE EnableDisplay
  <2> USE DEF Goto, gpuVars
  <2>1. TypeOK'
    <3>1. /\ pc' \in {"pll", "clk", "ready"}
          /\ slept' = slept + 10
          /\ UNCHANGED <<gating, pw1Req, pw2Req, fwReq, pw1Up, pw2Up, fwAck, tries,
                         asked>>
      BY <1>1 DEF EnableDisplay
    <3>2. display' \subseteq DisplayRegs
      BY <1>1 DEF EnableDisplay, TypeOK, DisplayRegs
    <3> QED  BY <3>1, <3>2 DEF TypeOK
  <2>2. (GatingOff /\ RequestsByLine)'
    BY <1>1 DEF EnableDisplay, GatingOff, RequestsByLine
  <2>3. DisplayByLine'  BY <1>1 DEF EnableDisplay, DisplayByLine, RequestsByLine
  <2>4. (SleptByTries /\ FullBudget)'
    BY <1>1 DEF EnableDisplay, SleptByTries, FullBudget
  <2> QED  BY <2>1, <2>2, <2>3, <2>4
<1>2. CASE GpuAnswers
  <2>1. TypeOK'
    <3>1. UNCHANGED <<pc, gating, requests, display, tries, slept, asked>>
      BY <1>2 DEF GpuAnswers
    <3>2. pw1Up' \in BOOLEAN /\ pw2Up' \in BOOLEAN /\ fwAck' \in BOOLEAN
      BY <1>2, Zenon DEF GpuAnswers, TypeOK
    <3> QED  BY <3>1, <3>2 DEF TypeOK, requests
  <2>2. (GatingOff /\ RequestsByLine)'
    BY <1>2 DEF GpuAnswers, GatingOff, RequestsByLine
  <2>3. (DisplayByLine /\ SleptByTries /\ FullBudget)'
    BY <1>2 DEF GpuAnswers, DisplayByLine, SleptByTries, FullBudget
  <2> QED  BY <2>1, <2>2, <2>3
<1> QED  BY <1>1, <1>2

LEMMA PowerInductive == Spec => []PowerInv
<1>1. PowerInv /\ [Next]_vars => PowerInv'
  <2> SUFFICES ASSUME PowerInv, [Next]_vars PROVE PowerInv'  OBVIOUS
  <2>1. CASE Next  BY <2>1, GatingStep, RequestStep, PollStep, LastStep DEF Next, Driver
  <2>2. CASE UNCHANGED vars
    BY <2>2 DEF vars, requests, gpuVars, PowerInv, TypeOK, GatingOff, RequestsByLine,
                DisplayByLine, SleptByTries, FullBudget
  <2> QED  BY <2>1, <2>2
<1> QED  BY <1>1, InitPower, PTL DEF Spec
-----------------------------------------------------------------------------
\* The variables keep their types whatever the limits of the loops.
THEOREM PowerTypeCorrect == Spec => []TypeOK
<1>1. PowerInv => TypeOK  BY DEF PowerInv
<1> QED  BY <1>1, PowerInductive, PTL

\* Nothing is requested or written before what it needs was seen to be up.
THEOREM PowerNeverAhead == Spec => []NeverAhead
<1>1. PowerInv => NeverAhead
  BY DEF PowerInv, NeverAhead, RequestsByLine, DisplayByLine, TypeOK, DisplayRegs
<1> QED  BY <1>1, PowerInductive, PTL

\* The call gives up only after a whole loop of reads ten milliseconds apart.
THEOREM PowerFullBudget == Spec => []FullBudget
<1>1. PowerInv => FullBudget  BY DEF PowerInv
<1> QED  BY <1>1, PowerInductive, PTL
-----------------------------------------------------------------------------
(* How long the call has slept, line by line.                              *)

\* The most a line can have slept.  A loop that is left with an answer has
\* slept for one read less than its limit.
TimeByLine ==
    /\ pc = "d0" => slept = 0
    /\ pc = "gt" => slept = 10
    /\ pc = "punit" => slept = 20
    /\ pc = "pw1lo" => slept = 35
    /\ pc = "pw1hi" => slept = 45
    /\ pc = "pw1" => asked = 55
    /\ pc = "pw2req" => slept <= 45 + 10 * Pw1Tries
    /\ pc = "pw2" => asked <= 45 + 10 * Pw1Tries
    /\ pc = "fwreq" => slept <= 35 + 10 * (Pw1Tries + Pw2Tries)
    /\ pc = "ack" => asked <= 35 + 10 * (Pw1Tries + Pw2Tries)
    /\ pc = "mbus" => slept <= 25 + 10 * (Pw1Tries + Pw2Tries + AckTries)
    /\ pc = "pll" => slept <= 35 + 10 * (Pw1Tries + Pw2Tries + AckTries)
    /\ pc = "clk" => slept <= 45 + 10 * (Pw1Tries + Pw2Tries + AckTries)
    /\ pc \in Final => HeldUpAtMost

LEMMA TimeStep == PowerInv /\ TimeByLine /\ [Next]_vars => TimeByLine'
<1> SUFFICES ASSUME PowerInv, TimeByLine, [Next]_vars PROVE TimeByLine'  OBVIOUS
<1> USE PowerAssumption DEF TimeByLine, HeldUpAtMost, Final, Goto, requests, gpuVars
<1>0. slept \in Nat /\ asked \in Nat  BY DEF PowerInv, TypeOK
<1>1. CASE ForceD0  BY <1>0, <1>1 DEF ForceD0
<1>2. CASE DisableGating  BY <1>0, <1>2 DEF DisableGating
<1>3. CASE RequestPw1  BY <1>0, <1>3 DEF RequestPw1
<1>4. CASE PollPw1
  BY <1>0, <1>4 DEF PollPw1, Poll, PowerInv, SleptByTries
<1>5. CASE RequestPw2  BY <1>0, <1>5 DEF RequestPw2
<1>6. CASE PollPw2
  BY <1>0, <1>6 DEF PollPw2, Poll, PowerInv, SleptByTries
<1>7. CASE RequestForceWake  BY <1>0, <1>7 DEF RequestForceWake
<1>8. CASE PollAck
  BY <1>0, <1>8 DEF PollAck, Poll, PowerInv, SleptByTries
<1>9. CASE EnableDisplay  BY <1>0, <1>9 DEF EnableDisplay
<1>10. CASE GpuAnswers \/ UNCHANGED vars  BY <1>10 DEF GpuAnswers, vars
<1> QED
  BY <1>1, <1>2, <1>3, <1>4, <1>5, <1>6, <1>7, <1>8, <1>9, <1>10 DEF Next, Driver

\* However the GPU answers, start() is held up for 1755 ms at most with the
\* limits of the code.
THEOREM PowerHeldUpAtMost == Spec => []HeldUpAtMost
<1>1. Init => TimeByLine  BY DEF Init, TimeByLine, Final
<1>2. PowerInv /\ TimeByLine => HeldUpAtMost
  <2> SUFFICES ASSUME PowerInv, TimeByLine PROVE HeldUpAtMost  OBVIOUS
  <2>1. slept \in Nat /\ asked \in Nat  BY DEF PowerInv, TypeOK
  <2>2. pc \in {"d0", "gt", "punit", "pw1lo", "pw1hi", "pw1", "pw2req", "pw2",
               "fwreq", "ack", "mbus", "pll", "clk"} \cup Final
    BY DEF PowerInv, TypeOK
  <2>3. CASE pc \in {"pw1", "pw2", "ack"}
    BY <2>1, <2>3, PowerAssumption DEF TimeByLine, HeldUpAtMost, PowerInv, SleptByTries
  <2>4. CASE pc \notin {"pw1", "pw2", "ack"}
    BY <2>1, <2>2, <2>4, PowerAssumption DEF TimeByLine, HeldUpAtMost
  <2> QED  BY <2>3, <2>4
<1> QED  BY <1>1, <1>2, TimeStep, PowerInductive, PTL DEF Spec
=============================================================================
