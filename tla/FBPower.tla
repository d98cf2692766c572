-------------------------------- MODULE FBPower --------------------------------
(***************************************************************************)
(* FakeIrisXEFramebuffer::initPowerManagement: the sequence that wakes the *)
(* GPU, against a GPU that answers when it likes.                          *)
(*                                                                         *)
(* The driver requests power well 1, power well 2 and render forcewake in  *)
(* turn and polls for each a bounded number of times, sleeping 10 ms after *)
(* every read that finds nothing.  The GPU sets a status after the request *)
(* at any moment, between two reads or after the last of them; firmware    *)
(* may have left a well up.  Only start() calls it, with the device open.  *)
(***************************************************************************)
EXTENDS Integers

CONSTANTS Pw1Tries, Pw2Tries, AckTries   \* 20, 50 and 100 in the code

ASSUME PowerAssumption ==
    /\ Pw1Tries \in Nat \ {0} /\ Pw2Tries \in Nat \ {0} /\ AckTries \in Nat \ {0}

Gating == {"GT_PG", "PUNIT_PG"}
DisplayRegs == {"MBUS_DBOX", "LCPLL1", "TRANS_CLK_SEL"}

VARIABLES
    pc,        \* where the sequence is
    gating,    \* power gating still enabled
    pw1Req,    \* request bits of PWR_WELL_CTL_1 the driver has set: 0, 1 or 2
    pw2Req, fwReq,             \* the other two requests
    pw1Up, pw2Up, fwAck,       \* what the GPU reports
    display,   \* display registers written
    tries,     \* reads of the status so far in this loop
    slept,     \* milliseconds slept since the call
    asked      \* history: slept when the status was first read in this loop

requests == <<pw1Req, pw2Req, fwReq>>
gpuVars == <<pw1Up, pw2Up, fwAck>>
vars == <<pc, gating, requests, gpuVars, display, tries, slept, asked>>

Final == {"ready", "failed"}

TypeOK ==
    /\ pc \in {"d0", "gt", "punit", "pw1lo", "pw1hi", "pw1", "pw2req", "pw2",
               "fwreq", "ack", "mbus", "pll", "clk"} \cup Final
    /\ gating \subseteq Gating /\ display \subseteq DisplayRegs
    /\ pw1Req \in 0..2 /\ pw2Req \in BOOLEAN /\ fwReq \in BOOLEAN
    /\ pw1Up \in BOOLEAN /\ pw2Up \in BOOLEAN /\ fwAck \in BOOLEAN
    /\ tries \in 0..Pw1Tries \cup 0..Pw2Tries \cup 0..AckTries
    /\ slept \in Nat /\ asked \in 0..slept

Init ==
    /\ pc = "d0" /\ gating = Gating
    /\ pw1Req = 0 /\ pw2Req = FALSE /\ fwReq = FALSE
    /\ pw1Up \in BOOLEAN /\ pw2Up \in BOOLEAN /\ fwAck = FALSE
    /\ display = {} /\ tries = 0 /\ slept = 0 /\ asked = 0
-----------------------------------------------------------------------------
(* The driver.                                                             *)

\* From one line of the sequence to another, sleeping ms on the way.
Goto(here, next, ms) == pc = here /\ pc' = next /\ slept' = slept + ms

ForceD0 ==
    /\ Goto("d0", "gt", 10)
    /\ UNCHANGED <<gating, requests, gpuVars, display, tries, asked>>

DisableGating ==
    /\ \/ Goto("gt", "punit", 10) /\ gating' = gating \ {"GT_PG"}
       \/ Goto("punit", "pw1lo", 15) /\ gating' = gating \ {"PUNIT_PG"}
    /\ UNCHANGED <<requests, gpuVars, display, tries, asked>>

RequestPw1 ==
    /\ \/ Goto("pw1lo", "pw1hi", 10) /\ UNCHANGED asked
       \/ Goto("pw1hi", "pw1", 10) /\ asked' = slept'
    /\ pw1Req' = pw1Req + 1
    /\ UNCHANGED <<gating, pw2Req, fwReq, gpuVars, display, tries>>

\* Mutation: the read that finds nothing is not counted.
PollUncounted(here, limit, up, next) ==
    /\ pc = here
    /\ \/ tries < limit /\ up /\ pc' = next /\ UNCHANGED <<tries, slept>>
       \/ /\ tries < limit /\ ~up
          /\ slept' = IF slept < 2000 THEN slept + 10 ELSE slept
          /\ UNCHANGED <<pc, tries>>
       \/ tries = limit /\ pc' = "failed" /\ UNCHANGED <<tries, slept>>
    /\ UNCHANGED <<gating, requests, gpuVars, display, asked>>

\* Mutation: running out of tries goes on as if the GPU had answered.
PollFallsThrough(here, limit, up, next) ==
    /\ pc = here
    /\ \/ tries < limit /\ up /\ pc' = next /\ UNCHANGED <<tries, slept>>
       \/ /\ tries < limit /\ ~up
          /\ tries' = tries + 1 /\ slept' = slept + 10 /\ UNCHANGED pc
       \/ tries = limit /\ pc' = next /\ UNCHANGED <<tries, slept>>
    /\ UNCHANGED <<gating, requests, gpuVars, display, asked>>

\* Mutation: the loop reads once more than it should.
PollOnceMore(here, limit, up, next) ==
    /\ pc = here
    /\ \/ tries <= limit /\ up /\ pc' = next /\ UNCHANGED <<tries, slept>>
       \/ /\ tries <= limit /\ ~up
          /\ tries' = tries + 1 /\ slept' = slept + 10 /\ UNCHANGED pc
       \/ tries > limit /\ pc' = "failed" /\ UNCHANGED <<tries, slept>>
    /\ UNCHANGED <<gating, requests, gpuVars, display, asked>>

\* One turn of a polling loop.
Poll(here, limit, up, next) ==
    /\ pc = here
    /\ \/ tries < limit /\ up /\ pc' = next /\ UNCHANGED <<tries, slept>>
       \/ /\ tries < limit /\ ~up
          /\ tries' = tries + 1 /\ slept' = slept + 10 /\ UNCHANGED pc
       \/ tries = limit /\ pc' = "failed" /\ UNCHANGED <<tries, slept>>
    /\ UNCHANGED <<gating, requests, gpuVars, display, asked>>

PollPw1 == Poll("pw1", Pw1Tries, pw1Up, "pw2req")

\* Mutation: tries is not reset before the second loop.
RequestPw2NoReset ==
    /\ Goto("pw2req", "pw2", 0)
    /\ pw2Req' = TRUE /\ asked' = slept
    /\ UNCHANGED <<gating, pw1Req, fwReq, gpuVars, display, tries>>

RequestPw2 ==
    /\ Goto("pw2req", "pw2", 0)
    /\ pw2Req' = TRUE /\ tries' = 0 /\ asked' = slept
    /\ UNCHANGED <<gating, pw1Req, fwReq, gpuVars, display>>

PollPw2 == Poll("pw2", Pw2Tries, pw2Up, "fwreq")

RequestForceWake ==
    /\ Goto("fwreq", "ack", 0)
    /\ fwReq' = TRUE /\ tries' = 0 /\ asked' = slept
    /\ UNCHANGED <<gating, pw1Req, pw2Req, gpuVars, display>>

PollAck == Poll("ack", AckTries, fwAck, "mbus")

EnableDisplay ==
    /\ \/ Goto("mbus", "pll", 10) /\ display' = display \cup {"MBUS_DBOX"}
       \/ Goto("pll", "clk", 10) /\ display' = display \cup {"LCPLL1"}
       \/ Goto("clk", "ready", 10) /\ display' = display \cup {"TRANS_CLK_SEL"}
    /\ UNCHANGED <<gating, requests, gpuVars, tries, asked>>
-----------------------------------------------------------------------------
(* The GPU.  A failed sequence leaves its requests set, and the GPU may    *)
(* still answer them.                                                      *)

GpuAnswers ==
    /\ \/ pw1Req = 2 /\ ~pw1Up /\ pw1Up' = TRUE /\ UNCHANGED <<pw2Up, fwAck>>
       \/ pw2Req /\ ~pw2Up /\ pw2Up' = TRUE /\ UNCHANGED <<pw1Up, fwAck>>
       \/ fwReq /\ ~fwAck /\ fwAck' = TRUE /\ UNCHANGED <<pw1Up, pw2Up>>
    /\ UNCHANGED <<pc, gating, requests, display, tries, slept, asked>>

Driver ==
    \/ ForceD0 \/ DisableGating \/ RequestPw1 \/ PollPw1 \/ RequestPw2
    \/ PollPw2 \/ RequestForceWake \/ PollAck \/ EnableDisplay

Next == Driver \/ GpuAnswers

Spec == Init /\ [][Next]_vars

\* The calling thread runs; the GPU need not ever answer.
FairSpec == Spec /\ WF_vars(Driver)
-----------------------------------------------------------------------------
(* Properties.                                                             *)

\* Nothing is requested or written before what it needs was seen to be up:
\* well 2 after well 1, forcewake after both, the display bus and clocks
\* after the acknowledge and with power gating off (an access to a block
\* that sleeps hangs the machine); and the call returns true only with every
\* one of them done.
NeverAhead ==
    /\ pw2Req => pw1Up /\ gating = {}
    /\ fwReq => pw2Up
    /\ display # {} => fwReq /\ fwAck
    /\ pc = "ready" => display = DisplayRegs

\* The call gives up only after a loop has given the GPU its whole time:
\* 200, 500 or 1000 ms from the first read of that loop.
FullBudget ==
    pc = "failed" =>
        slept - asked = 10 * (IF fwReq THEN AckTries
                              ELSE IF pw2Req THEN Pw2Tries ELSE Pw1Tries)

\* However the GPU answers, the call sleeps no longer than its first five
\* lines (10 + 10 + 15 + 10 + 10 ms) and every loop in full: 1755 ms with the
\* limits of the code.  The three sleeps of the display registers are paid for
\* by the loops that ended early, one read each, to reach them.
HeldUpAtMost == slept <= 55 + 10 * (Pw1Tries + Pw2Tries + AckTries)

\* start() is never held up by a GPU that does not answer.
Returns == <>(pc \in Final)
=============================================================================
