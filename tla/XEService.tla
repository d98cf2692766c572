------------------------------ MODULE XEService ------------------------------
(***************************************************************************)
(* What FakeIrisXEAccelerator promises the framebuffer it is attached to:  *)
(* a timer that, once it ticks, ticks until stop(), and not after it.      *)
(* XEAccelerator implements it until two of its clients have made a timer  *)
(* each, and FBDriver uses it in the accelerator's place.                  *)
(***************************************************************************)

VARIABLES
    attached,    \* start() has run and stop() has not
    polling,     \* a timer is armed, or pollRing is running from it
    busy         \* pollRing is running

\* The accelerator may be taken up before its start() or after it.
Init == attached \in BOOLEAN /\ polling = FALSE /\ busy = FALSE

Attach ==
    /\ ~attached /\ ~polling /\ attached' = TRUE
    /\ UNCHANGED <<polling, busy>>

\* A user client that maps its page starts the timer; a second one finds it.
StartPolling ==
    /\ attached /\ polling' = TRUE
    /\ UNCHANGED <<attached, busy>>

BeginTick ==
    /\ polling /\ ~busy /\ busy' = TRUE
    /\ UNCHANGED <<attached, polling>>

EndTick ==
    /\ busy /\ busy' = FALSE
    /\ UNCHANGED <<attached, polling>>

\* stop() waits for the callback in progress.
Stop ==
    /\ attached /\ ~busy
    /\ attached' = FALSE /\ polling' = FALSE
    /\ UNCHANGED busy

Next == Attach \/ StartPolling \/ BeginTick \/ EndTick \/ Stop

Spec == Init /\ [][Next]_<<attached, polling, busy>>
=============================================================================
