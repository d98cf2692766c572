-------------------------------- MODULE XEFifo --------------------------------
(***************************************************************************)
(* What the shared ring promises its producers: submitted commands are     *)
(* executed one at a time, in the order of submission, each exactly once,  *)
(* and a command the consumer refuses stays at the front for ever.         *)
(***************************************************************************)
EXTENDS Sequences

CONSTANTS Commands,     \* the commands a producer may submit
          Executable    \* those of them the consumer is willing to execute

VARIABLES queue,        \* submitted, not yet executed
          delivered     \* executed, in order of execution

vars == <<queue, delivered>>

Init == queue = <<>> /\ delivered = <<>>

Submit(c) ==
    /\ queue' = Append(queue, c)
    /\ UNCHANGED delivered

Deliver ==
    /\ queue # <<>>
    /\ Head(queue) \in Executable
    /\ delivered' = Append(delivered, Head(queue))
    /\ queue' = Tail(queue)

Next == Deliver \/ \E c \in Commands : Submit(c)

Spec == Init /\ [][Next]_vars
===============================================================================
