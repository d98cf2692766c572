-------------------------------- MODULE MCRing --------------------------------
(* Small instances of XERing.  The ring is a few commands long, so that     *)
(* headers and payloads wrap, and payloadBuf is five words long.              *)
EXTENDS XERing, TLC

Nop  == [opcode |-> NOP, bytes |-> 0, ctxId |-> 1, payload |-> <<>>]
Copy == [opcode |-> COPY, bytes |-> 3, ctxId |-> 2, payload |-> <<5>>]
Big  == [opcode |-> NOP, bytes |-> 24, ctxId |-> 3, payload |-> <<8, 9, 8, 9, 8, 9>>]
Pres == [opcode |-> PRESENT, bytes |-> 0, ctxId |-> 4, payload |-> <<>>]
Rect == [opcode |-> RECT, bytes |-> 20, ctxId |-> 5, payload |-> <<0, 0, 1, 1, 6>>]

AllCommands == {Nop, Copy, Big, Pres, Rect, InjectCmd}
NoCommands == {}

\* InjectTest's threads do not know one another.
InjectorSymmetry == Permutations(Injectors)
=============================================================================
